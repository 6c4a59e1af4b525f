-------------------------- MODULE MCSecurityRuntime -------------------------
(* The runtime with one more subscription beside P0.                         *)
EXTENDS SecurityRuntime

CONSTANTS p0, other, src, cat

MCSubs == {p0, other}
MCFilter ==
    [s \in MCSubs |-> [categories |-> {cat}, min |-> CRITICAL, source |-> AnySource]]
=============================================================================

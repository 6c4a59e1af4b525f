------------------------- MODULE MCSecurityEventBus -------------------------
(* The bus with two sinks and two subscriptions: `all` wants everything,      *)
(* `onlyb` the events of source b.                                           *)
EXTENDS SecurityEventBus

CONSTANTS all, onlyb, a, b, cat

MCSubs == {all, onlyb}
MCSources == {a, b}
MCFilter ==
    [s \in MCSubs |->
        IF s = all THEN [categories |-> {cat}, min |-> 0, source |-> AnySource]
        ELSE [categories |-> {cat}, min |-> 0, source |-> b]]
=============================================================================

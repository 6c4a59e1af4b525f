----------------------------- MODULE MCApexMesh -----------------------------
(* Two processes, two nodes, one handler. *)
EXTENDS ApexMesh, TLC

CONSTANTS n1, n2

MCTopology == <<n1, n2>>

MCSymmetry == Permutations(Procs)
=============================================================================

--------------------------- MODULE MCShadowMemory ---------------------------
(* Processes, keys and values are interchangeable. *)
EXTENDS ShadowMemory, TLC

MCSymmetry == Permutations(Procs) \cup Permutations(Keys) \cup Permutations(Values)
=============================================================================

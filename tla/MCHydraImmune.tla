--------------------------- MODULE MCHydraImmune ----------------------------
(* HydraImmune on a small instance.  One of the two external ids is the id   *)
(* the scan gives zone z1 at tick 1: a replayed detection, or a pruned one   *)
(* recorded again.                                                           *)
EXTENDS HydraImmune

CONSTANTS z1, z2, ext, r1

MCZones == {z1, z2}
MCExternalIds == {<<1, z1>>, ext}

\* Built with the defaults; resolved elsewhere and dated, with no receipt; a
\* pruned threat.  The alias turns the last two into active ones.
Fields(proposed, resolved, ref, at) ==
    [proposed |-> proposed, resolved |-> resolved, ref |-> ref, at |-> at]
MCHanded == {Fresh, Fields(FALSE, TRUE, NoRef, -1), Fields(TRUE, TRUE, r1, 0)}
=============================================================================

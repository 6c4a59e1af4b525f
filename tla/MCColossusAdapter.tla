-------------------------- MODULE MCColossusAdapter -------------------------
(* The adapter over the engine on a small instance; all external threats     *)
(* have ids of their own.                                                    *)
EXTENDS ColossusAdapter

CONSTANTS z1, z2, ext, r1

MCZones == {z1, z2}
MCExternalIds == {ext}

\* Built with the defaults; resolved elsewhere, with no receipt; a pruned threat.
MCHanded ==
    {Fresh, [proposed |-> FALSE, resolved |-> TRUE, ref |-> NoRef, at |-> NoTime],
     [proposed |-> TRUE, resolved |-> TRUE, ref |-> r1, at |-> 0]}

\* Nobody suspicious, one zone or the other, both, and a zone on whose nodes the
\* patterns of the batch disagree.
Says(z, suspicious) == [zone |-> z, suspicious |-> suspicious]
MCBatches ==
    {{}, {Says(z1, TRUE)}, {Says(z1, TRUE), Says(z2, TRUE)},
     {Says(z1, FALSE), Says(z2, TRUE), Says(z2, FALSE)}}
=============================================================================

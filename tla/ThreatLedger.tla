---------------------------- MODULE ThreatLedger ----------------------------
(* What HydraImmune promises its operators, without saying how: a threat,    *)
(* once it is active, stays active until somebody acknowledges its           *)
(* resolution, and only a resolved threat may be forgotten (README.md:16-18).*)
(* A threat may also be filed that was resolved before it was reported.      *)
CONSTANT ThreatIds

VARIABLE ledger      \* the standing of every threat id

Standing == {"absent", "active", "resolved"}

Init == ledger = [id \in ThreatIds |-> "absent"]

\* One snapshot: unknown ids may be reported, and resolved ones may be
\* forgotten; nothing else changes.
Sweep ==
    /\ ledger' \in [ThreatIds -> Standing]
    /\ \A id \in ThreatIds :
         \/ ledger'[id] = ledger[id]
         \/ ledger[id] = "absent" /\ ledger'[id] = "active"
         \/ ledger[id] = "resolved" /\ ledger'[id] = "absent"

\* A threat resolved elsewhere is filed under an unknown id.
File(id) ==
    /\ ledger[id] = "absent"
    /\ ledger' = [ledger EXCEPT ![id] = "resolved"]

Acknowledge(id) ==
    /\ ledger[id] = "active"
    /\ ledger' = [ledger EXCEPT ![id] = "resolved"]

Next ==
    \/ Sweep
    \/ \E id \in ThreatIds : File(id) \/ Acknowledge(id)

Spec == Init /\ [][Next]_ledger
=============================================================================

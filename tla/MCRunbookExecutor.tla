------------------------- MODULE MCRunbookExecutor --------------------------
(* Runbooks of up to MaxSteps steps, critical or not, with and without       *)
(* handlers, under every policy; two steps of a runbook may share their id.  *)
EXTENDS RunbookExecutor

CONSTANT MaxSteps

StepChoices == [id : {1, 2, 3}, critical : BOOLEAN, handler : BOOLEAN]

\* Ids are the positions, but for the last step, which may repeat the first id.
MCRunbooks ==
    {[steps |-> s, auto |-> auto, locked |-> locked] :
        s \in {t \in UNION {[1..n -> StepChoices] : n \in 0..MaxSteps} :
                 \A i \in DOMAIN t : t[i].id = i \/ (i = MaxSteps /\ t[i].id = 1)},
        auto \in BOOLEAN, locked \in {{}, {2}}}
=============================================================================

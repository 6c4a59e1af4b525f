-------------------------- MODULE RunbookExecutor ---------------------------
(* RunbookExecutor of incident-response/runbook_executor.py: runbooks are    *)
(* executed one after another, step by step, and a failing critical step     *)
(* reverses what was done.                                                   *)
(*                                                                           *)
(* A runbook is a sequence of steps and its rollback policy.  What the       *)
(* actions and the rollback handlers do to the world outside is the history  *)
(* `effects`; times, titles and details are left out, and so are             *)
(* timeout_sec and max_rollback_depth, which the code reads nowhere.         *)
EXTENDS Integers, Sequences, SequencesExt, FiniteSets, Subsequences

CONSTANTS
    Runbooks,             \* the runbooks that may be executed
    MaxExecutions         \* bound: calls of execute()

\* RunbookDefinition: `ids` are step ids, `handler` says whether a step has a
\* rollback, `locked` are policy.non_rollbackable_steps.
RunbookShape(r) ==
    /\ r.steps \in Seq(ToSet(r.steps))
    /\ \A i \in 1..Len(r.steps) :
         /\ DOMAIN r.steps[i] = {"id", "critical", "handler"}
         /\ r.steps[i].critical \in BOOLEAN /\ r.steps[i].handler \in BOOLEAN
    /\ r.auto \in BOOLEAN

ASSUME RunbookAssumption ==
    /\ \A r \in Runbooks : RunbookShape(r)
    /\ MaxExecutions \in Nat

VARIABLES
    dry_run,                      \* _dry_run
    runbook,                      \* the runbook being executed, or the last one
    phase,                        \* result.phase; "idle" before and after execute()
    records,                      \* result.step_records
    completed,                    \* completed_steps, as positions in records
    pending,                      \* completed steps the rollback has not reached
    rollback_ok,                  \* all_succeeded of _rollback_steps
    succeeded, failed,            \* result.succeeded_steps, result.failed_steps
    audit,                        \* _audit_trail
    executions,                   \* _executions
    started,                      \* history: calls of execute()
    effects                       \* history: what happened in the world

vars == <<dry_run, runbook, phase, records, completed, pending, rollback_ok, succeeded, failed,
          audit, executions, started, effects>>

Outcomes == {"succeeded", "failed", "rolled_back", "skipped"}
NoRunbook == [steps |-> <<>>, auto |-> TRUE, locked |-> {}]

Init ==
    /\ dry_run \in BOOLEAN
    /\ runbook = NoRunbook
    /\ phase = "idle"
    /\ records = <<>> /\ completed = <<>> /\ pending = <<>>
    /\ rollback_ok = TRUE
    /\ succeeded = 0 /\ failed = 0
    /\ audit = <<>> /\ executions = <<>>
    /\ started = 0
    /\ effects = <<>>

-----------------------------------------------------------------------------
At == Len(records) + 1            \* the step execute() comes to next
Step == runbook.steps[At]
HasStep == At <= Len(runbook.steps)

\* The rollback registered under the id of step i: handlers is keyed by step
\* id, so the last step with that id and a rollback owns it.  0 when none.
HandlerOf(i) ==
    LET owners == {j \in 1..Len(runbook.steps) :
                     runbook.steps[j].id = runbook.steps[i].id /\ runbook.steps[j].handler}
    IN  IF owners = {} THEN 0 ELSE CHOOSE j \in owners : \A k \in owners : k <= j

System == 0
Entry(execution, step, event, outcome) ==
    [execution |-> execution, step |-> step, event |-> event, outcome |-> outcome]

\* _emit_audit()
Audited_FailuresOnly(step, event, outcome) ==
    IF outcome = "failed" \/ event = "step_completed"
    THEN Append(audit, Entry(started, step, event, outcome)) ELSE audit
Audited(step, event, outcome) == Append(audit, Entry(started, step, event, outcome))

\* The steps a later rollback goes through, and the one it starts with.
Completed_Prepended(i) == <<i>> \o completed
Completed(i) == Append(completed, i)
ToReverse_WithFailed == Append(completed, At)
ToReverse == completed

\* all_succeeded
StillOk_LastWord(outcome) == outcome = "rolled_back"
StillOk(outcome) == rollback_ok /\ outcome = "rolled_back"

\* Why the rollback passes step i over.
Locked(i) == runbook.steps[i].id \in runbook.locked
PassedOver_ButAuto(i) == Locked(i) \/ HandlerOf(i) = 0
PassedOver(i) == Locked(i) \/ ~runbook.auto \/ HandlerOf(i) = 0

Effect(kind, i) == [execution |-> started, kind |-> kind, step |-> i]

\* result.step_records.append()
Recorded_NotFailures(outcome) ==
    IF outcome = "failed" THEN records ELSE Append(records, [outcome |-> outcome, attempted |-> FALSE])
Recorded(outcome) == Append(records, [outcome |-> outcome, attempted |-> FALSE])

\* What is kept of an execution that returned.  rolled_back_steps is counted
\* over the records after a rollback, and is 0 without one.
Result(final, aborted) ==
    [execution |-> started, runbook |-> runbook, phase |-> final, records |-> records,
     succeeded |-> succeeded, failed |-> failed, aborted |-> aborted,
     rolled_back |-> IF aborted
                     THEN Cardinality({i \in 1..Len(records) :
                                         records[i].outcome = "rolled_back"})
                     ELSE 0]

-----------------------------------------------------------------------------
\* execute() begins.
Execute(r) ==
    /\ phase = "idle"
    /\ started < MaxExecutions
    /\ started' = started + 1
    /\ runbook' = r
    /\ phase' = "init"
    /\ records' = <<>> /\ completed' = <<>> /\ pending' = <<>>
    /\ rollback_ok' = TRUE
    /\ succeeded' = 0 /\ failed' = 0
    /\ audit' = Append(audit, Entry(started + 1, System, "execution_started", "init"))
    /\ UNCHANGED <<dry_run, executions, effects>>

\* The loop over the steps is at its next step.
AtStep == phase \in {"init", "executing"} /\ HasStep

StepDryRun ==
    /\ AtStep /\ dry_run
    /\ phase' = "executing"
    /\ records' = Recorded("succeeded")
    /\ completed' = Completed(At)
    /\ succeeded' = succeeded + 1
    /\ audit' = Audited(At, "step_dry_run", "succeeded")
    /\ UNCHANGED <<dry_run, runbook, pending, rollback_ok, failed, executions, started, effects>>

StepSucceeds ==
    /\ AtStep /\ ~dry_run
    /\ phase' = "executing"
    /\ records' = Recorded("succeeded")
    /\ completed' = Completed(At)
    /\ succeeded' = succeeded + 1
    /\ audit' = Audited(At, "step_completed", "succeeded")
    /\ effects' = Append(effects, Effect("done", At))
    /\ UNCHANGED <<dry_run, runbook, pending, rollback_ok, failed, executions, started>>

\* The action returns False or raises; a critical step starts the rollback.
StepFails(event) ==
    /\ AtStep /\ ~dry_run
    /\ records' = Recorded("failed")
    /\ failed' = failed + 1
    /\ IF Step.critical
       THEN /\ phase' = "rolling_back"
            /\ pending' = ToReverse
            /\ audit' = Append(Audited(At, event, "failed"),
                               Entry(started, System, "rollback_started", "rolling_back"))
       ELSE /\ phase' = "executing"
            /\ UNCHANGED pending
            /\ audit' = Audited(At, event, "failed")
    /\ UNCHANGED <<dry_run, runbook, completed, rollback_ok, succeeded, executions, started, effects>>

\* The rollback comes to the last completed step it has not dealt with.
AtRollback == phase = "rolling_back" /\ pending # <<>>

\* _rollback_steps passes a step over: by policy, or for want of a handler.  A
\* policy without auto_rollback leaves no audit entry.
RollbackSkips ==
    LET i == Last(pending)
    IN  /\ AtRollback
        /\ PassedOver(i)
        /\ records' = [records EXCEPT ![i].outcome = "skipped"]
        /\ pending' = Front(pending)
        /\ audit' = IF Locked(i) \/ runbook.auto
                    THEN Audited(i, "rollback_skipped", "skipped")
                    ELSE audit
        /\ UNCHANGED <<dry_run, runbook, phase, completed, rollback_ok, succeeded, failed,
                       executions, started, effects>>

\* The handler is called; it returns True, returns False or raises.
RollbackCalls(outcome, event) ==
    LET i == Last(pending)
    IN  /\ AtRollback
        /\ ~Locked(i) /\ runbook.auto /\ HandlerOf(i) # 0
        /\ records' = [records EXCEPT ![i] = [outcome |-> outcome, attempted |-> TRUE]]
        /\ rollback_ok' = StillOk(outcome)
        /\ pending' = Front(pending)
        /\ audit' = Audited(i, event, IF outcome = "rolled_back" THEN "succeeded" ELSE "failed")
        /\ effects' = IF outcome = "rolled_back"
                      THEN Append(effects, Effect("reversed", HandlerOf(i))) ELSE effects
        /\ UNCHANGED <<dry_run, runbook, phase, completed, succeeded, failed, executions, started>>

\* execute() returns after a rollback: COMPLETED when every handler it called
\* succeeded, ABORTED otherwise; there is no execution_completed entry.
RollbackEnds ==
    /\ phase = "rolling_back" /\ pending = <<>>
    /\ executions' = Append(executions,
                            Result(IF rollback_ok THEN "completed" ELSE "aborted", TRUE))
    /\ phase' = "idle"
    /\ UNCHANGED <<dry_run, runbook, records, completed, pending, rollback_ok, succeeded, failed,
                   audit, started, effects>>

\* execute() returns after its last step.
ExecutionCompletes ==
    /\ phase \in {"init", "executing"} /\ ~HasStep
    /\ executions' = Append(executions, Result("completed", FALSE))
    /\ audit' = Audited(System, "execution_completed", "completed")
    /\ phase' = "idle"
    /\ UNCHANGED <<dry_run, runbook, records, completed, pending, rollback_ok, succeeded, failed,
                   started, effects>>

\* A BaseException that is no Exception (KeyboardInterrupt, SystemExit) leaves
\* execute() from inside an action or a handler, whose effect may have happened:
\* nothing is reversed and the execution is not kept.
Interrupted(effect) ==
    /\ \/ AtStep /\ ~dry_run /\ effect \in {<<>>, <<Effect("torn", At)>>}
       \/ /\ AtRollback /\ ~PassedOver(Last(pending))
          /\ effect \in {<<>>, <<Effect("torn", HandlerOf(Last(pending)))>>}
    /\ phase' = "idle"
    /\ effects' = effects \o effect
    /\ UNCHANGED <<dry_run, runbook, records, completed, pending, rollback_ok, succeeded, failed,
                   audit, executions, started>>

Progress ==
    \/ StepDryRun
    \/ StepSucceeds
    \/ \E event \in {"step_failed", "step_exception"} : StepFails(event)
    \/ RollbackSkips
    \/ RollbackCalls("rolled_back", "rollback_completed")
    \/ RollbackCalls("failed", "rollback_completed")
    \/ RollbackCalls("failed", "rollback_exception")
    \/ RollbackEnds
    \/ ExecutionCompletes

Next ==
    \/ \E r \in Runbooks : Execute(r)
    \/ Progress
    \/ \E effect \in {<<>>} \cup {<<Effect("torn", i)>> : i \in 1..Len(runbook.steps)} :
         Interrupted(effect)

\* The caller's thread goes on, and the actions and handlers it calls return.
Spec == Init /\ [][Next]_vars /\ WF_vars(Progress)

-----------------------------------------------------------------------------
(* Properties *)

\* The fields of the result, the audit trail and the kept executions.
TypeOK ==
    /\ RunbookShape(runbook)
    /\ phase \in {"idle", "init", "executing", "rolling_back"}
    /\ records \in Seq([outcome : Outcomes, attempted : BOOLEAN])
    /\ Len(records) <= Len(runbook.steps)
    /\ completed \in Seq(1..Len(records)) /\ pending \in Seq(1..Len(records))
    /\ rollback_ok \in BOOLEAN
    /\ succeeded \in 0..Len(records) /\ failed \in 0..Len(records)
    /\ Len(executions) <= started /\ started <= MaxExecutions

DistinctIds(r) == \A i, j \in 1..Len(r.steps) : r.steps[i].id = r.steps[j].id => i = j

WorldEffect == [execution : Nat, kind : {"done", "reversed", "torn"}, step : Nat]
AuditEvents == {"execution_started", "step_dry_run", "step_completed", "step_failed",
                "step_exception", "rollback_started", "rollback_skipped", "rollback_completed",
                "rollback_exception", "execution_completed"}
AuditOutcomes == {"init", "succeeded", "failed", "rolling_back", "skipped", "completed"}
AuditEntry == [execution : Nat, step : Nat, event : AuditEvents, outcome : AuditOutcomes]

\* The effects of one kind an execution had, in order.
Steps(world, execution, kind) ==
    Those(world, {e \in WorldEffect : e.execution = execution /\ e.kind = kind})

\* Reversals run in the opposite order of the actions (runbook_executor.py:152-153)
\* where step ids are distinct.  Where they are not, the handlers are shared, and
\* those of one id still run no more often than steps of that id were done.
ReversedInLifoOrder ==
    LET done == Steps(effects, started, "done")
        reversed == Steps(effects, started, "reversed")
        Of(kind, id) == {i \in 1..Len(kind) : runbook.steps[kind[i].step].id = id}
    IN  /\ DistinctIds(runbook) =>
             \A i, j \in 1..Len(reversed) : i < j => reversed[i].step > reversed[j].step
        /\ \A step \in ToSet(runbook.steps) :
             Cardinality(Of(reversed, step.id)) <= Cardinality(Of(done, step.id))

\* A completed step the policy lets the rollback reverse.
Reversible(r, i) == r.auto /\ r.steps[i].handler /\ r.steps[i].id \notin r.locked

\* An execution that reports COMPLETED after a critical failure has reversed
\* every step it had completed and the policy lets it reverse; one that reports
\* ABORTED has left at least one of them in place (result.phase, abort_reason).
PhaseTellsTheWorld ==
    \A k \in 1..Len(executions) :
        LET result == executions[k]
            InPlace == {i \in 1..Len(result.runbook.steps) :
                /\ Reversible(result.runbook, i)
                /\ \E e \in ToSet(Steps(effects, result.execution, "done")) : e.step = i
                /\ \A e \in ToSet(Steps(effects, result.execution, "reversed")) : e.step # i}
        IN  result.aborted /\ DistinctIds(result.runbook)
              => (result.phase = "completed" <=> InPlace = {})

\* The counters agree with the records, rolled-back and skipped steps included:
\* a record that says failed after its rollback was attempted still counts as
\* succeeded (succeeded_steps, failed_steps).
CountersMatchRecords ==
    /\ succeeded = Cardinality({i \in 1..Len(records) :
                                  records[i].outcome # "failed" \/ records[i].attempted})
    /\ succeeded + failed = Len(records)
    /\ succeeded = Len(completed)

\* The audit trail tells what happened in the world, in order, for all but the
\* call an interrupt tore (runbook_executor.py:154).  It names the step that
\* was reversed, not the handler that was called.
TellsOfEffect(e) ==
    \/ e.event = "step_completed"
    \/ e.event = "rollback_completed" /\ e.outcome = "succeeded"
AuditTellsEffects ==
    LET told == Those(audit, {e \in AuditEntry : TellsOfEffect(e)})
        happened == Those(effects, {e \in WorldEffect : e.kind # "torn"})
    IN  /\ Len(told) = Len(happened)
        /\ \A i \in 1..Len(told) :
             /\ told[i].execution = happened[i].execution
             /\ told[i].event = "step_completed" <=> happened[i].kind = "done"
             /\ happened[i].kind = "done" => told[i].step = happened[i].step

\* execute() comes back, provided the actions and handlers it calls do.
ExecutionEnds == (phase # "idle") ~> (phase = "idle")

\* runbook_executor.py:152-153, "On step failure, all previously completed steps
\* with rollback handlers are reversed": no step that was completed before one
\* failed is left in place, critical or not, where the policy lets it be reversed
\* and step ids are distinct.
FailureReversesCompleted ==
    \A k \in 1..Len(executions) :
        LET result == executions[k]
        IN  DistinctIds(result.runbook) =>
              \A i, j \in 1..Len(result.records) :
                i < j /\ result.records[j].outcome = "failed" /\ ~result.records[j].attempted
                  => ~(result.records[i].outcome = "succeeded" /\ Reversible(result.runbook, i))
=============================================================================

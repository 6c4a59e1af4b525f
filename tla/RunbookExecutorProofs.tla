----------------------- MODULE RunbookExecutorProofs ------------------------
(* Theorems about RunbookExecutor, for runbooks of any length and any number *)
(* of executions.                                                            *)
EXTENDS RunbookExecutor, SubsequenceTheorems

Record == [outcome : Outcomes, attempted : BOOLEAN]
KeptResult == [execution : Nat, runbook : Runbooks \cup {NoRunbook},
               phase : {"completed", "aborted"}, records : Seq(Record),
               succeeded : Nat, failed : Nat, aborted : BOOLEAN, rolled_back : Nat]

\* The steps whose action succeeded, by their records.
Succeeded(list) ==
    {i \in 1..Len(list) : list[i].outcome # "failed" \/ list[i].attempted}

\* What execute() keeps true between its steps.  A rollback rewrites records; it
\* does so of completed steps only, which its outcome never uncounts.
IInv ==
    /\ TypeOK
    /\ runbook \in Runbooks \cup {NoRunbook}
    /\ executions \in Seq(KeptResult) /\ started \in Nat
    /\ phase # "idle" => Len(executions) < started
    /\ \A n \in 1..Len(completed) : completed[n] \in Succeeded(records)
    /\ \A n \in 1..Len(pending) : pending[n] \in Succeeded(records)
    /\ CountersMatchRecords

-----------------------------------------------------------------------------
(* Helpers *)

\* Taking the last element off a sequence keeps the others.
LEMMA FrontFacts ==
    ASSUME NEW S, NEW seq \in Seq(S), seq # <<>>
    PROVE  /\ Last(seq) \in S
           /\ Front(seq) \in Seq(S)
           /\ Len(Front(seq)) = Len(seq) - 1
           /\ \A i \in 1..(Len(seq) - 1) : Front(seq)[i] = seq[i]
<1>1. Len(seq) \in Nat \ {0} /\ \A i \in 1..Len(seq) : seq[i] \in S
  BY EmptySeq, ElementOfSeq
<1>2. /\ SubSeq(seq, 1, Len(seq) - 1) \in Seq(S)
      /\ Len(SubSeq(seq, 1, Len(seq) - 1)) = IF 1 <= Len(seq) - 1 THEN Len(seq) - 1 - 1 + 1 ELSE 0
      /\ \A i \in 1..(Len(seq) - 1 - 1 + 1) : SubSeq(seq, 1, Len(seq) - 1)[i] = seq[1 + i - 1]
  <2>1. \A i \in 1..(Len(seq) - 1) : seq[i] \in S
    BY <1>1
  <2> QED BY <1>1, <2>1, SubSeqProperties
<1>3. Last(seq) \in S
  BY <1>1 DEF Last
<1> DEFINE front == SubSeq(seq, 1, Len(seq) - 1)
<1>4. front \in Seq(S) /\ Len(front) = Len(seq) - 1
  <2>1. CASE 1 <= Len(seq) - 1
    BY <1>1, <1>2, <2>1
  <2>2. CASE Len(seq) = 1
    BY <1>1, <1>2, <2>2
  <2>3. 1 <= Len(seq) - 1 \/ Len(seq) = 1
    <3>1. Len(seq) \in Nat /\ Len(seq) # 0
      BY <1>1
    <3> QED BY <3>1
  <2> HIDE DEF front
  <2> QED BY <2>1, <2>2, <2>3
<1>5. ASSUME NEW i \in 1..(Len(seq) - 1) PROVE front[i] = seq[i]
  <2>1. i \in 1..(Len(seq) - 1 - 1 + 1) /\ 1 + i - 1 = i
    BY <1>1
  <2> QED BY <1>2, <2>1
<1> HIDE DEF front
<1>6. Front(seq) = front
  BY DEF Front, front
<1> QED BY <1>3, <1>4, <1>5, <1>6

\* The successes among the records: finitely many, one more with a step that
\* succeeds, as many as before with one that fails.
LEMMA SucceededSteps ==
    ASSUME NEW list \in Seq(Record), NEW r \in Record
    PROVE  /\ IsFiniteSet(Succeeded(list)) /\ Cardinality(Succeeded(list)) \in 0..Len(list)
           /\ Append(list, r) \in Seq(Record) /\ Len(Append(list, r)) = Len(list) + 1
           /\ r.outcome = "succeeded" =>
                /\ Succeeded(Append(list, r)) = Succeeded(list) \cup {Len(list) + 1}
                /\ Cardinality(Succeeded(Append(list, r))) = Cardinality(Succeeded(list)) + 1
           /\ r.outcome = "failed" /\ ~r.attempted =>
                Succeeded(Append(list, r)) = Succeeded(list)
<1> DEFINE S == Succeeded(list)  longer == Append(list, r)
<1>1. Len(list) \in Nat /\ Len(list) + 1 \notin S
  BY LenProperties DEF Succeeded
<1>2. IsFiniteSet(1..Len(list)) /\ Cardinality(1..Len(list)) = Len(list)
  <2>1. Len(list) = 0 \/ ~(1 > Len(list))
    BY <1>1
  <2> QED BY <1>1, <2>1, FS_Interval
<1>3. S \in SUBSET (1..Len(list))
  BY DEF Succeeded
<1>4. IsFiniteSet(S) /\ Cardinality(S) \in 0..Len(list)
  <2>1. IsFiniteSet(S) /\ Cardinality(S) <= Cardinality(1..Len(list))
    BY <1>2, <1>3, FS_Subset
  <2>2. Cardinality(S) \in Nat
    BY <2>1, FS_CardinalityType
  <2> QED BY <1>1, <1>2, <2>1, <2>2
<1>5. /\ longer \in Seq(Record) /\ Len(longer) = Len(list) + 1
      /\ \A i \in 1..Len(list) : longer[i] = list[i]
      /\ longer[Len(list) + 1] = r
  BY AppendProperties
<1> HIDE DEF longer
<1>6. Succeeded(longer) =
        S \cup {i \in {Len(list) + 1} : r.outcome # "failed" \/ r.attempted}
  BY <1>1, <1>5 DEF Succeeded
<1>7. IsFiniteSet(S \cup {Len(list) + 1}) /\ Cardinality(S \cup {Len(list) + 1}) = Cardinality(S) + 1
  BY <1>1, <1>4, FS_AddElement
<1> QED BY <1>4, <1>5, <1>6, <1>7 DEF longer

-----------------------------------------------------------------------------
(* The steps of execute() *)

LEMMA InitIInv == Init => IInv
<1> SUFFICES ASSUME Init PROVE IInv
  OBVIOUS
<1>1. RunbookShape(NoRunbook)
  <2>1. ToSet(<<>>) = {} /\ <<>> \in Seq({}) /\ Len(<<>>) = 0
    BY EmptySeq DEF ToSet
  <2> QED BY <2>1 DEF RunbookShape, NoRunbook
<1>2. /\ records \in Seq(Record) /\ Len(records) = 0
      /\ completed \in Seq(1..0) /\ pending \in Seq(1..0)
      /\ Len(completed) = 0 /\ Len(pending) = 0
      /\ executions \in Seq(KeptResult) /\ Len(executions) = 0
      /\ Len(runbook.steps) = 0
  BY EmptySeq DEF Init, NoRunbook
<1>3. Cardinality({i \in 1..Len(records) : records[i].outcome # "failed" \/ records[i].attempted}) = 0
  <2>1. {i \in 1..Len(records) : records[i].outcome # "failed" \/ records[i].attempted} = {}
    BY <1>2
  <2> QED BY <2>1, FS_EmptySet
<1>4. TypeOK
  BY <1>1, <1>2, RunbookAssumption DEF TypeOK, Init, Record
<1>5. CountersMatchRecords
  BY <1>2, <1>3 DEF CountersMatchRecords, Init
<1> QED BY <1>2, <1>4, <1>5 DEF IInv, Init

LEMMA ExecuteIInv ==
    ASSUME IInv, NEW r \in Runbooks, Execute(r)
    PROVE  IInv'
<1>1. /\ records' = <<>> /\ completed' = <<>> /\ pending' = <<>>
      /\ records' \in Seq(Record) /\ Len(records') = 0
      /\ completed' \in Seq(1..0) /\ pending' \in Seq(1..0)
      /\ Len(completed') = 0 /\ Len(pending') = 0
  BY EmptySeq DEF Execute
<1>2. RunbookShape(r) /\ Len(r.steps) \in Nat
  BY RunbookAssumption, LenProperties DEF RunbookShape
<1>3. Cardinality({i \in 1..Len(records') : records'[i].outcome # "failed" \/ records'[i].attempted}) = 0
  <2>1. {i \in 1..Len(records') : records'[i].outcome # "failed" \/ records'[i].attempted} = {}
    BY <1>1
  <2> QED BY <2>1, FS_EmptySet
<1>4. Len(executions) \in Nat /\ MaxExecutions \in Nat
  BY RunbookAssumption, LenProperties DEF IInv
<1>5. TypeOK'
  BY <1>1, <1>2, <1>4 DEF IInv, TypeOK, Execute, Record
<1>6. CountersMatchRecords'
  BY <1>1, <1>3 DEF CountersMatchRecords, Execute
<1> QED BY <1>1, <1>4, <1>5, <1>6 DEF IInv, TypeOK, Execute

\* A step that succeeds, in a dry run or in earnest.
LEMMA SuccessIInv ==
    ASSUME IInv, AtStep, phase' = "executing",
           records' = Recorded("succeeded"), completed' = Completed(At),
           succeeded' = succeeded + 1,
           UNCHANGED <<runbook, pending, rollback_ok, failed, executions, started>>
    PROVE  IInv'
<1> DEFINE r == [outcome |-> "succeeded", attempted |-> FALSE]
<1>1. /\ records \in Seq(Record) /\ r \in Record
      /\ completed \in Seq(1..Len(records)) /\ pending \in Seq(1..Len(records))
      /\ Len(records) \in Nat /\ Len(completed) \in Nat /\ Len(pending) \in Nat
  BY LenProperties DEF IInv, TypeOK, Record, Outcomes
<1>2. records' = Append(records, r)
  BY DEF Recorded
<1>3. /\ records' \in Seq(Record) /\ Len(records') = Len(records) + 1
      /\ Succeeded(records') = Succeeded(records) \cup {Len(records) + 1}
      /\ Cardinality(Succeeded(records')) = Cardinality(Succeeded(records)) + 1
      /\ Cardinality(Succeeded(records)) \in 0..Len(records)
  <2>1. r.outcome = "succeeded"
    OBVIOUS
  <2> HIDE DEF r
  <2> QED BY <1>1, <1>2, <2>1, SucceededSteps
<1>4. /\ completed' \in Seq(1..Len(records')) /\ pending' \in Seq(1..Len(records'))
      /\ Len(completed') = Len(completed) + 1
      /\ \A n \in 1..Len(completed) : completed'[n] = completed[n]
      /\ completed'[Len(completed) + 1] = Len(records) + 1
  <2>1. 1..Len(records) \subseteq 1..Len(records') /\ Len(records) + 1 \in 1..Len(records')
    BY <1>1, <1>3
  <2>2. completed \in Seq(1..Len(records')) /\ pending \in Seq(1..Len(records'))
    BY <1>1, <2>1, SeqMonotonic
  <2>3. completed' = Append(completed, Len(records) + 1)
    BY DEF Completed, At
  <2> QED BY <2>1, <2>2, <2>3, AppendProperties
<1>5. Len(records') <= Len(runbook.steps)
  <2>1. Len(runbook.steps) \in Nat
    BY LenProperties DEF IInv, TypeOK, RunbookShape
  <2> QED BY <1>1, <1>3, <2>1 DEF AtStep, HasStep, At
<1>6. /\ succeeded' = Cardinality(Succeeded(records')) /\ succeeded' + failed' = Len(records')
      /\ succeeded' = Len(completed') /\ succeeded' \in 0..Len(records')
      /\ failed' \in 0..Len(records')
  <2>1. succeeded = Cardinality(Succeeded(records))
    BY DEF IInv, CountersMatchRecords, Succeeded
  <2>2. succeeded + failed = Len(records) /\ succeeded = Len(completed)
    BY DEF IInv, CountersMatchRecords
  <2>3. failed \in Nat
    BY <1>1 DEF IInv, TypeOK
  <2> QED BY <1>1, <1>3, <1>4, <2>1, <2>2, <2>3
<1>7. /\ \A n \in 1..Len(completed') : completed'[n] \in Succeeded(records')
      /\ \A n \in 1..Len(pending') : pending'[n] \in Succeeded(records')
  <2>1. \A n \in 1..Len(completed') : n \in 1..Len(completed) \/ n = Len(completed) + 1
    BY <1>1, <1>4
  <2>2. \A n \in 1..Len(completed) : completed[n] \in Succeeded(records)
    BY DEF IInv
  <2>3. \A n \in 1..Len(pending') : pending'[n] \in Succeeded(records)
    BY DEF IInv
  <2> QED BY <1>3, <1>4, <2>1, <2>2, <2>3
<1>8. TypeOK'
  BY <1>3, <1>4, <1>5, <1>6 DEF IInv, TypeOK, Record
<1>9. CountersMatchRecords'
  BY <1>6 DEF CountersMatchRecords, Succeeded
<1>10. phase # "idle"
  BY DEF AtStep
<1> QED BY <1>7, <1>8, <1>9, <1>10 DEF IInv

\* A step that fails: the rollback it may start has the completed steps before it.
LEMMA FailureIInv ==
    ASSUME IInv, NEW event \in {"step_failed", "step_exception"}, StepFails(event)
    PROVE  IInv'
<1> DEFINE r == [outcome |-> "failed", attempted |-> FALSE]
<1>1. /\ records \in Seq(Record) /\ r \in Record
      /\ completed \in Seq(1..Len(records)) /\ pending \in Seq(1..Len(records))
      /\ Len(records) \in Nat /\ Len(completed) \in Nat /\ Len(pending) \in Nat
  BY LenProperties DEF IInv, TypeOK, Record, Outcomes
<1>2. records' = Append(records, r) /\ failed' = failed + 1
  BY DEF StepFails, Recorded
<1>3. /\ records' \in Seq(Record) /\ Len(records') = Len(records) + 1
      /\ Succeeded(records') = Succeeded(records)
      /\ Cardinality(Succeeded(records)) \in 0..Len(records)
  <2>1. r.outcome = "failed" /\ ~r.attempted
    OBVIOUS
  <2> HIDE DEF r
  <2> QED BY <1>1, <1>2, <2>1, SucceededSteps
<1>4. /\ completed' = completed
      /\ pending' = completed \/ pending' = pending
      /\ phase' \in {"rolling_back", "executing"} /\ phase # "idle"
      /\ UNCHANGED <<runbook, rollback_ok, succeeded, executions, started>>
  BY DEF StepFails, ToReverse, AtStep
<1>5. completed' \in Seq(1..Len(records')) /\ pending' \in Seq(1..Len(records'))
  <2>1. 1..Len(records) \subseteq 1..Len(records')
    BY <1>1, <1>3
  <2> QED BY <1>1, <1>4, <2>1, SeqMonotonic
<1>6. Len(records') <= Len(runbook.steps)
  <2>1. Len(runbook.steps) \in Nat
    BY LenProperties DEF IInv, TypeOK, RunbookShape
  <2> QED BY <1>1, <1>3, <2>1 DEF StepFails, AtStep, HasStep, At
<1>7. /\ succeeded' = Cardinality(Succeeded(records')) /\ succeeded' + failed' = Len(records')
      /\ succeeded' = Len(completed') /\ succeeded' \in 0..Len(records')
      /\ failed' \in 0..Len(records')
  <2>1. succeeded = Cardinality(Succeeded(records))
    BY DEF IInv, CountersMatchRecords, Succeeded
  <2>2. succeeded + failed = Len(records) /\ succeeded = Len(completed)
    BY DEF IInv, CountersMatchRecords
  <2>3. failed \in Nat
    BY <1>1 DEF IInv, TypeOK
  <2>4. succeeded' = succeeded /\ failed' = failed + 1 /\ completed' = completed
    BY <1>2, <1>4
  <2>5. Len(records') = Len(records) + 1 /\ Len(records) \in Nat /\ succeeded \in 0..Len(records)
    BY <1>1, <1>3, <2>1
  <2>6. Cardinality(Succeeded(records')) = succeeded
    BY <1>3, <2>1
  <2> QED BY <2>2, <2>3, <2>4, <2>5, <2>6
<1>8. /\ \A n \in 1..Len(completed') : completed'[n] \in Succeeded(records')
      /\ \A n \in 1..Len(pending') : pending'[n] \in Succeeded(records')
  BY <1>3, <1>4 DEF IInv
<1>9. TypeOK'
  BY <1>3, <1>4, <1>5, <1>6, <1>7 DEF IInv, TypeOK, Record
<1>10. CountersMatchRecords'
  BY <1>7 DEF CountersMatchRecords, Succeeded
<1> QED BY <1>4, <1>8, <1>9, <1>10 DEF IInv

\* The rollback rewrites the record of a completed step: it stays a success.
LEMMA RollbackIInv ==
    ASSUME IInv, AtRollback, NEW r \in Record,
           r.outcome # "failed" \/ r.attempted,
           records' = [records EXCEPT ![Last(pending)] = r],
           pending' = Front(pending), rollback_ok' \in BOOLEAN,
           UNCHANGED <<runbook, phase, completed, succeeded, failed, executions, started>>
    PROVE  IInv'
<1> DEFINE i == Last(pending)
<1>1. /\ records \in Seq(Record) /\ completed \in Seq(1..Len(records))
      /\ pending \in Seq(1..Len(records)) /\ pending # <<>>
      /\ Len(records) \in Nat /\ Len(pending) \in Nat \ {0}
  BY LenProperties, EmptySeq DEF IInv, TypeOK, Record, AtRollback
<1>2. /\ i \in 1..Len(records) /\ pending' \in Seq(1..Len(records))
      /\ Len(pending') = Len(pending) - 1
      /\ \A n \in 1..(Len(pending) - 1) : pending'[n] = pending[n]
  BY <1>1, FrontFacts
<1>3. i \in Succeeded(records)
  BY <1>1 DEF IInv, Last
<1> HIDE DEF i
<1>4. /\ records' \in Seq(Record) /\ Len(records') = Len(records)
      /\ \A j \in 1..Len(records) : records'[j] = IF j = i THEN r ELSE records[j]
  BY <1>1, <1>2, ExceptSeq DEF i
<1>5. Succeeded(records') = Succeeded(records)
  BY <1>3, <1>4 DEF Succeeded
<1>6. TypeOK'
  BY <1>1, <1>2, <1>4 DEF IInv, TypeOK, Record
<1>7. CountersMatchRecords'
  BY <1>4, <1>5 DEF IInv, CountersMatchRecords, Succeeded
<1>8. \A n \in 1..Len(pending') : pending'[n] \in Succeeded(records')
  BY <1>1, <1>2, <1>5 DEF IInv
<1> QED BY <1>5, <1>6, <1>7, <1>8 DEF IInv

LEMMA SkipIInv == ASSUME IInv, RollbackSkips PROVE IInv'
<1> DEFINE i == Last(pending)  r == [records[i] EXCEPT !.outcome = "skipped"]
<1>1. AtRollback /\ pending' = Front(pending) /\ records' = [records EXCEPT ![i].outcome = "skipped"]
  BY DEF RollbackSkips
<1>2. records \in Seq(Record) /\ pending \in Seq(1..Len(records)) /\ pending # <<>>
  BY <1>1 DEF IInv, TypeOK, Record, AtRollback
<1>3. records[i] \in Record
  BY <1>2, FrontFacts, ElementOfSeq
<1>4. r \in Record /\ r.outcome # "failed"
  BY <1>3 DEF Record, Outcomes
<1>5. records' = [records EXCEPT ![i] = r]
  BY <1>1
<1> QED BY <1>1, <1>4, <1>5, RollbackIInv DEF RollbackSkips, IInv, TypeOK

LEMMA CallIInv ==
    ASSUME IInv, NEW outcome \in {"rolled_back", "failed"},
           NEW event \in {"rollback_completed", "rollback_exception"},
           RollbackCalls(outcome, event)
    PROVE  IInv'
<1> DEFINE r == [outcome |-> outcome, attempted |-> TRUE]
<1>1. r \in Record /\ r.attempted
  BY DEF Record, Outcomes
<1>2. rollback_ok' \in BOOLEAN
  BY DEF RollbackCalls, StillOk, IInv, TypeOK
<1>3. /\ AtRollback /\ pending' = Front(pending)
      /\ records' = [records EXCEPT ![Last(pending)] = r]
      /\ UNCHANGED <<runbook, phase, completed, succeeded, failed, executions, started>>
  BY DEF RollbackCalls
<1> HIDE DEF r
<1> QED BY <1>1, <1>2, <1>3, RollbackIInv

\* What is kept of an execution.
LEMMA ResultType ==
    ASSUME IInv, NEW final \in {"completed", "aborted"}, NEW aborted \in BOOLEAN
    PROVE  Result(final, aborted) \in KeptResult
<1> DEFINE R == {i \in 1..Len(records) : records[i].outcome = "rolled_back"}
<1>1. Cardinality(R) \in Nat
  <2>1. Len(records) \in Nat
    BY LenProperties DEF IInv, TypeOK
  <2>2. IsFiniteSet(1..Len(records)) /\ R \in SUBSET (1..Len(records))
    BY <2>1, FS_Interval
  <2> QED BY <2>2, FS_Subset, FS_CardinalityType
<1>2. succeeded \in Nat /\ failed \in Nat /\ records \in Seq(Record)
  BY LenProperties DEF IInv, TypeOK, Record
<1> QED BY <1>1, <1>2 DEF IInv, Result, KeptResult

\* execute() returns and its result is kept.
LEMMA ReturnIInv ==
    ASSUME IInv, phase # "idle", phase' = "idle",
           NEW final \in {"completed", "aborted"}, NEW aborted \in BOOLEAN,
           executions' = Append(executions, Result(final, aborted)),
           UNCHANGED <<runbook, records, completed, pending, rollback_ok, succeeded, failed, started>>
    PROVE  IInv'
<1>2. Result(final, aborted) \in KeptResult
  BY ResultType
<1>3. executions' \in Seq(KeptResult) /\ Len(executions') = Len(executions) + 1
  BY <1>2, AppendProperties DEF IInv
<1>4. Len(executions) \in Nat /\ Len(executions') <= started
  BY <1>3, LenProperties DEF IInv
<1>5. TypeOK'
  BY <1>4 DEF IInv, TypeOK
<1>6. CountersMatchRecords'
  BY DEF IInv, CountersMatchRecords
<1> QED BY <1>3, <1>5, <1>6 DEF IInv

-----------------------------------------------------------------------------
LEMMA NextIInv == IInv /\ [Next]_vars => IInv'
<1> SUFFICES ASSUME IInv, [Next]_vars PROVE IInv'
  OBVIOUS
<1>1. ASSUME NEW r \in Runbooks, Execute(r) PROVE IInv'
  BY <1>1, ExecuteIInv
<1>2. CASE StepDryRun
  BY <1>2, SuccessIInv DEF StepDryRun
<1>3. CASE StepSucceeds
  BY <1>3, SuccessIInv DEF StepSucceeds
<1>4. ASSUME NEW event \in {"step_failed", "step_exception"}, StepFails(event) PROVE IInv'
  BY <1>4, FailureIInv
<1>5. CASE RollbackSkips
  BY <1>5, SkipIInv
<1>6. CASE \/ RollbackCalls("rolled_back", "rollback_completed")
           \/ RollbackCalls("failed", "rollback_completed")
           \/ RollbackCalls("failed", "rollback_exception")
  BY <1>6, CallIInv
<1>7. CASE RollbackEnds
  <2>1. (IF rollback_ok THEN "completed" ELSE "aborted") \in {"completed", "aborted"}
    OBVIOUS
  <2> QED BY <1>7, <2>1, ReturnIInv DEF RollbackEnds
<1>8. CASE ExecutionCompletes
  BY <1>8, ReturnIInv DEF ExecutionCompletes
<1>9. ASSUME UNCHANGED <<runbook, records, completed, pending, rollback_ok, succeeded, failed,
                         executions, started>>,
             phase' \in {phase, "idle"}
      PROVE  IInv'
  BY <1>9 DEF IInv, TypeOK, CountersMatchRecords, Succeeded
<1>10. ASSUME NEW effect, Interrupted(effect) PROVE IInv'
  BY <1>9, <1>10 DEF Interrupted
<1>11. CASE UNCHANGED vars
  BY <1>9, <1>11 DEF vars
<1> QED BY <1>1, <1>2, <1>3, <1>4, <1>5, <1>6, <1>7, <1>8, <1>10, <1>11 DEF Next, Progress

LEMMA Invariance == Spec => []IInv
<1>1. Init => IInv
  BY InitIInv
<1>2. IInv /\ [Next]_vars => IInv'
  BY NextIInv
<1> QED BY <1>1, <1>2, PTL DEF Spec

\* Every field of the executor keeps its type, and no more executions are kept
\* than were begun.
THEOREM TypeCorrect == Spec => []TypeOK
<1>1. IInv => TypeOK
  BY DEF IInv
<1> QED BY <1>1, Invariance, PTL

\* The counters of a result agree with its records whatever the rollback rewrote.
THEOREM CountersAgree == Spec => []CountersMatchRecords
<1>1. IInv => CountersMatchRecords
  BY DEF IInv
<1> QED BY <1>1, Invariance, PTL
-----------------------------------------------------------------------------
(* What happened in the world *)

Done == Steps(effects, started, "done")
Reversed == Steps(effects, started, "reversed")

Increasing(list) == \A m, n \in 1..Len(list) : m < n => list[m] < list[n]
IsBeginning(list, whole) ==
    Len(list) <= Len(whole) /\ \A n \in 1..Len(list) : list[n] = whole[n]

\* Reversals go down, and are of later steps than those that wait for theirs.
GoesDown(reversed, waiting) ==
    /\ \A i, j \in 1..Len(reversed) : i < j => reversed[i].step > reversed[j].step
    /\ \A i \in 1..Len(reversed), n \in 1..Len(waiting) : reversed[i].step > waiting[n]

\* The steps of an id: among effects, and among completed steps after the first m.
OfId(r, list, id) == {i \in 1..Len(list) : r.steps[list[i].step].id = id}
AfterOfId(r, list, m, id) == {n \in (m + 1)..Len(list) : r.steps[list[n]].id = id}

\* Of the completed steps after the first m, those that could be and are not reversed.
LeftInPlace(r, list, m, reversed) ==
    {n \in (m + 1)..Len(list) :
       Reversible(r, list[n]) /\ \A i \in 1..Len(reversed) : reversed[i].step # list[n]}

EffectsSound ==
    effects \in Seq(WorldEffect) /\ \A n \in 1..Len(effects) : effects[n].execution <= started

\* The rollback goes back through the completed steps, all of them, once.
RollbackOrder ==
    /\ Increasing(completed) /\ IsBeginning(pending, completed)
    /\ phase \in {"init", "executing"} => rollback_ok /\ pending = <<>> /\ Reversed = <<>>
    /\ phase = "rolling_back" => ~dry_run
    /\ dry_run => Reversed = <<>>

DoneAsCompleted ==
    ~dry_run => /\ Len(Done) = Len(completed)
                /\ \A n \in 1..Len(completed) : Done[n].step = completed[n]

ReversedDownwards == DistinctIds(runbook) => GoesDown(Reversed, pending)

ReversedWereDealtWith ==
    \A step \in ToSet(runbook.steps) :
        Cardinality(OfId(runbook, Reversed, step.id))
            <= Cardinality(AfterOfId(runbook, completed, Len(pending), step.id))

RollbackOkMeansNoneLeft ==
    phase = "rolling_back" /\ DistinctIds(runbook)
      => (rollback_ok <=> LeftInPlace(runbook, completed, Len(pending), Reversed) = {})

KeptAreOver ==
    \A k \in 1..Len(executions) :
        /\ executions[k].execution <= started
        /\ phase # "idle" => executions[k].execution < started

\* What execute() keeps true of the world.  That a result tells the truth when it
\* is kept is what rollback_ok meant during the rollback, for the steps dealt with.
WorldInv ==
    /\ dry_run \in BOOLEAN
    /\ EffectsSound
    /\ RollbackOrder
    /\ DoneAsCompleted
    /\ ReversedDownwards
    /\ ReversedWereDealtWith
    /\ RollbackOkMeansNoneLeft
    /\ KeptAreOver
    /\ PhaseTellsTheWorld

-----------------------------------------------------------------------------
(* The operators of the invariant *)

\* What an effect adds to the effects of an execution and a kind.
LEMMA StepsGrow ==
    ASSUME NEW world \in Seq(WorldEffect), NEW e \in WorldEffect, NEW x, NEW kind
    PROVE  /\ Steps(world, x, kind) \in Seq(WorldEffect)
           /\ Len(Steps(world, x, kind)) \in Nat
           /\ e.execution = x /\ e.kind = kind =>
                Steps(Append(world, e), x, kind) = Append(Steps(world, x, kind), e)
           /\ ~(e.execution = x /\ e.kind = kind) =>
                Steps(Append(world, e), x, kind) = Steps(world, x, kind)
<1> DEFINE W == {f \in WorldEffect : f.execution = x /\ f.kind = kind}
<1>1. e \in W <=> e.execution = x /\ e.kind = kind
  OBVIOUS
<1> HIDE DEF W
<1>2. /\ Those(world, W) \in Seq(WorldEffect) /\ Len(Those(world, W)) \in Nat
      /\ e \in W => Those(Append(world, e), W) = Append(Those(world, W), e)
      /\ e \notin W => Those(Append(world, e), W) = Those(world, W)
  BY ThoseType, ThoseOfAppend
<1> QED BY <1>1, <1>2 DEF Steps, W

LEMMA StepsType ==
    ASSUME EffectsSound, NEW x, NEW kind
    PROVE  Steps(effects, x, kind) \in Seq(WorldEffect) /\ Len(Steps(effects, x, kind)) \in Nat
  BY ThoseType DEF Steps, EffectsSound

\* The step whose handler is called has the id of the step that is reversed.
LEMMA HandlerFacts ==
    ASSUME RunbookShape(runbook), NEW i \in 1..Len(runbook.steps)
    PROVE  /\ HandlerOf(i) # 0 => /\ HandlerOf(i) \in 1..Len(runbook.steps)
                                  /\ runbook.steps[HandlerOf(i)].id = runbook.steps[i].id
           /\ DistinctIds(runbook) =>
                /\ HandlerOf(i) # 0 => HandlerOf(i) = i
                /\ HandlerOf(i) # 0 <=> runbook.steps[i].handler
<1> DEFINE owners == {j \in 1..Len(runbook.steps) :
                        runbook.steps[j].id = runbook.steps[i].id /\ runbook.steps[j].handler}
<1>1. HandlerOf(i) = IF owners = {} THEN 0 ELSE CHOOSE j \in owners : \A k \in owners : k <= j
  BY DEF HandlerOf
<1>2. Len(runbook.steps) \in Nat
  BY LenProperties DEF RunbookShape
<1>3. IsFiniteSet(owners) /\ owners \in SUBSET Nat
  <2>1. IsFiniteSet(1..Len(runbook.steps))
    BY <1>2, FS_Interval
  <2> QED BY <1>2, <2>1, FS_Subset
<1>4. owners # {} => HandlerOf(i) \in owners
  <2> SUFFICES ASSUME owners # {} PROVE HandlerOf(i) \in owners
    OBVIOUS
  <2> HIDE DEF owners
  <2>1. \E j \in owners : \A k \in owners : k <= j
    BY <1>3, GreatestPosition
  <2> QED BY <1>1, <2>1
<1>5. owners # {} => HandlerOf(i) # 0
  BY <1>4
<1>6. DistinctIds(runbook) => owners \subseteq {i}
  BY DEF DistinctIds
<1>7. runbook.steps[i].handler => i \in owners
  OBVIOUS
<1>8. ASSUME HandlerOf(i) # 0
      PROVE  /\ HandlerOf(i) \in owners
             /\ HandlerOf(i) \in 1..Len(runbook.steps)
             /\ runbook.steps[HandlerOf(i)].id = runbook.steps[i].id
             /\ runbook.steps[HandlerOf(i)].handler
  <2>1. owners # {}
    BY <1>1, <1>8
  <2>2. HandlerOf(i) \in owners
    BY <1>4, <2>1
  <2> QED BY <2>2
<1> HIDE DEF owners
<1>9. ASSUME DistinctIds(runbook)
      PROVE  /\ HandlerOf(i) # 0 => HandlerOf(i) = i
             /\ HandlerOf(i) # 0 <=> runbook.steps[i].handler
  <2>1. HandlerOf(i) # 0 => HandlerOf(i) = i
    BY <1>6, <1>8, <1>9
  <2>2. HandlerOf(i) # 0 => runbook.steps[i].handler
    BY <1>8, <2>1
  <2>3. runbook.steps[i].handler => HandlerOf(i) # 0
    BY <1>5, <1>7
  <2> QED BY <2>1, <2>2, <2>3
<1> QED BY <1>8, <1>9

\* Where step ids are distinct, the rollback passes over what cannot be reversed.
LEMMA PassedOverFacts ==
    ASSUME RunbookShape(runbook), DistinctIds(runbook), NEW i \in 1..Len(runbook.steps)
    PROVE  PassedOver(i) <=> ~Reversible(runbook, i)
  BY HandlerFacts DEF PassedOver, Reversible, Locked

\* The counts of the invariant are numbers, and grow by one at most.
LEMMA OfIdCounts ==
    ASSUME NEW r, NEW list \in Seq(WorldEffect), NEW e \in WorldEffect, NEW id
    PROVE  /\ Cardinality(OfId(r, list, id)) \in Nat
           /\ list = <<>> => Cardinality(OfId(r, list, id)) = 0
           /\ Cardinality(OfId(r, Append(list, e), id)) =
                Cardinality(OfId(r, list, id)) + (IF r.steps[e.step].id = id THEN 1 ELSE 0)
<1> DEFINE I == OfId(r, list, id)  longer == Append(list, e)
<1>1. /\ Len(list) \in Nat /\ Len(longer) = Len(list) + 1
      /\ (\A i \in 1..Len(list) : longer[i] = list[i]) /\ longer[Len(list) + 1] = e
  BY LenProperties, AppendProperties
<1>2. IsFiniteSet(I) /\ Cardinality(I) \in Nat
  <2>1. IsFiniteSet(1..Len(list))
    BY <1>1, FS_Interval
  <2>2. I \in SUBSET (1..Len(list))
    BY DEF OfId
  <2> QED BY <2>1, <2>2, FS_Subset, FS_CardinalityType
<1>3. list = <<>> => Cardinality(I) = 0
  <2>1. list = <<>> => Len(list) = 0
    BY EmptySeq
  <2>2. Len(list) = 0 => I = {}
    BY DEF OfId
  <2> QED BY <2>1, <2>2, FS_EmptySet
<1>4. Len(list) + 1 \notin I
  BY <1>1 DEF OfId
<1> HIDE DEF longer
<1>5. OfId(r, longer, id) = I \cup {i \in {Len(list) + 1} : r.steps[e.step].id = id}
  BY <1>1 DEF OfId
<1>6. Cardinality(I \cup {Len(list) + 1}) = Cardinality(I) + 1
  <2> HIDE DEF I
  <2> QED BY <1>2, <1>4, FS_AddElement
<1>7. CASE r.steps[e.step].id = id
  <2>1. OfId(r, longer, id) = I \cup {Len(list) + 1}
    BY <1>5, <1>7
  <2> QED BY <1>2, <1>3, <1>6, <1>7, <2>1 DEF longer
<1>8. CASE r.steps[e.step].id # id
  <2>1. OfId(r, longer, id) = I
    BY <1>5, <1>8
  <2> QED BY <1>2, <1>3, <1>8, <2>1 DEF longer
<1> QED BY <1>7, <1>8

LEMMA AfterOfIdCounts ==
    ASSUME NEW r, NEW S, NEW list \in Seq(S), NEW m \in Nat, m <= Len(list), NEW id, NEW k
    PROVE  /\ Cardinality(AfterOfId(r, list, m, id)) \in Nat
           /\ m # 0 /\ k = m - 1 =>
                /\ r.steps[list[m]].id = id =>
                     Cardinality(AfterOfId(r, list, k, id)) = Cardinality(AfterOfId(r, list, m, id)) + 1
                /\ r.steps[list[m]].id # id =>
                     Cardinality(AfterOfId(r, list, k, id)) = Cardinality(AfterOfId(r, list, m, id))
<1> DEFINE I == AfterOfId(r, list, m, id)  J == AfterOfId(r, list, k, id)
<1>1. Len(list) \in Nat
  BY LenProperties
<1>2. IsFiniteSet(I) /\ Cardinality(I) \in Nat
  <2>1. IsFiniteSet((m + 1)..Len(list))
    BY <1>1, FS_Interval
  <2>2. I \in SUBSET ((m + 1)..Len(list))
    BY DEF AfterOfId
  <2> QED BY <2>1, <2>2, FS_Subset, FS_CardinalityType
<1>3. m \notin I
  BY DEF AfterOfId
<1>4. m # 0 /\ k = m - 1 => J = I \cup {n \in {m} : r.steps[list[n]].id = id}
  <2>1. m # 0 /\ k = m - 1 => (k + 1)..Len(list) = {m} \cup ((m + 1)..Len(list))
    BY <1>1
  <2> QED BY <2>1 DEF AfterOfId
<1> HIDE DEF I, J
<1>5. Cardinality(I \cup {m}) = Cardinality(I) + 1
  BY <1>2, <1>3, FS_AddElement
<1>6. CASE r.steps[list[m]].id = id
  <2>1. m # 0 /\ k = m - 1 => J = I \cup {m}
    BY <1>4, <1>6
  <2> QED BY <1>2, <1>5, <1>6, <2>1 DEF I, J
<1>7. CASE r.steps[list[m]].id # id
  <2>1. m # 0 /\ k = m - 1 => J = I
    BY <1>4, <1>7
  <2> QED BY <1>2, <1>7, <2>1 DEF I, J
<1> QED BY <1>6, <1>7

\* Facts of the types that the steps below use.
LEMMA Bounds ==
    ASSUME IInv, WorldInv
    PROVE  /\ completed \in Seq(1..Len(records)) /\ pending \in Seq(1..Len(records))
           /\ Len(records) \in Nat /\ Len(completed) \in Nat /\ Len(pending) \in Nat
           /\ Len(runbook.steps) \in Nat /\ Len(records) <= Len(runbook.steps)
           /\ \A n \in 1..Len(completed) : completed[n] \in 1..Len(records)
           /\ effects \in Seq(WorldEffect) /\ started \in Nat
           /\ Done \in Seq(WorldEffect) /\ Reversed \in Seq(WorldEffect)
           /\ Len(Done) \in Nat /\ Len(Reversed) \in Nat
           /\ RunbookShape(runbook)
  BY StepsType, LenProperties, ElementOfSeq
     DEF IInv, TypeOK, WorldInv, EffectsSound, RunbookShape, Done, Reversed

\* As long as nothing has been reversed.
LEMMA NothingReversed ==
    ASSUME NEW r, NEW waiting, NEW S, NEW list \in Seq(S), NEW m \in Nat, m <= Len(list)
    PROVE  /\ GoesDown(<<>>, waiting)
           /\ \A id : Cardinality(OfId(r, <<>>, id)) <= Cardinality(AfterOfId(r, list, m, id))
<1>1. GoesDown(<<>>, waiting)
  BY DEF GoesDown
<1>2. ASSUME NEW id
      PROVE  Cardinality(OfId(r, <<>>, id)) <= Cardinality(AfterOfId(r, list, m, id))
  <2>1. Cardinality(AfterOfId(r, list, m, id)) \in Nat
    BY AfterOfIdCounts
  <2>2. OfId(r, <<>>, id) = {}
    BY DEF OfId
  <2>3. Cardinality(OfId(r, <<>>, id)) = 0
    BY <2>2, FS_EmptySet
  <2> QED BY <2>1, <2>3
<1> QED BY <1>1, <1>2

\* What a kept result says hangs on the effects of its execution alone.
ToldRight(world, result) ==
    LET InPlace == {i \in 1..Len(result.runbook.steps) :
            /\ Reversible(result.runbook, i)
            /\ \E e \in ToSet(Steps(world, result.execution, "done")) : e.step = i
            /\ \A e \in ToSet(Steps(world, result.execution, "reversed")) : e.step # i}
    IN  result.aborted /\ DistinctIds(result.runbook)
          => (result.phase = "completed" <=> InPlace = {})

LEMMA PhaseForm ==
    PhaseTellsTheWorld <=> \A k \in 1..Len(executions) : ToldRight(effects, executions[k])
  BY DEF PhaseTellsTheWorld, ToldRight

\* A step of an execution changes no effect of one that is over.
LEMMA KeptStay ==
    ASSUME IInv, WorldInv, phase # "idle", executions' = executions, started' = started,
           \/ effects' = effects
           \/ \E e \in WorldEffect : e.execution = started /\ effects' = Append(effects, e)
    PROVE  KeptAreOver' /\ PhaseTellsTheWorld' /\ EffectsSound'
<1>1. ASSUME NEW x, NEW kind, x # started PROVE Steps(effects', x, kind) = Steps(effects, x, kind)
  <2>1. effects \in Seq(WorldEffect)
    BY DEF WorldInv, EffectsSound
  <2>2. ASSUME NEW e \in WorldEffect, e.execution = started, effects' = Append(effects, e)
        PROVE  Steps(effects', x, kind) = Steps(effects, x, kind)
    <3>1. ~(e.execution = x /\ e.kind = kind)
      BY <1>1, <2>2
    <3>2. Steps(Append(effects, e), x, kind) = Steps(effects, x, kind)
      BY <2>1, <3>1, StepsGrow
    <3> QED BY <2>2, <3>2
  <2> QED BY <2>2
<1>2. ASSUME NEW k \in 1..Len(executions) PROVE ToldRight(effects', executions[k])
  <2>1. ToldRight(effects, executions[k])
    BY PhaseForm DEF WorldInv
  <2>2. executions[k].execution # started
    <3>1. executions[k] \in KeptResult
      BY ElementOfSeq DEF IInv
    <3>2. executions[k].execution < started /\ executions[k].execution \in Nat
      BY <3>1 DEF WorldInv, KeptAreOver, KeptResult
    <3> QED BY <3>2
  <2> QED BY <1>1, <2>1, <2>2 DEF ToldRight
<1>3. PhaseTellsTheWorld'
  BY <1>2 DEF PhaseTellsTheWorld, ToldRight
<1>4. KeptAreOver'
  BY DEF WorldInv, KeptAreOver
<1>5. EffectsSound'
  <2>1. effects \in Seq(WorldEffect) /\ \A n \in 1..Len(effects) : effects[n].execution <= started
    BY DEF WorldInv, EffectsSound
  <2>2. started \in Nat /\ Len(effects) \in Nat
    BY <2>1, LenProperties DEF IInv
  <2>3. CASE effects' = effects
    BY <2>1, <2>3 DEF EffectsSound
  <2>4. ASSUME NEW e \in WorldEffect, e.execution = started, effects' = Append(effects, e)
        PROVE  EffectsSound'
    <3>1. /\ effects' \in Seq(WorldEffect) /\ Len(effects') = Len(effects) + 1
          /\ (\A n \in 1..Len(effects) : effects'[n] = effects[n]) /\ effects'[Len(effects) + 1] = e
      BY <2>1, <2>4, AppendProperties
    <3>2. ASSUME NEW n \in 1..Len(effects') PROVE effects'[n].execution <= started
      <4>1. n \in 1..Len(effects) \/ n = Len(effects) + 1
        BY <2>2, <3>1
      <4> QED BY <2>1, <2>2, <2>4, <3>1, <4>1
    <3> QED BY <3>1, <3>2 DEF EffectsSound
  <2> QED BY <2>3, <2>4
<1> QED BY <1>3, <1>4, <1>5

-----------------------------------------------------------------------------
(* Steps and the world *)

LEMMA InitWorld == Init => WorldInv
<1> SUFFICES ASSUME Init PROVE WorldInv
  OBVIOUS
<1>1. /\ effects = <<>> /\ effects \in Seq(WorldEffect) /\ Len(effects) = 0
      /\ completed = <<>> /\ pending = <<>> /\ executions = <<>>
      /\ Len(completed) = 0 /\ Len(pending) = 0 /\ Len(executions) = 0
      /\ completed \in Seq(1..Len(records))
  BY EmptySeq DEF Init
<1>2. Done = <<>> /\ Reversed = <<>> /\ Len(Done) = 0
  <2>1. ASSUME NEW kind PROVE Steps(effects, started, kind) = <<>>
    <3>1. \A W : \A n \in 1..Len(effects) : effects[n] \notin W
      BY <1>1
    <3> QED BY <1>1, <3>1, ThoseOfNone DEF Steps
  <2> QED BY <2>1, EmptySeq DEF Done, Reversed
<1>3. EffectsSound /\ KeptAreOver /\ PhaseTellsTheWorld
  BY <1>1 DEF EffectsSound, KeptAreOver, PhaseTellsTheWorld
<1>4. RollbackOrder /\ DoneAsCompleted
  BY <1>1, <1>2 DEF RollbackOrder, DoneAsCompleted, Increasing, IsBeginning, Init
<1>5. ReversedDownwards /\ ReversedWereDealtWith
  <2>1. /\ GoesDown(<<>>, pending)
        /\ \A id : Cardinality(OfId(runbook, <<>>, id))
                     <= Cardinality(AfterOfId(runbook, completed, Len(pending), id))
    <3>1. completed \in Seq(1..Len(records)) /\ Len(pending) \in Nat
          /\ Len(pending) <= Len(completed)
      BY <1>1
    <3> QED BY <3>1, NothingReversed
  <2> QED BY <1>2, <2>1 DEF ReversedDownwards, ReversedWereDealtWith
<1> QED BY <1>3, <1>4, <1>5 DEF WorldInv, RollbackOkMeansNoneLeft, Init

LEMMA ExecuteWorld ==
    ASSUME IInv, WorldInv, NEW r \in Runbooks, Execute(r)
    PROVE  WorldInv'
<1>1. /\ completed' = <<>> /\ pending' = <<>> /\ Len(completed') = 0 /\ Len(pending') = 0
      /\ completed' \in Seq(1..Len(records'))
      /\ phase' = "init" /\ rollback_ok' /\ started' = started + 1 /\ phase = "idle"
      /\ effects' = effects /\ executions' = executions /\ dry_run' = dry_run
  BY EmptySeq DEF Execute
<1>2. effects \in Seq(WorldEffect) /\ started \in Nat
  BY Bounds
<1>3. \A n \in 1..Len(effects) : effects[n] \in WorldEffect /\ effects[n].execution <= started
  BY <1>2, ElementOfSeq DEF WorldInv, EffectsSound
<1>4. \A n \in 1..Len(effects) : effects[n].execution # started + 1
  BY <1>2, <1>3 DEF WorldEffect
<1>5. Done' = <<>> /\ Reversed' = <<>> /\ Len(Done') = 0
  <2>1. ASSUME NEW kind PROVE Steps(effects, started + 1, kind) = <<>>
    BY <1>2, <1>4, ThoseOfNone DEF Steps
  <2> QED BY <1>1, <2>1, EmptySeq DEF Done, Reversed
<1>6. EffectsSound'
  BY <1>1, <1>2, <1>3 DEF EffectsSound, WorldEffect
<1>7. PhaseTellsTheWorld'
  BY <1>1 DEF PhaseTellsTheWorld, WorldInv
<1>8. KeptAreOver'
  <2>1. \A k \in 1..Len(executions) :
          executions[k].execution \in Nat /\ executions[k].execution <= started
    <3>1. \A k \in 1..Len(executions) : executions[k] \in KeptResult
      BY ElementOfSeq DEF IInv
    <3> QED BY <3>1 DEF KeptResult, WorldInv, KeptAreOver
  <2> QED BY <1>1, <1>2, <2>1 DEF KeptAreOver
<1>9. RollbackOrder' /\ DoneAsCompleted'
  BY <1>1, <1>5 DEF RollbackOrder, DoneAsCompleted, Increasing, IsBeginning
<1>10. ReversedDownwards' /\ ReversedWereDealtWith'
  <2>1. /\ GoesDown(<<>>, pending')
        /\ \A id : Cardinality(OfId(runbook', <<>>, id))
                     <= Cardinality(AfterOfId(runbook', completed', Len(pending'), id))
    <3>1. completed' \in Seq(1..Len(records')) /\ Len(pending') \in Nat
          /\ Len(pending') <= Len(completed')
      BY <1>1
    <3> QED BY <3>1, NothingReversed
  <2> QED BY <1>5, <2>1 DEF ReversedDownwards, ReversedWereDealtWith
<1> QED BY <1>1, <1>6, <1>7, <1>8, <1>9, <1>10 DEF WorldInv, RollbackOkMeansNoneLeft

\* A step that succeeds is done, in earnest, and is completed.
LEMMA SuccessWorld ==
    ASSUME IInv, WorldInv, AtStep, phase' = "executing", completed' = Completed(At),
           records' = Recorded("succeeded"),
           UNCHANGED <<dry_run, runbook, pending, rollback_ok, executions, started>>,
           effects' = IF dry_run THEN effects ELSE Append(effects, Effect("done", At))
    PROVE  WorldInv'
<1> DEFINE e == Effect("done", At)  last == Len(records) + 1
<1>0. /\ completed \in Seq(1..Len(records)) /\ Len(records) \in Nat /\ Len(completed) \in Nat
      /\ effects \in Seq(WorldEffect) /\ started \in Nat /\ dry_run \in BOOLEAN
      /\ Len(Done) \in Nat /\ Done \in Seq(WorldEffect)
      /\ \A n \in 1..Len(completed) : completed[n] \in 1..Len(records)
  BY Bounds DEF WorldInv
<1>1. phase \in {"init", "executing"} /\ rollback_ok /\ pending = <<>> /\ Reversed = <<>>
  BY DEF AtStep, WorldInv, RollbackOrder
<1>2. /\ e \in WorldEffect /\ e.execution = started /\ e.kind = "done" /\ e.step = last
  BY <1>0 DEF Effect, WorldEffect, At
<1> HIDE DEF e
<1>3. KeptAreOver' /\ PhaseTellsTheWorld' /\ EffectsSound'
  BY <1>1, <1>2, KeptStay DEF e
<1>4. /\ completed' = Append(completed, last) /\ Len(completed') = Len(completed) + 1
      /\ (\A n \in 1..Len(completed) : completed'[n] = completed[n])
      /\ completed'[Len(completed) + 1] = last /\ completed' \in Seq(1..last)
  <2>1. 1..Len(records) \subseteq 1..last /\ last \in 1..last
    BY <1>0
  <2>2. completed \in Seq(1..last)
    BY <1>0, <2>1, SeqMonotonic
  <2>3. completed' = Append(completed, last)
    BY DEF Completed, At
  <2> QED BY <2>1, <2>2, <2>3, AppendProperties
<1>5. Increasing(completed')
  <2> SUFFICES ASSUME NEW m \in 1..Len(completed'), NEW n \in 1..Len(completed'), m < n
               PROVE  completed'[m] < completed'[n]
    BY DEF Increasing
  <2>1. m \in 1..Len(completed) /\ completed'[m] = completed[m]
    BY <1>0, <1>4
  <2>2. CASE n \in 1..Len(completed)
    BY <1>4, <2>1, <2>2 DEF WorldInv, RollbackOrder, Increasing
  <2>3. CASE n = Len(completed) + 1
    <3>1. completed'[n] = last /\ completed[m] \in 1..Len(records)
      BY <1>0, <1>4, <2>1, <2>3
    <3> QED BY <1>0, <2>1, <3>1
  <2>4. n \in 1..Len(completed) \/ n = Len(completed) + 1
    <3>1. Len(completed') = Len(completed) + 1 /\ Len(completed) \in Nat
      BY <1>0, <1>4
    <3> QED BY <3>1
  <2> QED BY <2>2, <2>3, <2>4
<1>6. pending' = <<>> /\ Len(pending') = 0 /\ IsBeginning(pending', completed')
  BY <1>0, <1>1, <1>4, EmptySeq DEF IsBeginning
<1>7. Reversed' = <<>>
  <2>1. effects' = effects \/ effects' = Append(effects, e)
    BY DEF e
  <2>2. Steps(Append(effects, e), started, "reversed") = Steps(effects, started, "reversed")
    BY <1>0, <1>2, StepsGrow
  <2> QED BY <1>1, <2>1, <2>2 DEF Reversed
<1>8. DoneAsCompleted'
  <2> SUFFICES ASSUME ~dry_run
               PROVE  /\ Len(Done') = Len(completed')
                      /\ \A n \in 1..Len(completed') : Done'[n].step = completed'[n]
    BY DEF DoneAsCompleted
  <2>1. Done' = Append(Done, e)
    <3>1. Steps(Append(effects, e), started, "done") = Append(Steps(effects, started, "done"), e)
      <4>1. effects \in Seq(WorldEffect) /\ e \in WorldEffect /\ e.execution = started /\ e.kind = "done"
        BY <1>0, <1>2
      <4> QED BY <4>1, StepsGrow
    <3>2. effects' = Append(effects, e)
      BY DEF e
    <3> QED BY <3>1, <3>2 DEF Done
  <2>2. Len(Done) = Len(completed) /\ \A n \in 1..Len(completed) : Done[n].step = completed[n]
    BY DEF WorldInv, DoneAsCompleted
  <2>3. /\ Len(Done') = Len(Done) + 1 /\ (\A n \in 1..Len(Done) : Done'[n] = Done[n])
        /\ Done'[Len(Done) + 1] = e
    BY <1>0, <1>2, <2>1, AppendProperties
  <2>4. ASSUME NEW n \in 1..Len(completed') PROVE Done'[n].step = completed'[n]
    <3>1. n \in 1..Len(completed) \/ n = Len(completed) + 1
      BY <1>0, <1>4
    <3> QED BY <1>2, <1>4, <2>2, <2>3, <3>1
  <2> QED BY <1>4, <2>2, <2>3, <2>4
<1>9. RollbackOrder'
  BY <1>1, <1>5, <1>6, <1>7 DEF RollbackOrder
<1>10. ReversedDownwards' /\ ReversedWereDealtWith'
  <2>1. /\ completed' \in Seq(1..Len(records')) /\ Len(pending') \in Nat
        /\ Len(pending') <= Len(completed')
    <3>1. Len(records') = last
      <4>1. records \in Seq(Record) /\ [outcome |-> "succeeded", attempted |-> FALSE] \in Record
        BY DEF IInv, TypeOK, Record, Outcomes
      <4> QED BY <4>1, AppendProperties DEF Recorded
    <3> QED BY <1>0, <1>4, <1>6, <3>1
  <2> QED BY <1>7, <2>1, NothingReversed DEF ReversedDownwards, ReversedWereDealtWith
<1> QED BY <1>3, <1>8, <1>9, <1>10 DEF WorldInv, RollbackOkMeansNoneLeft

\* A step that fails may start the rollback, with all that is completed to go.
LEMMA FailureWorld ==
    ASSUME IInv, WorldInv, NEW event, StepFails(event)
    PROVE  WorldInv'
<1>0. /\ completed \in Seq(1..Len(records)) /\ Len(records) \in Nat /\ Len(completed) \in Nat
      /\ dry_run \in BOOLEAN
  BY Bounds DEF WorldInv
<1>1. phase \in {"init", "executing"} /\ rollback_ok /\ pending = <<>> /\ Reversed = <<>>
  BY DEF StepFails, AtStep, WorldInv, RollbackOrder
<1>2. /\ UNCHANGED <<dry_run, runbook, completed, rollback_ok, executions, started, effects>>
      /\ \/ phase' = "rolling_back" /\ pending' = completed
         \/ phase' = "executing" /\ pending' = pending
      /\ ~dry_run
  BY DEF StepFails, ToReverse
<1>3. KeptAreOver' /\ PhaseTellsTheWorld' /\ EffectsSound'
  BY <1>1, <1>2, KeptStay
<1>4. Done' = Done /\ Reversed' = Reversed
  BY <1>2 DEF Done, Reversed
<1>5. Len(pending') \in Nat /\ IsBeginning(pending', completed')
  BY <1>0, <1>1, <1>2, EmptySeq DEF IsBeginning
<1>6. RollbackOrder' /\ DoneAsCompleted'
  BY <1>1, <1>2, <1>4, <1>5 DEF WorldInv, RollbackOrder, DoneAsCompleted
<1>7. ReversedDownwards' /\ ReversedWereDealtWith'
  <2>1. completed' \in Seq(1..Len(records'))
    <3>1. Len(records') = Len(records) + 1
      <4>1. records \in Seq(Record) /\ [outcome |-> "failed", attempted |-> FALSE] \in Record
        BY DEF IInv, TypeOK, Record, Outcomes
      <4> QED BY <4>1, AppendProperties DEF StepFails, Recorded
    <3>2. 1..Len(records) \subseteq 1..Len(records')
      BY <1>0, <3>1
    <3> QED BY <1>0, <1>2, <3>2, SeqMonotonic
  <2>2. Reversed' = <<>> /\ Len(pending') <= Len(completed')
    BY <1>1, <1>4, <1>5 DEF IsBeginning
  <2> QED BY <1>5, <2>1, <2>2, NothingReversed DEF ReversedDownwards, ReversedWereDealtWith
<1>8. RollbackOkMeansNoneLeft'
  <2>1. pending' = completed => LeftInPlace(runbook, completed, Len(pending'), Reversed) = {}
    BY <1>0 DEF LeftInPlace
  <2> QED BY <1>1, <1>2, <1>4, <2>1 DEF RollbackOkMeansNoneLeft
<1> QED BY <1>0, <1>2, <1>3, <1>6, <1>7, <1>8 DEF WorldInv

\* The rollback comes to the last step that waits for it.
LEMMA NextToReverse ==
    ASSUME IInv, WorldInv, AtRollback, pending' = Front(pending), completed' = completed
    PROVE  /\ Len(pending) \in Nat /\ Len(pending) # 0 /\ Len(pending) <= Len(completed)
           /\ Last(pending) = completed[Len(pending)]
           /\ Last(pending) \in 1..Len(runbook.steps)
           /\ Len(pending') = Len(pending) - 1 /\ IsBeginning(pending', completed')
           /\ \A n \in 1..Len(pending') : n \in 1..Len(pending) /\ pending'[n] = pending[n]
                                          /\ pending'[n] < Last(pending)
<1> DEFINE m == Len(pending)
<1>1. /\ pending \in Seq(1..Len(records)) /\ m \in Nat /\ Len(records) \in Nat
      /\ Len(runbook.steps) \in Nat /\ Len(records) <= Len(runbook.steps)
      /\ Len(completed) \in Nat /\ \A n \in 1..Len(completed) : completed[n] \in 1..Len(records)
  BY Bounds
<1>2. pending # <<>> /\ m # 0
  BY <1>1, EmptySeq DEF AtRollback
<1>3. /\ Last(pending) \in 1..Len(records) /\ Len(pending') = m - 1
      /\ \A n \in 1..(m - 1) : pending'[n] = pending[n]
  BY <1>1, <1>2, FrontFacts
<1>4. m <= Len(completed) /\ \A n \in 1..m : pending[n] = completed[n]
  BY DEF WorldInv, RollbackOrder, IsBeginning
<1>5. Last(pending) = pending[m] /\ m \in 1..m
  BY <1>1, <1>2 DEF Last
<1>6. Last(pending) = completed[m] /\ Last(pending) \in 1..Len(runbook.steps)
  BY <1>1, <1>3, <1>4, <1>5
<1>7. ASSUME NEW n \in 1..Len(pending')
      PROVE  n \in 1..m /\ pending'[n] = pending[n] /\ pending'[n] < Last(pending)
  <2>1. n \in 1..m /\ n < m /\ n \in 1..(m - 1)
    BY <1>1, <1>3
  <2>2. n \in 1..Len(completed) /\ m \in 1..Len(completed)
    BY <1>1, <1>2, <1>4, <2>1
  <2>3. completed[n] < completed[m]
    BY <2>1, <2>2 DEF WorldInv, RollbackOrder, Increasing
  <2> QED BY <1>3, <1>4, <1>6, <2>1, <2>3
<1>8. IsBeginning(pending', completed')
  <2>1. Len(pending') <= Len(completed)
    BY <1>1, <1>3, <1>4
  <2> QED BY <1>4, <1>7, <2>1 DEF IsBeginning
<1> QED BY <1>1, <1>2, <1>3, <1>4, <1>6, <1>7, <1>8

LEMMA LeftGrows ==
    ASSUME NEW r, NEW list, NEW m \in Nat, NEW k, k = m - 1, m # 0, NEW reversed,
           Len(list) \in Nat, m <= Len(list), ~Reversible(r, list[m])
    PROVE  LeftInPlace(r, list, k, reversed) = LeftInPlace(r, list, m, reversed)
<1>1. (k + 1)..Len(list) = {m} \cup ((m + 1)..Len(list))
  OBVIOUS
<1> QED BY <1>1 DEF LeftInPlace

\* It passes the step over, which cannot be reversed then.
LEMMA SkipWorld ==
    ASSUME IInv, WorldInv, RollbackSkips
    PROVE  WorldInv'
<1> DEFINE m == Len(pending)  i == Last(pending)
<1>1. /\ AtRollback /\ PassedOver(i) /\ pending' = Front(pending)
      /\ UNCHANGED <<dry_run, runbook, phase, completed, rollback_ok, executions, started, effects>>
      /\ phase = "rolling_back"
  BY DEF RollbackSkips, AtRollback
<1>2. /\ m \in Nat /\ m # 0 /\ m <= Len(completed) /\ i = completed[m]
      /\ i \in 1..Len(runbook.steps) /\ Len(pending') = m - 1 /\ IsBeginning(pending', completed')
      /\ \A n \in 1..Len(pending') : n \in 1..Len(pending) /\ pending'[n] = pending[n]
  BY <1>1, NextToReverse
<1> HIDE DEF m, i
<1>3. KeptAreOver' /\ PhaseTellsTheWorld' /\ EffectsSound'
  BY <1>1, KeptStay
<1>4. Done' = Done /\ Reversed' = Reversed
  BY <1>1 DEF Done, Reversed
<1>5. RollbackOrder' /\ DoneAsCompleted' /\ dry_run' \in BOOLEAN
  BY <1>1, <1>2, <1>4 DEF WorldInv, RollbackOrder, DoneAsCompleted
<1>6. ReversedDownwards'
  BY <1>1, <1>2, <1>4 DEF WorldInv, ReversedDownwards, GoesDown
<1>7. completed \in Seq(1..Len(records)) /\ Len(completed) \in Nat /\ RunbookShape(runbook)
      /\ Reversed \in Seq(WorldEffect)
  BY Bounds
<1>8. ReversedWereDealtWith'
  <2>1. ASSUME NEW step \in ToSet(runbook.steps)
        PROVE  Cardinality(OfId(runbook, Reversed, step.id))
                 <= Cardinality(AfterOfId(runbook, completed, m - 1, step.id))
    <3>1. Cardinality(OfId(runbook, Reversed, step.id))
            <= Cardinality(AfterOfId(runbook, completed, m, step.id))
      BY DEF WorldInv, ReversedWereDealtWith, m
    <3>2. /\ Cardinality(AfterOfId(runbook, completed, m, step.id)) \in Nat
          /\ runbook.steps[completed[m]].id = step.id =>
               Cardinality(AfterOfId(runbook, completed, m - 1, step.id)) =
                 Cardinality(AfterOfId(runbook, completed, m, step.id)) + 1
          /\ runbook.steps[completed[m]].id # step.id =>
               Cardinality(AfterOfId(runbook, completed, m - 1, step.id)) =
                 Cardinality(AfterOfId(runbook, completed, m, step.id))
      <4>1. /\ completed \in Seq(1..Len(records)) /\ m \in Nat /\ m # 0
            /\ m <= Len(completed)
        BY <1>2, <1>7
      <4>2. \A k : k = m - 1 =>
              /\ runbook.steps[completed[m]].id = step.id =>
                   Cardinality(AfterOfId(runbook, completed, k, step.id)) =
                     Cardinality(AfterOfId(runbook, completed, m, step.id)) + 1
              /\ runbook.steps[completed[m]].id # step.id =>
                   Cardinality(AfterOfId(runbook, completed, k, step.id)) =
                     Cardinality(AfterOfId(runbook, completed, m, step.id))
        BY <4>1, AfterOfIdCounts
      <4>3. Cardinality(AfterOfId(runbook, completed, m, step.id)) \in Nat
        BY <4>1, AfterOfIdCounts
      <4> QED BY <4>2, <4>3
    <3>3. Cardinality(OfId(runbook, Reversed, step.id)) \in Nat
      <4>1. \E e : e \in WorldEffect
        <5>1. [execution |-> 0, kind |-> "done", step |-> 0] \in WorldEffect
          BY DEF WorldEffect
        <5> QED BY <5>1
      <4> QED BY <1>7, <4>1, OfIdCounts
    <3> QED BY <3>1, <3>2, <3>3
  <2> QED BY <1>1, <1>2, <1>4, <2>1 DEF ReversedWereDealtWith
<1>9. RollbackOkMeansNoneLeft'
  <2> SUFFICES ASSUME DistinctIds(runbook)
               PROVE  rollback_ok <=> LeftInPlace(runbook, completed, m - 1, Reversed) = {}
    BY <1>1, <1>2, <1>4 DEF RollbackOkMeansNoneLeft
  <2>1. rollback_ok <=> LeftInPlace(runbook, completed, m, Reversed) = {}
    BY <1>1 DEF WorldInv, RollbackOkMeansNoneLeft, m
  <2>2. ~Reversible(runbook, completed[m])
    BY <1>1, <1>2, <1>7, PassedOverFacts
  <2>3. LeftInPlace(runbook, completed, m - 1, Reversed) = LeftInPlace(runbook, completed, m, Reversed)
    <3>1. m \in Nat /\ m # 0 /\ Len(completed) \in Nat /\ m <= Len(completed)
      BY <1>2, <1>7
    <3>2. \A k : k = m - 1 => LeftInPlace(runbook, completed, k, Reversed) =
                                LeftInPlace(runbook, completed, m, Reversed)
      BY <2>2, <3>1, LeftGrows
    <3> QED BY <3>2
  <2> QED BY <2>1, <2>3
<1> QED BY <1>3, <1>5, <1>6, <1>8, <1>9 DEF WorldInv

\* It calls a handler, which reverses the step or leaves it in place.
LEMMA CallWorld ==
    ASSUME IInv, WorldInv, NEW outcome \in {"rolled_back", "failed"}, NEW event,
           RollbackCalls(outcome, event)
    PROVE  WorldInv'
<1> DEFINE m == Len(pending)  i == Last(pending)  h == HandlerOf(i)
           e == Effect("reversed", h)
<1>1. /\ AtRollback /\ ~PassedOver(i) /\ h # 0 /\ pending' = Front(pending)
      /\ UNCHANGED <<dry_run, runbook, phase, completed, executions, started>>
      /\ phase = "rolling_back"
      /\ rollback_ok' = (rollback_ok /\ outcome = "rolled_back")
      /\ effects' = IF outcome = "rolled_back" THEN Append(effects, e) ELSE effects
  BY DEF RollbackCalls, AtRollback, PassedOver, StillOk
<1>2. /\ m \in Nat /\ m # 0 /\ m <= Len(completed) /\ i = completed[m]
      /\ i \in 1..Len(runbook.steps) /\ Len(pending') = m - 1 /\ IsBeginning(pending', completed')
      /\ \A n \in 1..Len(pending') : /\ n \in 1..Len(pending) /\ pending'[n] = pending[n]
                                     /\ pending'[n] < i
  BY <1>1, NextToReverse
<1>3. /\ completed \in Seq(1..Len(records)) /\ Len(completed) \in Nat /\ RunbookShape(runbook)
      /\ Reversed \in Seq(WorldEffect) /\ Len(Reversed) \in Nat /\ started \in Nat
      /\ effects \in Seq(WorldEffect) /\ Len(runbook.steps) \in Nat
  BY Bounds
<1>4. h \in 1..Len(runbook.steps) /\ runbook.steps[h].id = runbook.steps[i].id
  BY <1>1, <1>2, <1>3, HandlerFacts
<1>5. e \in WorldEffect /\ e.execution = started /\ e.kind = "reversed" /\ e.step = h
  BY <1>3, <1>4 DEF Effect, WorldEffect
<1>6. ~dry_run
  BY <1>1 DEF WorldInv, RollbackOrder
<1>7. DistinctIds(runbook) => h = i /\ Reversible(runbook, i)
  <2>1. DistinctIds(runbook) => h = i
    BY <1>1, <1>2, <1>3, HandlerFacts
  <2>2. DistinctIds(runbook) => Reversible(runbook, i)
    BY <1>1, <1>2, <1>3, PassedOverFacts
  <2> QED BY <2>1, <2>2
<1> HIDE DEF m, i, h, e
<1>8. KeptAreOver' /\ PhaseTellsTheWorld' /\ EffectsSound'
  BY <1>1, <1>5, KeptStay
<1>9. /\ outcome = "rolled_back" => Reversed' = Append(Reversed, e)
      /\ outcome # "rolled_back" => Reversed' = Reversed
      /\ Done' = Done
  <2>1. /\ Steps(Append(effects, e), started, "reversed") = Append(Steps(effects, started, "reversed"), e)
        /\ Steps(Append(effects, e), started, "done") = Steps(effects, started, "done")
    <3>1. e.kind # "done"
      BY <1>5
    <3>2. Steps(Append(effects, e), started, "reversed") = Append(Steps(effects, started, "reversed"), e)
      BY <1>3, <1>5, StepsGrow
    <3>3. Steps(Append(effects, e), started, "done") = Steps(effects, started, "done")
      BY <1>3, <1>5, <3>1, StepsGrow
    <3> QED BY <3>2, <3>3
  <2> QED BY <1>1, <2>1 DEF Done, Reversed
<1>10. RollbackOrder' /\ DoneAsCompleted' /\ dry_run' \in BOOLEAN
  BY <1>1, <1>2, <1>6, <1>9 DEF WorldInv, RollbackOrder, DoneAsCompleted
<1>11. /\ Append(Reversed, e) \in Seq(WorldEffect)
       /\ Len(Append(Reversed, e)) = Len(Reversed) + 1
       /\ (\A j \in 1..Len(Reversed) : Append(Reversed, e)[j] = Reversed[j])
       /\ Append(Reversed, e)[Len(Reversed) + 1] = e
  BY <1>3, <1>5, AppendProperties
<1>12. ASSUME DistinctIds(runbook) PROVE \A j \in 1..Len(Reversed) : Reversed[j].step > i
  <2>1. m \in 1..Len(pending) /\ pending[m] = i
    BY <1>2 DEF m, i, Last
  <2> QED BY <1>12, <2>1 DEF WorldInv, ReversedDownwards, GoesDown
<1>13. ReversedDownwards'
  <2> SUFFICES ASSUME DistinctIds(runbook) PROVE GoesDown(Reversed', pending')
    BY <1>1 DEF ReversedDownwards
  <2>1. GoesDown(Reversed, pending)
    BY DEF WorldInv, ReversedDownwards
  <2>2. GoesDown(Reversed, pending')
    BY <1>2, <2>1 DEF GoesDown
  <2>3. CASE outcome # "rolled_back"
    BY <1>9, <2>2, <2>3
  <2>4. CASE outcome = "rolled_back"
    <3> DEFINE longer == Append(Reversed, e)
    <3>1. /\ Len(longer) = Len(Reversed) + 1 /\ \A j \in 1..Len(Reversed) : longer[j] = Reversed[j]
          /\ longer[Len(Reversed) + 1].step = i
      BY <1>5, <1>7, <1>11
    <3> HIDE DEF longer
    <3>2. \A j \in 1..Len(longer) : j \in 1..Len(Reversed) \/ j = Len(Reversed) + 1
      BY <1>3, <3>1
    <3>3. ASSUME NEW j \in 1..Len(longer), NEW k \in 1..Len(longer), j < k
          PROVE  longer[j].step > longer[k].step
      <4>1. j \in 1..Len(Reversed)
        BY <1>3, <3>1, <3>3
      <4>2. CASE k \in 1..Len(Reversed)
        BY <2>1, <3>1, <3>3, <4>1, <4>2 DEF GoesDown
      <4>3. CASE k = Len(Reversed) + 1
        BY <1>12, <3>1, <4>1, <4>3
      <4> QED BY <3>2, <4>2, <4>3
    <3>4. ASSUME NEW j \in 1..Len(longer), NEW n \in 1..Len(pending')
          PROVE  longer[j].step > pending'[n]
      <4>1. CASE j \in 1..Len(Reversed)
        BY <2>2, <3>1, <4>1 DEF GoesDown
      <4>2. CASE j = Len(Reversed) + 1
        <5>1. pending'[n] < i /\ i \in Nat /\ pending'[n] \in Nat
          <6>1. pending'[n] \in Nat
            <7>1. n \in 1..Len(pending) /\ pending'[n] = pending[n]
              BY <1>2
            <7>2. pending[n] \in 1..Len(records)
              BY <7>1, ElementOfSeq, Bounds
            <7> QED BY <7>1, <7>2
          <6> QED BY <1>2, <6>1
        <5> QED BY <3>1, <4>2, <5>1
      <4> QED BY <3>2, <4>1, <4>2
    <3>5. GoesDown(longer, pending')
      BY <3>3, <3>4 DEF GoesDown
    <3> QED BY <1>9, <2>4, <3>5 DEF longer
  <2> QED BY <2>3, <2>4
<1>14. ReversedWereDealtWith'
  <2>1. ASSUME NEW step \in ToSet(runbook.steps)
        PROVE  Cardinality(OfId(runbook, Reversed', step.id))
                 <= Cardinality(AfterOfId(runbook, completed, m - 1, step.id))
    <3>1. Cardinality(OfId(runbook, Reversed, step.id))
            <= Cardinality(AfterOfId(runbook, completed, m, step.id))
      BY DEF WorldInv, ReversedWereDealtWith, m
    <3>2. /\ Cardinality(AfterOfId(runbook, completed, m, step.id)) \in Nat
          /\ runbook.steps[completed[m]].id = step.id =>
               Cardinality(AfterOfId(runbook, completed, m - 1, step.id)) =
                 Cardinality(AfterOfId(runbook, completed, m, step.id)) + 1
          /\ runbook.steps[completed[m]].id # step.id =>
               Cardinality(AfterOfId(runbook, completed, m - 1, step.id)) =
                 Cardinality(AfterOfId(runbook, completed, m, step.id))
      <4>1. /\ completed \in Seq(1..Len(records)) /\ m \in Nat /\ m # 0
            /\ m <= Len(completed)
        BY <1>2, <1>3
      <4>2. \A k : k = m - 1 =>
              /\ runbook.steps[completed[m]].id = step.id =>
                   Cardinality(AfterOfId(runbook, completed, k, step.id)) =
                     Cardinality(AfterOfId(runbook, completed, m, step.id)) + 1
              /\ runbook.steps[completed[m]].id # step.id =>
                   Cardinality(AfterOfId(runbook, completed, k, step.id)) =
                     Cardinality(AfterOfId(runbook, completed, m, step.id))
        BY <4>1, AfterOfIdCounts
      <4>3. Cardinality(AfterOfId(runbook, completed, m, step.id)) \in Nat
        BY <4>1, AfterOfIdCounts
      <4> QED BY <4>2, <4>3
    <3>3. /\ Cardinality(OfId(runbook, Reversed, step.id)) \in Nat
          /\ Cardinality(OfId(runbook, Append(Reversed, e), step.id)) =
               Cardinality(OfId(runbook, Reversed, step.id))
                 + (IF runbook.steps[e.step].id = step.id THEN 1 ELSE 0)
      BY <1>3, <1>5, OfIdCounts
    <3>4. runbook.steps[e.step].id = runbook.steps[completed[m]].id
      BY <1>2, <1>4, <1>5
    <3>5. CASE outcome = "rolled_back"
      <4>1. Reversed' = Append(Reversed, e)
        BY <1>9, <3>5
      <4> QED BY <3>1, <3>2, <3>3, <3>4, <4>1
    <3>6. CASE outcome # "rolled_back"
      <4>1. Reversed' = Reversed
        BY <1>9, <3>6
      <4> QED BY <3>1, <3>2, <3>3, <4>1
    <3> QED BY <3>5, <3>6
  <2> QED BY <1>1, <1>2, <2>1 DEF ReversedWereDealtWith
<1>15. RollbackOkMeansNoneLeft'
  <2> SUFFICES ASSUME DistinctIds(runbook)
               PROVE  rollback_ok' <=> LeftInPlace(runbook, completed, m - 1, Reversed') = {}
    BY <1>1, <1>2 DEF RollbackOkMeansNoneLeft
  <2>1. rollback_ok <=> LeftInPlace(runbook, completed, m, Reversed) = {}
    BY <1>1 DEF WorldInv, RollbackOkMeansNoneLeft, m
  <2>2. CASE outcome # "rolled_back"
    <3>1. \A j \in 1..Len(Reversed) : Reversed[j].step # completed[m]
      <4>1. i \in Nat /\ \A j \in 1..Len(Reversed) : Reversed[j].step \in Nat
        <5>1. \A j \in 1..Len(Reversed) : Reversed[j] \in WorldEffect
          BY <1>3, ElementOfSeq
        <5>2. i \in Nat
          BY <1>2, <1>3
        <5> QED BY <5>1, <5>2 DEF WorldEffect
      <4> QED BY <1>2, <1>12, <4>1
    <3>2. m \in LeftInPlace(runbook, completed, m - 1, Reversed)
      BY <1>2, <1>3, <1>7, <3>1 DEF LeftInPlace
    <3>3. ~rollback_ok'
      BY <1>1, <2>2
    <3> QED BY <1>9, <2>2, <3>2, <3>3
  <2>3. CASE outcome = "rolled_back"
    <3> DEFINE longer == Append(Reversed, e)
    <3>1. /\ Len(longer) = Len(Reversed) + 1 /\ \A j \in 1..Len(Reversed) : longer[j] = Reversed[j]
          /\ longer[Len(Reversed) + 1].step = completed[m]
      BY <1>2, <1>5, <1>7, <1>11
    <3> HIDE DEF longer
    <3>2. /\ 1..Len(longer) = (1..Len(Reversed)) \cup {Len(Reversed) + 1}
          /\ (m - 1 + 1)..Len(completed) = {m} \cup ((m + 1)..Len(completed))
      BY <1>2, <1>3, <3>1
    <3>3. \A n \in (m + 1)..Len(completed) : completed[n] # completed[m]
      <4>1. ASSUME NEW n \in (m + 1)..Len(completed) PROVE completed[m] < completed[n]
        <5>1. m \in 1..Len(completed) /\ n \in 1..Len(completed) /\ m < n
          BY <1>2, <1>3
        <5> QED BY <5>1 DEF WorldInv, RollbackOrder, Increasing
      <4>2. \A n \in (m + 1)..Len(completed) : completed[n] \in Nat
        <5>1. \A n \in 1..Len(completed) : completed[n] \in Nat
          BY Bounds
        <5>2. \A n \in (m + 1)..Len(completed) : n \in 1..Len(completed)
          BY <1>2, <1>3
        <5> QED BY <5>1, <5>2
      <4>3. completed[m] \in Nat
        BY <1>2
      <4> QED BY <4>1, <4>2, <4>3
    <3>4. m \notin LeftInPlace(runbook, completed, m - 1, longer)
      BY <3>1, <3>2 DEF LeftInPlace
    <3>5. LeftInPlace(runbook, completed, m - 1, longer) = LeftInPlace(runbook, completed, m, Reversed)
      BY <3>1, <3>2, <3>3, <3>4 DEF LeftInPlace
    <3>6. rollback_ok' = rollback_ok /\ Reversed' = longer
      <4>1. rollback_ok \in BOOLEAN
        BY DEF IInv, TypeOK
      <4>2. rollback_ok' <=> rollback_ok
        BY <1>1, <2>3
      <4>3. Reversed' = longer
        BY <1>9, <2>3 DEF longer
      <4>4. rollback_ok' \in BOOLEAN
        BY <1>1
      <4> QED BY <4>1, <4>2, <4>3, <4>4
    <3> QED BY <2>1, <3>5, <3>6
  <2> QED BY <2>2, <2>3
<1> QED BY <1>8, <1>10, <1>13, <1>14, <1>15 DEF WorldInv

\* Effects that a handler or an action had when an interrupt tore it.
LEMMA TornEffect ==
    ASSUME IInv, WorldInv, NEW effect, Interrupted(effect)
    PROVE  \/ effects' = effects
           \/ \E e \in WorldEffect : /\ e.execution = started /\ e.kind = "torn"
                                     /\ effects' = Append(effects, e)
<1>0. effects \in Seq(WorldEffect) /\ started \in Nat
  BY Bounds
<1>1. effects \o <<>> = effects
  BY <1>0, ConcatEmptySeq
<1>2. ASSUME NEW i \in Nat
      PROVE  \E e \in WorldEffect : /\ e.execution = started /\ e.kind = "torn"
                                    /\ effects \o <<Effect("torn", i)>> = Append(effects, e)
  <2> DEFINE e == Effect("torn", i)
  <2>1. e \in WorldEffect /\ e.execution = started /\ e.kind = "torn"
    BY <1>0 DEF Effect, WorldEffect
  <2> HIDE DEF e
  <2>2. effects \o <<e>> = Append(effects, e)
    BY <1>0, <2>1, AppendIsConcat
  <2> QED BY <2>1, <2>2 DEF e
<1>3. effect = <<>> \/ \E i \in Nat : effect = <<Effect("torn", i)>>
  <2>1. At \in Nat
    BY Bounds DEF At
  <2>2. AtRollback /\ ~PassedOver(Last(pending)) => HandlerOf(Last(pending)) \in Nat
    <3> SUFFICES ASSUME AtRollback, ~PassedOver(Last(pending)) PROVE HandlerOf(Last(pending)) \in Nat
      OBVIOUS
    <3>1. Last(pending) \in 1..Len(runbook.steps)
      <4>1. pending \in Seq(1..Len(records)) /\ pending # <<>>
        BY Bounds DEF AtRollback
      <4>2. Last(pending) \in 1..Len(records)
        BY <4>1, FrontFacts
      <4> QED BY <4>2, Bounds
    <3>2. HandlerOf(Last(pending)) # 0
      BY DEF PassedOver
    <3>3. HandlerOf(Last(pending)) \in 1..Len(runbook.steps)
      BY <3>1, <3>2, Bounds, HandlerFacts
    <3> QED BY <3>3
  <2> QED BY <2>1, <2>2 DEF Interrupted
<1>4. effects' = effects \o effect
  BY DEF Interrupted
<1> QED BY <1>1, <1>2, <1>3, <1>4

LEMMA TornWorld ==
    ASSUME IInv, WorldInv, NEW effect, Interrupted(effect)
    PROVE  WorldInv'
<1>1. /\ phase # "idle" /\ phase' = "idle"
      /\ UNCHANGED <<dry_run, runbook, completed, pending, rollback_ok, executions, started>>
  BY DEF Interrupted, AtStep, AtRollback
<1>2. effects \in Seq(WorldEffect) /\ started \in Nat
  BY Bounds
<1>3. \/ effects' = effects
      \/ \E e \in WorldEffect : /\ e.execution = started /\ e.kind = "torn"
                                /\ effects' = Append(effects, e)
  BY TornEffect
<1>4. KeptAreOver' /\ PhaseTellsTheWorld' /\ EffectsSound'
  BY <1>1, <1>3, KeptStay
<1>5. Done' = Done /\ Reversed' = Reversed
  <2>1. ASSUME NEW e \in WorldEffect, e.kind = "torn", NEW kind \in {"done", "reversed"}
        PROVE  Steps(Append(effects, e), started, kind) = Steps(effects, started, kind)
    <3>1. ~(e.execution = started /\ e.kind = kind)
      BY <2>1
    <3> QED BY <1>2, <3>1, StepsGrow
  <2>2. ASSUME NEW kind \in {"done", "reversed"}
        PROVE  Steps(effects', started, kind) = Steps(effects, started, kind)
    BY <1>3, <2>1
  <2> QED BY <1>1, <2>2 DEF Done, Reversed
<1> QED BY <1>1, <1>4, <1>5 DEF WorldInv, RollbackOrder, DoneAsCompleted, ReversedDownwards,
           ReversedWereDealtWith, RollbackOkMeansNoneLeft

\* What a rollback leaves behind when it ends is what its result says.
LEMMA RollbackEndsTruly ==
    ASSUME IInv, WorldInv, RollbackEnds
    PROVE  ToldRight(effects, Result(IF rollback_ok THEN "completed" ELSE "aborted", TRUE))
<1> DEFINE result == Result(IF rollback_ok THEN "completed" ELSE "aborted", TRUE)
           InPlace == {i \in 1..Len(runbook.steps) :
                         /\ Reversible(runbook, i)
                         /\ \E e \in ToSet(Done) : e.step = i
                         /\ \A e \in ToSet(Reversed) : e.step # i}
           Left == LeftInPlace(runbook, completed, 0, Reversed)
<1>1. /\ result.runbook = runbook /\ result.execution = started
      /\ result.phase = "completed" <=> rollback_ok
  BY DEF Result
<1>2. phase = "rolling_back" /\ Len(pending) = 0
  BY EmptySeq DEF RollbackEnds
<1>3. /\ Done \in Seq(WorldEffect) /\ Reversed \in Seq(WorldEffect)
      /\ Len(Done) \in Nat /\ Len(Reversed) \in Nat /\ Len(completed) \in Nat
      /\ \A n \in 1..Len(completed) : completed[n] \in 1..Len(runbook.steps)
  BY Bounds
<1>4. Len(Done) = Len(completed) /\ \A n \in 1..Len(completed) : Done[n].step = completed[n]
  BY <1>2 DEF WorldInv, RollbackOrder, DoneAsCompleted
<1>5. /\ ToSet(Done) = {Done[n] : n \in 1..Len(Done)}
      /\ ToSet(Reversed) = {Reversed[n] : n \in 1..Len(Reversed)}
  BY <1>3 DEF ToSet
<1>6. ASSUME DistinctIds(runbook) PROVE rollback_ok <=> InPlace = {}
  <2>1. rollback_ok <=> Left = {}
    BY <1>2, <1>6 DEF WorldInv, RollbackOkMeansNoneLeft
  <2>2. ASSUME NEW n \in Left PROVE completed[n] \in InPlace
    <3>1. n \in 1..Len(completed)
      BY <1>3 DEF LeftInPlace
    <3>2. Reversible(runbook, completed[n])
          /\ \A i \in 1..Len(Reversed) : Reversed[i].step # completed[n]
      BY DEF LeftInPlace
    <3>3. Done[n] \in ToSet(Done) /\ Done[n].step = completed[n]
      BY <1>4, <1>5, <3>1
    <3>4. \A e \in ToSet(Reversed) : e.step # completed[n]
      BY <1>5, <3>2
    <3> QED BY <1>3, <3>1, <3>2, <3>3, <3>4
  <2>3. ASSUME NEW i \in InPlace PROVE \E n \in Left : TRUE
    <3>1. PICK n \in 1..Len(completed) : completed[n] = i
      <4>1. PICK e \in ToSet(Done) : e.step = i
        OBVIOUS
      <4>2. PICK n \in 1..Len(Done) : Done[n] = e
        BY <1>5, <4>1
      <4> QED BY <1>4, <4>1, <4>2
    <3>2. \A j \in 1..Len(Reversed) : Reversed[j].step # i
      BY <1>5
    <3>3. n \in (0 + 1)..Len(completed)
      BY <1>3
    <3>4. n \in Left
      BY <3>1, <3>2, <3>3 DEF LeftInPlace
    <3> QED BY <3>4
  <2> HIDE DEF Left, InPlace
  <2>4. Left = {} <=> InPlace = {}
    BY <2>2, <2>3
  <2> QED BY <2>1, <2>4
<1> HIDE DEF result
<1>7. ToldRight(effects, result)
  BY <1>1, <1>6 DEF ToldRight, Done, Reversed
<1> QED BY <1>7 DEF result

\* execute() returns, and its result is kept.
LEMMA ReturnWorld ==
    ASSUME IInv, WorldInv, phase # "idle", phase' = "idle", NEW result \in KeptResult,
           result.execution = started, ToldRight(effects, result),
           executions' = Append(executions, result),
           UNCHANGED <<dry_run, runbook, completed, pending, rollback_ok, started, effects>>
    PROVE  WorldInv'
<1>1. Done' = Done /\ Reversed' = Reversed
  BY DEF Done, Reversed
<1>2. EffectsSound' /\ RollbackOrder' /\ DoneAsCompleted' /\ ReversedDownwards'
      /\ ReversedWereDealtWith' /\ RollbackOkMeansNoneLeft' /\ dry_run' \in BOOLEAN
  BY <1>1 DEF WorldInv, EffectsSound, RollbackOrder, DoneAsCompleted, ReversedDownwards,
              ReversedWereDealtWith, RollbackOkMeansNoneLeft
<1>3. /\ executions \in Seq(KeptResult) /\ Len(executions) \in Nat /\ started \in Nat
      /\ Len(executions') = Len(executions) + 1
      /\ (\A k \in 1..Len(executions) : executions'[k] = executions[k])
      /\ executions'[Len(executions) + 1] = result
  <2>1. executions \in Seq(KeptResult) /\ started \in Nat
    BY DEF IInv
  <2> QED BY <2>1, AppendProperties, LenProperties
<1>4. \A k \in 1..Len(executions') : k \in 1..Len(executions) \/ k = Len(executions) + 1
  BY <1>3
<1>5. PhaseTellsTheWorld'
  <2>1. \A k \in 1..Len(executions) : ToldRight(effects, executions[k])
    BY PhaseForm DEF WorldInv
  <2>2. \A k \in 1..Len(executions') : ToldRight(effects', executions'[k])
    BY <1>3, <1>4, <2>1
  <2> QED BY <2>2 DEF PhaseTellsTheWorld, ToldRight
<1>6. KeptAreOver'
  <2>1. \A k \in 1..Len(executions) : executions[k].execution <= started
    BY DEF WorldInv, KeptAreOver
  <2> QED BY <1>3, <1>4, <2>1 DEF KeptAreOver
<1> QED BY <1>2, <1>5, <1>6 DEF WorldInv

LEMMA NextWorld == IInv /\ WorldInv /\ [Next]_vars => WorldInv'
<1> SUFFICES ASSUME IInv, WorldInv, [Next]_vars PROVE WorldInv'
  OBVIOUS
<1>1. ASSUME NEW r \in Runbooks, Execute(r) PROVE WorldInv'
  BY <1>1, ExecuteWorld
<1>2. CASE StepDryRun
  BY <1>2, SuccessWorld DEF StepDryRun
<1>3. CASE StepSucceeds
  BY <1>3, SuccessWorld DEF StepSucceeds
<1>4. ASSUME NEW event \in {"step_failed", "step_exception"}, StepFails(event) PROVE WorldInv'
  BY <1>4, FailureWorld
<1>5. CASE RollbackSkips
  BY <1>5, SkipWorld
<1>6. CASE \/ RollbackCalls("rolled_back", "rollback_completed")
           \/ RollbackCalls("failed", "rollback_completed")
           \/ RollbackCalls("failed", "rollback_exception")
  BY <1>6, CallWorld
<1>7. ASSUME NEW final \in {"completed", "aborted"}, NEW aborted \in BOOLEAN
      PROVE  /\ Result(final, aborted) \in KeptResult
             /\ Result(final, aborted).execution = started
             /\ Result(final, aborted).aborted = aborted
  BY <1>7, ResultType DEF Result
<1>8. CASE RollbackEnds
  <2> DEFINE result == Result(IF rollback_ok THEN "completed" ELSE "aborted", TRUE)
  <2>1. result \in KeptResult /\ result.execution = started
    BY <1>7
  <2>2. ToldRight(effects, result)
    BY <1>8, RollbackEndsTruly
  <2>3. /\ phase # "idle" /\ phase' = "idle" /\ executions' = Append(executions, result)
        /\ UNCHANGED <<dry_run, runbook, completed, pending, rollback_ok, started, effects>>
    BY <1>8 DEF RollbackEnds
  <2> HIDE DEF result
  <2> QED BY <2>1, <2>2, <2>3, ReturnWorld
<1>9. CASE ExecutionCompletes
  <2> DEFINE result == Result("completed", FALSE)
  <2>1. result \in KeptResult /\ result.execution = started /\ result.aborted = FALSE
    BY <1>7
  <2>2. /\ phase # "idle" /\ phase' = "idle" /\ executions' = Append(executions, result)
        /\ UNCHANGED <<dry_run, runbook, completed, pending, rollback_ok, started, effects>>
    BY <1>9 DEF ExecutionCompletes
  <2> HIDE DEF result
  <2>3. ToldRight(effects, result)
    BY <2>1 DEF ToldRight
  <2> QED BY <2>1, <2>2, <2>3, ReturnWorld
<1>10. ASSUME NEW effect, Interrupted(effect) PROVE WorldInv'
  BY <1>10, TornWorld
<1>11. CASE UNCHANGED vars
  BY <1>11 DEF vars, WorldInv, EffectsSound, RollbackOrder, DoneAsCompleted, ReversedDownwards,
              ReversedWereDealtWith, RollbackOkMeansNoneLeft, KeptAreOver, PhaseTellsTheWorld,
              Done, Reversed
<1> QED BY <1>1, <1>2, <1>3, <1>4, <1>5, <1>6, <1>8, <1>9, <1>10, <1>11 DEF Next, Progress

LEMMA WorldInvariance == Spec => []WorldInv
<1>1. Init => WorldInv
  BY InitWorld
<1>2. IInv /\ WorldInv /\ [Next]_vars => WorldInv'
  BY NextWorld
<1> QED BY <1>1, <1>2, Invariance, PTL DEF Spec

\* Reversals run in the opposite order of the actions where step ids are distinct,
\* and where they are not, those of an id run no more often than steps of that id
\* were done (_rollback_steps and the handlers keyed by step id).
THEOREM ReversalsAreLifo == Spec => []ReversedInLifoOrder
<1>1. ASSUME IInv, WorldInv PROVE ReversedInLifoOrder
  <2> DEFINE Of(kind, id) == {i \in 1..Len(kind) : runbook.steps[kind[i].step].id = id}
  <2>1. DistinctIds(runbook) =>
          \A i, j \in 1..Len(Reversed) : i < j => Reversed[i].step > Reversed[j].step
    BY <1>1 DEF WorldInv, ReversedDownwards, GoesDown
  <2>2. ASSUME NEW step \in ToSet(runbook.steps)
        PROVE  Cardinality(Of(Reversed, step.id)) <= Cardinality(Of(Done, step.id))
    <3>1. Cardinality(OfId(runbook, Reversed, step.id))
            <= Cardinality(AfterOfId(runbook, completed, Len(pending), step.id))
      BY <1>1 DEF WorldInv, ReversedWereDealtWith
    <3>2. /\ Done \in Seq(WorldEffect) /\ Reversed \in Seq(WorldEffect)
          /\ completed \in Seq(1..Len(records)) /\ Len(pending) \in Nat
          /\ Len(Done) \in Nat /\ Len(Reversed) \in Nat /\ Len(completed) \in Nat
      BY <1>1, Bounds
    <3>3. /\ Cardinality(OfId(runbook, Reversed, step.id)) \in Nat
          /\ Reversed = <<>> => Cardinality(OfId(runbook, Reversed, step.id)) = 0
          /\ Cardinality(OfId(runbook, Done, step.id)) \in Nat
      <4>1. [execution |-> 0, kind |-> "done", step |-> 0] \in WorldEffect
        BY DEF WorldEffect
      <4> QED BY <3>2, <4>1, OfIdCounts
    <3>4. CASE dry_run
      <4>1. Reversed = <<>>
        BY <1>1, <3>4 DEF WorldInv, RollbackOrder
      <4> QED BY <3>3, <4>1 DEF OfId
    <3>5. CASE ~dry_run
      <4>1. Len(Done) = Len(completed) /\ \A n \in 1..Len(completed) : Done[n].step = completed[n]
        BY <1>1, <3>5 DEF WorldInv, DoneAsCompleted
      <4>2. AfterOfId(runbook, completed, Len(pending), step.id) \in SUBSET OfId(runbook, Done, step.id)
        <5>1. \A n \in (Len(pending) + 1)..Len(completed) : n \in 1..Len(completed)
          BY <3>2
        <5> QED BY <4>1, <5>1 DEF AfterOfId, OfId
      <4>3. IsFiniteSet(OfId(runbook, Done, step.id))
        <5>1. IsFiniteSet(1..Len(Done)) /\ OfId(runbook, Done, step.id) \in SUBSET (1..Len(Done))
          BY <3>2, FS_Interval DEF OfId
        <5> QED BY <5>1, FS_Subset
      <4>4. /\ Cardinality(AfterOfId(runbook, completed, Len(pending), step.id))
                 <= Cardinality(OfId(runbook, Done, step.id))
            /\ Cardinality(AfterOfId(runbook, completed, Len(pending), step.id)) \in Nat
        BY <4>2, <4>3, FS_Subset, FS_CardinalityType
      <4>5. Cardinality(OfId(runbook, Reversed, step.id)) <= Cardinality(OfId(runbook, Done, step.id))
        BY <3>1, <3>3, <4>4
      <4> QED BY <4>5 DEF OfId
    <3> QED BY <3>4, <3>5, <1>1 DEF WorldInv
  <2> QED BY <2>1, <2>2 DEF ReversedInLifoOrder, Done, Reversed
<1> QED BY <1>1, Invariance, WorldInvariance, PTL

\* A result that says COMPLETED after a critical failure is of an execution that
\* reversed all it had done and may reverse, one that says ABORTED is not (the
\* phase execute() takes from all_succeeded of _rollback_steps).
THEOREM PhaseIsTrue == Spec => []PhaseTellsTheWorld
<1>1. WorldInv => PhaseTellsTheWorld
  BY DEF WorldInv
<1> QED BY <1>1, WorldInvariance, PTL

-----------------------------------------------------------------------------
(* The audit trail *)

ToldOf == {e \in AuditEntry : TellsOfEffect(e)}
HappenedOf == {e \in WorldEffect : e.kind # "torn"}

\* An audit entry tells of an effect.
Tells(entry, e) ==
    /\ entry.execution = e.execution
    /\ entry.event = "step_completed" <=> e.kind = "done"
    /\ e.kind = "done" => entry.step = e.step

AuditInv == audit \in Seq(AuditEntry) /\ AuditTellsEffects

LEMMA AuditForm ==
    AuditTellsEffects <=>
        /\ Len(Those(audit, ToldOf)) = Len(Those(effects, HappenedOf))
        /\ \A i \in 1..Len(Those(audit, ToldOf)) :
             Tells(Those(audit, ToldOf)[i], Those(effects, HappenedOf)[i])
  BY DEF AuditTellsEffects, ToldOf, HappenedOf, Tells

\* The trail and the effects stay of one story when each is told of the other.
LEMMA BothTold ==
    ASSUME AuditInv, EffectsSound, NEW entry \in ToldOf, NEW e \in HappenedOf, Tells(entry, e),
           audit' = Append(audit, entry), effects' = Append(effects, e)
    PROVE  AuditInv'
<1> DEFINE told == Those(audit, ToldOf)  happened == Those(effects, HappenedOf)
<1>1. /\ audit \in Seq(AuditEntry) /\ effects \in Seq(WorldEffect)
      /\ entry \in AuditEntry /\ e \in WorldEffect
  BY DEF AuditInv, EffectsSound, ToldOf, HappenedOf
<1>2. Those(audit', ToldOf) = Append(told, entry) /\ Those(effects', HappenedOf) = Append(happened, e)
  BY <1>1, ThoseOfAppend
<1>3. told \in Seq(AuditEntry) /\ happened \in Seq(WorldEffect) /\ Len(told) \in Nat
  BY <1>1, ThoseType
<1>4. Len(told) = Len(happened) /\ \A i \in 1..Len(told) : Tells(told[i], happened[i])
  BY AuditForm DEF AuditInv
<1> HIDE DEF told, happened
<1>5. /\ Len(Append(told, entry)) = Len(told) + 1 /\ Len(Append(happened, e)) = Len(told) + 1
      /\ Append(told, entry)[Len(told) + 1] = entry /\ Append(happened, e)[Len(told) + 1] = e
      /\ \A i \in 1..Len(told) : Append(told, entry)[i] = told[i] /\ Append(happened, e)[i] = happened[i]
  BY <1>1, <1>3, <1>4, AppendProperties
<1>6. ASSUME NEW i \in 1..Len(Append(told, entry))
      PROVE  Tells(Append(told, entry)[i], Append(happened, e)[i])
  <2>1. i \in 1..Len(told) \/ i = Len(told) + 1
    BY <1>3, <1>5
  <2> QED BY <1>4, <1>5, <2>1
<1>7. audit' \in Seq(AuditEntry)
  BY <1>1, AppendProperties
<1>8. AuditTellsEffects'
  <2>1. Len(Those(audit', ToldOf)) = Len(Those(effects', HappenedOf))
    BY <1>2, <1>5
  <2>2. \A i \in 1..Len(Those(audit', ToldOf)) :
          Tells(Those(audit', ToldOf)[i], Those(effects', HappenedOf)[i])
    BY <1>2, <1>6
  <2> QED BY <2>1, <2>2 DEF AuditTellsEffects, ToldOf, HappenedOf, Tells
<1> QED BY <1>7, <1>8 DEF AuditInv

\* Entries that tell of no effect, and effects that are torn, make no difference.
LEMMA NoneTold ==
    ASSUME AuditInv, EffectsSound,
           \/ audit' = audit
           \/ \E a \in AuditEntry \ ToldOf : audit' = Append(audit, a)
           \/ \E a, b \in AuditEntry \ ToldOf : audit' = Append(Append(audit, a), b),
           \/ effects' = effects
           \/ \E e \in WorldEffect \ HappenedOf : effects' = Append(effects, e)
    PROVE  AuditInv'
<1>1. audit \in Seq(AuditEntry) /\ effects \in Seq(WorldEffect)
  BY DEF AuditInv, EffectsSound
<1>2. ASSUME NEW trail \in Seq(AuditEntry), NEW a \in AuditEntry \ ToldOf
      PROVE  /\ Append(trail, a) \in Seq(AuditEntry)
             /\ Those(Append(trail, a), ToldOf) = Those(trail, ToldOf)
  <2>1. Those(Append(trail, a), ToldOf) = Those(trail, ToldOf)
    BY ThoseOfAppend
  <2> QED BY <2>1, AppendProperties
<1>3. audit' \in Seq(AuditEntry) /\ Those(audit', ToldOf) = Those(audit, ToldOf)
  <2>1. CASE \E a \in AuditEntry \ ToldOf : audit' = Append(audit, a)
    BY <1>1, <1>2, <2>1
  <2>2. CASE \E a, b \in AuditEntry \ ToldOf : audit' = Append(Append(audit, a), b)
    BY <1>1, <1>2, <2>2
  <2> QED BY <1>1, <2>1, <2>2
<1>4. Those(effects', HappenedOf) = Those(effects, HappenedOf)
  <2>1. ASSUME NEW e \in WorldEffect \ HappenedOf
        PROVE  Those(Append(effects, e), HappenedOf) = Those(effects, HappenedOf)
    BY <1>1, ThoseOfAppend
  <2>2. CASE effects' = effects
    BY <2>2
  <2>3. CASE \E e \in WorldEffect \ HappenedOf : effects' = Append(effects, e)
    BY <2>1, <2>3
  <2> QED BY <2>2, <2>3
<1> QED BY <1>3, <1>4 DEF AuditInv, AuditTellsEffects, ToldOf, HappenedOf

\* The entries of execute(), and which of them tell of an effect.
LEMMA EntryFacts ==
    ASSUME NEW x \in Nat, NEW step \in Nat, NEW event \in AuditEvents,
           NEW outcome \in AuditOutcomes
    PROVE  /\ Entry(x, step, event, outcome) \in AuditEntry
           /\ Entry(x, step, event, outcome) \in ToldOf <=>
                event = "step_completed" \/ (event = "rollback_completed" /\ outcome = "succeeded")
  BY DEF Entry, AuditEntry, ToldOf, TellsOfEffect

LEMMA NextAudit == IInv /\ WorldInv /\ AuditInv /\ [Next]_vars => AuditInv'
<1> SUFFICES ASSUME IInv, WorldInv, AuditInv, [Next]_vars PROVE AuditInv'
  OBVIOUS
<1>0. /\ EffectsSound /\ At \in Nat /\ started \in Nat /\ System \in Nat
      /\ started + 1 \in Nat
  BY Bounds DEF WorldInv, At, System
<1>1. ASSUME NEW r \in Runbooks, Execute(r) PROVE AuditInv'
  <2>1. Entry(started + 1, System, "execution_started", "init") \in AuditEntry \ ToldOf
    BY <1>0, EntryFacts DEF AuditEvents, AuditOutcomes
  <2> QED BY <1>0, <1>1, <2>1, NoneTold DEF Execute
<1>2. CASE StepDryRun
  <2>1. Entry(started, At, "step_dry_run", "succeeded") \in AuditEntry \ ToldOf
    BY <1>0, EntryFacts DEF AuditEvents, AuditOutcomes
  <2> QED BY <1>0, <1>2, <2>1, NoneTold DEF StepDryRun, Audited
<1>3. CASE StepSucceeds
  <2> DEFINE entry == Entry(started, At, "step_completed", "succeeded")  e == Effect("done", At)
  <2>1. entry \in ToldOf
    BY <1>0, EntryFacts DEF AuditEvents, AuditOutcomes
  <2>2. e \in HappenedOf
    BY <1>0 DEF Effect, HappenedOf, WorldEffect
  <2>3. Tells(entry, e)
    BY DEF Tells, Entry, Effect
  <2>4. audit' = Append(audit, entry) /\ effects' = Append(effects, e)
    BY <1>3 DEF StepSucceeds, Audited
  <2> HIDE DEF entry, e
  <2> QED BY <1>0, <2>1, <2>2, <2>3, <2>4, BothTold
<1>4. ASSUME NEW event \in {"step_failed", "step_exception"}, StepFails(event) PROVE AuditInv'
  <2>1. /\ Entry(started, At, event, "failed") \in AuditEntry \ ToldOf
        /\ Entry(started, System, "rollback_started", "rolling_back") \in AuditEntry \ ToldOf
    BY <1>0, EntryFacts DEF AuditEvents, AuditOutcomes
  <2> QED BY <1>0, <1>4, <2>1, NoneTold DEF StepFails, Audited
<1>5. ASSUME AtRollback
      PROVE  /\ Last(pending) \in Nat
             /\ ~PassedOver(Last(pending)) => HandlerOf(Last(pending)) \in Nat
  <2>1. Last(pending) \in 1..Len(runbook.steps)
    <3>1. pending \in Seq(1..Len(records)) /\ pending # <<>>
      BY <1>5, Bounds DEF AtRollback
    <3>2. Last(pending) \in 1..Len(records)
      BY <3>1, FrontFacts
    <3> QED BY <3>2, Bounds
  <2>2. HandlerOf(Last(pending)) # 0 => HandlerOf(Last(pending)) \in 1..Len(runbook.steps)
    BY <2>1, Bounds, HandlerFacts
  <2> QED BY <2>1, <2>2 DEF PassedOver
<1>6. CASE RollbackSkips
  <2>1. Entry(started, Last(pending), "rollback_skipped", "skipped") \in AuditEntry \ ToldOf
    BY <1>0, <1>5, <1>6, EntryFacts DEF RollbackSkips, AuditEvents, AuditOutcomes
  <2> QED BY <1>0, <1>6, <2>1, NoneTold DEF RollbackSkips, Audited
<1>7. CASE RollbackCalls("rolled_back", "rollback_completed")
  <2> DEFINE entry == Entry(started, Last(pending), "rollback_completed", "succeeded")
             e == Effect("reversed", HandlerOf(Last(pending)))
  <2>1. Last(pending) \in Nat /\ HandlerOf(Last(pending)) \in Nat
    BY <1>5, <1>7 DEF RollbackCalls, PassedOver
  <2>2. entry \in ToldOf
    BY <1>0, <2>1, EntryFacts DEF AuditEvents, AuditOutcomes
  <2>3. e \in HappenedOf
    BY <1>0, <2>1 DEF Effect, HappenedOf, WorldEffect
  <2>4. Tells(entry, e)
    BY DEF Tells, Entry, Effect
  <2>5. audit' = Append(audit, entry) /\ effects' = Append(effects, e)
    BY <1>7 DEF RollbackCalls, Audited
  <2> HIDE DEF entry, e
  <2> QED BY <1>0, <2>2, <2>3, <2>4, <2>5, BothTold
<1>8. ASSUME NEW event \in {"rollback_completed", "rollback_exception"},
             RollbackCalls("failed", event)
      PROVE  AuditInv'
  <2>1. Entry(started, Last(pending), event, "failed") \in AuditEntry \ ToldOf
    BY <1>0, <1>5, <1>8, EntryFacts DEF RollbackCalls, AuditEvents, AuditOutcomes
  <2> QED BY <1>0, <1>8, <2>1, NoneTold DEF RollbackCalls, Audited
<1>9. CASE RollbackEnds
  BY <1>0, <1>9, NoneTold DEF RollbackEnds
<1>10. CASE ExecutionCompletes
  <2>1. Entry(started, System, "execution_completed", "completed") \in AuditEntry \ ToldOf
    BY <1>0, EntryFacts DEF AuditEvents, AuditOutcomes
  <2> QED BY <1>0, <1>10, <2>1, NoneTold DEF ExecutionCompletes, Audited
<1>11. ASSUME NEW effect, Interrupted(effect) PROVE AuditInv'
  <2>1. effects' = effects \/ \E e \in WorldEffect \ HappenedOf : effects' = Append(effects, e)
    <3>1. \/ effects' = effects
          \/ \E e \in WorldEffect : /\ e.execution = started /\ e.kind = "torn"
                                    /\ effects' = Append(effects, e)
      BY <1>11, TornEffect
    <3> QED BY <3>1 DEF HappenedOf
  <2>2. audit' = audit
    BY <1>11 DEF Interrupted
  <2> QED BY <1>0, <2>1, <2>2, NoneTold
<1>12. CASE UNCHANGED vars
  BY <1>0, <1>12, NoneTold DEF vars
<1> QED BY <1>1, <1>2, <1>3, <1>4, <1>6, <1>7, <1>8, <1>9, <1>10, <1>11, <1>12 DEF Next, Progress

\* The audit trail tells what happened in the world, in order, but for what an
\* interrupt tore (_emit_audit after every action and handler that returned).
THEOREM AuditIsTrue == Spec => []AuditTellsEffects
<1>1. Init => AuditInv
  <2> SUFFICES ASSUME Init PROVE AuditInv
    OBVIOUS
  <2>1. /\ audit = <<>> /\ effects = <<>> /\ audit \in Seq(AuditEntry)
        /\ effects \in Seq(WorldEffect) /\ Len(audit) = 0 /\ Len(effects) = 0
    BY EmptySeq DEF Init
  <2>2. Those(audit, ToldOf) = <<>> /\ Those(effects, HappenedOf) = <<>>
    <3>1. /\ \A i \in 1..Len(audit) : audit[i] \notin ToldOf
          /\ \A i \in 1..Len(effects) : effects[i] \notin HappenedOf
      BY <2>1
    <3> QED BY <2>1, <3>1, ThoseOfNone
  <2>3. Len(<<>>) = 0
    BY EmptySeq
  <2> QED BY <2>1, <2>2, <2>3, AuditForm DEF AuditInv
<1>2. IInv /\ WorldInv /\ AuditInv /\ [Next]_vars => AuditInv'
  BY NextAudit
<1>3. AuditInv => AuditTellsEffects
  BY DEF AuditInv
<1> QED BY <1>1, <1>2, <1>3, Invariance, WorldInvariance, PTL DEF Spec
=============================================================================

# Verification of the Colossus security testbed

TLA+ models of the stateful parts of this repository, TLC configurations that
check them on small instances, and TLAPS proofs, for every value of the constants,
of every safety property the configurations check.
Paths are relative to the repository's root; `PROJECT.json` maps every definition to
the lines it models, pairs every property with a mutant of the code that breaks it,
and lists the hazards the properties are for.

Run `tlc -config X.cfg M` for a run of `PROJECT.json` and `tlapm M.tla` for each of
the seven `*Proofs` modules and `SubsequenceTheorems`.

## 1. The system

The repository is a set of Python components, most of them used by their tests and
by each other through plain calls. They share no database and, with two exceptions,
run on one thread of one process. What makes them hard is re-entrancy, partial
failure, restarts over something that persists, clocks, and long sequences of legal
calls. The exceptions are the mesh and the sidecar, whose files several processes
read and write without a lock.

| Component | State | Operations | Correct when |
|---|---|---|---|
| Threat engine `security/hydra_immune.py` | list of threats, counters, last anomalies and proposals | `tick`, `record_threat`, `mark_resolved`, alias `mitigated` | a reported threat stays active until a receipt; receipts and proposals are counted once; a threat is forgotten only after its resolution |
| Adapter `xai_colossus_security/adapter.py` | tick number, last receipt, an engine | `analyze_traffic_patterns` | a declared zone has an active threat after the analysis; the receipt shown is of the engine's last tick |
| Event bus `omega/security_event_bus.py` | sinks, subscriptions, buffer, three counters | `emit`, `subscribe`, `unsubscribe`, `add_sink`, `remove_sink`, queries | what is delivered is durable; delivery is once, to everybody; the counters account for every number |
| Runtime `src/security_event_runtime.py` | at most one started bus, the Supabase table outside | `start`, `bus`, `snapshot` | a critical event in the table is sent to P0, once |
| Runbook executor `incident-response/runbook_executor.py` | audit trail, executions, one running execution | `execute`, rollback, queries | what it reports and audits is what happened in the world |
| Rack policy engine `access-control/rack_policy_engine.py` | policies with occupancy, racks, overrides, two logs | `register_*`, `evaluate`, `grant_/revoke_emergency_override`, clean-up, `enter_zone`, `exit_zone` | logs and records explain every access by override; ids that collide and clean-ups do no harm elsewhere |
| Anomaly detector `ghost-ember/anomaly_detector.py` | a baseline and a buffer of samples per sensor, events, alerts, a counter | `ingest`, `reset_sensor`, queries | only what deviates from a learned baseline is reported, and drift has the right sign |
| APEX mesh `.apex/apex_mesh.py` | events, handlers and node health in each process; an event log and a health file on disk | `emit`, `on`, `execute_runbook`, `health_check`, `get_events`, queries | what was written or told can be read back, in order; a handler hears what was emitted after it registered; the health file is true of the nodes checked |
| Mastermind sidecar `mastermind_sidecar.py` | a shadow memory file on disk, two lists in memory | `update_shadow_memory`, `get_shadow_memory`, reports | an update is lost only to another that overlapped it |
| RBAC engine `access-control/rbac_engine.py` | decision log | `evaluate`, `clear_audit_trail` | every decision is logged |
| Playbook runner `incident-response/playbook_runner.py` | incidents | `execute`, `resolve` | an incident can be found by its id |
| Integrity watchdog `.integrity/watchdog_daemon.py` | baseline of hashes | `baseline`, `verify` | every difference is reported |
| Promotion authority, JWT validator | none beyond keys | mint, verify | expiry and binding at their boundaries |

How they interact: the adapter calls the engine; the runtime builds a bus, gives it
one sink (the table) and one subscription (P0 dispatch), and hands the bus to its
users; the rack engine calls its own copy of the role check. The mesh and the sidecar
meet other instances of themselves, in files. The other components
are stand-alone. The remaining surfaces (simulated strikes, crypto helpers, threat
catalogue, GPU metrics, command-line wrappers) keep no protocol state; the manifest
lists each with its reason.

Hard behaviours, in short (the manifest has each at its line): callbacks that emit,
subscribe and unsubscribe inside a dispatch; one sink of several failing, or its answer
lost; a death between persisting and dispatching; a second start over the same table;
replayed or rewound tick numbers; refused batches that consume a number; the two
meanings of "resolved" behind the compatibility alias; threats that come in flagged,
resolved or dated; rollback handlers that fail in the middle; interrupts inside a
handler; override ids that collide within a second; expiry boundaries, and a clock read
twice in one decision; a line of the log that is written half; a file that is read,
changed and written back by two processes at once.

## 2. The modules

    ThreatLedger  <--refined by--  ColossusAdapter  --extends-->  HydraImmune
    SecurityRuntime  --extends-->  SecurityEventBus
    RunbookExecutor     RackPolicyEngine     AnomalyDetector
    ApexMesh            ShadowMemory

    RunbookExecutor, RackPolicyEngine, ApexMesh  --extends-->  Subsequences

    HydraImmuneProofs       --extends-->  ColossusAdapter   (engine and adapter)
    SecurityEventBusProofs  --extends-->  SecurityRuntime   (bus and runtime)
    XProofs                 --extends-->  X, for RunbookExecutor, RackPolicyEngine,
        AnomalyDetector, ApexMesh, ShadowMemory
    RunbookExecutorProofs, RackPolicyEngineProofs, ApexMeshProofs
                            --extends-->  SubsequenceTheorems

`MC*` modules fix small constants. In every module a definition `Name_Variant`
precedes `Name` and is used nowhere: it is `Name` with a plausible bug, paired in
the manifest with the property that bug must break.

### HydraImmune
`threats` is the engine's list, as a set: nothing the properties speak of depends on
its order. One action per method. `Tick` is the whole of `tick()`: scan, record,
propose, prune, overflow check, in that order, since proposals are made before
pruning and the overflow is judged after it. `TickRejected` is the snapshot that
raises in the scan, when the tick number and the two lists are already overwritten.
`SetMitigated` is the setter of the compatibility property, which callers may use.
`record_threat` takes a `Threat` as its caller built it, and checks none of its four
response fields: `RecordThreat` has them as a parameter (`Handed`), any combination
included, and a pruned threat recorded again is one of them. Each threat carries the
fields it was handed over with as history (`handed`), so that the counts speak of what
this engine proposed and acknowledged (`ProposedHere`, `AcknowledgedHere`).
`pruned` is history: what pruned threats had counted for. The clock is `now`; its
unit is whatever `Retention` is given in.

### ThreatLedger and ColossusAdapter
The ledger is what an operator is promised: absent, active, resolved, where only an
acknowledgement ends "active" and only "resolved" may be forgotten. A threat may also be
filed that was resolved elsewhere (`File`), as `record_threat` allows. The adapter
module composes the tick numbering and the batch folding of the adapter with the
engine; the engine's other callers run beside it. `LedgerSpec` is the refinement,
with a threat's standing computed from the engine's set.

### SecurityEventBus
Python runs one thread here, so the interleaving is re-entrancy: the emissions in
progress are the frames of `stack`, a callback runs when the innermost frame is
`calling`, and while it runs it may do anything the program may (`Use`). The list a
loop runs over is modelled by identity: `subscribe` appends to the object, so loops
in progress see it; `unsubscribe` binds a new list, so they keep the old (`Detached`).
A sink's answer and its effect are separate (`ok`, `held`): the table may hold a
record whose answer was lost. A callback's exception is logged and dropped, which is
`CallbackEnds` again. `NobodySkipped` looks at the moment `emit` returns: whoever had
subscribed before the event, wants it and was not removed has been told.

### SecurityRuntime
The bus under `start()` and under the death of the process, which may come between
any two steps and leaves only the table. A refused heartbeat raises and changes
nothing, and is no action. What `start()` passes to the bus it makes are parameters of
the bus here, so they stand as a condition of `Start` (`StartArguments`).

### RunbookExecutor
One action per turn of the loop of `execute()`, of `_rollback_steps`, and per way out.
The outcome of an action or a handler is nondeterministic: true, false or an
exception. `Interrupted` is an exception that the code's `except Exception` does not
catch. `effects` is history, the world's side of the story. Steps may share an id:
`HandlerOf` is the dictionary the code builds, where the last one wins. For such
runbooks `ReversedInLifoOrder` bounds the calls: the handlers of an id run no more
often than steps of that id were done.

### RackPolicyEngine
`evaluate()` is one action, with its verdict as a function of
policy, principal, instant and the overrides in force; entering and leaving are calls of
their own that may come between. It reads the clock twice, for the overrides and for the
log entry, so `Evaluate` ends at any instant from `now` on, and `checked` keeps the
first reading as history. A policy comes in with any count of occupants and any limit;
`brought` is history, the count each zone's policy came with. Whether overrides are
enabled and which role they require are constants (`OverrideEnabled`, `RequiredRole`).
The role tables are translated in full. `EvaluateUnknown` has the two ways out before
the role check. The override id is what the code makes of it: the second and the zone.
`now` has `PerSecond` units a second, so that two grants within one second are told
apart by their times and not by their ids.

### AnomalyDetector
`Ingest` is the whole of `ingest()`: learn, then, when the baseline is ready, score the
reading and search the buffer for drift. The statistics are not abstracted: with
`ema_alpha` = 1 / `Decay` every mean and variance is a fraction whose denominator the
baseline carries as `scale`, and thresholds compare squares. The model therefore has
the code's values up to the rounding of floats. `IsReady` goes by `ReadyAt`, the
literal 30 of the code. `_detect_drift` compares the two halves of the whole buffer,
whatever `drift_window` is. `seen`, the values a baseline was told, is history.

### ApexMesh
Several processes, each with one `Mesh`, over one log and one health file. `calls` has
for each process the calls it is in, innermost last, since handlers call the mesh.
A handler list is copied by `emit()` before it is looped over, unlike the bus's, so a
handler registered meanwhile hears nothing of the event. The log is a sequence of the
lines that can be parsed and a `tail` after the last newline: a write that fails half
way leaves a fragment there, or a whole event without its newline, and the next
line is glued to it. The health file is emptied, then written, so another process may
find nothing in between, and a shorter text written over a longer one garbles it.
`health_check` probes node by node, and other processes run in between.
Events are identified by process, life and number: the code's millisecond ids may
repeat, and nothing here goes by them.

### Subsequences
`Those(seq, wanted)`: the elements of a sequence that are in a set, in their order, as
the filter of `get_events()` and the properties that compare two logs need it. It goes
by the ranks of positions and not by recursion, so that it can be reasoned about:
element n is the one whose position is the n-th lowest of those wanted.

### ShadowMemory
`update_shadow_memory` in its three steps: read and change, empty,
write. Reading a missing, empty or garbled file gives a memory without keys, so an
update that starts while another writes drops what it did not see. `text` is whether
anything lies in the file, readable or not: whoever emptied the file before that and
writes a shorter text leaves it unreadable (`WriteGarbled`), also over garbled residue
and over half a text, which a death or an error leaves at any point of the write
(`Abandon`). `exposed` is history: the keys whose last update the overlap may have cost.
`LossNeedsOverlap` says nothing else is lost.

## 3. The runs

| Run | Shows | Bounds, and why they are enough |
|---|---|---|
| `hydra` | unique ids, each proposal counted once, forgetting only after retention, with every caller | 2 zones, 1 tick number (replayed), an external id equal to a detection's and one of its own, levels on both sides of the threshold; threats built with the defaults, handed over resolved and dated with no receipt, and flagged, resolved and dated with one, as a pruned one is; both values of the alias; clock 0..1 with retention 0, and dates -1, 0 and 1, so that a resolution can be as old as the cutoff, younger and older; 2 receipts, 3 prunings |
| `adapter` | receipts and their counts, level, suspicion, refinement of the ledger, no alias | tick numbers 1, 2, the first also explicit: rewound, repeated and automatic numbers all occur; four batches, one of which disagrees about a zone; threats handed over with defaults, resolved without date or receipt, and as a pruned one is; clock 0..1, 2 receipts, 3 prunings |
| `bus` | the inductive invariant, durability, delivery once and to everybody, order, buffer and unwinding | 2 sinks, 2 subscriptions with different filters, buffer of 1, 2 emissions, so one nests in another and the buffer overflows |
| `runtime` | P0 alerts durable, once and never withheld | 2 starts, deaths at any point, 2 emissions per bus, a severity on each side of the threshold, one competing subscription |
| `runbook` | LIFO, phase, counters, audit, termination | every runbook of up to 3 steps, critical or not, with or without handlers, two of one id, under every policy; one execution. Three steps are the least with a failure, a reversal that fails and one that follows it |
| `rack` | overrides and logs | 2 zones (one sensitive), 1 rack, clock 0..1 in half seconds, overrides of half a second: two grants for a zone share their id while their expiries differ, grants for two zones do not, and the clock meets the expiry exactly; a clock that moves on between a check and its log entry, past the expiry; 2 grants, 2 decisions; a night watch of one, the zone closed, and the zone closed with one person still counted |
| `anomaly` | scores, quiet sensors, drift | 2 sensors, values of either sign and zero, `ema_alpha` 1/4 (no score beyond the root of 3), thresholds reached and just reached, the lengths 30 and 50 scaled to 3 and 4, 7 readings: the buffer wraps, and a sensor gets ready again after a reset |
| `mesh` | what the log loses and in which order it is, who hears an event, what the health file says | 2 interchangeable processes, 2 nodes, one handler for one type and for all, 4 calls of which 2 may be health checks, one death: a handler emits, registers and checks inside a dispatch, a line is glued to a fragment of another process, two checks write one file |
| `shadow` | which updates can be lost | 3 processes, 2 keys, 2 values, 4 updates: one update overlaps a second, a third begins while one of them writes, and a fourth follows when all is quiet; three texts, one over the residue of another, leave a file nobody can read |
| `hydra_alias`, `runtime_ids`, `runbook_doc` | each finds the disagreement of section 5 | as the run beside it; runbooks of 2 steps |

`runtime`, `runbook`, `mesh` and `shadow` switch the deadlock check off: a dead process
with no start left, and components nobody calls again, really stop. The other runs
keep it.

Bounds in guards: `MaxTime`, `MaxResolutions`, `MaxForgotten` (no threat
is handed over once that many were counted as pruned), `MaxEvents`, `MaxStarts`,
`MaxExecutions`, `MaxInside`, `MaxGrants`, `MaxDecisions`, `MaxReadings`, `MaxUses`,
`MaxChecks`, `MaxDeaths`, `MaxUpdates`. `MaxEvents` and `MaxUses` also cut off
a callback that emits whenever it is called, which in the code recurses without end.
All verdicts of `evaluate()` are reached in `rack`. A decision changes nothing but
the logs, while the clock may move on, so two of them are every pair out of a longer series; a third adds nothing
to properties that relate one entry to the records, or one log's order to the other's.

## 4. Fairness

- `SecurityEventBus`: weak fairness of `Step`, the turns of the dispatch loop and the
  end of a callback. The one thread goes on, and callbacks return: the code puts no
  bound on them, so `EmissionsUnwind` assumes it. Nobody is obliged to use the bus.
- `SecurityRuntime`: the same while the process lives; a crash is never fair, and
  `CriticalReachesP0` excuses the dead process and the replaced bus explicitly, since
  the code has no recovery of what was persisted and not yet dispatched.
- `RunbookExecutor`: weak fairness of `Progress`. Actions and handlers return:
  `timeout_sec` is declared and enforced nowhere. Calling `execute` is not fair.
- The other modules: none, and no liveness. Every operation is a caller's choice, and
  a process of the mesh or a sidecar may stop in the middle of a call.

## 5. What the checks found

1. *The alias resolves without a receipt* (`hydra_alias`). README.md says only an
   acknowledged resolution lowers the threat level; the setter of `Threat.mitigated`
   does too, the later receipt is ignored, and the threat is never pruned. Where
   nobody writes the alias the promises hold (`adapter`, and theorems).
2. *Event ids repeat in the table* (`runtime_ids`). The schema says uuid; each bus
   numbers from 1, and a second start goes on over the same table.
3. *A failure that is not critical reverses nothing* (`runbook_doc`). The class comment
   says that on a step failure all previously completed steps are reversed. In the run
   step 1, which has a handler, completes, step 2, which is not critical, fails, and the
   execution ends COMPLETED with step 1 in place.
4. *`min_samples` has no effect* (`ghost-ember/anomaly_detector.py:117`). The class
   comment says scoring begins after `min_samples` observations; readiness compares
   with 30. No run is about it: the model has no `min_samples`, as the code has none.
5. *The audit trail can be cleared* (`access-control/rbac_engine.py:186`), although
   security_policy.md:11 calls audit logs append-only. Not modelled.
6. *A name that is not defined* in `ghost-ember/perimeter_lock.py:42`. Not modelled.
7. *An override passes by occupancy and MFA* (`access-control/rack_policy_engine.py:387`
   and 407). The module's docstring (lines 8-10) has every request evaluated against role,
   zone, time, MFA and emergency before a decision. `Verdict` has what the code does; no
   run is about it.

Modelled and not claimed otherwise, because nothing in the repository promises it: a
refused event stays in the sinks that took it; a P0 sender that raises is not
retried; a replaced zone policy forgets who is inside, or brings a count above its limit;
an access by override is logged at or after the override's expiry, when the clock moves
on between check and log; a threat handed over with a date and no receipt is pruned
without one; a revocation by an id shared
by two grants closes one of them; two runbook steps of one id share a handler;
with `auto_rollback` off the rollback
skips every step and reports COMPLETED; a `critical_sigma` above
sqrt(1/`ema_alpha` - 1), such as the default 3.5 with `ema_alpha` 0.1, is never reached;
the overall status of a health file comes from the nodes the last check looked at,
beside older entries of the others; overlapping updates of the shadow memory undo
each other, and an update that meets a file being written forgets the other keys.

## 6. What is proved

For all values of the constants and behaviours of any length, under the named
assumptions of the modules (`ConfigAssumption`, `InputAssumption`, `FiniteAssumption`,
`AdapterAssumption`, `BusAssumption`, `RuntimeAssumption`, `RunbookAssumption`,
`RackAssumption`, `DetectorAssumption`, `MeshAssumption`, `MemoryAssumption`). They say
what the constructors enforce and which sets the inputs come from; TLC evaluates each of
them in the runs of its module.

| Module | Theorem | Statement |
|---|---|---|
| `HydraImmuneProofs` | `TypeCorrect` | `Spec => []TypeOK` |
| | `IdsAreUnique` | `Spec => []UniqueIds` |
| | `ProposalsCountOnce` | `Spec => []ProposalAccounting` |
| | `ForgettingIsSafe` | `Spec => ForgottenOnlyAfterRetention` |
| | `ResolutionsCarryReceipts` * | `Spec => []ResolvedHasReceipt` |
| | `ReceiptsCountOnce` * | `Spec => []ResolutionAccounting` |
| | `OnlyReceiptsLower` * | `Spec => LevelDropsOnlyByReceipt` |
| | `AdapterDrivesEngine` | `AdapterSpec => Spec` |
| | `ReceiptFollowsEngine` | `AdapterSpec => []ReceiptIsOfLastTick` |
| | `SuspicionIsActive` ** | `AdapterSpec => DeclaredSuspicionActive` |
| | `LedgerIsKept` * | `AdapterSpec => LedgerSpec` |
| | `AdapterInherits` * | the three * of the engine, under the adapter |
| `SecurityEventBusProofs` | `BusIsConsistent` | `BusSpec => []BusInv` |
| | `DispatchIsDurable` | `BusSpec => []DeliveredIsDurable` |
| | `DispatchIsOnce` | `BusSpec => []DeliveredAtMostOnce` |
| | `DispatchIsComplete` | `BusSpec => NobodySkipped` |
| | `RemovalHolds` | `BusSpec => []WithdrawnSeesOnlyInFlight` |
| | `LogsAreOrdered` | `BusSpec => []LogInOrder` |
| | `BufferStaysRecent` | `BusSpec => []BufferIsRecent` |
| | `AlertsHold` | `RuntimeSpec => []AlertsAreDurableAndOnce` |
| | `TableIsOrdered` | `RuntimeSpec => []LogInOrder` |
| `RunbookExecutorProofs` | `TypeCorrect` | `Spec => []TypeOK` |
| | `CountersAgree` | `Spec => []CountersMatchRecords` |
| | `ReversalsAreLifo` | `Spec => []ReversedInLifoOrder` |
| | `PhaseIsTrue` | `Spec => []PhaseTellsTheWorld` |
| | `AuditIsTrue` | `Spec => []AuditTellsEffects` |
| `RackPolicyEngineProofs` | `TypeCorrect` | `Spec => []TypeOK` |
| | `OverridesAreCovered` | `Spec => []OverrideAccessIsCovered` |
| | `LogsTellOneStory` | `Spec => []LogsAgree` |
| | `CleanupChangesNoAccess` | `Spec => CleanupIsInvisible` |
| | `RevocationIsLocal` | `Spec => RevocationStaysInZone` |
| `AnomalyDetectorProofs` | `TypeCorrect` | `Spec => []TypeOK` |
| | `ScoresAreBounded` | `Spec => []SpikesAreBounded` |
| | `QuietSensorsStayQuiet` | `Spec => []QuietStaysQuiet` |
| | `DriftIsTold` | `Spec => []DriftDirectionTrue` |
| `ApexMeshProofs` | `MeshTypeCorrect` | `Spec => []MeshTypeOK` |
| | `ProgramOrderKept` | `Spec => []FileKeepsProgramOrder` |
| | `StatusIsTrue` | `Spec => []StatusMatchesEntries` |
| | `OnlyTearsLose` | `Spec => []LossesAreTears` |
| | `ToldInOrder` | `Spec => HeardByThoseBefore` |
| `ShadowMemoryProofs` | `MemoryTypeCorrect` | `Spec => []MemoryTypeOK` |
| | `UpdatesSurvive` | `Spec => []LossNeedsOverlap` |

\* where no caller writes the alias (`AliasWrites = {}`), which run `hydra_alias` shows
to be needed. Threats handed over resolved are covered by them. \*\* where external
threats have ids of their own: with the id of a detection they may hide it, as the
comment of the property says.

The arguments, in short.

- *Engine.* `UniqueIds` and `TypeOK` are not enough: forgetting speaks of the receipt of
  a pruned threat, while pruning looks at its time. `IInv` adds `DatesExplained`, that a
  threat with a time has a receipt or was handed over with a time and no receipt, which
  alias writes respect because they touch neither; `FlagsStay`, that a threat which came
  in flagged is flagged; and that the history is finite. The lemmas on `Recorded`,
  `Proposed` and `Expired` say that recording adds only unknown ids, that proposing maps
  threats to threats of the same id and that pruning takes a subset. For the counters,
  `ProposedCounts` and `TickCounts` count the flags and receipts of this engine before
  and after a tick, `ReplacedCounts` those around a call that changes one threat, and
  `RecordedCounts` says that a threat handed over adds to neither. That an image of a
  finite set is finite, and of its size under an injection, is a lemma here, since the
  library states it for an operator parameter, which the provers cannot instantiate.
- *Adapter.* Every step is a step of the engine, so the engine's invariant is inherited.
  A detection in the history is of a number already used (`DetectionsAnalysed`), hence
  the scan of a new number meets no threat of its ids and what it finds is active
  afterwards. For the ledger, `SweepSteps` says what a tick may do to the standing of an
  id.
- *Bus.* `BusInv` is inductive and checked as such by run `bus`. It says of every frame
  which of its loop has been served, of every list that it repeats nobody, of every
  number that it was accepted or refused; `NobodySkipped` is then the case of a frame
  whose loop is at its end. `BufferIsRecent` needs the nesting of the frames from
  `BusInv`, and that the buffer holds no number that was not drawn (`BufferInv`).
- *Runtime.* While a bus is up, every step of the runtime is a step of the bus, so
  `BusInv` is kept; a death breaks it, since it takes the sinks and the counter.
  `RuntimeInv` therefore has it under `started` only (`UpAndPersisting`, with the table
  among the sinks of everything in dispatch), and over all buses what outlives one: no
  call is repeated, no event is of a bus yet to come (`EventsOfStartedBuses`, so that a
  new bus begins with unused numbers), and what P0 was called for is critical and in the
  table (`AlertsAreInTheTable`). `DeliveredIsDurable` is not part of it, and is false
  across deaths for a sink that dies with the process.
- *Filtered logs.* `SubsequenceTheorems` says what `Those` returns of a sequence that
  grows by one element: the same, or one element more (`ThoseOfAppend`). Ranks are a
  bijection of the positions with 1..n, which is what takes the place of an induction.
- *Executor.* A rollback rewrites records after they were counted. The invariant adds
  that what is completed or pending is a step that succeeded, so that the outcome of a
  reversal never changes what a record counts for. For the properties about the world,
  `WorldInv` has `completed`, `pending` and the effects as three accounts of one list:
  what is done is what is completed, `pending` is a beginning of it, reversals are of
  later steps than those pending, and `rollback_ok` says that of the steps dealt with
  none is left in place. That is what a result tells once nothing is pending, and no
  later execution has effects under its number. `AuditTellsEffects` is inductive with
  the type of the trail: each step adds to both sides or to neither.
- *Rack engine.* An access is covered because overrides are granted by the required role
  with MFA and are never of the future, and no check or entry is: a revocation, which
  takes the present time, cannot come to lie before a check that was covered. The entry
  may be later than the check, and the argument does not go by its time. A count above
  the limit is one that the policy brought along, since `enter_zone` adds only below the
  limit. The two logs agree because each decision adds to both or, before the role
  check, to one: `ThoseOfAppend` again.
- *Detector.* `LearnedBound`: when a baseline learns a reading at distance delta from
  its mean, the deviation left is (Decay - 1) delta, and the variance already counts
  delta squared. For quiet sensors, a baseline that has seen one value has that value as
  its mean and no variance. For drift, the two sums are of integers and the sign of the
  alert is that of their difference, scaled by the lengths of the halves. That a sum
  over a buffer exists and follows its rule is shown by a least counterexample
  (`SumsExist`): the library's induction theorems take an operator for a parameter,
  which the provers cannot instantiate, but a least number needs none.
- *Mesh.* Memory, log and calls are typed together (`CallsTypeOK` for what a handler, a
  probe or a check in progress carries), and the health file by what a check writes
  (`HealthFileTyped`). The event about to be written is the latest of its process and
  the file has none of this life as late (`NewIsLatest`), although other calls of the
  same process wait below it (`CallersWait`); a new life has written nothing. A check's
  results agree with the memory it will save (`CheckAgrees`), since no node is probed
  twice and a process is in one innermost call. Losses (`TellInv`): the written events
  that cannot be read back, and one more while there is a text after the last newline,
  are no more than the tears, since such a text will cost the next event; handlers are
  told of written events only. Order of hearing (`ServedInv`): those who have heard the
  event of an emission in progress are the first of its audience, its audience are the
  registrations older than the event, in their order, and inner emissions have later
  numbers, so that what they tell is never taken for the outer event.
- *Shadow memory.* What a process is about to write is current but for its own key and
  the keys exposed by now (`CopiesCurrent`).

Only model-checked, and why:

- liveness (`EmissionsUnwind`, `CriticalReachesP0`, `ExecutionEnds`): fairness and ENABLED
  are out of the prover's reach.

## 7. Limits of the models

- Bus: a `BaseException` unwinding through a dispatch, a sink added twice, a sink that
  raises something else than it documents, and users that hold on to an old bus after
  a second start are left out. `emit` is not called from several threads: nothing in
  the repository does.
- Executor: a handler that calls `execute()` of the same executor is left out;
  interrupts are modelled inside actions and handlers, not between statements.
- Engine: strings of ids, sources, targets and texts are values; the types of threat
  other than what decides a level are left out; time, and the date a threat is handed over
  with, is an integer, and the clock does not step back. `Threat` is a mutable object: of
  what a caller may assign to one in the history only the alias `mitigated` is modelled,
  the one way README.md and the class offer. Run `hydra` hands over threats of three kinds;
  the theorems are for any combination of the four fields.
- Adapter: node ids and entropy are validated and echoed, and are left out.
- Detector: `ema_alpha` is the inverse of an integer, values are integers, rounding is left
  out; sensor types, times and texts are left out, with the window an alert's text names.
  The two sigmas are positive, which the constructor does not check: with a warning sigma
  of 0 a quiet sensor would be reported.
  The unused buffer `recent_values` is left out.
- Rack engine: the session check reads the machine's clock in the code and is an
  input here; who asked, and the text of reasons, are left out. The clock does not step
  back. A policy is taken as it is when it is registered: a caller that goes on to assign
  to the same `ZonePolicy` object, or registers one object twice, is left out. `rbac_log` is
  the log of the engine's own role check.
- Mesh: `emit("*")`, which would call the handlers for everything twice, is left out; so
  are payloads, latencies and times. A line is written in one call, so lines of two
  processes do not mix unless one is torn. `discover`, `invoke` and the context read
  and change nothing of this state.
- Sidecar: how long texts are is left open, so that any text may turn out shorter than the
  residue it is written over; the part of a text that a failed write leaves is taken to be
  unreadable. The key `last_updated` is left out, and the lists of tasks and health
  reports, which live in memory and only `summary()` counts.

## 8. Not modelled

- *RBAC engine.* Its decision is the role check `RoleCheck` of the rack engine translates,
  and it logs each decision once; the rest is a filter over a list. What could go wrong,
  a trail cleared by a caller, is a call that does what its name says (section 5).
- *Playbook runner.* A straight loop over a static table whose actions are simulated and
  return True, so that every incident is resolved. Two incidents of one type within
  a second share an id and a query finds the first: a fact about formatting a time.
- *Integrity watchdog.* One pass over the files of a tree and a comparison with
  a baseline. It goes by the files that exist and misses deleted ones, which nothing in
  the repository says it reports.
- *Promotion authority and JWT validator.* Stateless functions around a MAC and
  a comparison of clocks.
- *Hydra core and Ghost Ember perimeter.* Simulations: random ids and a sleep in
  place of an effect.
- *Sovereign vault, SBOM audit, crypto engines, GPU metrics, threat catalogue, operator
  scripts.* Functions of their inputs, static tables, reports and command lines; no
  state that outlives a call but the files they print to.

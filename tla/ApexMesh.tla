------------------------------ MODULE ApexMesh ------------------------------
(* The Mesh objects of .apex/apex_mesh.py: several processes, each with one, *)
(* share the event log ops/events.jsonl and the health file mesh/health.json.*)
(*                                                                           *)
(* A process runs one thread, but not one call at a time: emit() calls the   *)
(* handlers, which may emit, register handlers and check health themselves.  *)
(* calls[p] holds the calls process p is in, innermost last.  A process may  *)
(* die between any two steps and be started anew; the files stay.            *)
(*                                                                           *)
(* The log is appended to, a line in one write(), which may fail half way    *)
(* (a full disk).  What it leaves has no newline, and the next line is glued *)
(* to it; get_events() skips a line it cannot parse.  The health file is     *)
(* emptied, then written.  While it is empty, and when a shorter text was    *)
(* written over a longer one, get_health() finds nothing.                    *)
EXTENDS Integers, Sequences, SequencesExt, FiniteSets, Subsequences

CONSTANTS
    Procs,                \* processes with a Mesh, one each
    Topology,             \* the nodes, in the order of topology.json
    Types,                \* event types the program emits
    RunbookTriggered,     \* the type execute_runbook() emits
    AnyType,              \* "*" for on(), None for get_events()
    Listened,             \* what the program registers handlers for
    Handlers,
    Runbooks,             \* the names in runbooks.json
    MaxUses,              \* bound: calls of emit(), on() and health_check()
    MaxChecks,            \* bound: calls of health_check() among them
    MaxDeaths             \* bound: deaths of processes

Nodes == ToSet(Topology)
EventTypes == Types \cup {RunbookTriggered}

ASSUME MeshAssumption ==
    /\ Topology \in Seq(Nodes) /\ IsInjective(Topology)
    /\ AnyType \notin EventTypes /\ Listened \subseteq EventTypes \cup {AnyType}
    /\ MaxUses \in Nat /\ MaxChecks \in Nat /\ MaxDeaths \in Nat

VARIABLES
    healthy,                      \* node.healthy, in each process
    event_log,                    \* _event_log
    handlers,                     \* _handlers
    calls,                        \* the calls in progress
    log,                          \* the lines of events.jsonl that can be parsed
    tail,                         \* what follows the last newline of events.jsonl
    health_file,                  \* what get_health() reads
    life,                         \* history: which Mesh of the process this is
    uses, checks, deaths,         \* history: calls begun, those of health_check(), deaths
    written,                      \* history: the events whose line was written
    heard,                        \* history: the handlers called, in order
    tears                         \* history: writes to the log that failed half way

Event == [source : Procs, life : Nat \ {0}, number : Nat \ {0}, type : EventTypes]
Registration == [handler : Handlers, since : Nat]
CallOfHandler == [event : Event, registration : Registration]

memory == <<healthy, event_log, handlers, calls>>
files == <<log, tail, health_file>>
history == <<life, uses, checks, deaths, written, heard, tears>>
vars == <<memory, files, history>>

Nothing == [type |-> AnyType]                   \* a tail of no text
Fragment == [type |-> AnyType, torn |-> TRUE]   \* one that cannot be parsed
NoHealth == [overall |-> "none"]                \* {}: missing, empty or garbled

\* The constructor.
FreshHealth == [n \in Nodes |-> "unknown"]
NoHandlers == [t \in EventTypes \cup {AnyType} |-> <<>>]

Init ==
    /\ healthy = [p \in Procs |-> FreshHealth]
    /\ event_log = [p \in Procs |-> <<>>]
    /\ handlers = [p \in Procs |-> NoHandlers]
    /\ calls = [p \in Procs |-> <<>>]
    /\ log = <<>> /\ tail = Nothing /\ health_file = NoHealth
    /\ life = [p \in Procs |-> 1]
    /\ uses = 0 /\ checks = 0 /\ deaths = 0 /\ written = {} /\ heard = <<>> /\ tears = 0

-----------------------------------------------------------------------------
Top(p) == Last(calls[p])
At(p, stage) == calls[p] # <<>> /\ Top(p).stage = stage

\* The program, or the handler the innermost emit() is in, runs.
Running_WhileWriting(p) == calls[p] # <<>> => Top(p).stage \in {"calling", "new"}
Running(p) == calls[p] # <<>> => Top(p).stage = "calling"

\* It calls the mesh.
Called(p) == Running(p) /\ uses < MaxUses /\ uses' = uses + 1

Enter(p, frame) == calls' = [calls EXCEPT ![p] = Append(@, frame)]
Leave(p) == calls' = [calls EXCEPT ![p] = Front(@)]
GoOn(p, frame) == calls' = [calls EXCEPT ![p][Len(calls[p])] = frame]

-----------------------------------------------------------------------------
(* Events *)

\* Source, life and number identify an event; its id, a millisecond, need not.
NewEvent(p, type) ==
    [source |-> p, life |-> life[p], number |-> Len(event_log[p]) + 1, type |-> type]

\* emit() begins: the event is in memory.
Emit(p, type) ==
    /\ Called(p)
    /\ event_log' = [event_log EXCEPT ![p] = Append(@, NewEvent(p, type))]
    /\ Enter(p, [stage |-> "new", event |-> NewEvent(p, type), audience |-> <<>>, at |-> 1])
    /\ UNCHANGED <<healthy, handlers, files, life, checks, deaths, written, heard, tears>>

\* execute_runbook(); a name that get_runbook() does not find changes nothing.
ExecuteRunbook(p, name) == name \in Runbooks /\ Emit(p, RunbookTriggered)

\* The parsed lines after a line is appended to a file that ends in `end`.
Appended_Overwriting(lines, end, event) == <<event>>
Appended(lines, end, event) == IF end = Nothing THEN Append(lines, event) ELSE lines

\* self._handlers.get(event_type, []) + self._handlers.get("*", []), a new list.
Listeners_Typed(p, type) == handlers[p][type]
Listeners(p, type) == handlers[p][type] \o handlers[p][AnyType]

\* The line is in the file, and the loop over the handlers begins.
WriteEvent(p) ==
    /\ At(p, "new")
    /\ log' = Appended(log, tail, Top(p).event)
    /\ tail' = Nothing
    /\ GoOn(p, [Top(p) EXCEPT !.stage = "dispatch", !.audience = Listeners(p, Top(p).event.type)])
    /\ written' = written \cup {Top(p).event}
    /\ UNCHANGED <<healthy, event_log, handlers, health_file, life, uses, checks, deaths, heard, tears>>

\* The write raises, having left nothing, a part of the line, or all but its
\* newline; emit() raises with it, and the event stays in memory.
WriteFails(p, left) ==
    /\ At(p, "new")
    /\ left \in {Nothing, Fragment, Top(p).event}
    /\ tail' = CASE left = Nothing -> tail
                 [] left # Nothing /\ tail = Nothing -> left
                 [] OTHER -> Fragment
    /\ tears' = IF left = Nothing THEN tears ELSE tears + 1
    /\ Leave(p)
    /\ UNCHANGED <<healthy, event_log, handlers, log, health_file, life, uses, checks, deaths, written, heard>>

\* The list the loop is over.
Audience_Live(p, frame) == Listeners(p, frame.event.type)
Audience(p, frame) == frame.audience

CallHandler(p) ==
    /\ At(p, "dispatch")
    /\ Top(p).at <= Len(Audience(p, Top(p)))
    /\ GoOn(p, [Top(p) EXCEPT !.stage = "calling"])
    /\ heard' = Append(heard, [event |-> Top(p).event,
                               registration |-> Audience(p, Top(p))[Top(p).at]])
    /\ UNCHANGED <<healthy, event_log, handlers, files, life, uses, checks, deaths, written, tears>>

\* The handler returns, or raises an Exception that emit() drops.
Advance(frame) == [frame EXCEPT !.stage = "dispatch", !.at = @ + 1]
HandlerEnds(p) ==
    /\ At(p, "calling")
    /\ GoOn(p, Advance(Top(p)))
    /\ UNCHANGED <<healthy, event_log, handlers, files, history>>

EmitReturns(p) ==
    /\ At(p, "dispatch")
    /\ Top(p).at > Len(Audience(p, Top(p)))
    /\ Leave(p)
    /\ UNCHANGED <<healthy, event_log, handlers, files, history>>

\* on().  `since`, the events emitted before, is history.
On(p, type, h) ==
    /\ Called(p)
    /\ handlers' = [handlers EXCEPT ![p][type] =
                        Append(@, [handler |-> h, since |-> Len(event_log[p])])]
    /\ UNCHANGED <<healthy, event_log, calls, files, life, checks, deaths, written, heard, tears>>

\* get_events(); for a limit of 0 the slice is the whole list.
GetEvents(type, limit) ==
    LET all == IF tail \in {Nothing, Fragment} THEN log ELSE Append(log, tail)
        wanted == Those(all, {e \in Event : type \in {AnyType, e.type}})
    IN  IF limit \in 1..Len(wanted)
        THEN SubSeq(wanted, Len(wanted) - limit + 1, Len(wanted)) ELSE wanted

-----------------------------------------------------------------------------
(* Health *)

\* health_check() begins, of all nodes or of one.  An unknown name raises.
HealthCheck(p, targets) ==
    /\ Called(p)
    /\ checks < MaxChecks /\ checks' = checks + 1
    /\ Enter(p, [stage |-> "probing", targets |-> targets, at |-> 1, results |-> <<>>])
    /\ UNCHANGED <<healthy, event_log, handlers, files, life, deaths, written, heard, tears>>

\* The next node answers 200, or anything else, or nothing within the timeout.
Probe(p, answer) ==
    /\ At(p, "probing") /\ Top(p).at <= Len(Top(p).targets)
    /\ healthy' = [healthy EXCEPT ![p][Top(p).targets[Top(p).at]] = answer]
    /\ GoOn(p, [Top(p) EXCEPT !.at = @ + 1, !.results = Append(@, answer)])
    /\ UNCHANGED <<event_log, handlers, files, history>>

Overall_Any(results) == IF "healthy" \in ToSet(results) THEN "healthy" ELSE "degraded"
Overall(results) == IF "failed" \in ToSet(results) THEN "degraded" ELSE "healthy"

\* _save_json() opens the file for writing, which empties it.
OpenHealthFile(p) ==
    /\ At(p, "probing") /\ Top(p).at > Len(Top(p).targets)
    /\ health_file' = NoHealth
    /\ GoOn(p, [Top(p) EXCEPT !.stage = "saving"])
    /\ UNCHANGED <<healthy, event_log, handlers, log, tail, history>>

\* What health_check() of the nodes in `targets` saves; `targets` is history.
Report(p, targets, results) ==
    [overall |-> Overall(results), nodes |-> healthy[p], targets |-> ToSet(targets)]

\* It writes, and health_check() returns.  The write may fail, and may leave the
\* end of a longer text that another process wrote since this one emptied the
\* file: then the file cannot be read, or has what it had.
WriteHealthFile(p) ==
    /\ At(p, "saving")
    /\ health_file' \in {Report(p, Top(p).targets, Top(p).results), NoHealth, health_file}
    /\ Leave(p)
    /\ UNCHANGED <<healthy, event_log, handlers, log, tail, history>>

-----------------------------------------------------------------------------
\* A process dies, and is started anew when it next does something.
Die(p) ==
    /\ deaths < MaxDeaths /\ deaths' = deaths + 1
    /\ healthy' = [healthy EXCEPT ![p] = FreshHealth]
    /\ event_log' = [event_log EXCEPT ![p] = <<>>]
    /\ handlers' = [handlers EXCEPT ![p] = NoHandlers]
    /\ calls' = [calls EXCEPT ![p] = <<>>]
    /\ life' = [life EXCEPT ![p] = @ + 1]
    /\ UNCHANGED <<files, uses, checks, written, heard, tears>>

\* The calls a process is in go on.
Step(p) ==
    \/ WriteEvent(p)
    \/ \E left \in {Nothing, Fragment} \cup ToSet(event_log[p]) : WriteFails(p, left)
    \/ CallHandler(p) \/ HandlerEnds(p) \/ EmitReturns(p)
    \/ \E answer \in {"healthy", "failed"} : Probe(p, answer)
    \/ OpenHealthFile(p)
    \/ WriteHealthFile(p)

Use(p) ==
    \/ \E type \in Types : Emit(p, type)
    \/ \E name \in Runbooks : ExecuteRunbook(p, name)
    \/ \E type \in Listened, h \in Handlers : On(p, type, h)
    \/ HealthCheck(p, Topology)
    \/ \E n \in Nodes : HealthCheck(p, <<n>>)

Next == \E p \in Procs : Step(p) \/ Use(p) \/ Die(p)

Spec == Init /\ [][Next]_vars

-----------------------------------------------------------------------------
(* Properties *)

\* The frames of emit() and of health_check().
Answers == {"healthy", "failed"}
EmitFrame == [stage : {"new", "dispatch", "calling"}, event : Event,
              audience : Seq(Registration), at : Nat \ {0}]
CheckFrame == [stage : {"probing", "saving"}, targets : Seq(Nodes), at : Nat \ {0},
               results : Seq(Answers)]
Frame == EmitFrame \cup CheckFrame
HealthReport == [overall : {"healthy", "degraded"}, nodes : [Nodes -> Answers \cup {"unknown"}],
                 targets : SUBSET Nodes]

MemoryAndLogTypeOK ==
    /\ healthy \in [Procs -> [Nodes -> {"unknown", "healthy", "failed"}]]
    /\ event_log \in [Procs -> Seq(Event)]
    /\ handlers \in [Procs -> [EventTypes \cup {AnyType} -> Seq(Registration)]]
    /\ log \in Seq(Event) /\ tail \in Event \cup {Nothing, Fragment}
    /\ written \subseteq Event
    /\ tears \in Nat
CallsTypeOK == calls \in [Procs -> Seq(Frame)] /\ life \in [Procs -> Nat \ {0}]

\* The memory of the processes, both files, and every call in progress: the
\* handler lists a dispatch has snapshotted, and the answers a check has so far.
MeshTypeOK ==
    /\ MemoryAndLogTypeOK
    /\ CallsTypeOK
    /\ health_file \in HealthReport \cup {NoHealth}

\* An event that was written, or that any handler was told of, can be read back,
\* whoever died since; a write that fails half way costs one such event at most
\* (emit() persists before it dispatches, get_events() skips what it cannot parse).
LossesAreTears ==
    LET told == written \cup {heard[i].event : i \in 1..Len(heard)}
    IN  Cardinality(told \ ToSet(GetEvents(AnyType, 0))) <= tears

\* The file has the events of one Mesh in the order it emitted them, though emit()
\* is called from handlers of emit() and other processes write in between.
FileKeepsProgramOrder ==
    \A i, j \in 1..Len(log) :
        i < j /\ log[i].source = log[j].source /\ log[i].life = log[j].life
          => log[i].number < log[j].number

\* When emit() returns, its event was heard by every handler registered before it
\* was emitted, those for the type first and each as often as it was registered,
\* and by no handler that was registered while it was dispatched.
HeardByThoseBefore ==
    [][\A p \in Procs :
         EmitReturns(p) =>
            LET event == Top(p).event
                calledFor == Those(heard, {c \in CallOfHandler : c.event = event})
                earlier == {r \in Registration : r.since < event.number}
            IN  [i \in 1..Len(calledFor) |-> calledFor[i].registration]
                  = Those(handlers[p][event.type], earlier)
                      \o Those(handlers[p][AnyType], earlier)]_vars

\* A readable health file is degraded exactly when a node its check looked at had
\* failed, and tells so of that node, whatever other processes saved meanwhile.
\* Of the other nodes it may say anything older.
StatusMatchesEntries ==
    health_file # NoHealth =>
        /\ health_file.overall = "degraded"
             <=> \E n \in health_file.targets : health_file.nodes[n] = "failed"
        /\ \A n \in health_file.targets : health_file.nodes[n] # "unknown"
=============================================================================

--------------------------- MODULE SecurityRuntime --------------------------
(* ColossusSecurityRuntime (src/security_event_runtime.py) and the bus it    *)
(* starts: one sink, the Supabase table, which outlives the process, and one *)
(* subscription, P0 dispatch of critical events.  Each successful start()    *)
(* makes a new bus; callers reach it through runtime.bus.  The process may   *)
(* stop between any two steps, and nothing but the table survives.           *)
EXTENDS SecurityEventBus

CONSTANTS
    Supabase,         \* the sink start() configures
    P0,               \* the subscription start() makes
    MaxStarts         \* bound: successful starts, over all processes

ASSUME RuntimeAssumption == MaxStarts \in Nat

VARIABLE started      \* _bus is not None

runtime_vars == <<bus_vars, started>>

RuntimeInit ==
    /\ FreshBus
    /\ sinks = {}
    /\ stack = <<>>
    /\ log = [k \in Sinks |-> <<>>]
    /\ bus = 0
    /\ delivered = <<>>
    /\ withdrawn = [s \in Subs |-> NotWithdrawn]
    /\ started = FALSE

\* The numbers and the buffer of a new bus, or of none.
ResetBus ==
    /\ buffer' = <<>>
    /\ event_counter' = 0 /\ emitted_count' = 0 /\ persistence_failure_count' = 0
    /\ withdrawn' = [s \in Subs |-> NotWithdrawn]

FirstSubscriptions_None == <<>>
FirstSubscriptions == <<P0>>

\* What start() makes the bus with; they are parameters of the bus here.
StartArguments ==
    /\ Supabase \in Sinks /\ RequirePersistence
    /\ P0 \in Subs
    /\ Filter[P0] = [categories |-> Categories, min |-> CRITICAL, source |-> AnySource]

\* start() with an accepted heartbeat.  (A refused one raises and changes
\* nothing: a bus already started stays.)  A second start() in one process
\* replaces the bus; it is taken while no emit() of the old one is in progress.
Start ==
    /\ StartArguments
    /\ stack = <<>>
    /\ bus < MaxStarts
    /\ sinks' = {Supabase}
    /\ subscriptions' = FirstSubscriptions
    /\ ResetBus
    /\ bus' = bus + 1
    /\ started' = TRUE
    /\ UNCHANGED <<stack, log, delivered>>

\* The process dies, in the middle of whatever it was doing.
Crash ==
    /\ started
    /\ started' = FALSE
    /\ sinks' = {} /\ subscriptions' = <<>> /\ stack' = <<>>
    /\ ResetBus
    /\ log' = [k \in Sinks |-> IF k = Supabase THEN log[k] ELSE <<>>]
    /\ UNCHANGED <<bus, delivered>>

\* What users of runtime.bus do.  start() keeps the id of its subscription to
\* itself, so nobody removes P0.
RuntimeUse ==
    \/ \E severity \in Severities, category \in Categories, source \in Sources,
          ok, held \in SUBSET sinks :
         LET event == NewEvent(severity, category, source)
         IN  Emit(event, ok, held) \/ EmitRefused(event, ok, held)
    \/ \E sub \in Subs \ {P0} : Subscribe(sub) \/ Unsubscribe(sub)
    \/ \E k \in Sinks \ {Supabase} : ChangeSinks(k)

RuntimeNext ==
    \/ Start
    \/ Crash
    \/ started /\ (Step \/ RuntimeUse) /\ UNCHANGED started

\* As for the bus: its one thread runs while the process does.
RuntimeSpec ==
    /\ RuntimeInit /\ [][RuntimeNext]_runtime_vars
    /\ WF_runtime_vars(started /\ Step /\ UNCHANGED started)

-----------------------------------------------------------------------------
(* Properties *)

AlertsOf(event) == {i \in 1..Len(delivered) :
                       delivered[i].sub = P0 /\ delivered[i].event = event}

\* P0 gets critical events only, each once over all restarts, and each is in
\* the table when P0 gets it and ever after (src/security_event_runtime.py:99).
AlertsAreDurableAndOnce ==
    \A i \in 1..Len(delivered) :
        delivered[i].sub = P0 =>
            /\ delivered[i].event.severity >= CRITICAL
            /\ delivered[i].event \in ToSet(log[Supabase])
            /\ Cardinality(AlertsOf(delivered[i].event)) = 1

\* Every critical event the bus accepts reaches P0, unless the process dies
\* first or the runtime is started again; no other subscriber, failing callback
\* or nested emission can keep it from P0.
CriticalReachesP0 ==
    \A n \in 1..MaxStarts, i \in 1..MaxEvents :
        LET Accepted == \E j \in 1..Len(buffer) :
                            /\ buffer[j].bus = n /\ buffer[j].id = i
                            /\ buffer[j].severity >= CRITICAL
            Alerted  == \E j \in 1..Len(delivered) :
                            /\ delivered[j].sub = P0
                            /\ delivered[j].event.bus = n /\ delivered[j].event.id = i
        IN  Accepted ~> (Alerted \/ ~started \/ bus # n)

\* schemas/security_event.json:8: an event_id is a uuid, so no two records of
\* the table share one.
DurableIdsUnique ==
    \A i, j \in 1..Len(log[Supabase]) :
        log[Supabase][i].id = log[Supabase][j].id => i = j

-----------------------------------------------------------------------------
(* What the runtime keeps true over restarts, in the parts the proofs use. *)

\* No event comes from a bus that has not been started yet.
EventsOfStartedBuses ==
    /\ \A k \in Sinks : \A i \in 1..Len(log[k]) : log[k][i].bus <= bus
    /\ \A i \in 1..Len(delivered) : delivered[i].event.bus <= bus

\* The bus that is up is in order, and the table has been among its sinks for
\* every event it has in dispatch.
UpAndPersisting ==
    started =>
        /\ StartArguments /\ BusInv
        /\ Supabase \in sinks
        /\ \A n \in 1..Len(stack) : Supabase \in stack[n].event.configured

\* What P0 was called for is critical, and in the table.
AlertsAreInTheTable ==
    \A i \in 1..Len(delivered) :
        delivered[i].sub = P0 =>
            /\ delivered[i].event.severity >= CRITICAL
            /\ delivered[i].event \in ToSet(log[Supabase])

RuntimeInv ==
    /\ BusTypeOK /\ started \in BOOLEAN
    /\ LogInOrder /\ DeliveredAtMostOnce
    /\ EventsOfStartedBuses /\ UpAndPersisting /\ AlertsAreInTheTable
=============================================================================

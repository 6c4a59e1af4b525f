-------------------------- MODULE SecurityEventBus --------------------------
(* The persist-before-dispatch bus of omega/security_event_bus.py.           *)
(*                                                                           *)
(* One thread runs it, but not one call at a time: dispatch calls the        *)
(* subscribers' callbacks, and a callback may itself emit, subscribe,        *)
(* unsubscribe or change the sinks.  The calls of emit() in progress are the *)
(* frames of `stack`, innermost last.                                        *)
(*                                                                           *)
(* A dispatch loops over the list object it finds in _subscriptions.         *)
(* subscribe() appends to that object, which the loop sees; unsubscribe()    *)
(* binds a new one, and every loop in progress goes on over the old.  A      *)
(* frame is `live` while its loop and the bus share the object; then `subs`  *)
(* holds the old one.                                                        *)
(*                                                                           *)
(* Here and in the other modules a definition Name_Variant stands before the *)
(* definition Name and is used nowhere: it is Name with a plausible bug,     *)
(* which the manifest pairs with the property that bug breaks.               *)
EXTENDS Integers, Sequences, SequencesExt, FiniteSets

CONSTANTS
    Sinks,                \* audit log sinks
    Subs,                 \* subscription ids; each is issued once
    Filter,               \* the categories, min and source of each subscription
    Categories, Sources,
    AnySource,            \* source_filter = None
    Severities,           \* ranks emitted, a subset of 0..3
    BufferSize,
    RequirePersistence,
    MaxEvents             \* bound: emits per bus

CRITICAL == 2

ASSUME BusAssumption ==
    /\ BufferSize \in Nat \ {0}
    /\ RequirePersistence \in BOOLEAN
    /\ Severities \subseteq 0..3
    /\ MaxEvents \in Nat
    /\ AnySource \notin Sources
    /\ Filter \in [Subs -> [categories : SUBSET Categories, min : 0..3,
                            source : Sources \cup {AnySource}]]

VARIABLES
    sinks,                        \* _sinks
    subscriptions,                \* _subscriptions
    buffer,                       \* _event_buffer
    event_counter, emitted_count, persistence_failure_count,
    stack,                        \* the emit() calls in progress
    log,                          \* what each sink holds
    bus,                          \* history: the number of this bus object
    delivered,                    \* history: the callbacks called, in order
    withdrawn                     \* history: event_counter when a subscription was removed

counters == <<event_counter, emitted_count, persistence_failure_count>>
bus_vars == <<sinks, subscriptions, buffer, counters, stack, log, bus, delivered, withdrawn>>

NotWithdrawn == -1

\* `configured` is history: the sinks of the bus when the event was emitted.
Event == [bus : Nat, id : Nat, severity : Severities, category : Categories,
          source : Sources, configured : SUBSET Sinks]

Frame == [event : Event, live : BOOLEAN, subs : Seq(Subs), at : Nat \ {0},
          calling : BOOLEAN, audience : SUBSET Subs]

FreshBus ==
    /\ subscriptions = <<>> /\ buffer = <<>>
    /\ event_counter = 0 /\ emitted_count = 0 /\ persistence_failure_count = 0

Call == [sub : Subs, event : Event]

BusInit ==
    /\ FreshBus
    /\ sinks = Sinks
    /\ stack = <<>>
    /\ log = [k \in Sinks |-> <<>>]
    /\ bus = 1
    /\ delivered = <<>>
    /\ withdrawn = [s \in Subs |-> NotWithdrawn]

-----------------------------------------------------------------------------
Top == Last(stack)

\* The program, or the callback the innermost dispatch is in, runs.
Running == stack # <<>> => Top.calling
Dispatching == stack # <<>> /\ ~Top.calling

\* The list object a dispatch loops over.
ListOf(frame) == IF frame.live THEN subscriptions ELSE frame.subs

\* The three filters of _dispatch.
Wants_AnySeverity(sub, event) ==
    /\ event.category \in Filter[sub].categories
    /\ Filter[sub].source \in {AnySource, event.source}
Wants(sub, event) ==
    /\ event.category \in Filter[sub].categories
    /\ Filter[sub].min <= event.severity
    /\ Filter[sub].source \in {AnySource, event.source}

\* Every configured sink said yes, and there is one.
Persisted_AnySink(ok) == ok # {}
Persisted(ok) == sinks # {} /\ ok = sinks

Trimmed_Oldest(events) ==
    IF Len(events) > BufferSize THEN SubSeq(events, 1, BufferSize) ELSE events
Trimmed(events) ==
    IF Len(events) > BufferSize
    THEN SubSeq(events, Len(events) - BufferSize + 1, Len(events))
    ELSE events

NewEvent_Reused(severity, category, source) ==
    [bus |-> bus, id |-> emitted_count + 1, severity |-> severity,
     category |-> category, source |-> source, configured |-> sinks]
NewEvent(severity, category, source) ==
    [bus |-> bus, id |-> event_counter + 1, severity |-> severity,
     category |-> category, source |-> source, configured |-> sinks]

\* The logs when the sinks in `held` have taken the event.
Stored(event, held) == [k \in Sinks |-> IF k \in held THEN Append(log[k], event) ELSE log[k]]

\* The part of emit() that is the same whatever the sinks say.  Those in `ok`
\* answered yes; one whose answer was lost may hold the event all the same.
Persist(event, ok, held) ==
    /\ Running
    /\ event_counter < MaxEvents
    /\ ok \subseteq held
    /\ event_counter' = event_counter + 1
    /\ log' = Stored(event, held)

\* emit() accepts the event and goes on to dispatch it.
Emit(event, ok, held) ==
    /\ RequirePersistence => Persisted(ok)
    /\ Persist(event, ok, held)
    /\ buffer' = Trimmed(Append(buffer, event))
    /\ emitted_count' = emitted_count + 1
    /\ stack' = Append(stack, [event |-> event, live |-> TRUE, subs |-> <<>>, at |-> 1,
                               calling |-> FALSE, audience |-> ToSet(subscriptions)])
    /\ UNCHANGED <<sinks, subscriptions, persistence_failure_count, bus, delivered, withdrawn>>

\* EventPersistenceError: the sinks that hold the event keep it.
EmitRefused_Uncounted(event, ok, held) ==
    /\ RequirePersistence /\ ~Persisted(ok)
    /\ Persist(event, ok, held)
    /\ UNCHANGED <<sinks, subscriptions, buffer, emitted_count,
                   persistence_failure_count, stack, bus, delivered, withdrawn>>
EmitRefused(event, ok, held) ==
    /\ RequirePersistence /\ ~Persisted(ok)
    /\ Persist(event, ok, held)
    /\ persistence_failure_count' = persistence_failure_count + 1
    /\ UNCHANGED <<sinks, subscriptions, buffer, emitted_count, stack, bus, delivered, withdrawn>>

\* One turn of the loop of _dispatch: the callback is called, the subscription
\* is passed over, or the list is exhausted and emit() returns.
CallBack ==
    /\ Dispatching
    /\ Top.at <= Len(ListOf(Top))
    /\ Wants(ListOf(Top)[Top.at], Top.event)
    /\ stack' = [stack EXCEPT ![Len(stack)].calling = TRUE]
    /\ delivered' = Append(delivered, [sub |-> ListOf(Top)[Top.at], event |-> Top.event])
    /\ UNCHANGED <<sinks, subscriptions, buffer, counters, log, bus, withdrawn>>

PassOver_Stuck ==
    /\ Dispatching
    /\ Top.at <= Len(ListOf(Top))
    /\ ~Wants(ListOf(Top)[Top.at], Top.event)
    /\ UNCHANGED bus_vars
PassOver ==
    /\ Dispatching
    /\ Top.at <= Len(ListOf(Top))
    /\ ~Wants(ListOf(Top)[Top.at], Top.event)
    /\ stack' = [stack EXCEPT ![Len(stack)].at = @ + 1]
    /\ UNCHANGED <<sinks, subscriptions, buffer, counters, log, bus, delivered, withdrawn>>

EmitReturns ==
    /\ Dispatching
    /\ Top.at > Len(ListOf(Top))
    /\ stack' = Front(stack)
    /\ UNCHANGED <<sinks, subscriptions, buffer, counters, log, bus, delivered, withdrawn>>

\* The callback returns, or raises an exception that _dispatch logs and drops.
CallbackEnds ==
    /\ stack # <<>> /\ Top.calling
    /\ stack' = [stack EXCEPT ![Len(stack)].calling = FALSE, ![Len(stack)].at = @ + 1]
    /\ UNCHANGED <<sinks, subscriptions, buffer, counters, log, bus, delivered, withdrawn>>

With_AtFront(sub) == <<sub>> \o subscriptions
With(sub) == Append(subscriptions, sub)
\* The ids differ, so filtering one out removes its first occurrence.
Without_Kept(sub) == subscriptions
Without(sub) == RemoveFirst(subscriptions, sub)

Subscribe(sub) ==
    /\ Running
    /\ sub \notin ToSet(subscriptions) /\ withdrawn[sub] = NotWithdrawn
    /\ subscriptions' = With(sub)
    /\ UNCHANGED <<sinks, buffer, counters, stack, log, bus, delivered, withdrawn>>

\* Loops over the object _subscriptions no longer names keep it.
Detached_Not(frames) == frames
Detached(frames) ==
    [i \in DOMAIN frames |->
        IF frames[i].live THEN [frames[i] EXCEPT !.live = FALSE, !.subs = subscriptions]
        ELSE frames[i]]

Unsubscribe(sub) ==
    /\ Running
    /\ subscriptions' = Without(sub)
    /\ stack' = Detached(stack)
    /\ withdrawn' = IF sub \in ToSet(subscriptions)
                    THEN [withdrawn EXCEPT ![sub] = event_counter] ELSE withdrawn
    /\ UNCHANGED <<sinks, buffer, counters, log, bus, delivered>>

\* add_sink() of a sink the bus does not have, and remove_sink() of one it has.
ChangeSinks(k) ==
    /\ Running
    /\ sinks' = IF k \in sinks THEN sinks \ {k} ELSE sinks \cup {k}
    /\ UNCHANGED <<subscriptions, buffer, counters, stack, log, bus, delivered, withdrawn>>

\* The bus's own steps, and the calls its users make.
Step == CallBack \/ PassOver \/ EmitReturns \/ CallbackEnds

Use ==
    \/ \E severity \in Severities, category \in Categories, source \in Sources,
          ok, held \in SUBSET sinks :
         LET event == NewEvent(severity, category, source)
         IN  Emit(event, ok, held) \/ EmitRefused(event, ok, held)
    \/ \E sub \in Subs : Subscribe(sub) \/ Unsubscribe(sub)
    \/ \E k \in Sinks : ChangeSinks(k)

BusNext == Step \/ Use

\* One thread runs the loop and every callback returns; nobody has to use the bus.
BusSpec == BusInit /\ [][BusNext]_bus_vars /\ WF_bus_vars(Step)

-----------------------------------------------------------------------------
(* Properties *)

\* Every field of the bus, and every loop in progress, is well formed.
BusTypeOK ==
    /\ sinks \subseteq Sinks
    /\ subscriptions \in Seq(Subs)
    /\ buffer \in Seq(Event) /\ Len(buffer) <= BufferSize
    /\ event_counter \in 0..MaxEvents
    /\ emitted_count \in Nat /\ persistence_failure_count \in Nat
    /\ stack \in Seq(Frame)
    /\ log \in [Sinks -> Seq(Event)]
    /\ bus \in Nat
    /\ delivered \in Seq(Call)
    /\ withdrawn \in [Subs -> 0..MaxEvents \cup {NotWithdrawn}]

\* Where persistence is required, a callback sees an event only when every sink
\* configured at its emission holds it, and there was one (emit's raise before
\* the dispatch), however emissions nest and sinks change under them.
DeliveredIsDurable ==
    RequirePersistence =>
        \A i \in 1..Len(delivered) :
            LET event == delivered[i].event
            IN  /\ event.configured # {}
                /\ \A k \in event.configured : event \in ToSet(log[k])

\* No subscription gets an event twice, also when callbacks subscribe, remove
\* subscriptions or emit while the event is dispatched.
DeliveredAtMostOnce ==
    \A i, j \in 1..Len(delivered) : delivered[i] = delivered[j] => i = j

\* An emit() that returns has offered its event to every subscription that was
\* there when it began, whatever callbacks removed, raised or emitted meanwhile
\* (unsubscribe rebinds the list instead of shifting it under the loop).
NobodySkipped ==
    [][EmitReturns =>
         \A sub \in Top.audience : Wants(sub, Top.event) =>
             [sub |-> sub, event |-> Top.event] \in ToSet(delivered)]_bus_vars

\* A removed subscription may still be called, but only for events whose
\* emission had begun when it was removed.
WithdrawnSeesOnlyInFlight ==
    \A i \in 1..Len(delivered) :
        LET d == delivered[i]
        IN  withdrawn[d.sub] # NotWithdrawn /\ d.event.bus = bus
              => d.event.id <= withdrawn[d.sub]

\* Every number drawn is accounted for: emitted or refused (get_stats).
EveryNumberAccounted ==
    event_counter = emitted_count + persistence_failure_count

\* The buffer holds the most recent accepted events, oldest first, and nothing
\* else: no refused event, and no event in dispatch newer than its oldest entry
\* is missing, also after nested emissions.
BufferIsRecent ==
    /\ Len(buffer) = IF emitted_count < BufferSize THEN emitted_count ELSE BufferSize
    /\ \A i, j \in 1..Len(buffer) : i < j => buffer[i].id < buffer[j].id
    /\ \A i \in 1..Len(stack) :
         \/ stack[i].event \in ToSet(buffer)
         \/ Len(buffer) = BufferSize /\ stack[i].event.id < buffer[1].id

\* A sink receives the events of one bus in the order of their numbers.
LogInOrder ==
    \A k \in Sinks : \A i, j \in 1..Len(log[k]) :
        i < j /\ log[k][i].bus = log[k][j].bus => log[k][i].id < log[k][j].id

\* Every emit() in progress comes to an end: nested dispatches unwind.
EmissionsUnwind == (stack # <<>>) ~> (stack = <<>>)

-----------------------------------------------------------------------------
(* What the bus keeps true at every step, in the parts the proofs use. *)

\* No number above the counter is in use on this bus.
NumberedSoFar ==
    /\ \A k \in Sinks : \A i \in 1..Len(log[k]) :
         log[k][i].bus = bus => log[k][i].id <= event_counter
    /\ \A i \in 1..Len(stack) :
         stack[i].event.bus = bus /\ stack[i].event.id <= event_counter
    /\ \A i \in 1..Len(delivered) :
         /\ delivered[i].event.bus <= bus
         /\ delivered[i].event.bus = bus => delivered[i].event.id <= event_counter

\* Inner emissions are newer than the ones they interrupt.
FramesNest ==
    \A i, j \in 1..Len(stack) : i < j => stack[i].event.id < stack[j].event.id

HeldEverywhere(event) ==
    /\ event.configured # {}
    /\ \A k \in event.configured : event \in ToSet(log[k])

\* What is in dispatch is in every sink that was configured for it.
FramesAreDurable ==
    RequirePersistence => \A i \in 1..Len(stack) : HeldEverywhere(stack[i].event)

NoRepeats(subs) == \A i, j \in 1..Len(subs) : subs[i] = subs[j] => i = j

\* Whoever was removed from a list was removed after the event it is for.
Clean(list, id, gone) ==
    /\ NoRepeats(list)
    /\ \A i \in 1..Len(list) : gone[list[i]] # NotWithdrawn => id <= gone[list[i]]

\* The list of the bus names no removed subscription; the list of a loop in
\* progress may, when the removal came after the event.
ListsAreClean ==
    /\ NoRepeats(subscriptions)
    /\ \A i \in 1..Len(subscriptions) : withdrawn[subscriptions[i]] = NotWithdrawn
    /\ \A s \in Subs : withdrawn[s] <= event_counter
    /\ \A n \in 1..Len(stack) : Clean(stack[n].subs, stack[n].event.id, withdrawn)

\* The loop of a frame has come to the i-th entry of its list.
Reached(frame, i) == i < frame.at \/ (i = frame.at /\ frame.calling)

\* The loop of a frame is inside its list or just past it, and those called so
\* far for its event are the ones it has reached who wanted it, nobody else.
Served(frame, list, calls) ==
    /\ frame.at <= Len(list) + 1
    /\ frame.calling => frame.at <= Len(list)
    /\ \A i \in 1..Len(calls) : calls[i].event = frame.event =>
         \E j \in 1..Len(list) : Reached(frame, j) /\ list[j] = calls[i].sub
    /\ \A j \in 1..Len(list) : Reached(frame, j) /\ Wants(list[j], frame.event) =>
         [sub |-> list[j], event |-> frame.event] \in ToSet(calls)

LoopsServe == \A n \in 1..Len(stack) : Served(stack[n], ListOf(stack[n]), delivered)

\* Whoever was subscribed when an emission began is on its list.
AudienceIsListed ==
    \A n \in 1..Len(stack) : stack[n].audience \subseteq ToSet(ListOf(stack[n]))

\* All of it together is inductive: no part of the bus's bookkeeping ever
\* disagrees with another, whatever callbacks do inside a dispatch.
\* (DeliveredIsDurable is not part of it: it speaks of sinks the bus may have
\* lost since, and a process that dies takes its sinks with it.)
BusInv ==
    /\ BusTypeOK /\ EveryNumberAccounted
    /\ NumberedSoFar /\ LogInOrder
    /\ FramesNest /\ FramesAreDurable
    /\ ListsAreClean /\ WithdrawnSeesOnlyInFlight
    /\ LoopsServe /\ AudienceIsListed /\ DeliveredAtMostOnce
=============================================================================

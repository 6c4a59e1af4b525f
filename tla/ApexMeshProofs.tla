-------------------------- MODULE ApexMeshProofs ----------------------------
(* Theorems about ApexMesh, for any number of processes, nodes, handlers,    *)
(* nested calls and deaths.                                                  *)
EXTENDS ApexMesh, SubsequenceTheorems, FiniteSetTheorems, SequenceTheorems, TLAPS

\* Whoever called another call is a handler of an emit() that waits for it.
CallersWait ==
    \A p \in Procs : \A i \in 1..(Len(calls[p]) - 1) : calls[p][i].stage = "calling"

\* No Mesh of a life to come has written, nor one event more than it emitted.
NumberedSoFar ==
    \A i \in 1..Len(log) :
        /\ log[i].life <= life[log[i].source]
        /\ log[i].life = life[log[i].source] => log[i].number <= Len(event_log[log[i].source])

\* An event about to be written is the last its Mesh emitted, and the file has
\* none of this Mesh as late as it.
NewIsLatest(p) ==
    At(p, "new") =>
        /\ Top(p).event.source = p /\ Top(p).event.life = life[p]
        /\ Top(p).event.number = Len(event_log[p])
        /\ \A i \in 1..Len(log) :
             log[i].source = p /\ log[i].life = life[p] => log[i].number < Len(event_log[p])

\* The results of the first n probes are what is in memory of their nodes.
Agree(frame, n, status) ==
    /\ Len(frame.results) = n /\ n <= Len(frame.targets)
    /\ \A i \in 1..n : frame.results[i] = status[frame.targets[i]]

CheckAgrees(p) ==
    /\ At(p, "probing") => /\ IsInjective(Top(p).targets)
                           /\ Agree(Top(p), Top(p).at - 1, healthy[p])
    /\ At(p, "saving") => Agree(Top(p), Len(Top(p).targets), healthy[p])

IInv ==
    /\ MemoryAndLogTypeOK /\ CallsTypeOK
    /\ CallersWait /\ NumberedSoFar
    /\ \A p \in Procs : NewIsLatest(p) /\ CheckAgrees(p)
    /\ FileKeepsProgramOrder /\ StatusMatchesEntries

-----------------------------------------------------------------------------
(* Calls *)

\* The innermost call of a process.
LEMMA TopFacts ==
    ASSUME CallsTypeOK, NEW p \in Procs, calls[p] # <<>>
    PROVE  /\ Len(calls[p]) \in Nat \ {0} /\ calls[p] \in Seq(Frame)
           /\ Top(p) \in Frame /\ Top(p) = calls[p][Len(calls[p])]
<1>1. calls[p] \in Seq(Frame)
  BY DEF CallsTypeOK
<1>2. Len(calls[p]) \in Nat \ {0}
  BY <1>1, EmptySeq
<1>3. calls[p][Len(calls[p])] \in Frame
  <2>1. Len(calls[p]) \in 1..Len(calls[p])
    BY <1>2
  <2> QED BY <1>1, <2>1, ElementOfSeq
<1> QED BY <1>1, <1>2, <1>3 DEF Top, Last

\* A call begins.
LEMMA Entered ==
    ASSUME CallsTypeOK, CallersWait, NEW p \in Procs, Running(p),
           NEW frame \in Frame, Enter(p, frame)
    PROVE  /\ calls' \in [Procs -> Seq(Frame)] /\ CallersWait'
           /\ \A q \in Procs \ {p} : calls'[q] = calls[q]
           /\ calls'[p] # <<>> /\ Top(p)' = frame
<1> DEFINE old == calls[p]  new == Append(old, frame)
<1>1. old \in Seq(Frame) /\ Len(old) \in Nat /\ calls' = [calls EXCEPT ![p] = new]
  BY LenProperties DEF CallsTypeOK, Enter
<1>2. /\ new \in Seq(Frame) /\ Len(new) = Len(old) + 1
      /\ \A i \in 1..Len(old) : new[i] = old[i]
      /\ new[Len(old) + 1] = frame
  BY <1>1, AppendProperties
<1>3. \A i \in 1..Len(old) : old[i].stage = "calling"
  <2>1. CASE old = <<>>
    BY <2>1, EmptySeq
  <2>2. CASE old # <<>>
    <3>1. old[Len(old)].stage = "calling"
      BY <2>2, TopFacts DEF Running
    <3>2. \A i \in 1..(Len(old) - 1) : old[i].stage = "calling"
      BY DEF CallersWait
    <3>3. \A i \in 1..Len(old) : i \in 1..(Len(old) - 1) \/ i = Len(old)
      BY <1>1
    <3> QED BY <3>1, <3>2, <3>3
  <2> QED BY <2>1, <2>2
<1>4. new # <<>>
  <2>1. Len(new) # 0
    BY <1>1, <1>2
  <2> QED BY <2>1, EmptySeq
<1> HIDE DEF new
<1>5. calls'[p] = new /\ \A q \in Procs \ {p} : calls'[q] = calls[q]
  BY <1>1 DEF CallsTypeOK
<1>6. calls' \in [Procs -> Seq(Frame)]
  BY <1>1, <1>2 DEF CallsTypeOK
<1>7. CallersWait'
  <2>1. \A i \in 1..(Len(new) - 1) : new[i].stage = "calling"
    <3>1. Len(new) - 1 = Len(old)
      BY <1>1, <1>2
    <3> QED BY <1>2, <1>3, <3>1
  <2> QED BY <1>5, <2>1 DEF CallersWait
<1>8. Top(p)' = frame
  <2>1. Last(new) = frame
    BY <1>2 DEF Last
  <2> QED BY <1>5, <2>1 DEF Top
<1> QED BY <1>4, <1>5, <1>6, <1>7, <1>8

\* The innermost call goes on.
LEMMA WentOn ==
    ASSUME CallsTypeOK, CallersWait, NEW p \in Procs, calls[p] # <<>>,
           NEW frame \in Frame, GoOn(p, frame)
    PROVE  /\ calls' \in [Procs -> Seq(Frame)] /\ CallersWait'
           /\ \A q \in Procs \ {p} : calls'[q] = calls[q]
           /\ calls'[p] # <<>> /\ Top(p)' = frame
<1> DEFINE old == calls[p]  new == [old EXCEPT ![Len(old)] = frame]
<1>1. old \in Seq(Frame) /\ Len(old) \in Nat \ {0} /\ Len(old) \in 1..Len(old)
  <2>1. old \in Seq(Frame) /\ Len(old) \in Nat \ {0}
    BY TopFacts
  <2> QED BY <2>1
<1>2. calls' = [calls EXCEPT ![p] = new]
  BY DEF GoOn
<1>3. /\ new \in Seq(Frame) /\ Len(new) = Len(old)
      /\ \A i \in 1..Len(old) : new[i] = IF i = Len(old) THEN frame ELSE old[i]
  BY <1>1, ExceptSeq
<1>4. new # <<>>
  <2>1. Len(new) # 0
    BY <1>1, <1>3
  <2> QED BY <2>1, EmptySeq
<1> HIDE DEF new
<1>5. calls'[p] = new /\ \A q \in Procs \ {p} : calls'[q] = calls[q]
  BY <1>2 DEF CallsTypeOK
<1>6. calls' \in [Procs -> Seq(Frame)]
  BY <1>2, <1>3 DEF CallsTypeOK
<1>7. CallersWait'
  <2>1. ASSUME NEW i \in 1..(Len(new) - 1) PROVE new[i].stage = "calling"
    <3>1. i \in 1..(Len(old) - 1) /\ i \in 1..Len(old) /\ i # Len(old)
      BY <1>1, <1>3
    <3> QED BY <1>3, <3>1 DEF CallersWait
  <2> QED BY <1>5, <2>1 DEF CallersWait
<1>8. Top(p)' = frame
  <2>1. Last(new) = frame
    BY <1>1, <1>3 DEF Last
  <2> QED BY <1>5, <2>1 DEF Top
<1> QED BY <1>4, <1>5, <1>6, <1>7, <1>8

\* The innermost call returns or raises; a handler goes on, or the program.
LEMMA Returned ==
    ASSUME CallsTypeOK, CallersWait, NEW p \in Procs, calls[p] # <<>>, Leave(p)
    PROVE  /\ calls' \in [Procs -> Seq(Frame)] /\ CallersWait'
           /\ \A q \in Procs \ {p} : calls'[q] = calls[q]
           /\ calls'[p] # <<>> => Top(p)'.stage = "calling"
<1> DEFINE old == calls[p]  new == SubSeq(old, 1, Len(old) - 1)
<1>1. old \in Seq(Frame) /\ Len(old) \in Nat \ {0}
  BY TopFacts
<1>2. \A i \in 1..(Len(old) - 1) : old[i] \in Frame /\ old[i].stage = "calling"
  <2>1. \A i \in 1..(Len(old) - 1) : i \in 1..Len(old)
    BY <1>1
  <2> QED BY <1>1, <2>1, ElementOfSeq DEF CallersWait
<1>3. /\ new \in Seq(Frame)
      /\ Len(new) = IF 1 <= Len(old) - 1 THEN Len(old) - 1 - 1 + 1 ELSE 0
      /\ \A i \in 1..(Len(old) - 1 - 1 + 1) : new[i] = old[1 + i - 1]
  <2>1. 1 \in Int /\ Len(old) - 1 \in Int
    BY <1>1
  <2>2. \A i \in 1..(Len(old) - 1) : old[i] \in Frame
    BY <1>2
  <2> QED BY <2>1, <2>2, SubSeqProperties
<1> HIDE DEF new
<1>4. Len(new) = Len(old) - 1 /\ \A i \in 1..Len(new) : new[i].stage = "calling"
  <2>1. Len(new) = Len(old) - 1
    BY <1>1, <1>3
  <2>2. ASSUME NEW i \in 1..Len(new) PROVE new[i].stage = "calling"
    <3>1. i \in 1..(Len(old) - 1 - 1 + 1) /\ 1 + i - 1 = i /\ i \in 1..(Len(old) - 1)
      BY <1>1, <2>1
    <3> QED BY <1>2, <1>3, <3>1
  <2> QED BY <2>1, <2>2
<1>5. calls' = [calls EXCEPT ![p] = new]
  BY DEF Leave, Front, new
<1>6. calls'[p] = new /\ \A q \in Procs \ {p} : calls'[q] = calls[q]
  BY <1>5 DEF CallsTypeOK
<1>7. calls' \in [Procs -> Seq(Frame)]
  BY <1>3, <1>5 DEF CallsTypeOK
<1>8. CallersWait'
  <2>1. \A i \in 1..(Len(new) - 1) : new[i].stage = "calling"
    <3>1. \A i \in 1..(Len(new) - 1) : i \in 1..Len(new)
      BY <1>1, <1>4
    <3> QED BY <1>4, <3>1
  <2> QED BY <1>6, <2>1 DEF CallersWait
<1>9. calls'[p] # <<>> => Top(p)'.stage = "calling"
  <2>1. new # <<>> => Len(new) \in 1..Len(new)
    <3>1. new # <<>> => Len(new) \in Nat \ {0}
      BY <1>3, EmptySeq
    <3> QED BY <3>1
  <2> QED BY <1>4, <1>6, <2>1 DEF Top, Last
<1> QED BY <1>6, <1>7, <1>8, <1>9

-----------------------------------------------------------------------------
(* Steps *)

LEMMA InitIInv == Init => IInv
<1> SUFFICES ASSUME Init PROVE IInv
  OBVIOUS
<1>1. /\ log = <<>> /\ log \in Seq(Event) /\ Len(log) = 0
      /\ \A S : <<>> \in Seq(S)
  BY EmptySeq DEF Init
<1>2. \A p \in Procs : calls[p] = <<>> /\ Len(calls[p]) = 0
  BY EmptySeq DEF Init
<1>3. MemoryAndLogTypeOK
  BY <1>1 DEF MemoryAndLogTypeOK, Init, FreshHealth, NoHandlers
<1>4. CallsTypeOK
  BY <1>1 DEF CallsTypeOK, Init
<1>5. CallersWait /\ NumberedSoFar /\ FileKeepsProgramOrder
  BY <1>1, <1>2 DEF CallersWait, NumberedSoFar, FileKeepsProgramOrder
<1>6. \A p \in Procs : NewIsLatest(p) /\ CheckAgrees(p)
  BY <1>2 DEF NewIsLatest, CheckAgrees, At
<1>7. StatusMatchesEntries
  BY DEF Init, StatusMatchesEntries
<1> QED BY <1>3, <1>4, <1>5, <1>6, <1>7 DEF IInv

\* What one process does leaves the calls of the others as they were.
LEMMA OthersKeep ==
    ASSUME NEW q \in Procs, NewIsLatest(q), CheckAgrees(q),
           calls'[q] = calls[q], healthy'[q] = healthy[q],
           event_log'[q] = event_log[q], life'[q] = life[q],
           \A i \in 1..Len(log') : log'[i].source = q => i \in 1..Len(log) /\ log'[i] = log[i]
    PROVE  NewIsLatest(q)' /\ CheckAgrees(q)'
<1>1. Top(q)' = Top(q)
  BY DEF Top
<1>2. \A stage : At(q, stage)' <=> At(q, stage)
  BY <1>1 DEF At
<1>3. NewIsLatest(q)'
  BY <1>1, <1>2 DEF NewIsLatest
<1>4. CheckAgrees(q)'
  BY <1>1, <1>2 DEF CheckAgrees, Agree
<1> QED BY <1>3, <1>4

\* A process that is in no stage of interest has nothing to keep.
LEMMA Idle ==
    ASSUME NEW p \in Procs,
           ~At(p, "new")', ~At(p, "probing")', ~At(p, "saving")'
    PROVE  NewIsLatest(p)' /\ CheckAgrees(p)'
BY DEF NewIsLatest, CheckAgrees

LEMMA EmitIInv ==
    ASSUME IInv, NEW p \in Procs, NEW type \in EventTypes, Emit(p, type)
    PROVE  IInv'
<1> DEFINE event == NewEvent(p, type)
           frame == [stage |-> "new", event |-> event, audience |-> <<>>, at |-> 1]
           old == event_log[p]
<1>0. MemoryAndLogTypeOK /\ CallsTypeOK /\ CallersWait
  BY DEF IInv
<1>1. /\ old \in Seq(Event) /\ Len(old) \in Nat
      /\ event_log' = [event_log EXCEPT ![p] = Append(old, event)]
      /\ UNCHANGED <<healthy, handlers, log, tail, health_file, life, written, tears>>
  BY <1>0, LenProperties DEF MemoryAndLogTypeOK, Emit, files
<1>2. /\ event \in Event /\ event.source = p /\ event.life = life[p]
      /\ event.number = Len(old) + 1
  BY <1>0, <1>1 DEF CallsTypeOK, NewEvent, Event
<1>3. frame \in Frame /\ frame.stage = "new" /\ frame.event = event
  BY <1>2, EmptySeq DEF Frame, EmitFrame
<1>4. Running(p) /\ Enter(p, frame)
  BY DEF Emit, Called
<1> HIDE DEF event
<1>5. Append(old, event) \in Seq(Event) /\ Len(Append(old, event)) = Len(old) + 1
  BY <1>1, <1>2, AppendProperties
<1>6. /\ event_log' \in [Procs -> Seq(Event)] /\ Len(event_log'[p]) = Len(old) + 1
      /\ \A q \in Procs \ {p} : event_log'[q] = event_log[q]
  BY <1>0, <1>1, <1>5 DEF MemoryAndLogTypeOK
<1> HIDE DEF frame
<1>7. /\ calls' \in [Procs -> Seq(Frame)] /\ CallersWait'
      /\ \A q \in Procs \ {p} : calls'[q] = calls[q]
      /\ calls'[p] # <<>> /\ Top(p)' = frame
  BY <1>0, <1>3, <1>4, Entered
<1>8. MemoryAndLogTypeOK' /\ CallsTypeOK'
  BY <1>0, <1>1, <1>6, <1>7 DEF MemoryAndLogTypeOK, CallsTypeOK
<1>9. \A i \in 1..Len(log) : log[i].source = p /\ log[i].life = life[p] => log[i].number < Len(old) + 1
  <2>1. \A i \in 1..Len(log) : log[i] \in Event
    BY <1>0, ElementOfSeq DEF MemoryAndLogTypeOK
  <2> QED BY <1>1, <2>1 DEF IInv, NumberedSoFar, Event
<1>10. NewIsLatest(p)' /\ CheckAgrees(p)'
  <2>1. NewIsLatest(p)'
    BY <1>1, <1>2, <1>3, <1>6, <1>7, <1>9 DEF NewIsLatest
  <2>2. CheckAgrees(p)'
    BY <1>3, <1>7 DEF CheckAgrees, At
  <2> QED BY <2>1, <2>2
<1>11. \A q \in Procs \ {p} : NewIsLatest(q)' /\ CheckAgrees(q)'
  BY <1>1, <1>6, <1>7, OthersKeep DEF IInv
<1>12. NumberedSoFar'
  <2> SUFFICES ASSUME NEW i \in 1..Len(log)
               PROVE  /\ log[i].life <= life[log[i].source]
                      /\ log[i].life = life[log[i].source] =>
                           log[i].number <= Len(event_log'[log[i].source])
    BY <1>1 DEF NumberedSoFar
  <2>1. log[i] \in Event
    BY <1>0, ElementOfSeq DEF MemoryAndLogTypeOK
  <2>2. log[i].source \in Procs /\ log[i].number \in Nat
    BY <2>1 DEF Event
  <2>3. /\ log[i].life <= life[log[i].source]
        /\ log[i].life = life[log[i].source] => log[i].number <= Len(event_log[log[i].source])
    BY DEF IInv, NumberedSoFar
  <2> QED BY <1>1, <1>6, <2>2, <2>3
<1>13. FileKeepsProgramOrder' /\ StatusMatchesEntries'
  BY <1>1 DEF IInv, FileKeepsProgramOrder, StatusMatchesEntries
<1> QED BY <1>7, <1>8, <1>10, <1>11, <1>12, <1>13 DEF IInv

\* A step of the calls of a process that touches neither its events, its nodes
\* nor the log, and leaves it where nothing is about to be written.
LEMMA QuietIInv ==
    ASSUME IInv, NEW p \in Procs,
           calls' \in [Procs -> Seq(Frame)], CallersWait',
           \A q \in Procs \ {p} : calls'[q] = calls[q],
           NewIsLatest(p)', CheckAgrees(p)',
           handlers' \in [Procs -> [EventTypes \cup {AnyType} -> Seq(Registration)]],
           tail' \in Event \cup {Nothing, Fragment}, tears' \in Nat,
           healthy' \in [Procs -> [Nodes -> {"unknown", "healthy", "failed"}]],
           \A q \in Procs \ {p} : healthy'[q] = healthy[q],
           StatusMatchesEntries',
           UNCHANGED <<event_log, log, life, written>>
    PROVE  IInv'
<1>1. \A q \in Procs \ {p} : NewIsLatest(q)' /\ CheckAgrees(q)'
  BY OthersKeep DEF IInv
<1>2. MemoryAndLogTypeOK' /\ CallsTypeOK'
  BY DEF IInv, MemoryAndLogTypeOK, CallsTypeOK
<1>3. NumberedSoFar' /\ FileKeepsProgramOrder'
  BY DEF IInv, NumberedSoFar, FileKeepsProgramOrder
<1> QED BY <1>1, <1>2, <1>3 DEF IInv

\* Two lists of handlers make one.
LEMMA ListenersTyped ==
    ASSUME MemoryAndLogTypeOK, NEW p \in Procs, NEW type \in EventTypes
    PROVE  Listeners(p, type) \in Seq(Registration)
<1>1. handlers[p][type] \in Seq(Registration) /\ handlers[p][AnyType] \in Seq(Registration)
  BY DEF MemoryAndLogTypeOK
<1> QED BY <1>1, ConcatProperties DEF Listeners

\* The innermost call of a process in an emit().
LEMMA EmitTop ==
    ASSUME CallsTypeOK, NEW p \in Procs, NEW stage \in {"new", "dispatch", "calling"}, At(p, stage)
    PROVE  calls[p] # <<>> /\ Top(p) \in EmitFrame /\ Top(p).stage = stage
<1>1. calls[p] # <<>> /\ Top(p).stage = stage
  BY DEF At
<1>2. Top(p) \in EmitFrame \cup CheckFrame
  BY <1>1, TopFacts DEF Frame
<1> QED BY <1>1, <1>2 DEF CheckFrame

\* And in a health_check().
LEMMA CheckTop ==
    ASSUME CallsTypeOK, NEW p \in Procs, NEW stage \in {"probing", "saving"}, At(p, stage)
    PROVE  calls[p] # <<>> /\ Top(p) \in CheckFrame /\ Top(p).stage = stage
<1>1. calls[p] # <<>> /\ Top(p).stage = stage
  BY DEF At
<1>2. Top(p) \in EmitFrame \cup CheckFrame
  BY <1>1, TopFacts DEF Frame
<1> QED BY <1>1, <1>2 DEF EmitFrame

\* A line is added to the file: it is later than all of its Mesh there.
LEMMA WriteEventIInv == ASSUME IInv, NEW p \in Procs, WriteEvent(p) PROVE IInv'
<1> DEFINE event == Top(p).event
           frame == [Top(p) EXCEPT !.stage = "dispatch", !.audience = Listeners(p, event.type)]
<1>0. MemoryAndLogTypeOK /\ CallsTypeOK /\ CallersWait
  BY DEF IInv
<1>1. calls[p] # <<>> /\ Top(p) \in EmitFrame /\ At(p, "new")
  BY <1>0, EmitTop DEF WriteEvent
<1>2. event \in Event
  BY <1>1 DEF EmitFrame
<1>3. Listeners(p, event.type) \in Seq(Registration)
  BY <1>0, <1>2, ListenersTyped DEF Event
<1>4. frame \in Frame /\ frame.stage = "dispatch"
  BY <1>1, <1>3 DEF Frame, EmitFrame
<1>5. /\ GoOn(p, frame) /\ log' = Appended(log, tail, event) /\ tail' = Nothing
      /\ written' = written \cup {event}
      /\ UNCHANGED <<healthy, event_log, handlers, health_file, life, tears>>
  BY DEF WriteEvent
<1>6. /\ event.source = p /\ event.life = life[p] /\ event.number = Len(event_log[p])
      /\ \A i \in 1..Len(log) :
           log[i].source = p /\ log[i].life = life[p] => log[i].number < Len(event_log[p])
  BY <1>1 DEF IInv, NewIsLatest
<1> HIDE DEF event, frame
<1>7. /\ calls' \in [Procs -> Seq(Frame)] /\ CallersWait'
      /\ \A q \in Procs \ {p} : calls'[q] = calls[q]
      /\ calls'[p] # <<>> /\ Top(p)' = frame
  BY <1>0, <1>1, <1>4, <1>5, WentOn
<1>8. /\ log \in Seq(Event) /\ Len(log) \in Nat
      /\ \A i \in 1..Len(log) : log[i] \in Event
  BY <1>0, LenProperties, ElementOfSeq DEF MemoryAndLogTypeOK
<1>9. /\ log' \in Seq(Event)
      /\ \A i \in 1..Len(log') : \/ i \in 1..Len(log) /\ log'[i] = log[i]
                                 \/ i = Len(log) + 1 /\ log'[i] = event
  <2>1. CASE log' = log
    BY <1>8, <2>1
  <2>2. CASE log' = Append(log, event)
    <3>1. /\ Append(log, event) \in Seq(Event) /\ Len(Append(log, event)) = Len(log) + 1
          /\ \A i \in 1..Len(log) : Append(log, event)[i] = log[i]
          /\ Append(log, event)[Len(log) + 1] = event
      BY <1>2, <1>8, AppendProperties
    <3>2. \A i \in 1..(Len(log) + 1) : i \in 1..Len(log) \/ i = Len(log) + 1
      BY <1>8
    <3> QED BY <2>2, <3>1, <3>2
  <2> QED BY <1>5, <2>1, <2>2 DEF Appended
<1>10. MemoryAndLogTypeOK' /\ CallsTypeOK'
  BY <1>0, <1>2, <1>5, <1>7, <1>9 DEF MemoryAndLogTypeOK, CallsTypeOK
<1>11. NewIsLatest(p)' /\ CheckAgrees(p)'
  BY <1>4, <1>7, Idle DEF At
<1>12. \A q \in Procs \ {p} : NewIsLatest(q)' /\ CheckAgrees(q)'
  <2> TAKE q \in Procs \ {p}
  <2>1. \A i \in 1..Len(log') : log'[i].source = q => i \in 1..Len(log) /\ log'[i] = log[i]
    BY <1>6, <1>9
  <2> QED BY <1>5, <1>7, <2>1, OthersKeep DEF IInv
<1>13. NumberedSoFar'
  <2> SUFFICES ASSUME NEW i \in 1..Len(log')
               PROVE  /\ log'[i].life <= life[log'[i].source]
                      /\ log'[i].life = life[log'[i].source] =>
                           log'[i].number <= Len(event_log[log'[i].source])
    BY <1>5 DEF NumberedSoFar
  <2>1. CASE i \in 1..Len(log) /\ log'[i] = log[i]
    BY <2>1 DEF IInv, NumberedSoFar
  <2>2. CASE log'[i] = event
    <3>1. life[p] \in Nat /\ Len(event_log[p]) \in Nat
      BY <1>0, LenProperties DEF MemoryAndLogTypeOK, CallsTypeOK
    <3> QED BY <1>6, <2>2, <3>1
  <2> QED BY <1>9, <2>1, <2>2
<1>14. FileKeepsProgramOrder'
  <2> SUFFICES ASSUME NEW i \in 1..Len(log'), NEW j \in 1..Len(log'), i < j,
                      log'[i].source = log'[j].source, log'[i].life = log'[j].life
               PROVE  log'[i].number < log'[j].number
    BY DEF FileKeepsProgramOrder
  <2>1. i \in 1..Len(log) /\ log'[i] = log[i]
    BY <1>8, <1>9
  <2>2. CASE j \in 1..Len(log) /\ log'[j] = log[j]
    BY <2>1, <2>2 DEF IInv, FileKeepsProgramOrder
  <2>3. CASE log'[j] = event
    BY <1>6, <2>1, <2>3
  <2> QED BY <1>9, <2>2, <2>3
<1>15. StatusMatchesEntries'
  BY <1>5 DEF IInv, StatusMatchesEntries
<1> QED BY <1>7, <1>10, <1>11, <1>12, <1>13, <1>14, <1>15 DEF IInv

LEMMA WriteFailsIInv == ASSUME IInv, NEW p \in Procs, NEW left, WriteFails(p, left) PROVE IInv'
<1>0. MemoryAndLogTypeOK /\ CallsTypeOK /\ CallersWait
  BY DEF IInv
<1>1. calls[p] # <<>> /\ Top(p) \in EmitFrame
  BY <1>0, EmitTop DEF WriteFails
<1>2. /\ calls' \in [Procs -> Seq(Frame)] /\ CallersWait'
      /\ \A q \in Procs \ {p} : calls'[q] = calls[q]
      /\ calls'[p] # <<>> => Top(p)'.stage = "calling"
  BY <1>0, <1>1, Returned DEF WriteFails
<1>3. NewIsLatest(p)' /\ CheckAgrees(p)'
  BY <1>2, Idle DEF At
<1>4. tail' \in Event \cup {Nothing, Fragment} /\ tears' \in Nat
  <2>1. Top(p).event \in Event
    BY <1>1 DEF EmitFrame
  <2>2. tears \in Nat /\ tail \in Event \cup {Nothing, Fragment}
    BY <1>0 DEF MemoryAndLogTypeOK
  <2>3. tail' = tail \/ tail' = left \/ tail' = Fragment
    BY DEF WriteFails
  <2> QED BY <2>1, <2>2, <2>3 DEF WriteFails
<1>5. /\ UNCHANGED <<healthy, handlers, event_log, log, health_file, life, written>>
      /\ handlers \in [Procs -> [EventTypes \cup {AnyType} -> Seq(Registration)]]
      /\ healthy \in [Procs -> [Nodes -> {"unknown", "healthy", "failed"}]]
  BY <1>0 DEF WriteFails, MemoryAndLogTypeOK
<1>6. StatusMatchesEntries'
  BY <1>5 DEF IInv, StatusMatchesEntries
<1> QED BY <1>2, <1>3, <1>4, <1>5, <1>6, QuietIInv

\* A step that only moves the innermost call of a process on, or ends it.
LEMMA MoveIInv ==
    ASSUME IInv, NEW p \in Procs,
           calls' \in [Procs -> Seq(Frame)], CallersWait',
           \A q \in Procs \ {p} : calls'[q] = calls[q],
           calls'[p] # <<>> => Top(p)'.stage \in {"dispatch", "calling"},
           UNCHANGED <<healthy, event_log, handlers, files, life, written, tears>>
    PROVE  IInv'
<1>1. NewIsLatest(p)' /\ CheckAgrees(p)'
  BY Idle DEF At
<1>2. /\ UNCHANGED <<healthy, event_log, handlers, log, tail, health_file, life, written, tears>>
      /\ handlers \in [Procs -> [EventTypes \cup {AnyType} -> Seq(Registration)]]
      /\ healthy \in [Procs -> [Nodes -> {"unknown", "healthy", "failed"}]]
      /\ tail \in Event \cup {Nothing, Fragment} /\ tears \in Nat
  BY DEF IInv, MemoryAndLogTypeOK, files
<1>3. StatusMatchesEntries'
  BY <1>2 DEF IInv, StatusMatchesEntries
<1> QED BY <1>1, <1>2, <1>3, QuietIInv

\* The handler an emit() called has returned.
LEMMA Advanced ==
    ASSUME NEW frame \in EmitFrame
    PROVE  /\ Advance(frame) \in EmitFrame /\ Advance(frame).stage = "dispatch"
           /\ Advance(frame).event = frame.event /\ Advance(frame).audience = frame.audience
           /\ Advance(frame).at = frame.at + 1
<1>1. frame.at + 1 \in Nat \ {0} /\ "dispatch" \in {"new", "dispatch", "calling"}
  BY DEF EmitFrame
<1>2. Advance(frame) = [frame EXCEPT !.stage = "dispatch", !.at = frame.at + 1]
  BY DEF Advance
<1> QED BY <1>1, <1>2 DEF EmitFrame

LEMMA DispatchIInv ==
    ASSUME IInv, NEW p \in Procs, CallHandler(p) \/ HandlerEnds(p) \/ EmitReturns(p)
    PROVE  IInv'
<1>0. CallsTypeOK /\ CallersWait
  BY DEF IInv
<1>1. CASE CallHandler(p)
  <2> DEFINE frame == [Top(p) EXCEPT !.stage = "calling"]
  <2>1. calls[p] # <<>> /\ Top(p) \in EmitFrame
    BY <1>0, <1>1, EmitTop DEF CallHandler
  <2>2. frame \in Frame /\ frame.stage = "calling"
    BY <2>1 DEF EmitFrame, Frame
  <2>3. GoOn(p, frame) /\ UNCHANGED <<healthy, event_log, handlers, files, life, written, tears>>
    BY <1>1 DEF CallHandler
  <2> HIDE DEF frame
  <2>4. /\ calls' \in [Procs -> Seq(Frame)] /\ CallersWait'
        /\ \A q \in Procs \ {p} : calls'[q] = calls[q]
        /\ Top(p)' = frame
    BY <1>0, <2>1, <2>2, <2>3, WentOn
  <2> QED BY <2>2, <2>3, <2>4, MoveIInv
<1>2. CASE HandlerEnds(p)
  <2> DEFINE frame == Advance(Top(p))
  <2>1. calls[p] # <<>> /\ Top(p) \in EmitFrame
    BY <1>0, <1>2, EmitTop DEF HandlerEnds
  <2>2. frame \in Frame /\ frame.stage = "dispatch"
    BY <2>1, Advanced DEF Frame
  <2>3. GoOn(p, frame) /\ UNCHANGED <<healthy, event_log, handlers, files, life, written, tears>>
    BY <1>2 DEF HandlerEnds, history
  <2> HIDE DEF frame
  <2>4. /\ calls' \in [Procs -> Seq(Frame)] /\ CallersWait'
        /\ \A q \in Procs \ {p} : calls'[q] = calls[q]
        /\ Top(p)' = frame
    BY <1>0, <2>1, <2>2, <2>3, WentOn
  <2> QED BY <2>2, <2>3, <2>4, MoveIInv
<1>3. CASE EmitReturns(p)
  <2>1. calls[p] # <<>> /\ Leave(p)
    BY <1>3 DEF EmitReturns, At
  <2>2. UNCHANGED <<healthy, event_log, handlers, files, life, written, tears>>
    BY <1>3 DEF EmitReturns, history
  <2>3. /\ calls' \in [Procs -> Seq(Frame)] /\ CallersWait'
        /\ \A q \in Procs \ {p} : calls'[q] = calls[q]
        /\ calls'[p] # <<>> => Top(p)'.stage = "calling"
    BY <1>0, <2>1, Returned
  <2> QED BY <2>2, <2>3, MoveIInv
<1> QED BY <1>1, <1>2, <1>3

LEMMA OnIInv ==
    ASSUME IInv, NEW p \in Procs, NEW type \in Listened, NEW h \in Handlers, On(p, type, h)
    PROVE  IInv'
<1> DEFINE r == [handler |-> h, since |-> Len(event_log[p])]
           list == handlers[p][type]
<1>0. MemoryAndLogTypeOK /\ CallsTypeOK /\ CallersWait
  BY DEF IInv
<1>1. type \in EventTypes \cup {AnyType} /\ list \in Seq(Registration) /\ r \in Registration
  <2>1. Len(event_log[p]) \in Nat
    BY <1>0, LenProperties DEF MemoryAndLogTypeOK
  <2>2. type \in EventTypes \cup {AnyType}
    BY MeshAssumption
  <2> QED BY <1>0, <2>1, <2>2 DEF MemoryAndLogTypeOK, Registration
<1>2. Append(list, r) \in Seq(Registration)
  BY <1>1, AppendProperties
<1>3. /\ handlers' = [handlers EXCEPT ![p] = [handlers[p] EXCEPT ![type] = Append(list, r)]]
      /\ UNCHANGED <<healthy, event_log, calls, log, tail, health_file, life, written, tears>>
  BY DEF On, files
<1> HIDE DEF r, list
<1>4. handlers' \in [Procs -> [EventTypes \cup {AnyType} -> Seq(Registration)]]
  BY <1>0, <1>1, <1>2, <1>3 DEF MemoryAndLogTypeOK
<1>5. Running(p)
  BY DEF On, Called
<1>6. ~At(p, "new")' /\ ~At(p, "probing")' /\ ~At(p, "saving")'
  BY <1>3, <1>5 DEF At, Running, Top
<1>7. NewIsLatest(p)' /\ CheckAgrees(p)'
  BY <1>6, Idle
<1>8. /\ healthy \in [Procs -> [Nodes -> {"unknown", "healthy", "failed"}]]
      /\ tail \in Event \cup {Nothing, Fragment} /\ tears \in Nat
      /\ calls' \in [Procs -> Seq(Frame)] /\ CallersWait'
  BY <1>0, <1>3 DEF MemoryAndLogTypeOK, CallsTypeOK, CallersWait
<1>9. StatusMatchesEntries'
  BY <1>3 DEF IInv, StatusMatchesEntries
<1> QED BY <1>3, <1>4, <1>7, <1>8, <1>9, QuietIInv

-----------------------------------------------------------------------------
(* Health *)

\* A check of all nodes or of one begins: nothing is probed yet.
LEMMA HealthCheckIInv ==
    ASSUME IInv, NEW p \in Procs, NEW targets \in Seq(Nodes), IsInjective(targets),
           HealthCheck(p, targets)
    PROVE  IInv'
<1> DEFINE frame == [stage |-> "probing", targets |-> targets, at |-> 1, results |-> <<>>]
<1>0. MemoryAndLogTypeOK /\ CallsTypeOK /\ CallersWait
  BY DEF IInv
<1>1. /\ frame \in Frame /\ frame.stage = "probing" /\ frame.at = 1
      /\ frame.targets = targets /\ frame.results = <<>>
  BY EmptySeq DEF Frame, CheckFrame
<1>2. /\ Running(p) /\ Enter(p, frame)
      /\ UNCHANGED <<healthy, event_log, handlers, log, tail, health_file, life, written, tears>>
  BY DEF HealthCheck, Called, files
<1> HIDE DEF frame
<1>3. /\ calls' \in [Procs -> Seq(Frame)] /\ CallersWait'
      /\ \A q \in Procs \ {p} : calls'[q] = calls[q]
      /\ calls'[p] # <<>> /\ Top(p)' = frame
  BY <1>0, <1>1, <1>2, Entered
<1>4. Len(<<>>) = 0 /\ Len(targets) \in Nat
  BY EmptySeq, LenProperties
<1>5. Agree(frame, frame.at - 1, healthy'[p])
  BY <1>1, <1>4 DEF Agree
<1>6. NewIsLatest(p)' /\ CheckAgrees(p)'
  <2>1. NewIsLatest(p)'
    BY <1>1, <1>3 DEF NewIsLatest, At
  <2>2. (At(p, "probing") => Agree(Top(p), Top(p).at - 1, healthy[p]))'
    BY <1>3, <1>5
  <2>3. (At(p, "probing") => IsInjective(Top(p).targets))'
    BY <1>1, <1>3
  <2>4. ~At(p, "saving")'
    BY <1>1, <1>3 DEF At
  <2> QED BY <2>1, <2>2, <2>3, <2>4 DEF CheckAgrees
<1>7. /\ handlers \in [Procs -> [EventTypes \cup {AnyType} -> Seq(Registration)]]
      /\ healthy \in [Procs -> [Nodes -> {"unknown", "healthy", "failed"}]]
      /\ tail \in Event \cup {Nothing, Fragment} /\ tears \in Nat
  BY <1>0 DEF MemoryAndLogTypeOK
<1>8. StatusMatchesEntries'
  BY <1>2 DEF IInv, StatusMatchesEntries
<1> QED BY <1>2, <1>3, <1>6, <1>7, <1>8, QuietIInv

\* A node answers: no target is probed twice, so the results before it stand.
LEMMA ProbeIInv ==
    ASSUME IInv, NEW p \in Procs, NEW answer \in Answers, Probe(p, answer)
    PROVE  IInv'
<1> DEFINE old == Top(p)  at == old.at  node == old.targets[at]
           results == Append(old.results, answer)
           frame == [old EXCEPT !.at = @ + 1, !.results = results]
<1>0. MemoryAndLogTypeOK /\ CallsTypeOK /\ CallersWait
  BY DEF IInv
<1>1. /\ calls[p] # <<>> /\ old \in CheckFrame /\ At(p, "probing") /\ old.stage = "probing"
      /\ at <= Len(old.targets)
  BY <1>0, CheckTop DEF Probe
<1>2. /\ IsInjective(old.targets) /\ Len(old.results) = at - 1
      /\ \A i \in 1..(at - 1) : old.results[i] = healthy[p][old.targets[i]]
  BY <1>1 DEF IInv, CheckAgrees, Agree
<1>3. /\ old.targets \in Seq(Nodes) /\ old.results \in Seq(Answers) /\ at \in Nat \ {0}
      /\ Len(old.targets) \in Nat
  BY <1>1, LenProperties DEF CheckFrame
<1>4. /\ at \in 1..Len(old.targets) /\ node \in Nodes
      /\ \A i \in 1..(at - 1) : i \in 1..Len(old.targets) /\ i # at
  <2>1. at \in 1..Len(old.targets)
    BY <1>1, <1>3
  <2>2. node \in Nodes
    BY <1>3, <2>1, ElementOfSeq
  <2>3. \A i \in 1..(at - 1) : i \in 1..Len(old.targets) /\ i # at
    BY <1>3, <2>1
  <2> QED BY <2>1, <2>2, <2>3
<1>5. \A i \in 1..(at - 1) : old.targets[i] # node
  <2>1. DOMAIN old.targets = 1..Len(old.targets)
    BY <1>3, LenProperties
  <2> QED BY <1>2, <1>4, <2>1 DEF IsInjective
<1>6. /\ healthy' = [healthy EXCEPT ![p] = [healthy[p] EXCEPT ![node] = answer]]
      /\ GoOn(p, frame)
      /\ UNCHANGED <<event_log, handlers, log, tail, health_file, life, written, tears>>
  BY DEF Probe, files, history
<1>7. /\ healthy' \in [Procs -> [Nodes -> {"unknown", "healthy", "failed"}]]
      /\ \A q \in Procs \ {p} : healthy'[q] = healthy[q]
      /\ \A n \in Nodes : healthy'[p][n] = IF n = node THEN answer ELSE healthy[p][n]
  BY <1>0, <1>4, <1>6 DEF MemoryAndLogTypeOK, Answers
<1>8. /\ results \in Seq(Answers) /\ Len(results) = at
      /\ \A i \in 1..(at - 1) : results[i] = old.results[i]
      /\ results[at] = answer
  <2>1. /\ Append(old.results, answer) \in Seq(Answers)
        /\ Len(Append(old.results, answer)) = Len(old.results) + 1
        /\ \A i \in 1..Len(old.results) :
             Append(old.results, answer)[i] = old.results[i]
        /\ Append(old.results, answer)[Len(old.results) + 1] = answer
    BY <1>3, AppendProperties
  <2>2. Len(old.results) + 1 = at
    BY <1>2, <1>3
  <2> QED BY <1>2, <2>1, <2>2
<1> HIDE DEF results
<1>9. /\ frame \in CheckFrame /\ frame.stage = "probing" /\ frame.at = at + 1
      /\ frame.targets = old.targets /\ frame.results = results
  <2>1. at + 1 \in Nat \ {0}
    BY <1>3
  <2> QED BY <1>1, <1>8, <2>1 DEF CheckFrame
<1> HIDE DEF frame
<1>10. /\ calls' \in [Procs -> Seq(Frame)] /\ CallersWait'
       /\ \A q \in Procs \ {p} : calls'[q] = calls[q]
       /\ calls'[p] # <<>> /\ Top(p)' = frame
  BY <1>0, <1>1, <1>6, <1>9, WentOn DEF Frame
<1>11. \A i \in 1..at : results[i] = healthy'[p][old.targets[i]]
  <2> TAKE i \in 1..at
  <2>1. CASE i = at
    BY <1>4, <1>7, <1>8, <2>1
  <2>2. CASE i # at
    <3>1. i \in 1..(at - 1)
      BY <1>3, <2>2
    <3>2. old.targets[i] \in Nodes
      BY <1>3, <1>4, <3>1, ElementOfSeq
    <3> QED BY <1>2, <1>5, <1>7, <1>8, <3>1, <3>2
  <2> QED BY <2>1, <2>2
<1>12. Agree(frame, frame.at - 1, healthy'[p])
  <2>1. frame.at - 1 = at
    BY <1>3, <1>9
  <2> QED BY <1>1, <1>8, <1>9, <1>11, <2>1 DEF Agree
<1>13. NewIsLatest(p)' /\ CheckAgrees(p)'
  <2>1. NewIsLatest(p)'
    BY <1>9, <1>10 DEF NewIsLatest, At
  <2>2. (At(p, "probing") => Agree(Top(p), Top(p).at - 1, healthy[p]))'
    BY <1>10, <1>12
  <2>3. (At(p, "probing") => IsInjective(Top(p).targets))'
    BY <1>2, <1>9, <1>10
  <2>4. ~At(p, "saving")'
    BY <1>9, <1>10 DEF At
  <2> QED BY <2>1, <2>2, <2>3, <2>4 DEF CheckAgrees
<1>14. /\ handlers \in [Procs -> [EventTypes \cup {AnyType} -> Seq(Registration)]]
       /\ tail \in Event \cup {Nothing, Fragment} /\ tears \in Nat
  BY <1>0 DEF MemoryAndLogTypeOK
<1>15. StatusMatchesEntries'
  BY <1>6 DEF IInv, StatusMatchesEntries
<1> QED BY <1>6, <1>7, <1>10, <1>13, <1>14, <1>15, QuietIInv

\* All targets have answered; the file is emptied.
LEMMA OpenHealthFileIInv == ASSUME IInv, NEW p \in Procs, OpenHealthFile(p) PROVE IInv'
<1> DEFINE old == Top(p)  frame == [old EXCEPT !.stage = "saving"]
<1>0. MemoryAndLogTypeOK /\ CallsTypeOK /\ CallersWait
  BY DEF IInv
<1>1. /\ calls[p] # <<>> /\ old \in CheckFrame /\ At(p, "probing")
      /\ old.at > Len(old.targets)
  BY <1>0, CheckTop DEF OpenHealthFile
<1>2. /\ frame \in CheckFrame /\ frame.stage = "saving"
      /\ frame.targets = old.targets /\ frame.results = old.results
  BY <1>1 DEF CheckFrame
<1>3. /\ health_file' = NoHealth /\ GoOn(p, frame)
      /\ UNCHANGED <<healthy, event_log, handlers, log, tail, life, written, tears>>
  BY DEF OpenHealthFile, history
<1>4. old.at - 1 = Len(old.targets)
  <2>1. Len(old.targets) \in Nat /\ old.at \in Nat
    BY <1>1, LenProperties DEF CheckFrame
  <2>2. old.at - 1 <= Len(old.targets)
    BY <1>1 DEF IInv, CheckAgrees, Agree
  <2> QED BY <1>1, <2>1, <2>2
<1>5. Agree(old, Len(old.targets), healthy[p])
  BY <1>1, <1>4 DEF IInv, CheckAgrees
<1> HIDE DEF frame
<1>6. Agree(frame, Len(frame.targets), healthy'[p])
  BY <1>2, <1>3, <1>5 DEF Agree
<1>7. /\ calls' \in [Procs -> Seq(Frame)] /\ CallersWait'
      /\ \A q \in Procs \ {p} : calls'[q] = calls[q]
      /\ calls'[p] # <<>> /\ Top(p)' = frame
  BY <1>0, <1>1, <1>2, <1>3, WentOn DEF Frame
<1>8. NewIsLatest(p)' /\ CheckAgrees(p)'
  <2>1. ~At(p, "new")' /\ ~At(p, "probing")'
    BY <1>2, <1>7 DEF At
  <2>2. Agree(Top(p), Len(Top(p).targets), healthy[p])'
    BY <1>6, <1>7
  <2> QED BY <2>1, <2>2 DEF NewIsLatest, CheckAgrees
<1>9. /\ handlers \in [Procs -> [EventTypes \cup {AnyType} -> Seq(Registration)]]
      /\ healthy \in [Procs -> [Nodes -> {"unknown", "healthy", "failed"}]]
      /\ tail \in Event \cup {Nothing, Fragment} /\ tears \in Nat
  BY <1>0 DEF MemoryAndLogTypeOK
<1>10. StatusMatchesEntries'
  BY <1>3 DEF StatusMatchesEntries
<1> QED BY <1>3, <1>7, <1>8, <1>9, <1>10, QuietIInv

\* What is saved counts a node as failed exactly when the memory it shows does.
LEMMA WriteHealthFileIInv == ASSUME IInv, NEW p \in Procs, WriteHealthFile(p) PROVE IInv'
<1> DEFINE old == Top(p)  report == Report(p, old.targets, old.results)
<1>0. MemoryAndLogTypeOK /\ CallsTypeOK /\ CallersWait
  BY DEF IInv
<1>1. calls[p] # <<>> /\ old \in CheckFrame /\ At(p, "saving")
  BY <1>0, CheckTop DEF WriteHealthFile
<1>2. /\ health_file' \in {report, NoHealth, health_file} /\ Leave(p)
      /\ UNCHANGED <<healthy, event_log, handlers, log, tail, life, written, tears>>
  BY DEF WriteHealthFile, history
<1>3. /\ calls' \in [Procs -> Seq(Frame)] /\ CallersWait'
      /\ \A q \in Procs \ {p} : calls'[q] = calls[q]
      /\ calls'[p] # <<>> => Top(p)'.stage = "calling"
  BY <1>0, <1>1, <1>2, Returned
<1>4. NewIsLatest(p)' /\ CheckAgrees(p)'
  BY <1>3, Idle DEF At
<1>5. /\ old.targets \in Seq(Nodes) /\ old.results \in Seq(Answers)
      /\ Len(old.results) = Len(old.targets)
      /\ \A i \in 1..Len(old.targets) : old.results[i] = healthy[p][old.targets[i]]
  BY <1>1 DEF CheckFrame, IInv, CheckAgrees, Agree
<1>6. /\ DOMAIN old.targets = 1..Len(old.targets) /\ DOMAIN old.results = 1..Len(old.targets)
      /\ \A i \in 1..Len(old.targets) : old.results[i] \in Answers
  BY <1>5, LenProperties, ElementOfSeq
<1>7. "failed" \in ToSet(old.results) <=> \E n \in ToSet(old.targets) : healthy[p][n] = "failed"
  BY <1>5, <1>6 DEF ToSet
<1>8. \A n \in ToSet(old.targets) : healthy[p][n] # "unknown"
  BY <1>5, <1>6 DEF ToSet, Answers
<1>9. /\ report.overall = Overall(old.results) /\ report.nodes = healthy[p]
      /\ report.targets = ToSet(old.targets)
  BY DEF Report
<1>10. Overall(old.results) = "degraded" <=> "failed" \in ToSet(old.results)
  BY DEF Overall
<1> HIDE DEF report
<1>11. StatusMatchesEntries'
  <2>1. CASE health_file' = report
    BY <1>7, <1>8, <1>9, <1>10, <2>1 DEF StatusMatchesEntries
  <2>2. CASE health_file' = NoHealth
    BY <2>2 DEF StatusMatchesEntries
  <2>3. CASE health_file' = health_file
    BY <2>3 DEF IInv, StatusMatchesEntries
  <2> QED BY <1>2, <2>1, <2>2, <2>3
<1>12. /\ handlers \in [Procs -> [EventTypes \cup {AnyType} -> Seq(Registration)]]
       /\ healthy \in [Procs -> [Nodes -> {"unknown", "healthy", "failed"}]]
       /\ tail \in Event \cup {Nothing, Fragment} /\ tears \in Nat
  BY <1>0 DEF MemoryAndLogTypeOK
<1> QED BY <1>2, <1>3, <1>4, <1>11, <1>12, QuietIInv

-----------------------------------------------------------------------------
(* Death *)

\* A Mesh that starts anew numbers from 1 in a life the file does not know.
LEMMA DieIInv == ASSUME IInv, NEW p \in Procs, Die(p) PROVE IInv'
<1>0. MemoryAndLogTypeOK /\ CallsTypeOK /\ CallersWait
  BY DEF IInv
<1>1. /\ event_log' = [event_log EXCEPT ![p] = <<>>]
      /\ healthy' = [healthy EXCEPT ![p] = FreshHealth]
      /\ handlers' = [handlers EXCEPT ![p] = NoHandlers]
      /\ calls' = [calls EXCEPT ![p] = <<>>]
      /\ life' = [life EXCEPT ![p] = life[p] + 1]
      /\ UNCHANGED <<log, tail, health_file, written, tears>>
  BY DEF Die, files
<1>2. /\ \A S : <<>> \in Seq(S)
      /\ Len(<<>>) = 0 /\ life[p] \in Nat
  BY <1>0, EmptySeq DEF CallsTypeOK
<1>3. /\ FreshHealth \in [Nodes -> {"unknown", "healthy", "failed"}]
      /\ NoHandlers \in [EventTypes \cup {AnyType} -> Seq(Registration)]
  BY <1>2 DEF FreshHealth, NoHandlers
<1>4. MemoryAndLogTypeOK' /\ CallsTypeOK'
  <2>1. event_log' \in [Procs -> Seq(Event)] /\ calls' \in [Procs -> Seq(Frame)]
    BY <1>0, <1>1, <1>2 DEF MemoryAndLogTypeOK, CallsTypeOK
  <2>2. life' \in [Procs -> Nat \ {0}]
    BY <1>0, <1>1, <1>2 DEF CallsTypeOK
  <2> QED BY <1>0, <1>1, <1>3, <2>1, <2>2 DEF MemoryAndLogTypeOK, CallsTypeOK
<1>5. /\ calls'[p] = <<>> /\ life'[p] = life[p] + 1
      /\ \A q \in Procs \ {p} : /\ calls'[q] = calls[q] /\ healthy'[q] = healthy[q]
                                /\ event_log'[q] = event_log[q] /\ life'[q] = life[q]
  BY <1>0, <1>1 DEF MemoryAndLogTypeOK, CallsTypeOK
<1>6. CallersWait'
  BY <1>0, <1>2, <1>5 DEF CallersWait
<1>7. NewIsLatest(p)' /\ CheckAgrees(p)'
  BY <1>5, Idle DEF At
<1>8. \A q \in Procs \ {p} : NewIsLatest(q)' /\ CheckAgrees(q)'
  BY <1>1, <1>5, OthersKeep DEF IInv
<1>9. NumberedSoFar'
  <2> SUFFICES ASSUME NEW i \in 1..Len(log)
               PROVE  /\ log[i].life <= life'[log[i].source]
                      /\ log[i].life = life'[log[i].source] =>
                           log[i].number <= Len(event_log'[log[i].source])
    BY <1>1 DEF NumberedSoFar
  <2>1. log[i] \in Event
    BY <1>0, ElementOfSeq DEF MemoryAndLogTypeOK
  <2>2. log[i].source \in Procs /\ log[i].life \in Nat
    BY <2>1 DEF Event
  <2>3. /\ log[i].life <= life[log[i].source]
        /\ log[i].life = life[log[i].source] => log[i].number <= Len(event_log[log[i].source])
    BY DEF IInv, NumberedSoFar
  <2>4. CASE log[i].source = p
    BY <1>2, <1>5, <2>2, <2>3, <2>4
  <2>5. CASE log[i].source # p
    BY <1>5, <2>2, <2>3, <2>5
  <2> QED BY <2>4, <2>5
<1>10. FileKeepsProgramOrder' /\ StatusMatchesEntries'
  BY <1>1 DEF IInv, FileKeepsProgramOrder, StatusMatchesEntries
<1> QED BY <1>4, <1>6, <1>7, <1>8, <1>9, <1>10 DEF IInv

LEMMA StutterIInv == ASSUME IInv, UNCHANGED vars PROVE IInv'
<1>1. /\ UNCHANGED <<healthy, event_log, handlers, calls, log, tail, health_file, life,
                     written, tears>>
  BY DEF vars, memory, files, history
<1>2. MemoryAndLogTypeOK' /\ CallsTypeOK'
  BY <1>1 DEF IInv, MemoryAndLogTypeOK, CallsTypeOK
<1>3. CallersWait' /\ NumberedSoFar' /\ FileKeepsProgramOrder' /\ StatusMatchesEntries'
  BY <1>1 DEF IInv, CallersWait, NumberedSoFar, FileKeepsProgramOrder, StatusMatchesEntries
<1>4. \A q \in Procs : NewIsLatest(q)' /\ CheckAgrees(q)'
  BY <1>1, OthersKeep DEF IInv
<1> QED BY <1>2, <1>3, <1>4 DEF IInv

LEMMA NextIInv == IInv /\ [Next]_vars => IInv'
<1> SUFFICES ASSUME IInv, [Next]_vars PROVE IInv'
  OBVIOUS
<1>1. ASSUME NEW p \in Procs, Step(p) PROVE IInv'
  <2>1. CASE WriteEvent(p)
    BY <2>1, WriteEventIInv
  <2>2. ASSUME NEW left \in {Nothing, Fragment} \cup ToSet(event_log[p]), WriteFails(p, left)
        PROVE  IInv'
    BY <2>2, WriteFailsIInv
  <2>3. CASE CallHandler(p) \/ HandlerEnds(p) \/ EmitReturns(p)
    BY <2>3, DispatchIInv
  <2>4. ASSUME NEW answer \in {"healthy", "failed"}, Probe(p, answer) PROVE IInv'
    BY <2>4, ProbeIInv DEF Answers
  <2>5. CASE OpenHealthFile(p)
    BY <2>5, OpenHealthFileIInv
  <2>6. CASE WriteHealthFile(p)
    BY <2>6, WriteHealthFileIInv
  <2> QED BY <1>1, <2>1, <2>2, <2>3, <2>4, <2>5, <2>6 DEF Step
<1>2. ASSUME NEW p \in Procs, Use(p) PROVE IInv'
  <2>1. ASSUME NEW type \in EventTypes, Emit(p, type) PROVE IInv'
    BY <2>1, EmitIInv
  <2>2. ASSUME NEW type \in Types, Emit(p, type) PROVE IInv'
    BY <2>1, <2>2 DEF EventTypes
  <2>3. ASSUME NEW name \in Runbooks, ExecuteRunbook(p, name) PROVE IInv'
    BY <2>1, <2>3 DEF ExecuteRunbook, EventTypes
  <2>4. ASSUME NEW type \in Listened, NEW h \in Handlers, On(p, type, h) PROVE IInv'
    BY <2>4, OnIInv
  <2>5. CASE HealthCheck(p, Topology)
    BY <2>5, HealthCheckIInv, MeshAssumption
  <2>6. ASSUME NEW n \in Nodes, HealthCheck(p, <<n>>) PROVE IInv'
    <3>1. <<n>> \in Seq(Nodes) /\ IsInjective(<<n>>)
      BY DEF IsInjective
    <3> QED BY <2>6, <3>1, HealthCheckIInv
  <2> QED BY <1>2, <2>2, <2>3, <2>4, <2>5, <2>6 DEF Use
<1>3. ASSUME NEW p \in Procs, Die(p) PROVE IInv'
  BY <1>3, DieIInv
<1>4. CASE UNCHANGED vars
  BY <1>4, StutterIInv
<1> QED BY <1>1, <1>2, <1>3, <1>4 DEF Next

-----------------------------------------------------------------------------
(* Theorems *)

LEMMA Invariance == Spec => []IInv
<1>1. Init => IInv
  BY InitIInv
<1>2. IInv /\ [Next]_vars => IInv'
  BY NextIInv
<1> QED BY <1>1, <1>2, PTL DEF Spec

\* What health_check() saves is a report over the nodes it probed.
LEMMA HealthFileTyped ==
    IInv /\ health_file \in HealthReport \cup {NoHealth} /\ [Next]_vars
      => health_file' \in HealthReport \cup {NoHealth}
<1> SUFFICES ASSUME IInv, health_file \in HealthReport \cup {NoHealth}, [Next]_vars
             PROVE  health_file' \in HealthReport \cup {NoHealth}
  OBVIOUS
<1>1. ASSUME NEW p \in Procs, WriteHealthFile(p)
      PROVE  health_file' \in HealthReport \cup {NoHealth}
  <2> DEFINE report == Report(p, Top(p).targets, Top(p).results)
  <2>1. Top(p) \in CheckFrame
    BY <1>1, CheckTop DEF IInv, WriteHealthFile
  <2>2. Top(p).targets \in Seq(Nodes)
    BY <2>1 DEF CheckFrame
  <2>3. ToSet(Top(p).targets) \subseteq Nodes
    BY <2>2, ElementOfSeq, LenProperties DEF ToSet
  <2>4. healthy[p] \in [Nodes -> Answers \cup {"unknown"}]
    BY DEF IInv, MemoryAndLogTypeOK, Answers
  <2>5. Overall(Top(p).results) \in {"healthy", "degraded"}
    BY DEF Overall
  <2>6. report \in HealthReport
    BY <2>3, <2>4, <2>5 DEF Report, HealthReport
  <2>7. health_file' \in {report, NoHealth, health_file}
    BY <1>1 DEF WriteHealthFile
  <2> QED BY <2>6, <2>7
<1>2. ASSUME NEW p \in Procs, OpenHealthFile(p) PROVE health_file' = NoHealth
  BY <1>2 DEF OpenHealthFile
<1>3. CASE UNCHANGED health_file
  BY <1>3
<1>4. ASSUME NEW p \in Procs, Step(p) \/ Use(p) \/ Die(p),
             ~WriteHealthFile(p), ~OpenHealthFile(p)
      PROVE  UNCHANGED health_file
  BY <1>4 DEF Step, Use, Die, WriteEvent, WriteFails, CallHandler, HandlerEnds, EmitReturns,
              Probe, Emit, ExecuteRunbook, On, HealthCheck, files
<1>5. CASE UNCHANGED vars
  BY <1>5 DEF vars, files
<1> QED BY <1>1, <1>2, <1>3, <1>4, <1>5 DEF Next

\* The memory of every Mesh, the log and the health file keep their types, and so
\* do the calls in progress, however deep handlers call the Mesh again.
THEOREM MeshTypeCorrect == Spec => []MeshTypeOK
<1>1. Init => health_file \in HealthReport \cup {NoHealth}
  BY DEF Init
<1>2. IInv /\ health_file \in HealthReport \cup {NoHealth} /\ [Next]_vars
        => (health_file \in HealthReport \cup {NoHealth})'
  BY HealthFileTyped
<1>3. IInv /\ health_file \in HealthReport \cup {NoHealth} => MeshTypeOK
  BY DEF IInv, MeshTypeOK
<1> QED BY <1>1, <1>2, <1>3, Invariance, PTL DEF Spec

\* Handlers that emit, other processes that write and writes that tear never
\* bring the events of one Mesh into the file in another order than its own.
THEOREM ProgramOrderKept == Spec => []FileKeepsProgramOrder
<1>1. IInv => FileKeepsProgramOrder
  BY DEF IInv
<1> QED BY <1>1, Invariance, PTL

\* A health file that can be read tells the truth of the check that wrote it.
THEOREM StatusIsTrue == Spec => []StatusMatchesEntries
<1>1. IInv => StatusMatchesEntries
  BY DEF IInv
<1> QED BY <1>1, Invariance, PTL

-----------------------------------------------------------------------------
(* What was written is lost to torn writes only *)

\* An event this life of its Mesh, or an earlier one, has emitted.
Known(e) ==
    /\ e.life <= life[e.source]
    /\ e.life = life[e.source] => e.number <= Len(event_log[e.source])

\* What can be read back; a write that kept all but the newline leaves an event
\* that can be, until the next line is glued to it.
Readable == ToSet(log) \cup ({tail} \cap Event)

\* A text after the last newline has cost a torn write and nothing else so far:
\* it will cost the next event, and its own was never told to anyone.
LossInv ==
    /\ IsFiniteSet(written) /\ heard \in Seq(CallOfHandler)
    /\ \A i \in 1..Len(heard) : heard[i].event \in written
    /\ \A e \in written : Known(e)
    /\ tail \in Event => Known(tail) /\ tail \notin written
    /\ Cardinality(written \ Readable) + (IF tail = Nothing THEN 0 ELSE 1) <= tears

\* Handlers are told of an event that was written; one about to be is new.
CallsInv(p) ==
    /\ \A i \in 1..Len(calls[p]) :
         calls[p][i].stage \in {"dispatch", "calling"} => calls[p][i].event \in written
    /\ At(p, "new") => Top(p).event \notin written /\ tail # Top(p).event

TellInv == LossInv /\ \A p \in Procs : CallsInv(p)

LEMMA NoEvent == Nothing \notin Event /\ Fragment \notin Event
<1>1. \A e \in Event : e.type # AnyType
  BY MeshAssumption DEF Event
<1>2. Nothing.type = AnyType /\ Fragment.type = AnyType
  BY DEF Nothing, Fragment
<1> QED BY <1>1, <1>2

\* One more of something.
LEMMA AtMostOneMore ==
    ASSUME NEW A, IsFiniteSet(A), NEW x, NEW B \in SUBSET (A \cup {x})
    PROVE  /\ IsFiniteSet(B) /\ Cardinality(A) \in Nat /\ Cardinality(B) \in Nat
           /\ Cardinality(B) <= Cardinality(A) + 1
<1>1. /\ IsFiniteSet(A \cup {x}) /\ Cardinality(A) \in Nat
      /\ Cardinality(A \cup {x}) \in {Cardinality(A), Cardinality(A) + 1}
  BY FS_AddElement, FS_CardinalityType
<1>2. IsFiniteSet(B) /\ Cardinality(B) <= Cardinality(A \cup {x})
  BY <1>1, FS_Subset
<1>3. Cardinality(B) \in Nat
  BY <1>2, FS_CardinalityType
<1> QED BY <1>1, <1>2, <1>3

\* get_events() without a type and a limit is all that can be read.
LEMMA AllEvents ==
    ASSUME MemoryAndLogTypeOK
    PROVE  ToSet(GetEvents(AnyType, 0)) = Readable
<1> DEFINE all == IF tail \in {Nothing, Fragment} THEN log ELSE Append(log, tail)
           any == {e \in Event : AnyType \in {AnyType, e.type}}
<1>1. log \in Seq(Event) /\ tail \in Event \cup {Nothing, Fragment}
  BY DEF MemoryAndLogTypeOK
<1>2. all \in Seq(Event)
  BY <1>1, AppendProperties
<1>3. any = Event
  OBVIOUS
<1>4. ToSet(all) = Readable
  <2>1. CASE tail \in {Nothing, Fragment}
    BY <2>1, NoEvent DEF Readable
  <2>2. CASE tail \notin {Nothing, Fragment}
    <3>1. tail \in Event /\ all = Append(log, tail)
      BY <1>1, <2>2
    <3>2. ToSet(Append(log, tail)) = ToSet(log) \cup {tail}
      <4>1. /\ Len(log) \in Nat /\ DOMAIN log = 1..Len(log)
            /\ DOMAIN Append(log, tail) = 1..(Len(log) + 1)
            /\ \A i \in 1..Len(log) : Append(log, tail)[i] = log[i]
            /\ Append(log, tail)[Len(log) + 1] = tail
        BY <1>1, <3>1, AppendProperties, LenProperties
      <4>2. 1..(Len(log) + 1) = (1..Len(log)) \cup {Len(log) + 1}
        BY <4>1
      <4> QED BY <4>1, <4>2 DEF ToSet
    <3> QED BY <3>1, <3>2 DEF Readable
  <2> QED BY <2>1, <2>2
<1>5. Those(all, any) = all
  <2>1. \A i \in 1..Len(all) : all[i] \in Event
    <3> HIDE DEF all
    <3> QED BY <1>2, ElementOfSeq
  <2> HIDE DEF all, any
  <2> QED BY <1>2, <1>3, <2>1, ThoseOfAll
<1>6. GetEvents(AnyType, 0) = Those(all, any)
  BY DEF GetEvents
<1> QED BY <1>4, <1>5, <1>6

LEMMA LossInvSuffices == ASSUME IInv, LossInv PROVE LossesAreTears
<1> DEFINE told == written \cup {heard[i].event : i \in 1..Len(heard)}
<1>1. MemoryAndLogTypeOK
  BY DEF IInv
<1>2. told = written /\ ToSet(GetEvents(AnyType, 0)) = Readable
  BY <1>1, AllEvents DEF LossInv
<1>3. IsFiniteSet(written \ Readable) /\ Cardinality(written \ Readable) \in Nat
  BY FS_Subset, FS_CardinalityType DEF LossInv
<1>4. Cardinality(written \ Readable) <= tears
  <2>1. tears \in Nat /\ Cardinality(written \ Readable) + (IF tail = Nothing THEN 0 ELSE 1) <= tears
    BY <1>1 DEF LossInv, MemoryAndLogTypeOK
  <2> QED BY <1>3, <2>1
<1> QED BY <1>2, <1>4 DEF LossesAreTears

\* The calls of a process that begins one more, or goes on, or ends one: the
\* outer ones stay.
LEMMA EnteredFrames ==
    ASSUME CallsTypeOK, NEW p \in Procs, NEW frame \in Frame, Enter(p, frame)
    PROVE  /\ Len(calls[p]) \in Nat /\ Len(calls'[p]) = Len(calls[p]) + 1
           /\ calls'[p][Len(calls[p]) + 1] = frame
           /\ \A i \in 1..Len(calls[p]) : calls'[p][i] = calls[p][i]
<1> DEFINE old == calls[p]  new == Append(old, frame)
<1>1. old \in Seq(Frame) /\ Len(old) \in Nat /\ calls' = [calls EXCEPT ![p] = new]
  BY LenProperties DEF CallsTypeOK, Enter
<1>2. /\ Len(new) = Len(old) + 1 /\ new[Len(old) + 1] = frame
      /\ \A i \in 1..Len(old) : new[i] = old[i]
  BY <1>1, AppendProperties
<1> HIDE DEF new
<1>3. calls'[p] = new
  BY <1>1 DEF CallsTypeOK
<1> QED BY <1>1, <1>2, <1>3

LEMMA WentOnFrames ==
    ASSUME CallsTypeOK, NEW p \in Procs, calls[p] # <<>>, NEW frame \in Frame, GoOn(p, frame)
    PROVE  /\ Len(calls[p]) \in Nat \ {0} /\ Len(calls'[p]) = Len(calls[p])
           /\ calls'[p][Len(calls[p])] = frame
           /\ \A i \in 1..(Len(calls[p]) - 1) : calls'[p][i] = calls[p][i]
<1> DEFINE old == calls[p]  new == [old EXCEPT ![Len(old)] = frame]
<1>1. old \in Seq(Frame) /\ Len(old) \in Nat \ {0} /\ calls' = [calls EXCEPT ![p] = new]
  BY TopFacts DEF GoOn
<1>2. Len(old) \in 1..Len(old) /\ \A i \in 1..(Len(old) - 1) : i \in 1..Len(old) /\ i # Len(old)
  BY <1>1
<1>3. /\ Len(new) = Len(old)
      /\ \A i \in 1..Len(old) : new[i] = IF i = Len(old) THEN frame ELSE old[i]
  BY <1>1, <1>2, ExceptSeq
<1> HIDE DEF new
<1>4. calls'[p] = new
  BY <1>1 DEF CallsTypeOK
<1> QED BY <1>1, <1>2, <1>3, <1>4

LEMMA ReturnedFrames ==
    ASSUME CallsTypeOK, NEW p \in Procs, calls[p] # <<>>, Leave(p)
    PROVE  /\ Len(calls[p]) \in Nat \ {0} /\ Len(calls'[p]) = Len(calls[p]) - 1
           /\ \A i \in 1..(Len(calls[p]) - 1) : calls'[p][i] = calls[p][i]
<1> DEFINE old == calls[p]  n == Len(old)  new == SubSeq(old, 1, n - 1)
<1>1. old \in Seq(Frame) /\ n \in Nat \ {0}
  BY TopFacts
<1>2. calls'[p] = new
  <2>1. calls' = [calls EXCEPT ![p] = new]
    BY DEF Leave, Front
  <2> HIDE DEF new
  <2> QED BY <2>1 DEF CallsTypeOK
<1>3. \A i \in 1..(n - 1) : old[i] \in Frame
  <2>1. \A i \in 1..(n - 1) : i \in 1..Len(old)
    BY <1>1
  <2> QED BY <1>1, <2>1, ElementOfSeq
<1>4. /\ Len(new) = IF 1 <= n - 1 THEN n - 1 - 1 + 1 ELSE 0
      /\ \A i \in 1..(n - 1 - 1 + 1) : new[i] = old[1 + i - 1]
  <2>1. 1 \in Int /\ n - 1 \in Int
    BY <1>1
  <2> HIDE DEF n
  <2> QED BY <1>3, <2>1, SubSeqProperties
<1> HIDE DEF new, n
<1>5. Len(new) = n - 1 /\ \A i \in 1..(n - 1) : new[i] = old[i]
  BY <1>1, <1>4
<1> QED BY <1>1, <1>2, <1>5 DEF n

LEMMA InitTellInv == Init => TellInv
<1> SUFFICES ASSUME Init PROVE TellInv
  OBVIOUS
<1>1. /\ written = {} /\ heard = <<>> /\ tears = 0 /\ tail = Nothing
      /\ heard \in Seq(CallOfHandler) /\ Len(heard) = 0
  BY EmptySeq DEF Init
<1>2. \A p \in Procs : calls[p] = <<>> /\ Len(calls[p]) = 0
  BY EmptySeq DEF Init
<1>3. IsFiniteSet(written) /\ Cardinality(written \ Readable) = 0
  BY <1>1, FS_EmptySet
<1>4. \A p \in Procs : CallsInv(p)
  BY <1>2 DEF CallsInv, At
<1> QED BY <1>1, <1>3, <1>4, NoEvent DEF TellInv, LossInv

\* A step that writes nothing, tells no one and emits nothing.
LEMMA MoveTellInv ==
    ASSUME TellInv, NEW p \in Procs,
           UNCHANGED <<event_log, log, tail, life, written, heard, tears>>,
           \A q \in Procs \ {p} : calls'[q] = calls[q],
           CallsInv(p)'
    PROVE  TellInv'
<1>1. LossInv'
  BY DEF TellInv, LossInv, Known, Readable
<1>2. \A q \in Procs \ {p} : CallsInv(q)'
  BY DEF TellInv, CallsInv, At, Top
<1> QED BY <1>1, <1>2 DEF TellInv

\* The outer calls wait for handlers they told of what they wrote.
LEMMA ReturnTellInv ==
    ASSUME IInv, TellInv, NEW p \in Procs, calls[p] # <<>>, Leave(p),
           UNCHANGED <<written>>
    PROVE  CallsInv(p)'
<1>1. CallsTypeOK /\ CallersWait
  BY DEF IInv
<1>2. /\ Len(calls[p]) \in Nat \ {0} /\ Len(calls'[p]) = Len(calls[p]) - 1
      /\ \A i \in 1..(Len(calls[p]) - 1) : calls'[p][i] = calls[p][i]
  BY <1>1, ReturnedFrames
<1>3. calls'[p] # <<>> => Top(p)'.stage = "calling"
  BY <1>1, Returned
<1>4. \A i \in 1..Len(calls'[p]) : i \in 1..Len(calls[p]) /\ calls'[p][i] = calls[p][i]
  BY <1>2
<1>5. ~At(p, "new")'
  BY <1>3 DEF At
<1> QED BY <1>4, <1>5 DEF TellInv, CallsInv

\* A call that goes on where it has no event to tell of, or has written its event.
LEMMA GoOnTellInv ==
    ASSUME IInv, TellInv, NEW p \in Procs, calls[p] # <<>>, NEW frame \in Frame, GoOn(p, frame),
           frame.stage # "new",
           frame.stage \in {"dispatch", "calling"} => frame.event \in written',
           written \subseteq written'
    PROVE  CallsInv(p)'
<1>1. CallsTypeOK /\ CallersWait
  BY DEF IInv
<1>2. /\ Len(calls[p]) \in Nat \ {0} /\ Len(calls'[p]) = Len(calls[p])
      /\ calls'[p][Len(calls[p])] = frame
      /\ \A i \in 1..(Len(calls[p]) - 1) : calls'[p][i] = calls[p][i]
  BY <1>1, WentOnFrames
<1>3. Top(p)' = frame
  BY <1>1, WentOn
<1>4. ASSUME NEW i \in 1..Len(calls'[p]), calls'[p][i].stage \in {"dispatch", "calling"}
      PROVE  calls'[p][i].event \in written'
  <2>1. CASE i = Len(calls[p])
    BY <1>2, <1>4, <2>1
  <2>2. CASE i # Len(calls[p])
    <3>1. i \in 1..(Len(calls[p]) - 1) /\ i \in 1..Len(calls[p])
      BY <1>2, <2>2
    <3>2. calls'[p][i] = calls[p][i]
      BY <1>2, <3>1
    <3> QED BY <1>4, <3>1, <3>2 DEF TellInv, CallsInv
  <2> QED BY <2>1, <2>2
<1>5. ~At(p, "new")'
  BY <1>3 DEF At
<1> QED BY <1>4, <1>5 DEF CallsInv

\* An event is emitted: it is later than any its Mesh emitted, so it is neither
\* in the file nor what a torn write left of it.
LEMMA EmitTellInv ==
    ASSUME IInv, TellInv, NEW p \in Procs, NEW type \in EventTypes, Emit(p, type)
    PROVE  TellInv'
<1> DEFINE event == NewEvent(p, type)  old == event_log[p]
           frame == [stage |-> "new", event |-> event, audience |-> <<>>, at |-> 1]
<1>0. MemoryAndLogTypeOK /\ CallsTypeOK /\ CallersWait
  BY DEF IInv
<1>1. /\ old \in Seq(Event) /\ Len(old) \in Nat
      /\ event_log' = [event_log EXCEPT ![p] = Append(old, event)]
      /\ UNCHANGED <<handlers, log, tail, life, written, heard, tears>>
      /\ Running(p) /\ Enter(p, frame)
  BY <1>0, LenProperties DEF MemoryAndLogTypeOK, Emit, Called, files
<1>2. /\ event \in Event /\ event.source = p /\ event.life = life[p]
      /\ event.number = Len(old) + 1
  BY <1>0, <1>1 DEF CallsTypeOK, NewEvent, Event
<1>3. frame \in Frame /\ frame.stage = "new" /\ frame.event = event
  BY <1>2, EmptySeq DEF Frame, EmitFrame
<1> HIDE DEF event, frame
<1>4. Len(Append(old, event)) = Len(old) + 1
  BY <1>1, <1>2, AppendProperties
<1>5. /\ Len(event_log'[p]) = Len(old) + 1
      /\ \A q \in Procs \ {p} : event_log'[q] = event_log[q]
  BY <1>0, <1>1, <1>4 DEF MemoryAndLogTypeOK
<1>6. ASSUME NEW e \in Event, Known(e)
      PROVE  /\ e.life <= life[e.source]
             /\ e.life = life[e.source] => e.number <= Len(event_log'[e.source])
             /\ e # event
  <2>1. e.source \in Procs /\ e.number \in Nat /\ e.life \in Nat
    BY DEF Event
  <2> QED BY <1>1, <1>2, <1>5, <1>6, <2>1 DEF Known
<1>7. event \notin written /\ tail # event
  BY <1>0, <1>2, <1>6 DEF TellInv, LossInv, MemoryAndLogTypeOK
<1>8. LossInv'
  <2>1. \A e \in written : /\ e.life <= life[e.source]
                           /\ e.life = life[e.source] => e.number <= Len(event_log'[e.source])
    BY <1>0, <1>6 DEF TellInv, LossInv, MemoryAndLogTypeOK
  <2>2. tail \in Event => /\ tail.life <= life[tail.source]
                          /\ tail.life = life[tail.source] =>
                               tail.number <= Len(event_log'[tail.source])
    BY <1>6 DEF TellInv, LossInv
  <2>3. Readable' = Readable
    BY <1>1 DEF Readable
  <2> QED BY <1>1, <2>1, <2>2, <2>3 DEF TellInv, LossInv, Known
<1>9. /\ Len(calls[p]) \in Nat /\ Len(calls'[p]) = Len(calls[p]) + 1
      /\ calls'[p][Len(calls[p]) + 1] = frame
      /\ \A i \in 1..Len(calls[p]) : calls'[p][i] = calls[p][i]
  BY <1>0, <1>1, <1>3, EnteredFrames
<1>10. Top(p)' = frame /\ \A q \in Procs \ {p} : calls'[q] = calls[q]
  BY <1>0, <1>1, <1>3, Entered
<1>11. CallsInv(p)'
  <2>1. ASSUME NEW i \in 1..Len(calls'[p]), calls'[p][i].stage \in {"dispatch", "calling"}
        PROVE  calls'[p][i].event \in written
    <3>1. i # Len(calls[p]) + 1
      BY <1>3, <1>9, <2>1
    <3>2. i \in 1..Len(calls[p]) /\ calls'[p][i] = calls[p][i]
      BY <1>9, <3>1
    <3> QED BY <2>1, <3>2 DEF TellInv, CallsInv
  <2> QED BY <1>1, <1>3, <1>7, <1>10, <2>1 DEF CallsInv
<1>12. \A q \in Procs \ {p} : CallsInv(q)'
  BY <1>1, <1>10 DEF TellInv, CallsInv, At, Top
<1> QED BY <1>8, <1>11, <1>12 DEF TellInv

\* The line is written.  Glued to a torn one, it is lost, and the torn one with
\* it, which no one was told of.
LEMMA WriteEventTellInv ==
    ASSUME IInv, TellInv, NEW p \in Procs, WriteEvent(p)
    PROVE  TellInv'
<1> DEFINE event == Top(p).event
           frame == [Top(p) EXCEPT !.stage = "dispatch", !.audience = Listeners(p, event.type)]
           lost == written \ Readable
<1>0. MemoryAndLogTypeOK /\ CallsTypeOK /\ CallersWait
  BY DEF IInv
<1>1. calls[p] # <<>> /\ Top(p) \in EmitFrame /\ At(p, "new")
  BY <1>0, EmitTop DEF WriteEvent
<1>2. event \in Event
  BY <1>1 DEF EmitFrame
<1>3. Listeners(p, event.type) \in Seq(Registration)
  BY <1>0, <1>2, ListenersTyped DEF Event
<1>4. frame \in Frame /\ frame.stage = "dispatch" /\ frame.event = event
  BY <1>1, <1>3 DEF Frame, EmitFrame
<1>5. /\ GoOn(p, frame) /\ log' = Appended(log, tail, event) /\ tail' = Nothing
      /\ written' = written \cup {event}
      /\ UNCHANGED <<event_log, life, heard, tears>>
  BY DEF WriteEvent
<1>6. event.source = p /\ event.life = life[p] /\ event.number = Len(event_log[p])
  BY <1>1 DEF IInv, NewIsLatest
<1> HIDE DEF frame, event
<1>7. \A q \in Procs \ {p} : calls'[q] = calls[q]
  BY <1>0, <1>1, <1>4, <1>5, WentOn
<1>8. log \in Seq(Event) /\ tail \in Event \cup {Nothing, Fragment} /\ tears \in Nat
  BY <1>0 DEF MemoryAndLogTypeOK
<1>9. /\ tail = Nothing => written' \ Readable' \subseteq lost
      /\ written' \ Readable' \subseteq lost \cup {event}
  <2>1. tail \notin written
    <3>1. \A e \in written : e \in Event
      BY <1>0 DEF MemoryAndLogTypeOK
    <3> QED BY <3>1 DEF TellInv, LossInv
  <2>2. Readable' = ToSet(log')
    BY <1>5, NoEvent DEF Readable
  <2>3. CASE tail = Nothing
    <3>1. log' = Append(log, event)
      BY <1>5, <2>3 DEF Appended
    <3>2. ToSet(Append(log, event)) = ToSet(log) \cup {event}
      <4>1. /\ Len(log) \in Nat /\ DOMAIN log = 1..Len(log)
            /\ DOMAIN Append(log, event) = 1..(Len(log) + 1)
            /\ \A i \in 1..Len(log) : Append(log, event)[i] = log[i]
            /\ Append(log, event)[Len(log) + 1] = event
        BY <1>2, <1>8, AppendProperties, LenProperties
      <4>2. 1..(Len(log) + 1) = (1..Len(log)) \cup {Len(log) + 1}
        BY <4>1
      <4> QED BY <4>1, <4>2 DEF ToSet
    <3>3. Readable = ToSet(log)
      BY <2>3, NoEvent DEF Readable
    <3> QED BY <1>5, <2>2, <3>1, <3>2, <3>3
  <2>4. CASE tail # Nothing
    <3>1. log' = log
      BY <1>5, <2>4 DEF Appended
    <3> QED BY <1>5, <2>1, <2>2, <2>4, <3>1 DEF Readable
  <2> QED BY <2>3, <2>4
<1>10. IsFiniteSet(written') /\ IsFiniteSet(lost)
  BY <1>5, FS_AddElement, FS_Subset DEF TellInv, LossInv
<1>11. Cardinality(written' \ Readable') + (IF tail' = Nothing THEN 0 ELSE 1) <= tears'
  <2> HIDE DEF lost
  <2>1. /\ Cardinality(lost) \in Nat /\ Cardinality(written' \ Readable') \in Nat
        /\ Cardinality(written' \ Readable') <= Cardinality(lost) + 1
    BY <1>9, <1>10, AtMostOneMore
  <2>2. Cardinality(lost) + (IF tail = Nothing THEN 0 ELSE 1) <= tears
    BY DEF TellInv, LossInv, lost
  <2>3. CASE tail = Nothing
    <3>1. Cardinality(written' \ Readable') <= Cardinality(lost)
      BY <1>9, <1>10, <2>3, FS_Subset
    <3> QED BY <1>5, <1>8, <2>1, <2>2, <2>3, <3>1
  <2>4. CASE tail # Nothing
    BY <1>5, <1>8, <2>1, <2>2, <2>4
  <2> QED BY <2>3, <2>4
<1>12. LossInv'
  <2>1. life[p] \in Nat /\ Len(event_log[p]) \in Nat
    BY <1>0, LenProperties DEF MemoryAndLogTypeOK, CallsTypeOK
  <2>2. Known(event)
    BY <1>6, <2>1 DEF Known
  <2>3. \A e \in written' : Known(e)
    BY <1>5, <2>2 DEF TellInv, LossInv
  <2>4. \A e \in written' : Known(e)'
    BY <1>5, <2>3 DEF Known
  <2>5. tail' \notin Event
    BY <1>5, NoEvent
  <2> QED BY <1>5, <1>10, <1>11, <2>4, <2>5 DEF TellInv, LossInv
<1>13. CallsInv(p)'
  BY <1>1, <1>4, <1>5, GoOnTellInv
<1>14. \A q \in Procs \ {p} : CallsInv(q)'
  <2> TAKE q \in Procs \ {p}
  <2>1. At(q, "new") => Top(q).event # event /\ Top(q).event \in Event
    <3> SUFFICES ASSUME At(q, "new") PROVE Top(q).event # event /\ Top(q).event \in Event
      OBVIOUS
    <3>1. Top(q).event.source = q
      BY DEF IInv, NewIsLatest
    <3>2. Top(q) \in EmitFrame
      BY <1>0, EmitTop
    <3> QED BY <1>6, <3>1, <3>2 DEF EmitFrame
  <2>2. Top(q)' = Top(q) /\ (At(q, "new")' <=> At(q, "new"))
    BY <1>7 DEF At, Top
  <2>3. At(q, "new")' => Top(q)'.event \notin written' /\ tail' # Top(q)'.event
    BY <1>5, <2>1, <2>2, NoEvent DEF TellInv, CallsInv
  <2> QED BY <1>5, <1>7, <2>3 DEF TellInv, CallsInv
<1> QED BY <1>12, <1>13, <1>14 DEF TellInv

\* The write fails.  What is left of the line of a torn write before it was told
\* to no one; what is left of this one will not be.
LEMMA WriteFailsTellInv ==
    ASSUME IInv, TellInv, NEW p \in Procs, NEW left, WriteFails(p, left)
    PROVE  TellInv'
<1> DEFINE event == Top(p).event  lost == written \ Readable
<1>0. MemoryAndLogTypeOK /\ CallsTypeOK /\ CallersWait
  BY DEF IInv
<1>1. calls[p] # <<>> /\ Top(p) \in EmitFrame /\ At(p, "new")
  BY <1>0, EmitTop DEF WriteFails
<1>2. event \in Event
  BY <1>1 DEF EmitFrame
<1>3. /\ left \in {Nothing, Fragment, event} /\ Leave(p)
      /\ tail' = CASE left = Nothing -> tail
                   [] left # Nothing /\ tail = Nothing -> left
                   [] OTHER -> Fragment
      /\ tears' = IF left = Nothing THEN tears ELSE tears + 1
      /\ UNCHANGED <<event_log, log, life, written, heard>>
  BY DEF WriteFails
<1>4. /\ event.source = p /\ event.life = life[p] /\ event.number = Len(event_log[p])
      /\ event \notin written
  BY <1>1 DEF IInv, NewIsLatest, TellInv, CallsInv
<1> HIDE DEF event
<1>5. tail' \in {tail, Fragment, event}
  BY <1>3
<1>6. \A e \in written : e \in Event
  BY <1>0 DEF MemoryAndLogTypeOK
<1>7. written' \ Readable' \subseteq lost
  <2>1. tail \notin written
    BY <1>6 DEF TellInv, LossInv
  <2> QED BY <1>3, <2>1, <1>5 DEF Readable
<1>8. IsFiniteSet(lost) /\ Cardinality(lost) \in Nat
  BY FS_Subset, FS_CardinalityType DEF TellInv, LossInv
<1>9. Cardinality(written' \ Readable') <= Cardinality(lost) /\ Cardinality(written' \ Readable') \in Nat
  BY <1>7, <1>8, FS_Subset, FS_CardinalityType
<1>10. Cardinality(written' \ Readable') + (IF tail' = Nothing THEN 0 ELSE 1) <= tears'
  <2> HIDE DEF lost
  <2>1. tears \in Nat /\ Cardinality(lost) + (IF tail = Nothing THEN 0 ELSE 1) <= tears
    BY <1>0 DEF TellInv, LossInv, MemoryAndLogTypeOK, lost
  <2>2. CASE left = Nothing
    BY <1>3, <1>8, <1>9, <2>1, <2>2
  <2>3. CASE left # Nothing
    BY <1>3, <1>8, <1>9, <2>1, <2>3
  <2> QED BY <2>2, <2>3
<1>11. LossInv'
  <2>1. life[p] \in Nat /\ Len(event_log[p]) \in Nat
    BY <1>0, LenProperties DEF MemoryAndLogTypeOK, CallsTypeOK
  <2>2. Known(event)
    BY <1>4, <2>1 DEF Known
  <2>3. tail' \in Event => Known(tail') /\ tail' \notin written
    BY <1>4, <1>5, <2>2, NoEvent DEF TellInv, LossInv
  <2> QED BY <1>3, <1>10, <2>3 DEF TellInv, LossInv, Known
<1>12. CallsInv(p)'
  BY <1>1, <1>3, ReturnTellInv
<1>13. \A q \in Procs \ {p} : calls'[q] = calls[q]
  BY <1>0, <1>1, <1>3, Returned
<1>14. \A q \in Procs \ {p} : CallsInv(q)'
  <2> TAKE q \in Procs \ {p}
  <2>1. At(q, "new") => Top(q).event # event /\ Top(q).event \in Event
    <3> SUFFICES ASSUME At(q, "new") PROVE Top(q).event # event /\ Top(q).event \in Event
      OBVIOUS
    <3>1. Top(q).event.source = q
      BY DEF IInv, NewIsLatest
    <3>2. Top(q) \in EmitFrame
      BY <1>0, EmitTop
    <3> QED BY <1>4, <3>1, <3>2 DEF EmitFrame
  <2>2. Top(q)' = Top(q) /\ (At(q, "new")' <=> At(q, "new"))
    BY <1>13 DEF At, Top
  <2>3. At(q, "new")' => Top(q)'.event \notin written' /\ tail' # Top(q)'.event
    BY <1>3, <1>5, <2>1, <2>2, NoEvent DEF TellInv, CallsInv
  <2> QED BY <1>3, <1>13, <2>3 DEF TellInv, CallsInv
<1> QED BY <1>11, <1>12, <1>14 DEF TellInv

\* A handler is told of what is written, and goes on, and the last of them ends.
LEMMA DispatchTellInv ==
    ASSUME IInv, TellInv, NEW p \in Procs, CallHandler(p) \/ HandlerEnds(p) \/ EmitReturns(p)
    PROVE  TellInv'
<1>0. MemoryAndLogTypeOK /\ CallsTypeOK /\ CallersWait
  BY DEF IInv
<1>1. ASSUME NEW stage \in {"dispatch", "calling"}, At(p, stage)
      PROVE  calls[p] # <<>> /\ Top(p) \in EmitFrame /\ Top(p).event \in written
  <2>1. /\ calls[p] # <<>> /\ Top(p) \in EmitFrame /\ Top(p).stage = stage
        /\ Top(p) = calls[p][Len(calls[p])] /\ Len(calls[p]) \in Nat \ {0}
    BY <1>0, <1>1, EmitTop, TopFacts
  <2>2. Len(calls[p]) \in 1..Len(calls[p])
    BY <2>1
  <2> QED BY <2>1, <2>2 DEF TellInv, CallsInv
<1>2. CASE CallHandler(p)
  <2> DEFINE frame == [Top(p) EXCEPT !.stage = "calling"]
             c == [event |-> Top(p).event, registration |-> Audience(p, Top(p))[Top(p).at]]
  <2>1. calls[p] # <<>> /\ Top(p) \in EmitFrame /\ Top(p).event \in written
    BY <1>1, <1>2 DEF CallHandler
  <2>2. frame \in Frame /\ frame.stage = "calling" /\ frame.event = Top(p).event
    BY <2>1 DEF EmitFrame, Frame
  <2>3. c \in CallOfHandler /\ c.event = Top(p).event
    <3>1. /\ Top(p).audience \in Seq(Registration) /\ Top(p).event \in Event
          /\ Top(p).at \in 1..Len(Top(p).audience)
      BY <1>2, <2>1 DEF EmitFrame, CallHandler, Audience
    <3>2. Audience(p, Top(p))[Top(p).at] \in Registration
      BY <3>1, ElementOfSeq DEF Audience
    <3> QED BY <3>1, <3>2 DEF CallOfHandler
  <2>4. /\ GoOn(p, frame) /\ heard' = Append(heard, c)
        /\ UNCHANGED <<event_log, log, tail, life, written, tears>>
    BY <1>2 DEF CallHandler, files
  <2> HIDE DEF frame, c
  <2>5. CallsInv(p)'
    BY <2>1, <2>2, <2>4, GoOnTellInv
  <2>6. \A q \in Procs \ {p} : calls'[q] = calls[q]
    BY <1>0, <2>1, <2>2, <2>4, WentOn
  <2>7. \A q \in Procs \ {p} : CallsInv(q)'
    BY <2>4, <2>6 DEF TellInv, CallsInv, At, Top
  <2>8. heard' \in Seq(CallOfHandler) /\ \A i \in 1..Len(heard') : heard'[i].event \in written
    <3>1. heard \in Seq(CallOfHandler) /\ \A i \in 1..Len(heard) : heard[i].event \in written
      BY DEF TellInv, LossInv
    <3>2. /\ heard' \in Seq(CallOfHandler) /\ Len(heard') = Len(heard) + 1 /\ Len(heard) \in Nat
          /\ \A i \in 1..Len(heard) : heard'[i] = heard[i]
          /\ heard'[Len(heard) + 1] = c
      BY <2>3, <2>4, <3>1, AppendProperties, LenProperties
    <3>3. \A i \in 1..Len(heard') : i \in 1..Len(heard) \/ i = Len(heard) + 1
      BY <3>2
    <3> QED BY <2>1, <2>3, <3>1, <3>2, <3>3
  <2>9. LossInv'
    BY <2>4, <2>8 DEF TellInv, LossInv, Known, Readable
  <2> QED BY <2>5, <2>7, <2>9 DEF TellInv
<1>3. CASE HandlerEnds(p)
  <2> DEFINE frame == Advance(Top(p))
  <2>1. calls[p] # <<>> /\ Top(p) \in EmitFrame /\ Top(p).event \in written
    BY <1>1, <1>3 DEF HandlerEnds
  <2>2. frame \in Frame /\ frame.stage = "dispatch" /\ frame.event = Top(p).event
    BY <2>1, Advanced DEF Frame
  <2>3. GoOn(p, frame) /\ UNCHANGED <<event_log, log, tail, life, written, heard, tears>>
    BY <1>3 DEF HandlerEnds, files, history
  <2> HIDE DEF frame
  <2>4. CallsInv(p)'
    BY <2>1, <2>2, <2>3, GoOnTellInv
  <2>5. \A q \in Procs \ {p} : calls'[q] = calls[q]
    BY <1>0, <2>1, <2>2, <2>3, WentOn
  <2> QED BY <2>3, <2>4, <2>5, MoveTellInv
<1>4. CASE EmitReturns(p)
  <2>1. calls[p] # <<>> /\ Leave(p)
        /\ UNCHANGED <<event_log, log, tail, life, written, heard, tears>>
    BY <1>4 DEF EmitReturns, At, files, history
  <2>2. CallsInv(p)' /\ \A q \in Procs \ {p} : calls'[q] = calls[q]
    BY <1>0, <2>1, ReturnTellInv, Returned
  <2> QED BY <2>1, <2>2, MoveTellInv
<1> QED BY <1>2, <1>3, <1>4

\* Health checks tell of no event.
LEMMA CheckTellInv ==
    ASSUME IInv, TellInv, NEW p \in Procs,
           \/ \E targets \in Seq(Nodes) : HealthCheck(p, targets)
           \/ \E answer \in Answers : Probe(p, answer)
           \/ OpenHealthFile(p)
           \/ WriteHealthFile(p)
    PROVE  TellInv'
<1>0. MemoryAndLogTypeOK /\ CallsTypeOK /\ CallersWait
  BY DEF IInv
<1>1. ASSUME NEW targets \in Seq(Nodes), HealthCheck(p, targets) PROVE TellInv'
  <2> DEFINE frame == [stage |-> "probing", targets |-> targets, at |-> 1, results |-> <<>>]
  <2>1. frame \in Frame /\ frame.stage = "probing"
    BY EmptySeq DEF Frame, CheckFrame
  <2>2. /\ Running(p) /\ Enter(p, frame)
        /\ UNCHANGED <<event_log, log, tail, life, written, heard, tears>>
    BY <1>1 DEF HealthCheck, Called, files
  <2> HIDE DEF frame
  <2>3. /\ Len(calls[p]) \in Nat /\ Len(calls'[p]) = Len(calls[p]) + 1
        /\ calls'[p][Len(calls[p]) + 1] = frame
        /\ \A i \in 1..Len(calls[p]) : calls'[p][i] = calls[p][i]
    BY <1>0, <2>1, <2>2, EnteredFrames
  <2>4. Top(p)' = frame /\ \A q \in Procs \ {p} : calls'[q] = calls[q]
    BY <1>0, <2>1, <2>2, Entered
  <2>5. \A i \in 1..Len(calls'[p]) :
          \/ i \in 1..Len(calls[p]) /\ calls'[p][i] = calls[p][i]
          \/ calls'[p][i].stage = "probing"
    BY <2>1, <2>3
  <2>6. CallsInv(p)'
    BY <2>1, <2>2, <2>4, <2>5 DEF TellInv, CallsInv, At
  <2> QED BY <2>2, <2>4, <2>6, MoveTellInv
<1>2. ASSUME NEW frame \in Frame, frame.stage \in {"probing", "saving"}, calls[p] # <<>>,
             GoOn(p, frame), UNCHANGED <<event_log, log, tail, life, written, heard, tears>>
      PROVE  TellInv'
  <2>1. CallsInv(p)'
    BY <1>2, GoOnTellInv
  <2>2. \A q \in Procs \ {p} : calls'[q] = calls[q]
    BY <1>0, <1>2, WentOn
  <2> QED BY <1>2, <2>1, <2>2, MoveTellInv
<1>3. ASSUME NEW answer \in Answers, Probe(p, answer) PROVE TellInv'
  <2> DEFINE frame == [Top(p) EXCEPT !.at = @ + 1, !.results = Append(@, answer)]
  <2>1. calls[p] # <<>> /\ Top(p) \in CheckFrame /\ Top(p).stage = "probing"
    BY <1>0, <1>3, CheckTop DEF Probe
  <2>2. Append(Top(p).results, answer) \in Seq(Answers) /\ Top(p).at + 1 \in Nat \ {0}
    BY <2>1, AppendProperties DEF CheckFrame
  <2>3. frame \in CheckFrame /\ frame.stage = "probing"
    BY <2>1, <2>2 DEF CheckFrame
  <2>4. GoOn(p, frame) /\ UNCHANGED <<event_log, log, tail, life, written, heard, tears>>
    BY <1>3 DEF Probe, files, history
  <2> HIDE DEF frame
  <2> QED BY <1>2, <2>1, <2>3, <2>4 DEF Frame
<1>4. CASE OpenHealthFile(p)
  <2> DEFINE frame == [Top(p) EXCEPT !.stage = "saving"]
  <2>1. calls[p] # <<>> /\ Top(p) \in CheckFrame /\ Top(p).stage = "probing"
    BY <1>0, <1>4, CheckTop DEF OpenHealthFile
  <2>2. frame \in CheckFrame /\ frame.stage = "saving"
    BY <2>1 DEF CheckFrame
  <2>3. GoOn(p, frame) /\ UNCHANGED <<event_log, log, tail, life, written, heard, tears>>
    BY <1>4 DEF OpenHealthFile, history
  <2> HIDE DEF frame
  <2> QED BY <1>2, <2>1, <2>2, <2>3 DEF Frame
<1>5. CASE WriteHealthFile(p)
  <2>1. calls[p] # <<>> /\ Leave(p)
        /\ UNCHANGED <<event_log, log, tail, life, written, heard, tears>>
    BY <1>5 DEF WriteHealthFile, At, history
  <2>2. CallsInv(p)' /\ \A q \in Procs \ {p} : calls'[q] = calls[q]
    BY <1>0, <2>1, ReturnTellInv, Returned
  <2> QED BY <2>1, <2>2, MoveTellInv
<1> QED BY <1>1, <1>3, <1>4, <1>5

\* A death takes no line from the file and starts a life the file does not know.
LEMMA DieTellInv == ASSUME IInv, TellInv, NEW p \in Procs, Die(p) PROVE TellInv'
<1>0. MemoryAndLogTypeOK /\ CallsTypeOK
  BY DEF IInv
<1>1. /\ event_log' = [event_log EXCEPT ![p] = <<>>]
      /\ calls' = [calls EXCEPT ![p] = <<>>]
      /\ life' = [life EXCEPT ![p] = life[p] + 1]
      /\ UNCHANGED <<log, tail, written, heard, tears>>
  BY DEF Die, files
<1>2. /\ calls'[p] = <<>> /\ Len(calls'[p]) = 0 /\ life'[p] = life[p] + 1 /\ life[p] \in Nat
      /\ \A q \in Procs \ {p} : /\ calls'[q] = calls[q] /\ life'[q] = life[q]
                                /\ event_log'[q] = event_log[q]
  BY <1>0, <1>1, EmptySeq DEF MemoryAndLogTypeOK, CallsTypeOK
<1>3. ASSUME NEW e \in Event, Known(e)
      PROVE  /\ e.life <= life'[e.source]
             /\ e.life = life'[e.source] => e.number <= Len(event_log'[e.source])
  <2>1. e.source \in Procs /\ e.life \in Nat
    BY DEF Event
  <2>2. CASE e.source = p
    BY <1>2, <1>3, <2>1, <2>2 DEF Known
  <2>3. CASE e.source # p
    BY <1>2, <1>3, <2>1, <2>3 DEF Known
  <2> QED BY <2>2, <2>3
<1>4. LossInv'
  <2>1. \A e \in written : /\ e.life <= life'[e.source]
                           /\ e.life = life'[e.source] => e.number <= Len(event_log'[e.source])
    BY <1>0, <1>3 DEF TellInv, LossInv, MemoryAndLogTypeOK
  <2>2. tail \in Event => /\ tail.life <= life'[tail.source]
                          /\ tail.life = life'[tail.source] =>
                               tail.number <= Len(event_log'[tail.source])
    BY <1>3 DEF TellInv, LossInv
  <2>3. Readable' = Readable
    BY <1>1 DEF Readable
  <2> QED BY <1>1, <2>1, <2>2, <2>3 DEF TellInv, LossInv, Known
<1>5. \A q \in Procs : CallsInv(q)'
  <2>1. CallsInv(p)'
    BY <1>2 DEF CallsInv, At
  <2>2. \A q \in Procs \ {p} : CallsInv(q)'
    BY <1>1, <1>2 DEF TellInv, CallsInv, At, Top
  <2> QED BY <2>1, <2>2
<1> QED BY <1>4, <1>5 DEF TellInv

LEMMA NextTellInv == IInv /\ TellInv /\ [Next]_vars => TellInv'
<1> SUFFICES ASSUME IInv, TellInv, [Next]_vars PROVE TellInv'
  OBVIOUS
<1>1. ASSUME NEW p \in Procs, Step(p) PROVE TellInv'
  <2>1. CASE WriteEvent(p)
    BY <2>1, WriteEventTellInv
  <2>2. ASSUME NEW left \in {Nothing, Fragment} \cup ToSet(event_log[p]), WriteFails(p, left)
        PROVE  TellInv'
    BY <2>2, WriteFailsTellInv
  <2>3. CASE CallHandler(p) \/ HandlerEnds(p) \/ EmitReturns(p)
    BY <2>3, DispatchTellInv
  <2>4. ASSUME NEW answer \in {"healthy", "failed"}, Probe(p, answer) PROVE TellInv'
    BY <2>4, CheckTellInv DEF Answers
  <2>5. CASE OpenHealthFile(p) \/ WriteHealthFile(p)
    BY <2>5, CheckTellInv
  <2> QED BY <1>1, <2>1, <2>2, <2>3, <2>4, <2>5 DEF Step
<1>2. ASSUME NEW p \in Procs, Use(p) PROVE TellInv'
  <2>1. ASSUME NEW type \in EventTypes, Emit(p, type) PROVE TellInv'
    BY <2>1, EmitTellInv
  <2>2. ASSUME NEW type \in Types, Emit(p, type) PROVE TellInv'
    BY <2>1, <2>2 DEF EventTypes
  <2>3. ASSUME NEW name \in Runbooks, ExecuteRunbook(p, name) PROVE TellInv'
    BY <2>1, <2>3 DEF ExecuteRunbook, EventTypes
  <2>4. ASSUME NEW type \in Listened, NEW h \in Handlers, On(p, type, h) PROVE TellInv'
    <3>1. UNCHANGED <<event_log, calls, log, tail, life, written, heard, tears>>
      BY <2>4 DEF On, files
    <3>2. CallsInv(p)'
      BY <3>1 DEF TellInv, CallsInv, At, Top
    <3> QED BY <3>1, <3>2, MoveTellInv
  <2>5. CASE HealthCheck(p, Topology)
    BY <2>5, CheckTellInv, MeshAssumption
  <2>6. ASSUME NEW n \in Nodes, HealthCheck(p, <<n>>) PROVE TellInv'
    <3>1. <<n>> \in Seq(Nodes)
      OBVIOUS
    <3> QED BY <2>6, <3>1, CheckTellInv
  <2> QED BY <1>2, <2>2, <2>3, <2>4, <2>5, <2>6 DEF Use
<1>3. ASSUME NEW p \in Procs, Die(p) PROVE TellInv'
  BY <1>3, DieTellInv
<1>4. CASE UNCHANGED vars
  <2>1. UNCHANGED <<event_log, calls, log, tail, life, written, heard, tears>>
    BY <1>4 DEF vars, memory, files, history
  <2> QED BY <2>1 DEF TellInv, LossInv, CallsInv, At, Top, Known, Readable
<1> QED BY <1>1, <1>2, <1>3, <1>4 DEF Next

LEMMA TellInvariance == Spec => [](IInv /\ TellInv)
<1>1. Init => IInv /\ TellInv
  BY InitIInv, InitTellInv
<1>2. IInv /\ TellInv /\ [Next]_vars => (IInv /\ TellInv)'
  BY NextIInv, NextTellInv
<1> QED BY <1>1, <1>2, PTL DEF Spec

\* Each write that fails half way makes one written event unreadable at most,
\* and nothing else does, neither a process that dies nor one that writes between
\* (emit writes the event before it calls the handlers).
THEOREM OnlyTearsLose == Spec => []LossesAreTears
<1>1. IInv /\ TellInv => LossesAreTears
  BY LossInvSuffices DEF TellInv
<1> QED BY <1>1, TellInvariance, PTL

-----------------------------------------------------------------------------
(* Handlers are told in the order they were registered *)

Emitting == {"new", "dispatch", "calling"}

\* Whom an event is for, given the lists of its Mesh: those on them before it was.
Earlier(event) == {r \in Registration : r.since < event.number}
Due(lists, event) ==
    Those(lists[event.type], Earlier(event)) \o Those(lists[AnyType], Earlier(event))

\* Who was told of it.
CallsFor(told, event) == Those(told, {c \in CallOfHandler : c.event = event})
Registrations(cs) == [i \in 1..Len(cs) |-> cs[i].registration]
ToldOf(told, event) == Registrations(CallsFor(told, event))

\* How far the loop over the handlers is.
Done(frame) == IF frame.stage = "calling" THEN frame.at ELSE frame.at - 1

\* Its list is of those the event is for, of whom the first were told.
Served(frame, lists, told) ==
    /\ frame.audience = Due(lists, frame.event)
    /\ Done(frame) \in 0..Len(frame.audience)
    /\ ToldOf(told, frame.event) = SubSeq(frame.audience, 1, Done(frame))

\* All that are registered were so before the event was emitted.
AllBefore(lists, event) ==
    \A t \in EventTypes \cup {AnyType} : \A i \in 1..Len(lists[t]) :
      lists[t][i].since < event.number

Lists == [EventTypes \cup {AnyType} -> Seq(Registration)]

\* An event is the last its Mesh emitted when it is about to be written, and the
\* outer calls are of earlier ones; who is registered later than an event is not
\* among those it is for.
DispatchInv(p) ==
    /\ \A t \in EventTypes \cup {AnyType} : \A i \in 1..Len(handlers[p][t]) :
         handlers[p][t][i].since <= Len(event_log[p])
    /\ \A i \in 1..Len(calls[p]) : calls[p][i].stage \in Emitting =>
         /\ calls[p][i].event.source = p /\ calls[p][i].event.number <= Len(event_log[p])
         /\ calls[p][i].stage = "new" =>
              calls[p][i].at = 1 /\ AllBefore(handlers[p], calls[p][i].event)
         /\ calls[p][i].stage # "new" => Served(calls[p][i], handlers[p], heard)
    /\ \A i, j \in 1..Len(calls[p]) :
         i < j /\ calls[p][i].stage \in Emitting /\ calls[p][j].stage \in Emitting
           => calls[p][i].event.number < calls[p][j].event.number

\* For an event later than all registrations that is everyone.
LEMMA DueToAll ==
    ASSUME NEW lists \in Lists, NEW event \in Event, AllBefore(lists, event)
    PROVE  Due(lists, event) = lists[event.type] \o lists[AnyType]
<1>1. event.type \in EventTypes \cup {AnyType} /\ AnyType \in EventTypes \cup {AnyType}
  BY DEF Event
<1>2. ASSUME NEW t \in EventTypes \cup {AnyType} PROVE Those(lists[t], Earlier(event)) = lists[t]
  <2>1. lists[t] \in Seq(Registration)
    BY DEF Lists
  <2>2. \A i \in 1..Len(lists[t]) : lists[t][i] \in Earlier(event)
    BY <2>1, ElementOfSeq DEF Earlier, AllBefore
  <2> QED BY <2>1, <2>2, ThoseOfAll
<1> QED BY <1>1, <1>2 DEF Due

\* Who registers after an event does not hear it.
LEMMA DueToEarlier ==
    ASSUME NEW lists \in Lists, NEW event \in Event, NEW t \in EventTypes \cup {AnyType},
           NEW r \in Registration, r.since >= event.number
    PROVE  Due([lists EXCEPT ![t] = Append(lists[t], r)], event) = Due(lists, event)
<1> DEFINE more == [lists EXCEPT ![t] = Append(lists[t], r)]
<1>1. event.type \in EventTypes \cup {AnyType} /\ AnyType \in EventTypes \cup {AnyType}
  BY DEF Event
<1>2. r \notin Earlier(event)
  BY DEF Earlier, Registration, Event
<1>3. lists[t] \in Seq(Registration)
  BY DEF Lists
<1>4. Those(Append(lists[t], r), Earlier(event)) = Those(lists[t], Earlier(event))
  BY <1>2, <1>3, ThoseOfAppend
<1>5. \A u \in EventTypes \cup {AnyType} :
        more[u] = IF u = t THEN Append(lists[t], r) ELSE lists[u]
  BY DEF Lists
<1> HIDE DEF more
<1>6. \A u \in EventTypes \cup {AnyType} :
        Those(more[u], Earlier(event)) = Those(lists[u], Earlier(event))
  BY <1>4, <1>5
<1>7. Due(more, event) = Due(lists, event)
  BY <1>1, <1>6 DEF Due
<1> QED BY <1>7 DEF more

\* One more call counts for its event.
LEMMA ToldOneMore ==
    ASSUME NEW told \in Seq(CallOfHandler), NEW c \in CallOfHandler, NEW event \in Event
    PROVE  /\ ToldOf(told, event) \in Seq(Registration)
           /\ c.event = event =>
                ToldOf(Append(told, c), event) = Append(ToldOf(told, event), c.registration)
           /\ c.event # event => ToldOf(Append(told, c), event) = ToldOf(told, event)
<1> DEFINE W == {d \in CallOfHandler : d.event = event}  old == Those(told, W)
<1>1. old \in Seq(CallOfHandler) /\ Len(old) \in Nat
  BY ThoseType
<1>2. CallsFor(told, event) = old /\ CallsFor(Append(told, c), event) = Those(Append(told, c), W)
  BY DEF CallsFor
<1>3. c.event = event => Those(Append(told, c), W) = Append(old, c)
  <2>1. c.event = event => c \in W
    OBVIOUS
  <2> HIDE DEF W
  <2> QED BY <2>1, ThoseOfAppend
<1>4. c.event # event => Those(Append(told, c), W) = old
  <2>1. c.event # event => c \notin W
    OBVIOUS
  <2> HIDE DEF W
  <2> QED BY <2>1, ThoseOfAppend
<1> HIDE DEF old, W
<1>5. \A i \in 1..Len(old) : old[i].registration \in Registration
  <2> TAKE i \in 1..Len(old)
  <2>1. old[i] \in CallOfHandler
    BY <1>1, ElementOfSeq
  <2> QED BY <2>1 DEF CallOfHandler
<1>6. Registrations(old) \in Seq(Registration)
  BY <1>1, <1>5 DEF Registrations
<1>7. Registrations(Append(old, c)) = Append(Registrations(old), c.registration)
  <2>1. /\ Len(Append(old, c)) = Len(old) + 1 /\ Append(old, c)[Len(old) + 1] = c
        /\ \A i \in 1..Len(old) : Append(old, c)[i] = old[i]
    BY <1>1, AppendProperties
  <2>2. Len(Registrations(old)) = Len(old)
    BY <1>1 DEF Registrations
  <2>3. /\ c.registration \in Registration
        /\ \A i \in 1..Len(old) : Registrations(old)[i] = old[i].registration
    BY DEF Registrations, CallOfHandler
  <2> DEFINE longer == Append(Registrations(old), c.registration)
             all == Registrations(Append(old, c))
  <2>4. /\ longer \in Seq(Registration) /\ Len(longer) = Len(old) + 1
        /\ longer[Len(old) + 1] = c.registration
        /\ \A i \in 1..Len(old) : longer[i] = old[i].registration
    BY <1>6, <2>2, <2>3, AppendProperties
  <2>5. /\ all = [i \in 1..(Len(old) + 1) |-> Append(old, c)[i].registration]
    BY <2>1 DEF Registrations
  <2>6. longer = [i \in 1..(Len(old) + 1) |-> longer[i]]
    BY <2>4, LenProperties
  <2> HIDE DEF longer, all
  <2>7. \A i \in 1..(Len(old) + 1) : i \in 1..Len(old) \/ i = Len(old) + 1
    BY <1>1
  <2>8. \A i \in 1..(Len(old) + 1) : longer[i] = Append(old, c)[i].registration
    BY <2>1, <2>4, <2>7
  <2>9. all = longer
    BY <2>5, <2>6, <2>8
  <2> QED BY <2>9 DEF all, longer
<1> QED BY <1>2, <1>3, <1>4, <1>6, <1>7 DEF ToldOf

\* No one was told of an event that is not written.
LEMMA ToldNoOne ==
    ASSUME NEW told \in Seq(CallOfHandler), NEW event \in Event,
           \A i \in 1..Len(told) : told[i].event # event
    PROVE  ToldOf(told, event) = <<>>
<1> DEFINE W == {d \in CallOfHandler : d.event = event}
<1>1. \A i \in 1..Len(told) : told[i] \notin W
  OBVIOUS
<1> HIDE DEF W
<1>2. Those(told, W) = <<>>
  BY <1>1, ThoseOfNone
<1>3. CallsFor(told, event) = <<>>
  BY <1>2 DEF CallsFor, W
<1>4. Registrations(<<>>) = <<>>
  BY DEF Registrations
<1> QED BY <1>3, <1>4 DEF ToldOf

\* The part of a list that was gone through grows by the next of its members.
LEMMA FirstOfThem ==
    ASSUME NEW seq \in Seq(Registration), NEW n \in 0..Len(seq)
    PROVE  /\ SubSeq(seq, 1, 0) = <<>>
           /\ n + 1 <= Len(seq) => SubSeq(seq, 1, n + 1) = Append(SubSeq(seq, 1, n), seq[n + 1])
           /\ SubSeq(seq, 1, Len(seq)) = seq
<1>1. Len(seq) \in Nat /\ n \in Nat /\ \A i \in 1..Len(seq) : seq[i] \in Registration
  BY LenProperties, ElementOfSeq
<1>2. SubSeq(seq, 1, 0) = <<>>
  OBVIOUS
<1>3. SubSeq(seq, 1, Len(seq)) = seq
  OBVIOUS
<1>4. ASSUME n + 1 <= Len(seq)
      PROVE  SubSeq(seq, 1, n + 1) = Append(SubSeq(seq, 1, n), seq[n + 1])
  BY <1>1, <1>4
<1> QED BY <1>2, <1>3, <1>4

LEMMA InitDispatch == ASSUME Init, NEW p \in Procs PROVE DispatchInv(p)
<1>1. calls[p] = <<>> /\ Len(calls[p]) = 0
  BY EmptySeq DEF Init
<1>2. \A t \in EventTypes \cup {AnyType} : Len(handlers[p][t]) = 0
  BY EmptySeq DEF Init, NoHandlers
<1> QED BY <1>1, <1>2 DEF DispatchInv

\* The calls in progress have their types.
LEMMA FrameTypes ==
    ASSUME CallsTypeOK, NEW p \in Procs, NEW i \in 1..Len(calls[p])
    PROVE  /\ calls[p][i] \in Frame
           /\ calls[p][i].stage \in Emitting => calls[p][i] \in EmitFrame
<1>1. calls[p][i] \in Frame
  BY ElementOfSeq DEF CallsTypeOK
<1> QED BY <1>1 DEF Frame, CheckFrame, Emitting

\* What a process does, and whom it tells, does not show in the calls of another.
LEMMA OthersServed ==
    ASSUME IInv, TellInv, NEW p \in Procs, NEW q \in Procs \ {p}, DispatchInv(q),
           calls'[q] = calls[q], handlers'[q] = handlers[q], event_log'[q] = event_log[q],
           \/ heard' = heard
           \/ \E c \in CallOfHandler : c.event.source = p /\ heard' = Append(heard, c)
    PROVE  DispatchInv(q)'
<1>1. heard \in Seq(CallOfHandler) /\ CallsTypeOK
  BY DEF TellInv, LossInv, IInv
<1>2. ASSUME NEW event \in Event, event.source = q
      PROVE  ToldOf(heard', event) = ToldOf(heard, event)
  <2>1. CASE heard' = heard
    BY <2>1
  <2>2. ASSUME NEW c \in CallOfHandler, c.event.source = p, heard' = Append(heard, c)
        PROVE  ToldOf(heard', event) = ToldOf(heard, event)
    BY <1>1, <1>2, <2>2, ToldOneMore
  <2> QED BY <2>1, <2>2
<1>3. ASSUME NEW i \in 1..Len(calls[q]), calls[q][i].stage \in Emitting,
             calls[q][i].stage # "new"
      PROVE  Served(calls[q][i], handlers[q], heard')
  <2>1. calls[q][i].event \in Event /\ calls[q][i].event.source = q
    BY <1>1, <1>3, FrameTypes DEF DispatchInv, EmitFrame
  <2>2. Served(calls[q][i], handlers[q], heard)
    BY <1>3 DEF DispatchInv
  <2> QED BY <1>2, <2>1, <2>2 DEF Served
<1> QED BY <1>3 DEF DispatchInv

\* A call begins: an emit() of a new event, or a health_check().
LEMMA EnterDispatch ==
    ASSUME IInv, NEW p \in Procs, DispatchInv(p), NEW frame \in Frame, Enter(p, frame),
           UNCHANGED <<handlers, heard>>,
           Len(event_log[p]) <= Len(event_log'[p]), Len(event_log'[p]) \in Nat,
           \/ frame.stage \notin Emitting
           \/ /\ frame.stage = "new" /\ frame.at = 1 /\ frame.event.source = p
              /\ frame.event.number = Len(event_log'[p])
              /\ frame.event.number > Len(event_log[p])
    PROVE  DispatchInv(p)'
<1> DEFINE n == Len(calls[p])
<1>0. MemoryAndLogTypeOK /\ CallsTypeOK
  BY DEF IInv
<1>1. /\ n \in Nat /\ Len(calls'[p]) = n + 1 /\ calls'[p][n + 1] = frame
      /\ \A i \in 1..n : calls'[p][i] = calls[p][i]
  BY <1>0, EnteredFrames
<1> HIDE DEF n
<1>2. \A i \in 1..Len(calls'[p]) : i \in 1..n \/ i = n + 1
  BY <1>1
<1>3. ASSUME NEW i \in 1..n, calls[p][i].stage \in Emitting
      PROVE  calls[p][i].event.number \in Nat /\ calls[p][i].event.number <= Len(event_log[p])
  <2>1. calls[p][i] \in EmitFrame
    BY <1>0, <1>3, FrameTypes DEF n
  <2> QED BY <1>3, <2>1 DEF DispatchInv, EmitFrame, Event, n
<1>4. Len(event_log[p]) \in Nat
  BY <1>0, LenProperties DEF MemoryAndLogTypeOK
<1>5. \A t \in EventTypes \cup {AnyType} : \A i \in 1..Len(handlers[p][t]) :
        handlers[p][t][i].since <= Len(event_log'[p])
  <2> TAKE t \in EventTypes \cup {AnyType}
  <2> TAKE i \in 1..Len(handlers[p][t])
  <2>1. handlers[p][t][i] \in Registration
    BY <1>0, ElementOfSeq DEF MemoryAndLogTypeOK
  <2>2. handlers[p][t][i].since <= Len(event_log[p])
    BY DEF DispatchInv
  <2> QED BY <1>4, <2>1, <2>2 DEF Registration
<1>6. ASSUME NEW i \in 1..Len(calls'[p]), calls'[p][i].stage \in Emitting
      PROVE  /\ calls'[p][i].event.source = p
             /\ calls'[p][i].event.number <= Len(event_log'[p])
             /\ calls'[p][i].stage = "new" =>
                  calls'[p][i].at = 1 /\ AllBefore(handlers[p], calls'[p][i].event)
             /\ calls'[p][i].stage # "new" => Served(calls'[p][i], handlers[p], heard)
  <2>1. CASE i \in 1..n
    <3>1. calls'[p][i] = calls[p][i] /\ calls[p][i].stage \in Emitting
      BY <1>1, <1>6, <2>1
    <3>2. calls[p][i].event.number <= Len(event_log'[p])
      BY <1>3, <1>4, <2>1, <3>1
    <3> QED BY <2>1, <3>1, <3>2 DEF DispatchInv, n
  <2>2. CASE i = n + 1
    <3>1. calls'[p][i] = frame
      BY <1>1, <2>2
    <3>2. frame.event.number > Len(event_log[p]) /\ frame.event.number = Len(event_log'[p])
          /\ frame.stage = "new" /\ frame.at = 1 /\ frame.event.source = p
      BY <1>6, <3>1
    <3>3. AllBefore(handlers[p], frame.event)
      <4> SUFFICES ASSUME NEW t \in EventTypes \cup {AnyType}, NEW k \in 1..Len(handlers[p][t])
                   PROVE  handlers[p][t][k].since < frame.event.number
        BY DEF AllBefore
      <4>1. handlers[p][t][k] \in Registration
        BY <1>0, ElementOfSeq DEF MemoryAndLogTypeOK
      <4>2. handlers[p][t][k].since <= Len(event_log[p])
        BY DEF DispatchInv
      <4> QED BY <1>4, <3>2, <4>1, <4>2 DEF Registration
    <3> QED BY <3>1, <3>2, <3>3
  <2> QED BY <1>2, <2>1, <2>2
<1>7. ASSUME NEW i \in 1..Len(calls'[p]), NEW j \in 1..Len(calls'[p]), i < j,
             calls'[p][i].stage \in Emitting, calls'[p][j].stage \in Emitting
      PROVE  calls'[p][i].event.number < calls'[p][j].event.number
  <2>1. i \in 1..n
    BY <1>1, <1>2, <1>7
  <2>2. calls'[p][i] = calls[p][i]
    BY <1>1, <2>1
  <2>3. CASE j \in 1..n
    <3>1. calls'[p][j] = calls[p][j]
      BY <1>1, <2>3
    <3> QED BY <1>7, <2>1, <2>2, <2>3, <3>1 DEF DispatchInv, n
  <2>4. CASE j = n + 1
    <3>1. calls'[p][j] = frame
      BY <1>1, <2>4
    <3>2. calls[p][i].event.number \in Nat /\ calls[p][i].event.number <= Len(event_log[p])
      BY <1>3, <1>7, <2>1, <2>2
    <3>3. frame.event.number > Len(event_log[p]) /\ frame.event.number \in Nat
      BY <1>7, <3>1 DEF Emitting
    <3> QED BY <1>4, <2>2, <3>1, <3>2, <3>3
  <2> QED BY <1>2, <2>3, <2>4
<1> QED BY <1>5, <1>6, <1>7 DEF DispatchInv

\* A call goes on.  Only its own event may have been told of.
LEMMA GoOnDispatch ==
    ASSUME IInv, NEW p \in Procs, DispatchInv(p), calls[p] # <<>>, NEW frame \in Frame,
           GoOn(p, frame), UNCHANGED <<handlers, event_log>>,
           \/ frame.stage \notin Emitting /\ UNCHANGED heard
           \/ /\ frame.stage \in Emitting \ {"new"} /\ Top(p).stage \in Emitting
              /\ frame.event = Top(p).event
              /\ Served(frame, handlers[p], heard')
              /\ \A e \in Event : e # frame.event => ToldOf(heard', e) = ToldOf(heard, e)
    PROVE  DispatchInv(p)'
<1> DEFINE n == Len(calls[p])
<1>0. CallsTypeOK
  BY DEF IInv
<1>1. /\ n \in Nat \ {0} /\ Len(calls'[p]) = n /\ calls'[p][n] = frame
      /\ \A i \in 1..(n - 1) : calls'[p][i] = calls[p][i]
      /\ Top(p) = calls[p][n]
  BY <1>0, WentOnFrames, TopFacts
<1>2. \A i \in 1..Len(calls[p]) : calls[p][i].stage \in Emitting => calls[p][i] \in EmitFrame
  BY <1>0, FrameTypes
<1> HIDE DEF n
<1>3. \A i \in 1..n : i \in 1..(n - 1) \/ i = n
  BY <1>1
<1>4. n \in 1..n /\ \A i \in 1..(n - 1) : i \in 1..n /\ i < n
  BY <1>1
<1>5. ASSUME NEW i \in 1..Len(calls'[p]), calls'[p][i].stage \in Emitting
      PROVE  /\ calls'[p][i].event.source = p
             /\ calls'[p][i].event.number <= Len(event_log[p])
             /\ calls'[p][i].stage = "new" =>
                  calls'[p][i].at = 1 /\ AllBefore(handlers[p], calls'[p][i].event)
             /\ calls'[p][i].stage # "new" => Served(calls'[p][i], handlers[p], heard')
  <2>1. CASE i = n
    <3>1. calls'[p][i] = frame /\ frame.stage \in Emitting \ {"new"}
      BY <1>1, <1>5, <2>1
    <3>2. /\ Served(frame, handlers[p], heard')
          /\ frame.event = calls[p][n].event /\ calls[p][n].stage \in Emitting
      BY <1>1, <3>1
    <3> QED BY <1>4, <3>1, <3>2 DEF DispatchInv, n
  <2>2. CASE i \in 1..(n - 1)
    <3>1. calls'[p][i] = calls[p][i] /\ calls[p][i].stage \in Emitting /\ i \in 1..n /\ i < n
      BY <1>1, <1>4, <1>5, <2>2
    <3>2. calls[p][i] \in EmitFrame
      BY <1>2, <3>1 DEF n
    <3>3. ToldOf(heard', calls[p][i].event) = ToldOf(heard, calls[p][i].event)
      <4>1. CASE UNCHANGED heard
        BY <4>1
      <4>2. CASE /\ frame.stage \in Emitting \ {"new"} /\ Top(p).stage \in Emitting
                 /\ frame.event = Top(p).event
                 /\ \A e \in Event : e # frame.event => ToldOf(heard', e) = ToldOf(heard, e)
        <5>1. calls[p][n] \in EmitFrame
          BY <1>1, <1>2, <1>4, <4>2 DEF n
        <5>2. calls[p][i].event.number < calls[p][n].event.number
          BY <1>1, <1>4, <3>1, <4>2 DEF DispatchInv, n
        <5>3. calls[p][i].event # frame.event /\ calls[p][i].event \in Event
          BY <1>1, <3>2, <4>2, <5>1, <5>2 DEF EmitFrame, Event
        <5> QED BY <4>2, <5>3
      <4> QED BY <4>1, <4>2
    <3>4. calls[p][i].stage # "new" => Served(calls[p][i], handlers[p], heard')
      <4>1. calls[p][i].stage # "new" => Served(calls[p][i], handlers[p], heard)
        BY <3>1 DEF DispatchInv, n
      <4> QED BY <3>3, <4>1 DEF Served
    <3> QED BY <3>1, <3>4 DEF DispatchInv, n
  <2> QED BY <1>1, <1>3, <2>1, <2>2
<1>6. ASSUME NEW i \in 1..Len(calls'[p]), NEW j \in 1..Len(calls'[p]), i < j,
             calls'[p][i].stage \in Emitting, calls'[p][j].stage \in Emitting
      PROVE  calls'[p][i].event.number < calls'[p][j].event.number
  <2>1. i \in 1..(n - 1)
    BY <1>1, <1>6
  <2>2. calls'[p][i] = calls[p][i] /\ i \in 1..n /\ calls[p][i].stage \in Emitting
    BY <1>1, <1>4, <1>6, <2>1
  <2>3. calls'[p][j].event = calls[p][j].event /\ calls[p][j].stage \in Emitting /\ j \in 1..n
    <3>1. CASE j = n
      BY <1>1, <1>4, <1>6, <3>1
    <3>2. CASE j \in 1..(n - 1)
      BY <1>1, <1>4, <1>6, <3>2
    <3> QED BY <1>1, <1>3, <3>1, <3>2
  <2> QED BY <1>6, <2>2, <2>3 DEF DispatchInv, n
<1> QED BY <1>5, <1>6 DEF DispatchInv

\* A call ends.
LEMMA LeaveDispatch ==
    ASSUME IInv, NEW p \in Procs, DispatchInv(p), calls[p] # <<>>, Leave(p),
           UNCHANGED <<handlers, event_log, heard>>
    PROVE  DispatchInv(p)'
<1>1. /\ Len(calls[p]) \in Nat \ {0} /\ Len(calls'[p]) = Len(calls[p]) - 1
      /\ \A i \in 1..(Len(calls[p]) - 1) : calls'[p][i] = calls[p][i]
  BY ReturnedFrames DEF IInv
<1>2. \A i \in 1..Len(calls'[p]) : i \in 1..Len(calls[p]) /\ calls'[p][i] = calls[p][i]
  BY <1>1
<1> QED BY <1>2 DEF DispatchInv

\* What is known of the innermost emit().
LEMMA TopDispatch ==
    ASSUME IInv, NEW p \in Procs, DispatchInv(p), NEW stage \in Emitting, At(p, stage)
    PROVE  /\ calls[p] # <<>> /\ Top(p) \in EmitFrame /\ Top(p).stage = stage
           /\ Top(p).event.source = p
           /\ Top(p).stage = "new" => Top(p).at = 1 /\ AllBefore(handlers[p], Top(p).event)
           /\ Top(p).stage # "new" => Served(Top(p), handlers[p], heard)
<1>1. calls[p] # <<>> /\ Top(p) \in EmitFrame /\ Top(p).stage = stage
  BY EmitTop DEF IInv, Emitting
<1>2. Top(p) = calls[p][Len(calls[p])] /\ Len(calls[p]) \in Nat \ {0}
  BY <1>1, TopFacts DEF IInv
<1>3. Len(calls[p]) \in 1..Len(calls[p])
  BY <1>2
<1> QED BY <1>1, <1>2, <1>3 DEF DispatchInv

LEMMA EmitDispatch ==
    ASSUME IInv, TellInv, \A q \in Procs : DispatchInv(q),
           NEW p \in Procs, NEW type \in EventTypes, Emit(p, type)
    PROVE  \A q \in Procs : DispatchInv(q)'
<1> DEFINE event == NewEvent(p, type)  old == event_log[p]
           frame == [stage |-> "new", event |-> event, audience |-> <<>>, at |-> 1]
<1>0. MemoryAndLogTypeOK /\ CallsTypeOK /\ CallersWait
  BY DEF IInv
<1>1. /\ old \in Seq(Event) /\ Len(old) \in Nat
      /\ event_log' = [event_log EXCEPT ![p] = Append(old, event)]
      /\ UNCHANGED <<handlers, heard>> /\ Running(p) /\ Enter(p, frame)
  BY <1>0, LenProperties DEF MemoryAndLogTypeOK, Emit, Called
<1>2. event \in Event /\ event.source = p /\ event.number = Len(old) + 1
  BY <1>0, <1>1 DEF CallsTypeOK, NewEvent, Event
<1>3. frame \in Frame /\ frame.stage = "new" /\ frame.event = event /\ frame.at = 1
  BY <1>2, EmptySeq DEF Frame, EmitFrame
<1> HIDE DEF event, frame
<1>4. Len(Append(old, event)) = Len(old) + 1
  BY <1>1, <1>2, AppendProperties
<1>5. /\ Len(event_log'[p]) = Len(old) + 1
      /\ \A q \in Procs \ {p} : event_log'[q] = event_log[q]
  BY <1>0, <1>1, <1>4 DEF MemoryAndLogTypeOK
<1>6. DispatchInv(p)'
  <2>1. Len(old) <= Len(event_log'[p]) /\ Len(event_log'[p]) \in Nat
        /\ frame.event.number = Len(event_log'[p]) /\ frame.event.number > Len(old)
    BY <1>1, <1>2, <1>3, <1>5
  <2> QED BY <1>1, <1>2, <1>3, <2>1, EnterDispatch
<1>7. \A q \in Procs \ {p} : calls'[q] = calls[q]
  BY <1>0, <1>1, <1>3, Entered
<1>8. \A q \in Procs \ {p} : DispatchInv(q)'
  BY <1>1, <1>5, <1>7, OthersServed
<1> QED BY <1>6, <1>8

\* The loop begins: all that are registered now were before the event was.
LEMMA WriteEventDispatch ==
    ASSUME IInv, TellInv, \A q \in Procs : DispatchInv(q), NEW p \in Procs, WriteEvent(p)
    PROVE  \A q \in Procs : DispatchInv(q)'
<1> DEFINE event == Top(p).event
           frame == [Top(p) EXCEPT !.stage = "dispatch", !.audience = Listeners(p, event.type)]
<1>0. MemoryAndLogTypeOK /\ CallsTypeOK /\ CallersWait
  BY DEF IInv
<1>1. /\ calls[p] # <<>> /\ Top(p) \in EmitFrame /\ At(p, "new") /\ Top(p).stage = "new"
      /\ Top(p).at = 1 /\ AllBefore(handlers[p], event)
  BY TopDispatch DEF WriteEvent, Emitting
<1>2. event \in Event
  BY <1>1 DEF EmitFrame
<1>3. Listeners(p, event.type) \in Seq(Registration)
  BY <1>0, <1>2, ListenersTyped DEF Event
<1>4. /\ frame \in Frame /\ frame.stage = "dispatch" /\ frame.event = event
      /\ frame.audience = Listeners(p, event.type) /\ frame.at = 1
  BY <1>1, <1>3 DEF Frame, EmitFrame
<1>5. GoOn(p, frame) /\ UNCHANGED <<event_log, handlers, heard>>
  BY DEF WriteEvent
<1>6. event.number = Len(event_log[p]) /\ event \notin written
  BY <1>1 DEF IInv, NewIsLatest, TellInv, CallsInv
<1> HIDE DEF frame
<1>7. handlers[p] \in Lists
  BY <1>0 DEF MemoryAndLogTypeOK, Lists
<1>8. frame.audience = Due(handlers[p], event)
  BY <1>1, <1>2, <1>4, <1>7, DueToAll DEF Listeners
<1>9. ToldOf(heard, event) = <<>>
  <2>1. heard \in Seq(CallOfHandler) /\ \A i \in 1..Len(heard) : heard[i].event # event
    BY <1>6 DEF TellInv, LossInv
  <2> QED BY <1>2, <2>1, ToldNoOne
<1>10. Served(frame, handlers[p], heard)
  <2>1. frame.audience \in Seq(Registration) /\ Done(frame) = 0
    BY <1>3, <1>4 DEF Done
  <2>2. 0 \in 0..Len(frame.audience) /\ SubSeq(frame.audience, 1, 0) = <<>>
    BY <2>1, LenProperties, FirstOfThem
  <2> QED BY <1>4, <1>8, <1>9, <2>1, <2>2 DEF Served
<1>11. DispatchInv(p)'
  BY <1>1, <1>4, <1>5, <1>10, GoOnDispatch DEF Emitting
<1>12. \A q \in Procs \ {p} : calls'[q] = calls[q]
  BY <1>0, <1>1, <1>4, <1>5, WentOn
<1>13. \A q \in Procs \ {p} : DispatchInv(q)'
  BY <1>5, <1>12, OthersServed
<1> QED BY <1>11, <1>13

\* The next handler is told.
LEMMA CallHandlerDispatch ==
    ASSUME IInv, TellInv, \A q \in Procs : DispatchInv(q), NEW p \in Procs, CallHandler(p)
    PROVE  \A q \in Procs : DispatchInv(q)'
<1> DEFINE event == Top(p).event  at == Top(p).at
           frame == [Top(p) EXCEPT !.stage = "calling"]
           c == [event |-> Top(p).event, registration |-> Audience(p, Top(p))[Top(p).at]]
<1>0. MemoryAndLogTypeOK /\ CallsTypeOK /\ CallersWait
  BY DEF IInv
<1>1. /\ calls[p] # <<>> /\ Top(p) \in EmitFrame /\ Top(p).stage = "dispatch"
      /\ event.source = p /\ Served(Top(p), handlers[p], heard) /\ at <= Len(Top(p).audience)
  BY TopDispatch DEF CallHandler, Emitting, Audience
<1>2. /\ frame \in Frame /\ frame.stage = "calling" /\ frame.event = event
      /\ frame.audience = Top(p).audience /\ frame.at = at
      /\ frame.audience \in Seq(Registration) /\ event \in Event /\ at \in Nat \ {0}
  BY <1>1 DEF EmitFrame, Frame
<1>3. c \in CallOfHandler /\ c.event = event /\ c.registration = Top(p).audience[at]
  <2>1. at \in 1..Len(Top(p).audience)
    BY <1>1, <1>2
  <2>2. Top(p).audience[at] \in Registration
    BY <1>2, <2>1, ElementOfSeq
  <2> QED BY <1>2, <2>2 DEF CallOfHandler, Audience
<1>4. GoOn(p, frame) /\ heard' = Append(heard, c) /\ UNCHANGED <<event_log, handlers>>
  BY DEF CallHandler
<1>5. heard \in Seq(CallOfHandler)
  BY DEF TellInv, LossInv
<1> HIDE DEF frame, c
<1>6. /\ ToldOf(heard', event) = Append(ToldOf(heard, event), Top(p).audience[at])
      /\ \A e \in Event : e # event => ToldOf(heard', e) = ToldOf(heard, e)
  BY <1>2, <1>3, <1>4, <1>5, ToldOneMore
<1>7. Served(frame, handlers[p], heard')
  <2> DEFINE audience == Top(p).audience
  <2>1. /\ audience = Due(handlers[p], event) /\ Done(Top(p)) = at - 1
        /\ ToldOf(heard, event) = SubSeq(audience, 1, at - 1)
    BY <1>1 DEF Served, Done
  <2>2. audience \in Seq(Registration) /\ Len(audience) \in Nat /\ at <= Len(audience)
    BY <1>1, <1>2, LenProperties
  <2>3. at - 1 \in 0..Len(audience) /\ at - 1 + 1 = at /\ Done(frame) = at /\ at \in 0..Len(audience)
    BY <1>2, <2>2 DEF Done
  <2> HIDE DEF audience
  <2>4. \A n \in 0..Len(audience) : n + 1 <= Len(audience) =>
          SubSeq(audience, 1, n + 1) = Append(SubSeq(audience, 1, n), audience[n + 1])
    BY <2>2, FirstOfThem
  <2>5. SubSeq(audience, 1, at) = Append(SubSeq(audience, 1, at - 1), audience[at])
    BY <2>2, <2>3, <2>4
  <2>6. frame.audience = audience /\ ToldOf(heard', event) = SubSeq(audience, 1, at)
    BY <1>2, <1>6, <2>1, <2>5 DEF audience
  <2> QED BY <1>2, <2>1, <2>3, <2>6 DEF Served
<1>8. DispatchInv(p)'
  BY <1>1, <1>2, <1>4, <1>6, <1>7, GoOnDispatch DEF Emitting
<1>9. \A q \in Procs \ {p} : calls'[q] = calls[q]
  BY <1>0, <1>1, <1>2, <1>4, WentOn
<1>10. \A q \in Procs \ {p} : DispatchInv(q)'
  BY <1>1, <1>3, <1>4, <1>9, OthersServed
<1> QED BY <1>8, <1>10

\* A handler ends, and the loop goes on behind it.
LEMMA HandlerEndsDispatch ==
    ASSUME IInv, TellInv, \A q \in Procs : DispatchInv(q), NEW p \in Procs, HandlerEnds(p)
    PROVE  \A q \in Procs : DispatchInv(q)'
<1> DEFINE frame == Advance(Top(p))
<1>0. CallsTypeOK /\ CallersWait
  BY DEF IInv
<1>1. /\ calls[p] # <<>> /\ Top(p) \in EmitFrame /\ Top(p).stage = "calling"
      /\ Served(Top(p), handlers[p], heard)
  BY TopDispatch DEF HandlerEnds, Emitting
<1>2. /\ frame \in EmitFrame /\ frame.stage = "dispatch" /\ frame.event = Top(p).event
      /\ frame.audience = Top(p).audience /\ frame.at = Top(p).at + 1 /\ Top(p).at \in Nat
  BY <1>1, Advanced DEF EmitFrame
<1>3. GoOn(p, frame) /\ UNCHANGED <<event_log, handlers, heard>>
  BY DEF HandlerEnds, history
<1> HIDE DEF frame
<1>4. Done(frame) = Done(Top(p))
  BY <1>1, <1>2 DEF Done
<1>5. Served(frame, handlers[p], heard')
  BY <1>1, <1>2, <1>3, <1>4 DEF Served
<1>6. DispatchInv(p)'
  BY <1>1, <1>2, <1>3, <1>5, GoOnDispatch DEF Emitting, Frame
<1>7. \A q \in Procs \ {p} : calls'[q] = calls[q]
  BY <1>0, <1>1, <1>2, <1>3, WentOn DEF Frame
<1>8. \A q \in Procs \ {p} : DispatchInv(q)'
  BY <1>3, <1>7, OthersServed
<1> QED BY <1>6, <1>8

\* A handler is registered: not for the events it may be registered in answer to.
LEMMA OnDispatch ==
    ASSUME IInv, TellInv, \A q \in Procs : DispatchInv(q), NEW p \in Procs,
           NEW type \in Listened, NEW h \in Handlers, On(p, type, h)
    PROVE  \A q \in Procs : DispatchInv(q)'
<1> DEFINE r == [handler |-> h, since |-> Len(event_log[p])]
           old == handlers[p]  new == [old EXCEPT ![type] = Append(old[type], r)]
<1>0. MemoryAndLogTypeOK /\ CallsTypeOK /\ CallersWait
  BY DEF IInv
<1>1. /\ type \in EventTypes \cup {AnyType} /\ old \in Lists /\ old[type] \in Seq(Registration)
      /\ Len(event_log[p]) \in Nat
  BY <1>0, MeshAssumption, LenProperties DEF MemoryAndLogTypeOK, Lists
<1>2. r \in Registration /\ r.since = Len(event_log[p])
  BY <1>1 DEF Registration
<1>3. /\ handlers' = [handlers EXCEPT ![p] = new]
      /\ UNCHANGED <<event_log, calls, heard>>
  BY DEF On
<1>4. /\ Len(Append(old[type], r)) = Len(old[type]) + 1 /\ Len(old[type]) \in Nat
      /\ Append(old[type], r)[Len(old[type]) + 1] = r
      /\ \A i \in 1..Len(old[type]) : Append(old[type], r)[i] = old[type][i]
  BY <1>1, <1>2, AppendProperties, LenProperties
<1> HIDE DEF r
<1>5. \A t \in EventTypes \cup {AnyType} :
        new[t] = IF t = type THEN Append(old[type], r) ELSE old[t]
  BY <1>1 DEF Lists
<1>6. \A e \in Event : e.number <= Len(event_log[p]) => Due(new, e) = Due(old, e)
  <2> TAKE e \in Event
  <2>1. e.number <= Len(event_log[p]) => r.since >= e.number
    BY <1>1, <1>2 DEF Event
  <2> HIDE DEF old
  <2> QED BY <1>1, <1>2, <2>1, DueToEarlier
<1> HIDE DEF new
<1>7. /\ handlers'[p] = new /\ \A q \in Procs \ {p} : handlers'[q] = handlers[q]
      /\ calls' = calls /\ event_log' = event_log /\ heard' = heard
  BY <1>0, <1>3 DEF MemoryAndLogTypeOK
<1>8. \A t \in EventTypes \cup {AnyType} : \A i \in 1..Len(new[t]) :
        new[t][i].since <= Len(event_log[p])
  <2> TAKE t \in EventTypes \cup {AnyType}
  <2> TAKE i \in 1..Len(new[t])
  <2>1. CASE t = type
    <3>1. new[t] = Append(old[type], r)
      BY <1>5, <2>1
    <3>2. i \in 1..Len(old[type]) \/ i = Len(old[type]) + 1
      <4>1. i \in 1..(Len(old[type]) + 1)
        BY <1>4, <3>1
      <4> HIDE DEF old
      <4> QED BY <1>4, <4>1
    <3>3. CASE i \in 1..Len(old[type])
      BY <1>1, <1>4, <3>1, <3>3 DEF DispatchInv
    <3>4. CASE i = Len(old[type]) + 1
      BY <1>1, <1>2, <1>4, <3>1, <3>4
    <3> QED BY <3>2, <3>3, <3>4
  <2>2. CASE t # type
    BY <1>5, <2>2 DEF DispatchInv
  <2> QED BY <2>1, <2>2
<1>9. ASSUME NEW i \in 1..Len(calls[p]), calls[p][i].stage \in Emitting
      PROVE  calls[p][i].stage # "new" /\ Served(calls[p][i], new, heard)
  <2>1. calls[p][i].stage # "new"
    <3>1. Running(p)
      BY DEF On, Called
    <3>2. calls[p] # <<>> /\ Len(calls[p]) \in Nat
      <4>1. calls[p] \in Seq(Frame)
        BY <1>0 DEF CallsTypeOK
      <4>2. calls[p] = <<>> => Len(calls[p]) = 0
        BY <4>1, EmptySeq
      <4> QED BY <4>1, <4>2, LenProperties
    <3>3. CASE i = Len(calls[p])
      BY <3>1, <3>2, <3>3 DEF Running, Top, Last
    <3>4. CASE i # Len(calls[p])
      <4>1. i \in 1..(Len(calls[p]) - 1)
        BY <3>2, <3>4
      <4>2. calls[p][i].stage = "calling"
        BY <1>0, <4>1 DEF CallersWait
      <4> QED BY <4>2
    <3> QED BY <3>3, <3>4
  <2>2. calls[p][i].event \in Event
    BY <1>0, <1>9, FrameTypes DEF EmitFrame
  <2>3. Served(calls[p][i], old, heard) /\ calls[p][i].event.number <= Len(event_log[p])
    BY <1>9, <2>1 DEF DispatchInv
  <2>4. Due(new, calls[p][i].event) = Due(old, calls[p][i].event)
    BY <1>6, <2>2, <2>3
  <2> QED BY <2>1, <2>3, <2>4 DEF Served
<1>10. DispatchInv(p)'
  BY <1>7, <1>8, <1>9 DEF DispatchInv
<1>11. \A q \in Procs \ {p} : DispatchInv(q)'
  BY <1>7, OthersServed
<1> QED BY <1>10, <1>11

\* Health checks, and calls that end.
LEMMA OtherDispatch ==
    ASSUME IInv, TellInv, \A q \in Procs : DispatchInv(q), NEW p \in Procs,
           \/ \E targets \in Seq(Nodes) : HealthCheck(p, targets)
           \/ \E answer \in Answers : Probe(p, answer)
           \/ OpenHealthFile(p) \/ WriteHealthFile(p)
           \/ EmitReturns(p) \/ \E left : WriteFails(p, left)
    PROVE  \A q \in Procs : DispatchInv(q)'
<1>0. MemoryAndLogTypeOK /\ CallsTypeOK /\ CallersWait
  BY DEF IInv
<1>1. ASSUME NEW targets \in Seq(Nodes), HealthCheck(p, targets)
      PROVE  \A q \in Procs : DispatchInv(q)'
  <2> DEFINE frame == [stage |-> "probing", targets |-> targets, at |-> 1, results |-> <<>>]
  <2>1. frame \in Frame /\ frame.stage \notin Emitting
    BY EmptySeq DEF Frame, CheckFrame, Emitting
  <2>2. Running(p) /\ Enter(p, frame) /\ UNCHANGED <<event_log, handlers, heard>>
    BY <1>1 DEF HealthCheck, Called
  <2> HIDE DEF frame
  <2>3. Len(event_log[p]) \in Nat
    BY <1>0, LenProperties DEF MemoryAndLogTypeOK
  <2>4. Len(event_log[p]) <= Len(event_log'[p]) /\ Len(event_log'[p]) \in Nat
    BY <2>2, <2>3
  <2>5. DispatchInv(p)'
    BY <2>1, <2>2, <2>4, EnterDispatch
  <2>6. \A q \in Procs \ {p} : calls'[q] = calls[q]
    BY <1>0, <2>1, <2>2, Entered
  <2>7. \A q \in Procs \ {p} : DispatchInv(q)'
    BY <2>2, <2>6, OthersServed
  <2> QED BY <2>5, <2>7
<1>2. ASSUME NEW frame \in CheckFrame, calls[p] # <<>>, GoOn(p, frame),
             UNCHANGED <<event_log, handlers, heard>>
      PROVE  \A q \in Procs : DispatchInv(q)'
  <2>1. frame \in Frame /\ frame.stage \notin Emitting
    BY DEF Frame, CheckFrame, Emitting
  <2>2. DispatchInv(p)'
    BY <1>2, <2>1, GoOnDispatch
  <2>3. \A q \in Procs \ {p} : calls'[q] = calls[q]
    BY <1>0, <1>2, <2>1, WentOn
  <2>4. \A q \in Procs \ {p} : DispatchInv(q)'
    BY <1>2, <2>3, OthersServed
  <2> QED BY <2>2, <2>4
<1>3. ASSUME calls[p] # <<>>, Leave(p), UNCHANGED <<event_log, handlers, heard>>
      PROVE  \A q \in Procs : DispatchInv(q)'
  <2>1. DispatchInv(p)'
    BY <1>3, LeaveDispatch
  <2>2. \A q \in Procs \ {p} : calls'[q] = calls[q]
    BY <1>0, <1>3, Returned
  <2>3. \A q \in Procs \ {p} : DispatchInv(q)'
    BY <1>3, <2>2, OthersServed
  <2> QED BY <2>1, <2>3
<1>4. ASSUME NEW answer \in Answers, Probe(p, answer) PROVE \A q \in Procs : DispatchInv(q)'
  <2> DEFINE frame == [Top(p) EXCEPT !.at = @ + 1, !.results = Append(@, answer)]
  <2>1. calls[p] # <<>> /\ Top(p) \in CheckFrame
    BY <1>0, <1>4, CheckTop DEF Probe
  <2>2. Append(Top(p).results, answer) \in Seq(Answers) /\ Top(p).at + 1 \in Nat \ {0}
    BY <2>1, AppendProperties DEF CheckFrame
  <2>3. frame \in CheckFrame
    BY <2>1, <2>2 DEF CheckFrame
  <2>4. GoOn(p, frame) /\ UNCHANGED <<event_log, handlers, heard>>
    BY <1>4 DEF Probe, history
  <2> HIDE DEF frame
  <2> QED BY <1>2, <2>1, <2>3, <2>4
<1>5. CASE OpenHealthFile(p)
  <2> DEFINE frame == [Top(p) EXCEPT !.stage = "saving"]
  <2>1. calls[p] # <<>> /\ Top(p) \in CheckFrame
    BY <1>0, <1>5, CheckTop DEF OpenHealthFile
  <2>2. frame \in CheckFrame
    BY <2>1 DEF CheckFrame
  <2>3. GoOn(p, frame) /\ UNCHANGED <<event_log, handlers, heard>>
    BY <1>5 DEF OpenHealthFile, history
  <2> HIDE DEF frame
  <2> QED BY <1>2, <2>1, <2>2, <2>3
<1>6. CASE WriteHealthFile(p)
  <2>1. calls[p] # <<>> /\ Leave(p) /\ UNCHANGED <<event_log, handlers, heard>>
    BY <1>6 DEF WriteHealthFile, At, history
  <2> QED BY <1>3, <2>1
<1>7. CASE EmitReturns(p)
  <2>1. calls[p] # <<>> /\ Leave(p) /\ UNCHANGED <<event_log, handlers, heard>>
    BY <1>7 DEF EmitReturns, At, history
  <2> QED BY <1>3, <2>1
<1>8. ASSUME NEW left, WriteFails(p, left) PROVE \A q \in Procs : DispatchInv(q)'
  <2>1. calls[p] # <<>> /\ Leave(p) /\ UNCHANGED <<event_log, handlers, heard>>
    BY <1>8 DEF WriteFails, At
  <2> QED BY <1>3, <2>1
<1> QED BY <1>1, <1>4, <1>5, <1>6, <1>7, <1>8

LEMMA DieDispatch ==
    ASSUME IInv, TellInv, \A q \in Procs : DispatchInv(q), NEW p \in Procs, Die(p)
    PROVE  \A q \in Procs : DispatchInv(q)'
<1>0. MemoryAndLogTypeOK /\ CallsTypeOK
  BY DEF IInv
<1>1. /\ event_log' = [event_log EXCEPT ![p] = <<>>]
      /\ handlers' = [handlers EXCEPT ![p] = NoHandlers]
      /\ calls' = [calls EXCEPT ![p] = <<>>] /\ heard' = heard
  BY DEF Die
<1>2. /\ calls'[p] = <<>> /\ Len(calls'[p]) = 0 /\ handlers'[p] = NoHandlers
      /\ \A q \in Procs \ {p} : /\ calls'[q] = calls[q] /\ handlers'[q] = handlers[q]
                                /\ event_log'[q] = event_log[q]
  BY <1>0, <1>1, EmptySeq DEF MemoryAndLogTypeOK, CallsTypeOK
<1>3. \A t \in EventTypes \cup {AnyType} : Len(NoHandlers[t]) = 0
  BY EmptySeq DEF NoHandlers
<1>4. DispatchInv(p)'
  BY <1>2, <1>3 DEF DispatchInv
<1>5. \A q \in Procs \ {p} : DispatchInv(q)'
  BY <1>1, <1>2, OthersServed
<1> QED BY <1>4, <1>5

ServedInv == \A p \in Procs : DispatchInv(p)

LEMMA NextDispatch == IInv /\ TellInv /\ ServedInv /\ [Next]_vars => ServedInv'
<1> SUFFICES ASSUME IInv, TellInv, ServedInv, [Next]_vars PROVE ServedInv'
  OBVIOUS
<1>0. \A p \in Procs : DispatchInv(p)
  BY DEF ServedInv
<1>1. ASSUME NEW p \in Procs, Step(p) PROVE ServedInv'
  <2>1. CASE WriteEvent(p)
    BY <1>0, <2>1, WriteEventDispatch DEF ServedInv
  <2>2. ASSUME NEW left, WriteFails(p, left) PROVE ServedInv'
    BY <1>0, <2>2, OtherDispatch DEF ServedInv
  <2>3. CASE CallHandler(p)
    BY <1>0, <2>3, CallHandlerDispatch DEF ServedInv
  <2>4. CASE HandlerEnds(p)
    BY <1>0, <2>4, HandlerEndsDispatch DEF ServedInv
  <2>5. CASE EmitReturns(p) \/ OpenHealthFile(p) \/ WriteHealthFile(p)
    BY <1>0, <2>5, OtherDispatch DEF ServedInv
  <2>6. ASSUME NEW answer \in {"healthy", "failed"}, Probe(p, answer) PROVE ServedInv'
    BY <1>0, <2>6, OtherDispatch DEF ServedInv, Answers
  <2> QED BY <1>1, <2>1, <2>2, <2>3, <2>4, <2>5, <2>6 DEF Step
<1>2. ASSUME NEW p \in Procs, Use(p) PROVE ServedInv'
  <2>1. ASSUME NEW type \in EventTypes, Emit(p, type) PROVE ServedInv'
    BY <1>0, <2>1, EmitDispatch DEF ServedInv
  <2>2. ASSUME NEW type \in Types, Emit(p, type) PROVE ServedInv'
    BY <2>1, <2>2 DEF EventTypes
  <2>3. ASSUME NEW name \in Runbooks, ExecuteRunbook(p, name) PROVE ServedInv'
    BY <2>1, <2>3 DEF ExecuteRunbook, EventTypes
  <2>4. ASSUME NEW type \in Listened, NEW h \in Handlers, On(p, type, h) PROVE ServedInv'
    BY <1>0, <2>4, OnDispatch DEF ServedInv
  <2>5. ASSUME NEW targets \in Seq(Nodes), HealthCheck(p, targets) PROVE ServedInv'
    BY <1>0, <2>5, OtherDispatch DEF ServedInv
  <2>6. Topology \in Seq(Nodes) /\ \A n \in Nodes : <<n>> \in Seq(Nodes)
    BY MeshAssumption
  <2> QED BY <1>2, <2>2, <2>3, <2>4, <2>5, <2>6 DEF Use
<1>3. ASSUME NEW p \in Procs, Die(p) PROVE ServedInv'
  BY <1>0, <1>3, DieDispatch DEF ServedInv
<1>4. CASE UNCHANGED vars
  <2>1. UNCHANGED <<event_log, handlers, calls, heard>>
    BY <1>4 DEF vars, memory, history
  <2> QED BY <2>1 DEF ServedInv, DispatchInv
<1> QED BY <1>1, <1>2, <1>3, <1>4 DEF Next

\* An emit() that returns has come to the end of its list.
LEMMA ReturnsServed ==
    ASSUME IInv, NEW p \in Procs, DispatchInv(p), EmitReturns(p)
    PROVE  ToldOf(heard, Top(p).event) = Due(handlers[p], Top(p).event)
<1> DEFINE audience == Top(p).audience
<1>1. /\ Top(p) \in EmitFrame /\ Top(p).stage = "dispatch"
      /\ Served(Top(p), handlers[p], heard) /\ Top(p).at > Len(audience)
  BY TopDispatch DEF EmitReturns, Emitting, Audience
<1>2. audience \in Seq(Registration) /\ Len(audience) \in Nat /\ Top(p).at \in Nat
  BY <1>1, LenProperties DEF EmitFrame
<1>3. /\ audience = Due(handlers[p], Top(p).event) /\ Top(p).at - 1 \in 0..Len(audience)
      /\ ToldOf(heard, Top(p).event) = SubSeq(audience, 1, Top(p).at - 1)
  BY <1>1 DEF Served, Done
<1>4. Top(p).at - 1 = Len(audience)
  BY <1>1, <1>2, <1>3
<1>5. SubSeq(audience, 1, Len(audience)) = audience
  BY <1>2, <1>3, FirstOfThem
<1> QED BY <1>3, <1>4, <1>5

\* An emit() that returns has told those registered before its event, each as
\* often as it is on a list and in that order, and no one else, whatever its
\* handlers emitted and registered meanwhile, at any depth (emit copies the lists).
THEOREM ToldInOrder == Spec => HeardByThoseBefore
<1>1. Init => ServedInv
  BY InitDispatch DEF ServedInv
<1>2. IInv /\ TellInv /\ ServedInv =>
        \A p \in Procs :
          EmitReturns(p) => ToldOf(heard, Top(p).event) = Due(handlers[p], Top(p).event)
  BY ReturnsServed DEF ServedInv
<1> DEFINE AllServed == \A p \in Procs :
             EmitReturns(p) => ToldOf(heard, Top(p).event) = Due(handlers[p], Top(p).event)
<1>3. HeardByThoseBefore <=> [][AllServed]_vars
  BY DEF HeardByThoseBefore, ToldOf, CallsFor, Registrations, Due, Earlier
<1> QED BY <1>1, <1>2, <1>3, NextDispatch, TellInvariance, PTL DEF Spec
=============================================================================

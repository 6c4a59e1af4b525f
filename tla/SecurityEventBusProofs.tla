----------------------- MODULE SecurityEventBusProofs -----------------------
(* Theorems about SecurityEventBus and SecurityRuntime, for any number of    *)
(* sinks, subscriptions, nested emissions, deaths and starts.  BusInv is     *)
(* inductive for one bus, RuntimeInv over all of them.                       *)
EXTENDS SecurityRuntime, FiniteSetTheorems, SequenceTheorems, TLAPS

-----------------------------------------------------------------------------
(* Helpers on sequences *)

\* What a sequence holds after one more element is what it held, and that one.
LEMMA AppendedElements ==
    ASSUME NEW S, NEW seq \in Seq(S), NEW e \in S
    PROVE  ToSet(Append(seq, e)) = ToSet(seq) \cup {e}
<1>1. /\ Append(seq, e) \in Seq(S)
      /\ Len(Append(seq, e)) = Len(seq) + 1
      /\ \A i \in 1..Len(seq) : Append(seq, e)[i] = seq[i]
      /\ Append(seq, e)[Len(seq) + 1] = e
  BY AppendProperties
<1>2. Len(seq) \in Nat
  BY LenProperties
<1>3. DOMAIN seq = 1..Len(seq) /\ DOMAIN Append(seq, e) = 1..(Len(seq) + 1)
  BY <1>1, LenProperties
<1>4. 1..(Len(seq) + 1) = 1..Len(seq) \cup {Len(seq) + 1}
  BY <1>2
<1> QED BY <1>1, <1>3, <1>4 DEF ToSet

\* RemoveAt closes the gap it leaves.
LEMMA RemovedAt ==
    ASSUME NEW S, NEW seq \in Seq(S), NEW at \in 1..Len(seq)
    PROVE  /\ RemoveAt(seq, at) \in Seq(S)
           /\ Len(RemoveAt(seq, at)) = Len(seq) - 1
           /\ \A i \in 1..(Len(seq) - 1) :
                RemoveAt(seq, at)[i] = IF i < at THEN seq[i] ELSE seq[i + 1]
<1> DEFINE l == SubSeq(seq, 1, at - 1)
           r == SubSeq(seq, at + 1, Len(seq))
<1>1. Len(seq) \in Nat /\ \A i \in 1..Len(seq) : seq[i] \in S
  BY LenProperties, ElementOfSeq
<1>2. /\ l \in Seq(S)
      /\ Len(l) = IF 1 <= at - 1 THEN at - 1 - 1 + 1 ELSE 0
      /\ \A i \in 1..(at - 1 - 1 + 1) : l[i] = seq[1 + i - 1]
  <2>1. \A i \in 1..(at - 1) : seq[i] \in S
    BY <1>1
  <2> QED BY <1>1, <2>1, SubSeqProperties
<1>3. /\ r \in Seq(S)
      /\ Len(r) = IF at + 1 <= Len(seq) THEN Len(seq) - (at + 1) + 1 ELSE 0
      /\ \A i \in 1..(Len(seq) - (at + 1) + 1) : r[i] = seq[at + 1 + i - 1]
  <2>1. \A i \in (at + 1)..Len(seq) : seq[i] \in S
    BY <1>1
  <2> QED BY <1>1, <2>1, SubSeqProperties
<1> HIDE DEF l, r
<1>4. Len(l) = at - 1 /\ Len(r) = Len(seq) - at
  BY <1>1, <1>2, <1>3
<1>5. /\ l \o r \in Seq(S) /\ Len(l \o r) = Len(l) + Len(r)
      /\ \A i \in 1..(Len(l) + Len(r)) :
           (l \o r)[i] = IF i <= Len(l) THEN l[i] ELSE r[i - Len(l)]
  BY <1>2, <1>3, ConcatProperties
<1>6. ASSUME NEW i \in 1..(Len(seq) - 1)
      PROVE  (l \o r)[i] = IF i < at THEN seq[i] ELSE seq[i + 1]
  <2>1. (l \o r)[i] = IF i <= Len(l) THEN l[i] ELSE r[i - Len(l)]
    BY <1>1, <1>4, <1>5
  <2>2. CASE i < at
    <3>1. i \in 1..(at - 1 - 1 + 1) /\ 1 + i - 1 = i
      BY <1>1, <2>2
    <3>2. l[i] = seq[1 + i - 1]
      BY <1>2, <3>1
    <3> QED BY <1>1, <1>4, <2>1, <2>2, <3>1, <3>2
  <2>3. CASE ~(i < at)
    <3> DEFINE j == i - (at - 1)
    <3>1. j \in 1..(Len(seq) - (at + 1) + 1) /\ at + 1 + j - 1 = i + 1
      BY <1>1, <2>3
    <3>2. (l \o r)[i] = r[j]
      BY <1>1, <1>4, <2>1, <2>3
    <3>3. r[j] = seq[at + 1 + j - 1]
      BY <1>3, <3>1
    <3> HIDE DEF j
    <3>4. (l \o r)[i] = seq[i + 1]
      BY <3>1, <3>2, <3>3
    <3> QED BY <1>1, <2>3, <3>4
  <2> QED BY <1>1, <2>2, <2>3
<1> DEFINE rest == l \o r
<1>7. RemoveAt(seq, at) = rest
  BY DEF RemoveAt, l, r
<1>8. rest \in Seq(S) /\ Len(rest) = Len(seq) - 1
  BY <1>1, <1>4, <1>5
<1>9. \A i \in 1..(Len(seq) - 1) : rest[i] = IF i < at THEN seq[i] ELSE seq[i + 1]
  BY <1>6
<1> HIDE DEF rest
<1> QED BY <1>7, <1>8, <1>9

\* Removing a subscription keeps the order of the others, and no copy of it.
LEMMA WithoutKeeps ==
    ASSUME NEW sub \in Subs, subscriptions \in Seq(Subs), NoRepeats(subscriptions)
    PROVE  /\ Without(sub) \in Seq(Subs)
           /\ NoRepeats(Without(sub))
           /\ \A i \in 1..Len(Without(sub)) :
                /\ Without(sub)[i] # sub
                /\ \E j \in 1..Len(subscriptions) : Without(sub)[i] = subscriptions[j]
<1> DEFINE list == subscriptions
<1>0. Len(list) \in Nat /\ \A i \in 1..Len(list) : list[i] \in Subs
  BY LenProperties, ElementOfSeq
<1>1. CASE \E i \in 1..Len(list) : list[i] = sub
  <2> DEFINE at == SelectInSeq(list, LAMBDA v : v = sub)
  <2>1. at \in 1..Len(list) /\ list[at] = sub
    <3> DEFINE I == {i \in 1..Len(list) : list[i] = sub}
    <3>1. PICK i \in 1..Len(list) : list[i] = sub
      BY <1>1
    <3>2. I = {i}
      BY <3>1 DEF NoRepeats
    <3>3. at = Min(I)
      BY <3>2 DEF SelectInSeq
    <3>4. Min(I) = i
      BY <3>1, <3>2, <1>0 DEF Min
    <3> QED BY <3>1, <3>3, <3>4
  <2>2. Without(sub) = RemoveAt(list, at)
    BY <1>1 DEF Without, RemoveFirst
  <2> HIDE DEF at
  <2> DEFINE rest == RemoveAt(list, at)
  <2>3. /\ rest \in Seq(Subs)
        /\ Len(rest) = Len(list) - 1
        /\ \A i \in 1..(Len(list) - 1) : rest[i] = IF i < at THEN list[i] ELSE list[i + 1]
    BY <2>1, RemovedAt
  <2> HIDE DEF rest
  <2>4. \A i \in 1..Len(rest) :
          rest[i] # sub /\ \E j \in 1..Len(list) : rest[i] = list[j]
    <3> TAKE i \in 1..Len(rest)
    <3> DEFINE old == IF i < at THEN i ELSE i + 1
    <3>1. old \in 1..Len(list) /\ old # at
      BY <1>0, <2>1, <2>3
    <3>2. rest[i] = list[old]
      BY <1>0, <2>3
    <3> HIDE DEF old
    <3>3. list[old] # sub
      BY <2>1, <3>1 DEF NoRepeats
    <3> QED BY <3>1, <3>2, <3>3
  <2>5. NoRepeats(rest)
    <3> SUFFICES ASSUME NEW i \in 1..Len(rest), NEW j \in 1..Len(rest), rest[i] = rest[j]
                 PROVE  i = j
      BY DEF NoRepeats
    <3> DEFINE Old(n) == IF n < at THEN n ELSE n + 1
    <3>1. Old(i) \in 1..Len(list) /\ Old(j) \in 1..Len(list)
      BY <1>0, <2>1, <2>3
    <3>2. list[Old(i)] = rest[i] /\ list[Old(j)] = rest[j]
      BY <1>0, <2>3
    <3>3. Old(i) = Old(j)
      <4> HIDE DEF Old
      <4> QED BY <3>1, <3>2 DEF NoRepeats
    <3>4. i \in Int /\ j \in Int /\ at \in Int
      BY <1>0, <2>1, <2>3
    <3>5. (IF i < at THEN i ELSE i + 1) = (IF j < at THEN j ELSE j + 1)
      BY <3>3
    <3> QED BY <3>4, <3>5
  <2> QED BY <2>2, <2>3, <2>4, <2>5 DEF rest
<1>2. CASE ~\E i \in 1..Len(list) : list[i] = sub
  BY <1>0, <1>2 DEF Without, RemoveFirst
<1> QED BY <1>1, <1>2
-----------------------------------------------------------------------------
(* Facts of one state *)

\* The list a dispatch loops over, live or old: subscriptions without repeats,
\* those removed among them only after the event's emission.
LEMMA ListFacts ==
    ASSUME BusInv, NEW n \in 1..Len(stack)
    PROVE  /\ stack[n] \in Frame
           /\ ListOf(stack[n]) \in Seq(Subs)
           /\ Clean(ListOf(stack[n]), stack[n].event.id, withdrawn)
<1>1. stack[n] \in Frame
  BY ElementOfSeq DEF BusInv, BusTypeOK
<1>2. CASE stack[n].live
  BY <1>1, <1>2 DEF BusInv, BusTypeOK, ListsAreClean, ListOf, Clean
<1>3. CASE ~stack[n].live
  BY <1>1, <1>3 DEF BusInv, BusTypeOK, ListsAreClean, ListOf, Frame
<1> QED BY <1>1, <1>2, <1>3

LEMMA InitBusInv == BusInit => BusInv
<1> SUFFICES ASSUME BusInit PROVE BusInv
  OBVIOUS
<1> USE DEF BusInit, FreshBus
<1>1. BusTypeOK
  <2>1. <<>> \in Seq(Subs) /\ <<>> \in Seq(Event) /\ <<>> \in Seq(Frame)
        /\ <<>> \in Seq(Call) /\ Len(<<>>) = 0
    BY EmptySeq
  <2> QED BY <2>1, BusAssumption DEF BusTypeOK, NotWithdrawn
<1>2. EveryNumberAccounted
  BY DEF EveryNumberAccounted
<1>3. NumberedSoFar /\ LogInOrder /\ FramesNest /\ FramesAreDurable
  BY DEF NumberedSoFar, LogInOrder, FramesNest, FramesAreDurable
<1>4. WithdrawnSeesOnlyInFlight /\ DeliveredAtMostOnce
  BY DEF WithdrawnSeesOnlyInFlight, DeliveredAtMostOnce
<1>5. ListsAreClean /\ LoopsServe /\ AudienceIsListed
  BY DEF ListsAreClean, LoopsServe, AudienceIsListed, NoRepeats, NotWithdrawn
<1> QED BY <1>1, <1>2, <1>3, <1>4, <1>5 DEF BusInv

-----------------------------------------------------------------------------
(* The steps of a dispatch *)

\* A loop in progress moves on; nothing but its position and the callbacks
\* called may change.
OnlyProgress ==
    /\ UNCHANGED <<sinks, subscriptions, buffer, counters, log, bus, withdrawn>>
    /\ stack # <<>>
    /\ Len(stack') = Len(stack)
    /\ stack' \in Seq(Frame)
    /\ \A n \in 1..Len(stack) :
         /\ stack'[n].event = stack[n].event /\ stack'[n].audience = stack[n].audience
         /\ stack'[n].live = stack[n].live /\ stack'[n].subs = stack[n].subs
         /\ n # Len(stack) => stack'[n] = stack[n]

\* The parts of the invariant that do not look at the position.
LEMMA ProgressKeeps ==
    ASSUME BusInv, OnlyProgress, delivered' \in Seq(Call)
    PROVE  /\ BusTypeOK' /\ EveryNumberAccounted' /\ LogInOrder'
           /\ FramesNest' /\ FramesAreDurable' /\ ListsAreClean' /\ AudienceIsListed'
           /\ \A n \in 1..Len(stack) : ListOf(stack[n])' = ListOf(stack[n])
<1> USE DEF OnlyProgress, counters
<1>1. BusTypeOK'
  BY DEF BusInv, BusTypeOK
<1>2. EveryNumberAccounted' /\ LogInOrder'
  BY DEF BusInv, EveryNumberAccounted, LogInOrder
<1>3. FramesNest'
  BY DEF BusInv, FramesNest
<1>4. FramesAreDurable'
  BY DEF BusInv, FramesAreDurable, HeldEverywhere
<1>5. ListsAreClean'
  BY DEF BusInv, ListsAreClean
<1>6. \A n \in 1..Len(stack) : ListOf(stack[n])' = ListOf(stack[n])
  BY DEF ListOf
<1>7. AudienceIsListed'
  BY <1>6 DEF BusInv, AudienceIsListed
<1> QED BY <1>1, <1>2, <1>3, <1>4, <1>5, <1>6, <1>7

\* A callback is called: the event is durable, the subscription was not removed
\* before it, and it has not been called for it yet.
LEMMA CallBackBusInv == ASSUME BusInv, CallBack PROVE BusInv'
<1> DEFINE last == Len(stack)
           list == ListOf(stack[last])
           at == stack[last].at
           d == [sub |-> list[at], event |-> stack[last].event]
<1>1. last \in Nat /\ last \in 1..last /\ Top = stack[last]
  BY LenProperties, EmptySeq DEF BusInv, BusTypeOK, CallBack, Dispatching, Top, Last
<1>2. /\ stack[last] \in Frame
      /\ list \in Seq(Subs)
      /\ NoRepeats(list)
      /\ \A i \in 1..Len(list) : withdrawn[list[i]] # NotWithdrawn
                                   => stack[last].event.id <= withdrawn[list[i]]
  BY <1>1, ListFacts DEF Clean
<1>3. at \in 1..Len(list) /\ ~stack[last].calling /\ Wants(list[at], stack[last].event)
  BY <1>1, <1>2 DEF CallBack, Dispatching, Frame
<1>4. d \in Call
  BY <1>2, <1>3, ElementOfSeq DEF Frame, Call
<1>5. /\ delivered' = Append(delivered, d)
      /\ delivered \in Seq(Call)
  BY <1>1 DEF CallBack, BusInv, BusTypeOK
<1>6. stack' = [stack EXCEPT ![last].calling = TRUE]
  BY DEF CallBack
<1>7. OnlyProgress
  <2>1. stack \in Seq(Frame) /\ [stack[last] EXCEPT !.calling = TRUE] \in Frame
    BY <1>2 DEF BusInv, BusTypeOK, Frame
  <2>2. stack' = [stack EXCEPT ![last] = [stack[last] EXCEPT !.calling = TRUE]]
    BY <1>6
  <2>3. /\ stack' \in Seq(Frame) /\ Len(stack') = Len(stack)
        /\ \A n \in 1..Len(stack) :
             stack'[n] = IF n = last THEN [stack[last] EXCEPT !.calling = TRUE] ELSE stack[n]
    BY <1>1, <2>1, <2>2, ExceptSeq
  <2>4. UNCHANGED <<sinks, subscriptions, buffer, counters, log, bus, withdrawn>>
    BY DEF CallBack
  <2>5. \A n \in 1..Len(stack) :
          /\ stack'[n].event = stack[n].event /\ stack'[n].audience = stack[n].audience
          /\ stack'[n].live = stack[n].live /\ stack'[n].subs = stack[n].subs
          /\ n # Len(stack) => stack'[n] = stack[n]
    BY <1>2, <2>3 DEF Frame
  <2> QED BY <2>3, <2>4, <2>5 DEF OnlyProgress, CallBack, Dispatching
<1>8. /\ stack'[last].at = at /\ stack'[last].calling
      /\ stack'[last].event = stack[last].event
  BY <1>1, <1>2, <1>6, LenProperties DEF Frame, BusInv, BusTypeOK
<1> HIDE DEF d
<1>9. /\ delivered' \in Seq(Call)
      /\ Len(delivered') = Len(delivered) + 1 /\ Len(delivered) \in Nat
      /\ \A i \in 1..Len(delivered) : delivered'[i] = delivered[i]
      /\ delivered'[Len(delivered) + 1] = d
      /\ ToSet(delivered') = ToSet(delivered) \cup {d}
  <2>1. ToSet(delivered') = ToSet(delivered) \cup {d}
    <3>1. ToSet(Append(delivered, d)) = ToSet(delivered) \cup {d}
      BY <1>4, <1>5, AppendedElements
    <3> QED BY <1>5, <3>1
  <2>2. Len(delivered) \in Nat
    BY <1>5, LenProperties
  <2>3. /\ Append(delivered, d) \in Seq(Call)
        /\ Len(Append(delivered, d)) = Len(delivered) + 1
        /\ \A i \in 1..Len(delivered) : Append(delivered, d)[i] = delivered[i]
        /\ Append(delivered, d)[Len(delivered) + 1] = d
    BY <1>4, <1>5, AppendProperties
  <2> QED BY <1>5, <2>1, <2>2, <2>3
<1>10. /\ BusTypeOK' /\ EveryNumberAccounted' /\ LogInOrder'
       /\ FramesNest' /\ FramesAreDurable' /\ ListsAreClean' /\ AudienceIsListed'
       /\ \A n \in 1..Len(stack) : ListOf(stack[n])' = ListOf(stack[n])
  BY <1>7, <1>9, ProgressKeeps
<1>11. d.sub = list[at] /\ d.event = stack[last].event
  BY DEF d
<1>12. \A i \in 1..Len(delivered') :
         \/ i \in 1..Len(delivered) /\ delivered'[i] = delivered[i]
         \/ i = Len(delivered) + 1 /\ delivered'[i] = d
  BY <1>9
<1>13. NumberedSoFar'
  <2>1. d.event.bus = bus /\ d.event.id <= event_counter
    BY <1>1, <1>11 DEF BusInv, NumberedSoFar
  <2>2. d.event.bus \in Nat /\ bus \in Nat
    BY <1>4 DEF Call, Event, BusInv, BusTypeOK
  <2>3. \A i \in 1..Len(delivered') :
          /\ delivered'[i].event.bus <= bus
          /\ delivered'[i].event.bus = bus => delivered'[i].event.id <= event_counter
    BY <1>12, <2>1, <2>2 DEF BusInv, NumberedSoFar
  <2>4. \A n \in 1..Len(stack') :
          stack'[n].event.bus = bus /\ stack'[n].event.id <= event_counter
    BY <1>7 DEF BusInv, NumberedSoFar, OnlyProgress
  <2> QED BY <1>7, <2>3, <2>4 DEF BusInv, NumberedSoFar, OnlyProgress, counters
<1>15. WithdrawnSeesOnlyInFlight'
  <2>1. withdrawn[d.sub] # NotWithdrawn => d.event.id <= withdrawn[d.sub]
    BY <1>2, <1>3, <1>11
  <2>2. withdrawn' = withdrawn /\ bus' = bus
    BY <1>7 DEF OnlyProgress
  <2> QED BY <1>12, <2>1, <2>2 DEF BusInv, WithdrawnSeesOnlyInFlight
<1>16. \A i \in 1..Len(delivered) : delivered[i] # d
  <2> SUFFICES ASSUME NEW i \in 1..Len(delivered), delivered[i] = d PROVE FALSE
    OBVIOUS
  <2>1. PICK j \in 1..Len(list) : Reached(stack[last], j) /\ list[j] = list[at]
    BY <1>1, <1>11 DEF BusInv, LoopsServe, Served
  <2>2. j = at
    BY <1>2, <1>3, <2>1 DEF NoRepeats
  <2> QED BY <1>3, <2>1, <2>2 DEF Reached
<1>17. DeliveredAtMostOnce'
  BY <1>9, <1>12, <1>16 DEF BusInv, DeliveredAtMostOnce
<1>18. LoopsServe'
  <2> SUFFICES ASSUME NEW n \in 1..Len(stack)
               PROVE  Served(stack'[n], ListOf(stack[n]), delivered')
    <3>1. Len(stack') = Len(stack)
      BY <1>7 DEF OnlyProgress
    <3> QED BY <1>10, <3>1 DEF LoopsServe
  <2>1. CASE n # last
    <3>1. stack'[n] = stack[n]
      BY <1>7, <2>1 DEF OnlyProgress
    <3>2. d.event # stack[n].event
      <4>1. n < last
        BY <1>1, <2>1
      <4>2. stack[n].event.id < stack[last].event.id
        BY <1>1, <4>1 DEF BusInv, FramesNest
      <4>3. stack[n] \in Frame
        BY ListFacts
      <4> QED BY <1>2, <1>11, <4>2, <4>3 DEF Frame, Event
    <3> QED BY <1>9, <1>12, <3>1, <3>2 DEF BusInv, LoopsServe, Served
  <2>2. CASE n = last
    <3>1. \A j \in 1..Len(list) : Reached(stack'[last], j) <=> Reached(stack[last], j) \/ j = at
      BY <1>2, <1>3, <1>8, LenProperties DEF Reached, Frame
    <3>2. stack'[n].at <= Len(list)
      BY <1>3, <1>8, <2>2
    <3>3. \A j \in 1..Len(list) :
            Reached(stack'[n], j) /\ Wants(list[j], stack'[n].event)
              => [sub |-> list[j], event |-> stack'[n].event] \in ToSet(delivered')
      BY <1>1, <1>8, <1>9, <2>2, <3>1 DEF d, BusInv, LoopsServe, Served
    <3>4. \A i \in 1..Len(delivered') : delivered'[i].event = stack'[n].event =>
            \E j \in 1..Len(list) : Reached(stack'[n], j) /\ list[j] = delivered'[i].sub
      <4> SUFFICES ASSUME NEW i \in 1..Len(delivered'),
                          delivered'[i].event = stack[last].event
                   PROVE  \E j \in 1..Len(list) :
                            Reached(stack'[last], j) /\ list[j] = delivered'[i].sub
        BY <1>8, <2>2
      <4>1. CASE delivered'[i] = d
        BY <1>3, <1>11, <3>1, <4>1
      <4>2. CASE i \in 1..Len(delivered) /\ delivered'[i] = delivered[i]
        BY <1>1, <3>1, <4>2 DEF BusInv, LoopsServe, Served
      <4> QED BY <1>12, <4>1, <4>2
    <3>5. Len(list) \in Nat /\ stack'[n].at \in Int
      BY <1>2, <1>8, <2>2, LenProperties DEF Frame
    <3> QED BY <2>2, <3>2, <3>3, <3>4, <3>5 DEF Served
  <2> QED BY <2>1, <2>2
<1> QED BY <1>10, <1>13, <1>15, <1>17, <1>18 DEF BusInv
\* The loop turns to the next entry: the one it leaves was called, or passed
\* over because it did not want the event.
LEMMA MoveOnBusInv ==
    ASSUME BusInv, stack # <<>>,
           stack' = [stack EXCEPT ![Len(stack)].calling = FALSE, ![Len(stack)].at = @ + 1],
           UNCHANGED <<sinks, subscriptions, buffer, counters, log, bus, delivered, withdrawn>>,
           Top.calling \/ ( /\ ~Top.calling /\ Top.at <= Len(ListOf(Top))
                            /\ ~Wants(ListOf(Top)[Top.at], Top.event) )
    PROVE  BusInv'
<1> DEFINE last == Len(stack)
           frame == stack[last]
           list == ListOf(frame)
           next == [frame EXCEPT !.calling = FALSE, !.at = @ + 1]
<1>1. last \in Nat /\ last \in 1..last /\ Top = frame
  BY LenProperties, EmptySeq DEF BusInv, BusTypeOK, Top, Last
<1>2. /\ frame \in Frame /\ list \in Seq(Subs)
      /\ Len(list) \in Nat /\ frame.at \in Nat \ {0}
  BY <1>1, ListFacts, LenProperties DEF Frame
<1>3. /\ next \in Frame /\ next.at = frame.at + 1 /\ ~next.calling
      /\ next.event = frame.event /\ next.audience = frame.audience
      /\ next.live = frame.live /\ next.subs = frame.subs
  BY <1>2 DEF Frame
<1>4. stack' = [stack EXCEPT ![last] = next]
  OBVIOUS
<1> HIDE DEF next
<1>5. /\ stack' \in Seq(Frame) /\ Len(stack') = Len(stack)
      /\ \A n \in 1..Len(stack) : stack'[n] = IF n = last THEN next ELSE stack[n]
  <2>1. stack \in Seq(Frame)
    BY DEF BusInv, BusTypeOK
  <2> DEFINE new == [stack EXCEPT ![last] = next]
  <2>2. /\ new \in Seq(Frame) /\ Len(new) = Len(stack)
        /\ \A n \in 1..Len(stack) : new[n] = IF n = last THEN next ELSE stack[n]
    BY <1>1, <1>3, <2>1, ExceptSeq
  <2> QED BY <1>4, <2>2
<1>6. OnlyProgress
  BY <1>3, <1>5 DEF OnlyProgress
<1>7. /\ BusTypeOK' /\ EveryNumberAccounted' /\ LogInOrder'
      /\ FramesNest' /\ FramesAreDurable' /\ ListsAreClean' /\ AudienceIsListed'
      /\ \A n \in 1..Len(stack) : ListOf(stack[n])' = ListOf(stack[n])
  BY <1>6, ProgressKeeps DEF BusInv, BusTypeOK
<1>8. NumberedSoFar'
  BY <1>6 DEF BusInv, NumberedSoFar, OnlyProgress, counters
<1>9. WithdrawnSeesOnlyInFlight' /\ DeliveredAtMostOnce'
  BY DEF BusInv, WithdrawnSeesOnlyInFlight, DeliveredAtMostOnce
<1>10. Served(frame, list, delivered)
  BY <1>1 DEF BusInv, LoopsServe
<1>11. /\ frame.at <= Len(list)
       /\ Reached(frame, frame.at) \/ ~Wants(list[frame.at], frame.event)
  BY <1>1, <1>2, <1>10 DEF Served, Reached
<1>12. \A j \in 1..Len(list) : Reached(next, j) <=> Reached(frame, j) \/ j = frame.at
  BY <1>2, <1>3, <1>11 DEF Reached
<1>13. Served(next, list, delivered)
  BY <1>2, <1>3, <1>10, <1>11, <1>12 DEF Served
<1>14. LoopsServe'
  <2> SUFFICES ASSUME NEW n \in 1..Len(stack)
               PROVE  Served(stack'[n], ListOf(stack[n]), delivered)
    BY <1>5, <1>7 DEF LoopsServe
  <2>1. CASE n = last
    BY <1>5, <1>13, <2>1
  <2>2. CASE n # last
    BY <1>5, <2>2 DEF BusInv, LoopsServe
  <2> QED BY <2>1, <2>2
<1> QED BY <1>7, <1>8, <1>9, <1>14 DEF BusInv

LEMMA PassOverBusInv == ASSUME BusInv, PassOver PROVE BusInv'
<1>1. stack' = [stack EXCEPT ![Len(stack)].calling = FALSE, ![Len(stack)].at = @ + 1]
  <2>1. Len(stack) \in 1..Len(stack) /\ Top = stack[Len(stack)]
    BY LenProperties, EmptySeq DEF BusInv, BusTypeOK, PassOver, Dispatching, Top, Last
  <2>2. stack[Len(stack)] \in Frame /\ ~stack[Len(stack)].calling
    BY <2>1, ListFacts DEF PassOver, Dispatching
  <2>3. stack[Len(stack)] = [stack[Len(stack)] EXCEPT !.calling = FALSE]
    BY <2>2 DEF Frame
  <2>4. stack' = [stack EXCEPT ![Len(stack)].at = @ + 1]
    BY DEF PassOver
  <2> QED BY <2>1, <2>2, <2>3, <2>4 DEF Frame
<1> QED BY <1>1, MoveOnBusInv DEF PassOver, Dispatching

LEMMA CallbackEndsBusInv == ASSUME BusInv, CallbackEnds PROVE BusInv'
  BY MoveOnBusInv DEF CallbackEnds

\* The innermost emission ends; the others are as they were.
LEMMA EmitReturnsBusInv == ASSUME BusInv, EmitReturns PROVE BusInv'
<1> USE DEF EmitReturns, Dispatching, counters
<1>1. stack \in Seq(Frame) /\ Len(stack) \in Nat \ {0}
  BY LenProperties, EmptySeq DEF BusInv, BusTypeOK
<1>2. /\ stack' \in Seq(Frame) /\ Len(stack') = Len(stack) - 1
      /\ \A n \in 1..Len(stack') : n \in 1..Len(stack) /\ stack'[n] = stack[n]
  <2>1. \A n \in 1..(Len(stack) - 1) : stack[n] \in Frame
    BY <1>1, ElementOfSeq
  <2> DEFINE front == SubSeq(stack, 1, Len(stack) - 1)
  <2>2. /\ front \in Seq(Frame)
        /\ Len(front) = IF 1 <= Len(stack) - 1 THEN Len(stack) - 1 - 1 + 1 ELSE 0
        /\ \A n \in 1..(Len(stack) - 1 - 1 + 1) : front[n] = stack[1 + n - 1]
    BY <1>1, <2>1, SubSeqProperties
  <2>3. stack' = front
    BY DEF Front
  <2> HIDE DEF front
  <2>4. Len(stack') = Len(stack) - 1
    BY <1>1, <2>2, <2>3
  <2>5. ASSUME NEW n \in 1..Len(stack')
        PROVE  n \in 1..Len(stack) /\ stack'[n] = stack[n]
    <3>1. n \in 1..(Len(stack) - 1 - 1 + 1) /\ n \in 1..Len(stack) /\ 1 + n - 1 = n
      BY <1>1, <2>4
    <3>2. stack'[n] = stack[1 + n - 1]
      BY <2>2, <2>3, <3>1
    <3> QED BY <3>1, <3>2
  <2> QED BY <2>2, <2>3, <2>4, <2>5
<1>3. BusTypeOK' /\ EveryNumberAccounted' /\ LogInOrder'
  BY <1>2 DEF BusInv, BusTypeOK, EveryNumberAccounted, LogInOrder
<1>4. NumberedSoFar' /\ FramesNest' /\ FramesAreDurable'
  BY <1>2 DEF BusInv, NumberedSoFar, FramesNest, FramesAreDurable, HeldEverywhere
<1>5. WithdrawnSeesOnlyInFlight' /\ DeliveredAtMostOnce'
  BY DEF BusInv, WithdrawnSeesOnlyInFlight, DeliveredAtMostOnce
<1>6. ListsAreClean'
  <2>1. \A n \in 1..Len(stack') : Clean(stack'[n].subs, stack'[n].event.id, withdrawn)
    BY <1>2 DEF BusInv, ListsAreClean
  <2> QED BY <2>1 DEF BusInv, ListsAreClean
<1>7. \A n \in 1..Len(stack') : ListOf(stack[n])' = ListOf(stack[n])
  BY <1>2 DEF ListOf
<1>8. LoopsServe'
  BY <1>2, <1>7 DEF BusInv, LoopsServe
<1>9. AudienceIsListed'
  BY <1>2, <1>7 DEF BusInv, AudienceIsListed
<1> QED BY <1>3, <1>4, <1>5, <1>6, <1>8, <1>9 DEF BusInv
-----------------------------------------------------------------------------
(* What the users of the bus do *)

LEMMA SubscribeBusInv == ASSUME BusInv, NEW sub \in Subs, Subscribe(sub) PROVE BusInv'
<1> USE DEF Subscribe, counters
<1>1. subscriptions \in Seq(Subs) /\ Len(subscriptions) \in Nat
      /\ DOMAIN subscriptions = 1..Len(subscriptions)
  BY LenProperties DEF BusInv, BusTypeOK
<1>2. /\ Append(subscriptions, sub) \in Seq(Subs)
      /\ Len(Append(subscriptions, sub)) = Len(subscriptions) + 1
      /\ \A i \in 1..Len(subscriptions) : Append(subscriptions, sub)[i] = subscriptions[i]
      /\ Append(subscriptions, sub)[Len(subscriptions) + 1] = sub
  BY <1>1, AppendProperties
<1>3. subscriptions' = Append(subscriptions, sub)
  BY DEF With
<1>4. \A i \in 1..Len(subscriptions) : subscriptions[i] # sub
  BY <1>1 DEF ToSet
<1>5. \A i \in 1..Len(subscriptions') :
        \/ i \in 1..Len(subscriptions) /\ subscriptions'[i] = subscriptions[i]
        \/ i = Len(subscriptions) + 1 /\ subscriptions'[i] = sub
  BY <1>1, <1>2, <1>3
<1>6. BusTypeOK' /\ EveryNumberAccounted' /\ LogInOrder' /\ NumberedSoFar'
  BY <1>2, <1>3 DEF BusInv, BusTypeOK, EveryNumberAccounted, LogInOrder, NumberedSoFar
<1>7. FramesNest' /\ FramesAreDurable'
      /\ WithdrawnSeesOnlyInFlight' /\ DeliveredAtMostOnce'
  BY DEF BusInv, FramesNest, FramesAreDurable, HeldEverywhere,
         WithdrawnSeesOnlyInFlight, DeliveredAtMostOnce
<1>8. ListsAreClean'
  <2>1. NoRepeats(subscriptions')
    BY <1>4, <1>5 DEF BusInv, ListsAreClean, NoRepeats
  <2>2. \A i \in 1..Len(subscriptions') : withdrawn[subscriptions'[i]] = NotWithdrawn
    BY <1>5 DEF BusInv, ListsAreClean
  <2> QED BY <2>1, <2>2 DEF BusInv, ListsAreClean
<1>9. ASSUME NEW n \in 1..Len(stack)
      PROVE  /\ Len(ListOf(stack[n])) \in Nat
             /\ \/ ListOf(stack[n])' = ListOf(stack[n])
                \/ ListOf(stack[n])' = Append(subscriptions, sub)
                   /\ ListOf(stack[n]) = subscriptions
  <2>1. Len(ListOf(stack[n])) \in Nat
    BY ListFacts, LenProperties
  <2> QED BY <1>3, <2>1 DEF ListOf
<1>10. LoopsServe'
  <2> SUFFICES ASSUME NEW n \in 1..Len(stack)
               PROVE  Served(stack[n], ListOf(stack[n])', delivered)
    BY DEF LoopsServe
  <2>1. Served(stack[n], ListOf(stack[n]), delivered) /\ stack[n] \in Frame
    BY ListFacts DEF BusInv, LoopsServe
  <2>2. CASE ListOf(stack[n])' = ListOf(stack[n])
    BY <2>1, <2>2
  <2>3. CASE ListOf(stack[n])' = Append(subscriptions, sub) /\ ListOf(stack[n]) = subscriptions
    <3> DEFINE new == Append(subscriptions, sub)
    <3>1. \A j \in 1..Len(new) : Reached(stack[n], j) => j \in 1..Len(subscriptions)
      BY <1>1, <1>2, <2>1, <2>3 DEF Served, Reached, Frame
    <3>2. stack[n].at <= Len(new) + 1 /\ (stack[n].calling => stack[n].at <= Len(new))
      BY <1>1, <1>2, <2>1, <2>3 DEF Served, Frame
    <3> HIDE DEF new
    <3>3. /\ \A i \in 1..Len(subscriptions) : new[i] = subscriptions[i]
          /\ Len(new) = Len(subscriptions) + 1
      BY <1>2 DEF new
    <3>4. \A i \in 1..Len(delivered) : delivered[i].event = stack[n].event =>
            \E j \in 1..Len(new) : Reached(stack[n], j) /\ new[j] = delivered[i].sub
      BY <1>1, <2>1, <2>3, <3>3 DEF Served
    <3>5. \A j \in 1..Len(new) : Reached(stack[n], j) /\ Wants(new[j], stack[n].event) =>
            [sub |-> new[j], event |-> stack[n].event] \in ToSet(delivered)
      BY <2>1, <2>3, <3>1, <3>3 DEF Served
    <3>6. Served(stack[n], new, delivered)
      BY <3>2, <3>4, <3>5 DEF Served
    <3> QED BY <2>3, <3>6 DEF new
  <2> QED BY <1>9, <2>2, <2>3
<1>11. AudienceIsListed'
  <2> SUFFICES ASSUME NEW n \in 1..Len(stack)
               PROVE  stack[n].audience \subseteq ToSet(ListOf(stack[n])')
    BY DEF AudienceIsListed
  <2>1. stack[n].audience \subseteq ToSet(ListOf(stack[n]))
    BY DEF BusInv, AudienceIsListed
  <2>2. ToSet(Append(subscriptions, sub)) = ToSet(subscriptions) \cup {sub}
    BY <1>1, AppendedElements
  <2> QED BY <1>9, <2>1, <2>2
<1> QED BY <1>6, <1>7, <1>8, <1>10, <1>11 DEF BusInv

\* The loops in progress keep the list they had, so that all they have done and
\* have still to do is the same; the bus gets a shorter one.
LEMMA UnsubscribeBusInv == ASSUME BusInv, NEW sub \in Subs, Unsubscribe(sub) PROVE BusInv'
<1> USE DEF Unsubscribe, counters
<1>1. /\ stack \in Seq(Frame) /\ subscriptions \in Seq(Subs)
      /\ Len(stack) \in Nat /\ DOMAIN stack = 1..Len(stack)
      /\ DOMAIN subscriptions = 1..Len(subscriptions)
  BY LenProperties DEF BusInv, BusTypeOK
<1>2. /\ Without(sub) \in Seq(Subs) /\ NoRepeats(Without(sub))
      /\ \A i \in 1..Len(Without(sub)) :
           /\ Without(sub)[i] # sub
           /\ \E j \in 1..Len(subscriptions) : Without(sub)[i] = subscriptions[j]
  BY <1>1, WithoutKeeps DEF BusInv, ListsAreClean
<1>3. \A n \in 1..Len(stack) : stack[n] \in Frame
  BY <1>1, ElementOfSeq
<1>4. /\ stack' \in Seq(Frame) /\ Len(stack') = Len(stack)
      /\ \A n \in 1..Len(stack) :
           stack'[n] = IF stack[n].live
                       THEN [stack[n] EXCEPT !.live = FALSE, !.subs = subscriptions]
                       ELSE stack[n]
  <2> DEFINE Kept(n) == IF stack[n].live
                        THEN [stack[n] EXCEPT !.live = FALSE, !.subs = subscriptions]
                        ELSE stack[n]
  <2>1. stack' = [n \in 1..Len(stack) |-> Kept(n)]
    BY <1>1 DEF Detached
  <2>2. \A n \in 1..Len(stack) : Kept(n) \in Frame
    BY <1>1, <1>3 DEF Frame
  <2> HIDE DEF Kept
  <2>3. stack' \in Seq(Frame) /\ Len(stack') = Len(stack)
    BY <1>1, <2>1, <2>2
  <2> QED BY <2>1, <2>3 DEF Kept
<1>5. \A n \in 1..Len(stack) :
        /\ stack'[n] \in Frame
        /\ stack'[n].event = stack[n].event /\ stack'[n].audience = stack[n].audience
        /\ stack'[n].at = stack[n].at /\ stack'[n].calling = stack[n].calling
        /\ stack'[n].subs = (IF stack[n].live THEN subscriptions ELSE stack[n].subs)
        /\ ~stack'[n].live
  <2> TAKE n \in 1..Len(stack)
  <2>1. CASE stack[n].live
    <3>1. stack[n] \in Frame
      BY <1>3
    <3>2. stack'[n] = [stack[n] EXCEPT !.live = FALSE, !.subs = subscriptions]
      BY <1>4, <2>1
    <3>3. stack'[n] \in Frame
      BY <1>4, ElementOfSeq
    <3> QED BY <2>1, <3>1, <3>2, <3>3 DEF Frame
  <2>2. CASE ~stack[n].live
    BY <1>1, <1>3, <1>4, <2>2 DEF Frame
  <2> QED BY <2>1, <2>2
<1>6. \A n \in 1..Len(stack) : ListOf(stack[n])' = ListOf(stack[n])
  BY <1>4, <1>5 DEF ListOf
<1>7. /\ withdrawn' \in [Subs -> 0..MaxEvents \cup {NotWithdrawn}]
      /\ \A s \in Subs : \/ withdrawn'[s] = withdrawn[s]
                         \/ s = sub /\ withdrawn'[s] = event_counter
      /\ event_counter \in Nat /\ event_counter \in 0..MaxEvents
  BY BusAssumption DEF BusInv, BusTypeOK
<1>8. BusTypeOK' /\ EveryNumberAccounted' /\ LogInOrder'
  BY <1>2, <1>4, <1>7 DEF BusInv, BusTypeOK, EveryNumberAccounted, LogInOrder
<1>9. NumberedSoFar' /\ FramesNest' /\ FramesAreDurable' /\ DeliveredAtMostOnce'
  <2>1. \A n \in 1..Len(stack) : stack'[n].event = stack[n].event
    BY <1>5
  <2>2. FramesNest' /\ FramesAreDurable'
    BY <1>4, <2>1 DEF BusInv, FramesNest, FramesAreDurable, HeldEverywhere
  <2>3. NumberedSoFar'
    BY <1>4, <2>1 DEF BusInv, NumberedSoFar
  <2>4. DeliveredAtMostOnce'
    BY DEF BusInv, DeliveredAtMostOnce
  <2> QED BY <2>2, <2>3, <2>4
<1>10. \A list \in Seq(Subs), id \in Nat :
         Clean(list, id, withdrawn) /\ id <= event_counter => Clean(list, id, withdrawn')
  <2> SUFFICES ASSUME NEW list \in Seq(Subs), NEW id \in Nat,
                      Clean(list, id, withdrawn), id <= event_counter,
                      NEW i \in 1..Len(list), withdrawn'[list[i]] # NotWithdrawn
               PROVE  id <= withdrawn'[list[i]]
    BY DEF Clean
  <2>1. list[i] \in Subs
    BY ElementOfSeq
  <2> QED BY <1>7, <2>1 DEF Clean
<1>11. ListsAreClean'
  <2>1. \A i \in 1..Len(Without(sub)) : withdrawn'[Without(sub)[i]] = NotWithdrawn
    <3> TAKE i \in 1..Len(Without(sub))
    <3>1. PICK j \in 1..Len(subscriptions) : Without(sub)[i] = subscriptions[j]
      BY <1>2
    <3>2. subscriptions[j] \in Subs /\ subscriptions[j] # sub
      BY <1>1, <1>2, <3>1, ElementOfSeq
    <3> QED BY <1>7, <3>1, <3>2 DEF BusInv, ListsAreClean
  <2>2. \A s \in Subs : withdrawn'[s] <= event_counter
    BY <1>7 DEF BusInv, ListsAreClean
  <2>3. ASSUME NEW n \in 1..Len(stack)
        PROVE  Clean(stack'[n].subs, stack'[n].event.id, withdrawn')
    <3>1. /\ stack'[n].subs \in Seq(Subs)
          /\ stack[n].event.id \in Nat /\ stack[n].event.id <= event_counter
      BY <1>3, <1>5 DEF Frame, Event, BusInv, NumberedSoFar
    <3>2. Clean(stack'[n].subs, stack[n].event.id, withdrawn)
      <4>1. CASE stack[n].live
        BY <1>5, <4>1 DEF BusInv, ListsAreClean, Clean
      <4>2. CASE ~stack[n].live
        BY <1>5, <4>2 DEF BusInv, ListsAreClean
      <4> QED BY <4>1, <4>2
    <3> QED BY <1>5, <1>10, <3>1, <3>2
  <2> QED BY <1>2, <1>4, <2>1, <2>2, <2>3 DEF ListsAreClean
<1>12. WithdrawnSeesOnlyInFlight'
  <2> SUFFICES ASSUME NEW i \in 1..Len(delivered),
                      withdrawn'[delivered[i].sub] # NotWithdrawn, delivered[i].event.bus = bus
               PROVE  delivered[i].event.id <= withdrawn'[delivered[i].sub]
    BY DEF WithdrawnSeesOnlyInFlight
  <2>1. delivered[i] \in Call
    BY ElementOfSeq DEF BusInv, BusTypeOK
  <2>2. delivered[i].event.id <= event_counter
    BY DEF BusInv, NumberedSoFar
  <2>3. withdrawn[delivered[i].sub] # NotWithdrawn
          => delivered[i].event.id <= withdrawn[delivered[i].sub]
    BY DEF BusInv, WithdrawnSeesOnlyInFlight
  <2>4. delivered[i].sub \in Subs
    BY <2>1 DEF Call
  <2> QED BY <1>7, <2>2, <2>3, <2>4
<1>13. LoopsServe'
  <2> SUFFICES ASSUME NEW n \in 1..Len(stack)
               PROVE  Served(stack'[n], ListOf(stack[n]), delivered)
    BY <1>4, <1>6 DEF LoopsServe
  <2>1. Served(stack[n], ListOf(stack[n]), delivered)
    BY DEF BusInv, LoopsServe
  <2> QED BY <1>5, <2>1 DEF Served, Reached
<1>14. AudienceIsListed'
  BY <1>4, <1>5, <1>6 DEF BusInv, AudienceIsListed
<1> QED BY <1>8, <1>9, <1>11, <1>12, <1>13, <1>14 DEF BusInv
\* What the sinks hold after one more event: everything they held, the event in
\* those that said yes, and numbers still in order.
LEMMA PersistKeeps ==
    ASSUME BusInv, NEW event \in Event, event.bus = bus, event.id = event_counter + 1,
           NEW ok, NEW held, Persist(event, ok, held), bus' = bus
    PROVE  /\ event_counter' = event_counter + 1 /\ event_counter' \in 0..MaxEvents
           /\ event_counter \in Nat
           /\ log' \in [Sinks -> Seq(Event)]
           /\ \A k \in Sinks : ToSet(log[k]) \subseteq ToSet(log'[k])
           /\ \A k \in Sinks : k \in ok => event \in ToSet(log'[k])
           /\ LogInOrder'
           /\ \A k \in Sinks : \A i \in 1..Len(log'[k]) :
                log'[k][i].bus = bus => log'[k][i].id <= event_counter'
<1>1. /\ log \in [Sinks -> Seq(Event)] /\ event_counter \in 0..MaxEvents
      /\ event_counter < MaxEvents /\ event_counter' = event_counter + 1
      /\ ok \subseteq held
      /\ log' = [k \in Sinks |-> IF k \in held THEN Append(log[k], event) ELSE log[k]]
  BY DEF BusInv, BusTypeOK, Persist, Stored
<1>2. event_counter' \in 0..MaxEvents /\ event_counter \in Nat
  BY <1>1, BusAssumption
<1>3. ASSUME NEW k \in Sinks
      PROVE  /\ Append(log[k], event) \in Seq(Event) /\ log[k] \in Seq(Event)
             /\ Len(Append(log[k], event)) = Len(log[k]) + 1 /\ Len(log[k]) \in Nat
             /\ \A i \in 1..Len(log[k]) : Append(log[k], event)[i] = log[k][i]
             /\ Append(log[k], event)[Len(log[k]) + 1] = event
             /\ ToSet(Append(log[k], event)) = ToSet(log[k]) \cup {event}
  <2>1. log[k] \in Seq(Event)
    BY <1>1
  <2>2. ToSet(Append(log[k], event)) = ToSet(log[k]) \cup {event}
    BY <2>1, AppendedElements
  <2>3. Len(log[k]) \in Nat
    BY <2>1, LenProperties
  <2> QED BY <2>1, <2>2, <2>3, AppendProperties
<1>4. ASSUME NEW k \in Sinks
      PROVE  /\ ToSet(log[k]) \subseteq ToSet(log'[k])
             /\ k \in ok => event \in ToSet(log'[k])
             /\ log'[k] \in Seq(Event)
  BY <1>1, <1>3
<1>5. log' \in [Sinks -> Seq(Event)]
  <2>1. log' = [k \in Sinks |-> log'[k]]
    BY <1>1
  <2> QED BY <1>4, <2>1
<1>6. ASSUME NEW k \in Sinks, NEW i \in 1..Len(log'[k])
      PROVE  \/ i \in 1..Len(log[k]) /\ log'[k][i] = log[k][i]
             \/ i = Len(log[k]) + 1 /\ log'[k][i] = event
  BY <1>1, <1>3
<1>7. \A k \in Sinks : \A i \in 1..Len(log'[k]) :
        log'[k][i].bus = bus => log'[k][i].id <= event_counter'
  <2> SUFFICES ASSUME NEW k \in Sinks, NEW i \in 1..Len(log'[k]), log'[k][i].bus = bus
               PROVE  log'[k][i].id <= event_counter'
    OBVIOUS
  <2>1. CASE i \in 1..Len(log[k]) /\ log'[k][i] = log[k][i]
    <3>1. log[k][i].id <= event_counter
      BY <2>1 DEF BusInv, NumberedSoFar
    <3>2. log[k][i].id \in Nat
      <4>1. log[k][i] \in Event
        BY <1>3, <2>1, ElementOfSeq
      <4> QED BY <4>1 DEF Event
    <3> QED BY <1>1, <1>2, <2>1, <3>1, <3>2
  <2>2. CASE i = Len(log[k]) + 1 /\ log'[k][i] = event
    BY <1>1, <1>2, <2>2
  <2> QED BY <1>6, <2>1, <2>2
<1>8. LogInOrder'
  <2> SUFFICES ASSUME NEW k \in Sinks, NEW i \in 1..Len(log'[k]), NEW j \in 1..Len(log'[k]),
                      i < j, log'[k][i].bus = log'[k][j].bus
               PROVE  log'[k][i].id < log'[k][j].id
    BY DEF LogInOrder
  <2>1. i \in 1..Len(log[k]) /\ log'[k][i] = log[k][i]
    <3>1. Len(log[k]) \in Nat /\ j \in 1..(Len(log[k]) + 1)
      BY <1>3, <1>6
    <3> QED BY <1>6, <3>1
  <2>2. CASE j \in 1..Len(log[k]) /\ log'[k][j] = log[k][j]
    BY <2>1, <2>2 DEF BusInv, LogInOrder
  <2>3. CASE log'[k][j] = event
    <3>1. log[k][i].id <= event_counter
      BY <2>1, <2>3 DEF BusInv, NumberedSoFar
    <3>2. log[k][i].id \in Nat
      <4>1. log[k][i] \in Event
        BY <1>3, <2>1, ElementOfSeq
      <4> QED BY <4>1 DEF Event
    <3> QED BY <1>2, <2>1, <2>3, <3>1, <3>2
  <2> QED BY <1>6, <2>2, <2>3
<1> QED BY <1>1, <1>2, <1>4, <1>5, <1>7, <1>8
\* Numbers in use so far stay below the next one.
LEMMA OldNumbers ==
    ASSUME BusInv
    PROVE  /\ event_counter \in Nat /\ event_counter < event_counter + 1
           /\ \A n \in 1..Len(stack) :
                /\ stack[n].event.bus = bus /\ stack[n].event.id \in Nat
                /\ stack[n].event.id <= event_counter
                /\ stack[n].event.id <= event_counter + 1
           /\ \A i \in 1..Len(delivered) :
                /\ delivered[i].event.bus <= bus
                /\ delivered[i].event.bus = bus =>
                     /\ delivered[i].event.id <= event_counter
                     /\ delivered[i].event.id <= event_counter + 1
           /\ \A s \in Subs : withdrawn[s] <= event_counter + 1
<1>1. event_counter \in Nat
  BY DEF BusInv, BusTypeOK
<1>2. ASSUME NEW n \in 1..Len(stack)
      PROVE  /\ stack[n].event.bus = bus /\ stack[n].event.id \in Nat
             /\ stack[n].event.id <= event_counter
             /\ stack[n].event.id <= event_counter + 1
  <2>1. stack[n].event \in Event
    BY ListFacts DEF Frame
  <2>2. stack[n].event.id \in Nat
    BY <2>1 DEF Event
  <2>3. stack[n].event.bus = bus /\ stack[n].event.id <= event_counter
    BY DEF BusInv, NumberedSoFar
  <2> QED BY <1>1, <2>2, <2>3
<1>3. ASSUME NEW i \in 1..Len(delivered)
      PROVE  /\ delivered[i].event.bus <= bus
             /\ delivered[i].event.bus = bus =>
                  /\ delivered[i].event.id <= event_counter
                  /\ delivered[i].event.id <= event_counter + 1
  <2>1. delivered[i] \in Call
    BY ElementOfSeq DEF BusInv, BusTypeOK
  <2>2. delivered[i].event.id \in Nat
    BY <2>1 DEF Call, Event
  <2>3. /\ delivered[i].event.bus <= bus
        /\ delivered[i].event.bus = bus => delivered[i].event.id <= event_counter
    BY DEF BusInv, NumberedSoFar
  <2> QED BY <1>1, <2>2, <2>3
<1>4. ASSUME NEW s \in Subs PROVE withdrawn[s] <= event_counter + 1
  <2>1. withdrawn[s] \in Int
    BY BusAssumption DEF BusInv, BusTypeOK, NotWithdrawn
  <2>2. withdrawn[s] <= event_counter
    BY DEF BusInv, ListsAreClean
  <2> QED BY <1>1, <2>1, <2>2
<1> QED BY <1>1, <1>2, <1>3, <1>4

\* What a sink holds it keeps, so what is durable stays so.
LEMMA FramesStayDurable ==
    ASSUME BusInv, \A k \in Sinks : ToSet(log[k]) \subseteq ToSet(log'[k]),
           RequirePersistence, NEW n \in 1..Len(stack)
    PROVE  /\ stack[n].event.configured # {}
           /\ \A k \in stack[n].event.configured : stack[n].event \in ToSet(log'[k])
<1>1. stack[n].event \in Event
  BY ListFacts DEF Frame
<1>2. stack[n].event.configured \subseteq Sinks
  BY <1>1 DEF Event
<1> QED BY <1>2 DEF BusInv, FramesAreDurable, HeldEverywhere

LEMMA EmitRefusedBusInv ==
    ASSUME BusInv, NEW event \in Event, event.bus = bus, event.id = event_counter + 1,
           NEW ok, NEW held, EmitRefused(event, ok, held)
    PROVE  BusInv'
<1> USE DEF EmitRefused
<1>1. /\ event_counter' = event_counter + 1 /\ event_counter' \in 0..MaxEvents
      /\ event_counter \in Nat
      /\ log' \in [Sinks -> Seq(Event)]
      /\ \A k \in Sinks : ToSet(log[k]) \subseteq ToSet(log'[k])
      /\ LogInOrder'
      /\ \A k \in Sinks : \A i \in 1..Len(log'[k]) :
           log'[k][i].bus = bus => log'[k][i].id <= event_counter'
  BY PersistKeeps
<1>2. BusTypeOK' /\ EveryNumberAccounted'
  BY <1>1 DEF BusInv, BusTypeOK, EveryNumberAccounted
<1>3. NumberedSoFar'
  BY <1>1, OldNumbers DEF NumberedSoFar
<1>4. FramesNest' /\ WithdrawnSeesOnlyInFlight' /\ DeliveredAtMostOnce'
  BY DEF BusInv, FramesNest, WithdrawnSeesOnlyInFlight, DeliveredAtMostOnce
<1>5. FramesAreDurable'
  BY <1>1, FramesStayDurable DEF FramesAreDurable, HeldEverywhere
<1>6. ListsAreClean'
  BY <1>1, OldNumbers DEF BusInv, ListsAreClean
<1>7. LoopsServe' /\ AudienceIsListed'
  <2>1. \A n \in 1..Len(stack) : ListOf(stack[n])' = ListOf(stack[n])
    BY DEF ListOf
  <2> QED BY <2>1 DEF BusInv, LoopsServe, AudienceIsListed
<1> QED BY <1>1, <1>2, <1>3, <1>4, <1>5, <1>6, <1>7 DEF BusInv
\* The buffer after one more event: all of it, or all but its oldest entry.
LEMMA TrimmedKeeps ==
    ASSUME BusTypeOK, NEW event \in Event
    PROVE  /\ Trimmed(Append(buffer, event)) \in Seq(Event)
           /\ Len(Trimmed(Append(buffer, event))) <= BufferSize
<1> DEFINE longer == Append(buffer, event)
<1>1. /\ longer \in Seq(Event) /\ Len(longer) = Len(buffer) + 1
      /\ Len(buffer) \in Nat /\ Len(buffer) <= BufferSize
  BY AppendProperties, LenProperties DEF BusTypeOK
<1> HIDE DEF longer
<1>2. BufferSize \in Nat \ {0}
  BY BusAssumption
<1>3. CASE Len(longer) > BufferSize
  <2> DEFINE from == Len(longer) - BufferSize + 1
             kept == SubSeq(longer, from, Len(longer))
  <2>1. from \in Int /\ Len(longer) \in Int /\ \A i \in from..Len(longer) : longer[i] \in Event
    BY <1>1, <1>2, <1>3, ElementOfSeq
  <2>2. /\ kept \in Seq(Event)
        /\ Len(kept) = IF from <= Len(longer) THEN Len(longer) - from + 1 ELSE 0
    BY <2>1, SubSeqProperties
  <2>3. Trimmed(longer) = kept
    BY <1>3 DEF Trimmed
  <2> HIDE DEF kept
  <2>4. Len(kept) <= BufferSize
    BY <1>1, <1>2, <1>3, <2>2
  <2> QED BY <2>2, <2>3, <2>4 DEF longer
<1>4. CASE ~(Len(longer) > BufferSize)
  <2>1. Trimmed(longer) = longer /\ Len(longer) <= BufferSize
    BY <1>1, <1>2, <1>4 DEF Trimmed
  <2> QED BY <1>1, <2>1 DEF longer
<1> QED BY <1>3, <1>4

\* A new emission: durable if persistence is required, newer than all others,
\* before the first entry of the current list.
LEMMA EmitBusInv ==
    ASSUME BusInv, NEW event \in Event, event.bus = bus, event.id = event_counter + 1,
           event.configured = sinks,
           NEW ok, NEW held, Emit(event, ok, held)
    PROVE  BusInv'
<1> USE DEF Emit
<1> DEFINE frame == [event |-> event, live |-> TRUE, subs |-> <<>>, at |-> 1,
                     calling |-> FALSE, audience |-> ToSet(subscriptions)]
           last == Len(stack) + 1
<1>1. /\ event_counter' = event_counter + 1 /\ event_counter' \in 0..MaxEvents
      /\ event_counter \in Nat
      /\ log' \in [Sinks -> Seq(Event)]
      /\ \A k \in Sinks : ToSet(log[k]) \subseteq ToSet(log'[k])
      /\ \A k \in Sinks : k \in ok => event \in ToSet(log'[k])
      /\ LogInOrder'
      /\ \A k \in Sinks : \A i \in 1..Len(log'[k]) :
           log'[k][i].bus = bus => log'[k][i].id <= event_counter'
  BY PersistKeeps
<1>2. /\ stack \in Seq(Frame) /\ Len(stack) \in Nat
      /\ subscriptions \in Seq(Subs) /\ Len(subscriptions) \in Nat
      /\ DOMAIN subscriptions = 1..Len(subscriptions)
  BY LenProperties DEF BusInv, BusTypeOK
<1>3. frame \in Frame
  <2>1. ToSet(subscriptions) \subseteq Subs
    BY <1>2, ElementOfSeq DEF ToSet
  <2>2. <<>> \in Seq(Subs)
    BY EmptySeq
  <2> QED BY <2>1, <2>2 DEF Frame
<1>4. stack' = Append(stack, frame)
  OBVIOUS
<1>5. /\ frame.event = event /\ frame.live /\ frame.subs = <<>> /\ frame.at = 1
      /\ ~frame.calling /\ frame.audience = ToSet(subscriptions)
  OBVIOUS
<1> HIDE DEF frame
<1>6. /\ stack' \in Seq(Frame) /\ Len(stack') = last
      /\ \A n \in 1..Len(stack) : stack'[n] = stack[n]
      /\ stack'[last] = frame
  BY <1>2, <1>3, <1>4, AppendProperties
<1>7. \A n \in 1..last : n \in 1..Len(stack) \/ n = last
  BY <1>2
<1>8. BusTypeOK'
  <2>1. buffer' \in Seq(Event) /\ Len(buffer') <= BufferSize
    BY TrimmedKeeps DEF BusInv
  <2> QED BY <1>1, <1>6, <2>1 DEF BusInv, BusTypeOK
<1>9. EveryNumberAccounted'
  BY <1>1 DEF BusInv, BusTypeOK, EveryNumberAccounted
<1>10. NumberedSoFar'
  <2>1. \A n \in 1..last : stack'[n].event.bus = bus /\ stack'[n].event.id <= event_counter + 1
    BY <1>1, <1>5, <1>6, <1>7, OldNumbers
  <2> QED BY <1>1, <1>6, <2>1, OldNumbers DEF NumberedSoFar
<1>11. FramesNest'
  <2> SUFFICES ASSUME NEW i \in 1..last, NEW j \in 1..last, i < j
               PROVE  stack'[i].event.id < stack'[j].event.id
    BY <1>6 DEF FramesNest
  <2>1. i \in 1..Len(stack)
    BY <1>2
  <2>2. CASE j \in 1..Len(stack)
    BY <1>6, <2>1, <2>2 DEF BusInv, FramesNest
  <2>3. CASE j = last
    <3>1. stack[i].event.id <= event_counter /\ stack[i].event.id \in Nat
      BY <2>1, OldNumbers
    <3> QED BY <1>1, <1>5, <1>6, <2>1, <2>3, <3>1
  <2> QED BY <1>7, <2>2, <2>3
<1>12. FramesAreDurable'
  <2>1. RequirePersistence => \A n \in 1..Len(stack) :
          /\ stack[n].event.configured # {}
          /\ \A k \in stack[n].event.configured : stack[n].event \in ToSet(log'[k])
    BY <1>1, FramesStayDurable
  <2>2. RequirePersistence => /\ event.configured # {}
                              /\ \A k \in event.configured : event \in ToSet(log'[k])
    BY <1>1 DEF Persisted, BusInv, BusTypeOK
  <2> QED BY <1>5, <1>6, <1>7, <2>1, <2>2 DEF FramesAreDurable, HeldEverywhere
<1>13. WithdrawnSeesOnlyInFlight' /\ DeliveredAtMostOnce'
  BY DEF BusInv, WithdrawnSeesOnlyInFlight, DeliveredAtMostOnce
<1>14. ListsAreClean'
  <2>1. Clean(<<>>, event.id, withdrawn)
    BY DEF Clean, NoRepeats
  <2>2. \A n \in 1..last : Clean(stack'[n].subs, stack'[n].event.id, withdrawn)
    BY <1>5, <1>6, <1>7, <2>1 DEF BusInv, ListsAreClean
  <2>3. \A s \in Subs : withdrawn[s] <= event_counter + 1
    BY OldNumbers
  <2> QED BY <1>1, <1>6, <2>2, <2>3 DEF BusInv, ListsAreClean
<1>15. \A n \in 1..last :
         ListOf(stack[n])' = IF n = last THEN subscriptions ELSE ListOf(stack[n])
  BY <1>5, <1>6, <1>7 DEF ListOf
<1>16. LoopsServe'
  <2>1. Served(frame, subscriptions, delivered)
    <3>1. \A j \in 1..Len(subscriptions) : ~Reached(frame, j)
      BY <1>2, <1>5 DEF Reached
    <3>2. \A i \in 1..Len(delivered) : delivered[i].event # event
      <4> SUFFICES ASSUME NEW i \in 1..Len(delivered), delivered[i].event = event
                   PROVE  FALSE
        OBVIOUS
      <4>1. event_counter + 1 <= event_counter
        BY OldNumbers
      <4> QED BY <1>1, <4>1
    <3> QED BY <1>2, <1>5, <3>1, <3>2 DEF Served
  <2>2. \A n \in 1..Len(stack) : Served(stack'[n], ListOf(stack[n]), delivered)
    BY <1>6 DEF BusInv, LoopsServe
  <2>3. \A n \in 1..last : Served(stack'[n], ListOf(stack[n])', delivered)
    BY <1>6, <1>7, <1>15, <2>1, <2>2
  <2> QED BY <1>6, <2>3 DEF LoopsServe
<1>17. AudienceIsListed'
  <2>1. \A n \in 1..last : stack'[n].audience \subseteq ToSet(ListOf(stack[n])')
    BY <1>5, <1>6, <1>7, <1>15 DEF BusInv, AudienceIsListed
  <2> QED BY <1>6, <2>1 DEF AudienceIsListed
<1> QED BY <1>1, <1>8, <1>9, <1>10, <1>11, <1>12, <1>13, <1>14, <1>16, <1>17 DEF BusInv

LEMMA ChangeSinksBusInv == ASSUME BusInv, NEW k \in Sinks, ChangeSinks(k) PROVE BusInv'
<1> USE DEF ChangeSinks, counters
<1>1. BusTypeOK'
  BY DEF BusInv, BusTypeOK
<1>2. \A n \in 1..Len(stack) : ListOf(stack[n])' = ListOf(stack[n])
  BY DEF ListOf
<1>3. LoopsServe' /\ AudienceIsListed'
  BY <1>2 DEF BusInv, LoopsServe, AudienceIsListed
<1> QED BY <1>1, <1>3
        DEF BusInv, EveryNumberAccounted, NumberedSoFar, LogInOrder, FramesNest,
            FramesAreDurable, HeldEverywhere, ListsAreClean,
            WithdrawnSeesOnlyInFlight, DeliveredAtMostOnce

LEMMA StutterBusInv == ASSUME BusInv, UNCHANGED bus_vars PROVE BusInv'
<1> USE DEF bus_vars, counters
<1>1. BusTypeOK'
  BY DEF BusInv, BusTypeOK
<1>2. \A n \in 1..Len(stack) : ListOf(stack[n])' = ListOf(stack[n])
  BY DEF ListOf
<1>3. LoopsServe' /\ AudienceIsListed'
  BY <1>2 DEF BusInv, LoopsServe, AudienceIsListed
<1> QED BY <1>1, <1>3
        DEF BusInv, EveryNumberAccounted, NumberedSoFar, LogInOrder, FramesNest,
            FramesAreDurable, HeldEverywhere, ListsAreClean,
            WithdrawnSeesOnlyInFlight, DeliveredAtMostOnce

LEMMA NextBusInv == BusInv /\ [BusNext]_bus_vars => BusInv'
<1> SUFFICES ASSUME BusInv, [BusNext]_bus_vars PROVE BusInv'
  OBVIOUS
<1>1. CASE Step
  BY <1>1, CallBackBusInv, PassOverBusInv, EmitReturnsBusInv, CallbackEndsBusInv DEF Step
<1>2. ASSUME NEW severity \in Severities, NEW category \in Categories, NEW source \in Sources,
             NEW ok \in SUBSET sinks, NEW held \in SUBSET sinks,
             \/ Emit(NewEvent(severity, category, source), ok, held)
             \/ EmitRefused(NewEvent(severity, category, source), ok, held)
      PROVE  BusInv'
  <2> DEFINE event == NewEvent(severity, category, source)
  <2>1. /\ event \in Event /\ event.bus = bus /\ event.id = event_counter + 1
        /\ event.configured = sinks
    BY DEF NewEvent, Event, BusInv, BusTypeOK
  <2> HIDE DEF event
  <2>2. Emit(event, ok, held) \/ EmitRefused(event, ok, held)
    BY <1>2 DEF event
  <2> QED BY <2>1, <2>2, EmitBusInv, EmitRefusedBusInv
<1>3. ASSUME NEW sub \in Subs, Subscribe(sub) \/ Unsubscribe(sub) PROVE BusInv'
  BY <1>3, SubscribeBusInv, UnsubscribeBusInv
<1>4. ASSUME NEW k \in Sinks, ChangeSinks(k) PROVE BusInv'
  BY <1>4, ChangeSinksBusInv
<1>5. CASE UNCHANGED bus_vars
  BY <1>5, StutterBusInv
<1> QED BY <1>1, <1>2, <1>3, <1>4, <1>5 DEF BusNext, Use

\* A sink of a bus in use never loses an event.
LEMMA LogsGrow ==
    ASSUME BusInv, [BusNext]_bus_vars, NEW k \in Sinks
    PROVE  ToSet(log[k]) \subseteq ToSet(log'[k])
<1>1. ASSUME NEW event, NEW held, log' = Stored(event, held), event \in Event
      PROVE  ToSet(log[k]) \subseteq ToSet(log'[k])
  <2>1. log[k] \in Seq(Event)
    BY DEF BusInv, BusTypeOK
  <2>2. ToSet(Append(log[k], event)) = ToSet(log[k]) \cup {event}
    BY <1>1, <2>1, AppendedElements
  <2>3. log'[k] = IF k \in held THEN Append(log[k], event) ELSE log[k]
    BY <1>1 DEF Stored
  <2> QED BY <2>2, <2>3
<1>2. ASSUME NEW severity \in Severities, NEW category \in Categories, NEW source \in Sources,
             NEW ok, NEW held,
             \/ Emit(NewEvent(severity, category, source), ok, held)
             \/ EmitRefused(NewEvent(severity, category, source), ok, held)
      PROVE  ToSet(log[k]) \subseteq ToSet(log'[k])
  <2>1. NewEvent(severity, category, source) \in Event
    BY DEF NewEvent, Event, BusInv, BusTypeOK
  <2> QED BY <1>1, <1>2, <2>1 DEF Emit, EmitRefused, Persist
<1>3. CASE UNCHANGED log
  BY <1>3
<1>4. CASE Step
  BY <1>3, <1>4 DEF Step, CallBack, PassOver, EmitReturns, CallbackEnds
<1>5. ASSUME NEW sub, Subscribe(sub) \/ Unsubscribe(sub) PROVE UNCHANGED log
  BY <1>5 DEF Subscribe, Unsubscribe
<1>6. ASSUME NEW s, ChangeSinks(s) PROVE UNCHANGED log
  BY <1>6 DEF ChangeSinks
<1>7. CASE UNCHANGED bus_vars
  BY <1>3, <1>7 DEF bus_vars
<1> QED BY <1>2, <1>3, <1>4, <1>5, <1>6, <1>7 DEF BusNext, Use

\* The calls of callbacks stay on record; a new one is for an event in dispatch,
\* of a subscription that wants it.
LEMMA CallsOfNext ==
    ASSUME BusInv, [BusNext]_bus_vars, NEW i \in 1..Len(delivered')
    PROVE  \/ i \in 1..Len(delivered) /\ delivered'[i] = delivered[i]
           \/ \E n \in 1..Len(stack) :
                /\ delivered'[i].event = stack[n].event
                /\ Wants(delivered'[i].sub, stack[n].event)
<1>1. CASE CallBack
  <2> DEFINE d == [sub |-> ListOf(Top)[Top.at], event |-> Top.event]
  <2>1. Len(stack) \in 1..Len(stack) /\ Top = stack[Len(stack)]
    BY <1>1, LenProperties, EmptySeq DEF BusInv, BusTypeOK, CallBack, Dispatching, Top, Last
  <2>2. stack[Len(stack)] \in Frame /\ ListOf(Top) \in Seq(Subs)
    BY <2>1, ListFacts
  <2>3. Top.at \in 1..Len(ListOf(Top)) /\ Wants(ListOf(Top)[Top.at], Top.event)
    BY <1>1, <2>1, <2>2 DEF CallBack, Frame
  <2>4. d \in Call
    BY <2>1, <2>2, <2>3, ElementOfSeq DEF Frame, Call
  <2>5. delivered' = Append(delivered, d) /\ delivered \in Seq(Call)
    BY <1>1 DEF CallBack, BusInv, BusTypeOK
  <2>6. d.sub = ListOf(Top)[Top.at] /\ d.event = Top.event
    OBVIOUS
  <2> HIDE DEF d
  <2>7. \/ i \in 1..Len(delivered) /\ delivered'[i] = delivered[i]
        \/ i = Len(delivered) + 1 /\ delivered'[i] = d
    BY <2>4, <2>5, LenProperties, AppendProperties
  <2> QED BY <2>1, <2>3, <2>6, <2>7
<1>2. CASE UNCHANGED delivered
  BY <1>2
<1>3. CASE PassOver \/ EmitReturns \/ CallbackEnds
  BY <1>2, <1>3 DEF PassOver, EmitReturns, CallbackEnds
<1>4. CASE Use
  BY <1>2, <1>4 DEF Use, Emit, EmitRefused, Subscribe, Unsubscribe, ChangeSinks
<1>5. CASE UNCHANGED bus_vars
  BY <1>2, <1>5 DEF bus_vars
<1> QED BY <1>1, <1>3, <1>4, <1>5 DEF BusNext, Step

-----------------------------------------------------------------------------
(* Theorems *)

\* The bookkeeping of the bus agrees with itself at every step, and so each of
\* the promises its conjuncts make holds: DeliveredAtMostOnce, WithdrawnSeesOnlyInFlight, LogInOrder.
THEOREM BusIsConsistent == BusSpec => []BusInv
<1>1. BusInit => BusInv
  BY InitBusInv
<1>2. BusInv /\ [BusNext]_bus_vars => BusInv'
  BY NextBusInv
<1> QED BY <1>1, <1>2, PTL DEF BusSpec

\* A callback sees an event only when every sink configured at its emission
\* holds it (omega/security_event_bus.py:242, the raise before the dispatch).
THEOREM DispatchIsDurable == BusSpec => []DeliveredIsDurable
<1>1. BusInit => DeliveredIsDurable
  BY DEF BusInit, DeliveredIsDurable
<1>2. BusInv /\ DeliveredIsDurable /\ [BusNext]_bus_vars => DeliveredIsDurable'
  <2> SUFFICES ASSUME BusInv, DeliveredIsDurable, [BusNext]_bus_vars,
                      RequirePersistence, NEW i \in 1..Len(delivered')
               PROVE  LET event == delivered'[i].event
                      IN  /\ event.configured # {}
                          /\ \A k \in event.configured : event \in ToSet(log'[k])
    BY DEF DeliveredIsDurable
  <2>1. \A k \in Sinks : ToSet(log[k]) \subseteq ToSet(log'[k])
    BY LogsGrow
  <2>2. CASE i \in 1..Len(delivered) /\ delivered'[i] = delivered[i]
    <3>1. delivered[i] \in Call
      BY <2>2, ElementOfSeq DEF BusInv, BusTypeOK
    <3>2. delivered[i].event.configured \subseteq Sinks
      BY <3>1 DEF Call, Event
    <3> QED BY <2>1, <2>2, <3>2 DEF DeliveredIsDurable
  <2>3. CASE \E n \in 1..Len(stack) : delivered'[i].event = stack[n].event
    BY <2>1, <2>3, FramesStayDurable
  <2> QED BY <2>2, <2>3, CallsOfNext
<1> QED BY <1>1, <1>2, BusIsConsistent, PTL DEF BusSpec

\* No callback sees an event twice, however dispatches nest.
THEOREM DispatchIsOnce == BusSpec => []DeliveredAtMostOnce
<1>1. BusInv => DeliveredAtMostOnce
  BY DEF BusInv
<1> QED BY <1>1, BusIsConsistent, PTL

\* A removed subscription sees no event emitted after its removal.
THEOREM RemovalHolds == BusSpec => []WithdrawnSeesOnlyInFlight
<1>1. BusInv => WithdrawnSeesOnlyInFlight
  BY DEF BusInv
<1> QED BY <1>1, BusIsConsistent, PTL

\* The sinks hold the events of a bus in the order of their numbers.
THEOREM LogsAreOrdered == BusSpec => []LogInOrder
<1>1. BusInv => LogInOrder
  BY DEF BusInv
<1> QED BY <1>1, BusIsConsistent, PTL

\* An emit() that returns has called everyone who was subscribed when it began
\* and wanted the event.
THEOREM DispatchIsComplete == BusSpec => NobodySkipped
<1>1. ASSUME BusInv, EmitReturns, NEW sub \in Top.audience, Wants(sub, Top.event)
      PROVE  [sub |-> sub, event |-> Top.event] \in ToSet(delivered)
  <2> DEFINE list == ListOf(Top)
  <2>1. Len(stack) \in 1..Len(stack) /\ Top = stack[Len(stack)]
    BY <1>1, LenProperties, EmptySeq DEF BusInv, BusTypeOK, EmitReturns, Dispatching, Top, Last
  <2>2. /\ sub \in ToSet(list) /\ Served(Top, list, delivered)
        /\ list \in Seq(Subs) /\ Top \in Frame
    BY <1>1, <2>1, ListFacts DEF BusInv, AudienceIsListed, LoopsServe
  <2>3. PICK j \in 1..Len(list) : list[j] = sub
    BY <2>2, LenProperties DEF ToSet
  <2>4. Reached(Top, j)
    BY <1>1, <2>2, <2>3, LenProperties DEF Reached, EmitReturns, Frame
  <2> QED BY <1>1, <2>2, <2>3, <2>4 DEF Served
<1>2. BusInv /\ [BusNext]_bus_vars =>
        [EmitReturns => \A sub \in Top.audience : Wants(sub, Top.event) =>
           [sub |-> sub, event |-> Top.event] \in ToSet(delivered)]_bus_vars
  BY <1>1
<1> QED BY <1>2, BusIsConsistent, PTL DEF BusSpec, NobodySkipped

-----------------------------------------------------------------------------
(* The buffer *)

\* The buffer is recent, and holds no number that was not drawn.
BufferInv ==
    /\ BufferIsRecent
    /\ \A i \in 1..Len(buffer) : buffer[i].id <= event_counter

\* Steps that leave the buffer alone and begin no emission.
LEMMA SameEmissions ==
    ASSUME BusInv, BusInv', BufferInv,
           buffer' = buffer, emitted_count' = emitted_count, event_counter <= event_counter',
           \A n \in 1..Len(stack') : \E m \in 1..Len(stack) : stack'[n].event = stack[m].event
    PROVE  BufferInv'
<1>1. BufferIsRecent'
  <2> SUFFICES ASSUME NEW n \in 1..Len(stack')
               PROVE  \/ stack'[n].event \in ToSet(buffer)
                      \/ Len(buffer) = BufferSize /\ stack'[n].event.id < buffer[1].id
    BY DEF BufferInv, BufferIsRecent
  <2>1. PICK m \in 1..Len(stack) : stack'[n].event = stack[m].event
    OBVIOUS
  <2> QED BY <2>1 DEF BufferInv, BufferIsRecent
<1>2. ASSUME NEW i \in 1..Len(buffer) PROVE buffer[i].id <= event_counter'
  <2>1. buffer[i] \in Event
    BY ElementOfSeq DEF BusInv, BusTypeOK
  <2>2. event_counter \in Nat /\ event_counter' \in Nat /\ buffer[i].id <= event_counter
    BY DEF BusInv, BusTypeOK, BufferInv
  <2> QED BY <2>1, <2>2 DEF Event
<1> QED BY <1>1, <1>2 DEF BufferInv

\* How many entries the next event pushes out.
Dropped == IF Len(buffer) = BufferSize THEN 1 ELSE 0

\* One more event goes behind the others, and drops the oldest of a full buffer.
LEMMA TrimmedEntries ==
    ASSUME BusTypeOK, NEW event \in Event
    PROVE  /\ Dropped \in {0, 1} /\ Len(buffer) \in Nat
           /\ Len(Trimmed(Append(buffer, event))) = Len(buffer) + 1 - Dropped
           /\ \A i \in 1..(Len(buffer) + 1 - Dropped) :
                Trimmed(Append(buffer, event))[i] =
                  IF i + Dropped = Len(buffer) + 1 THEN event ELSE buffer[i + Dropped]
<1> DEFINE longer == Append(buffer, event)  n == Len(buffer)
<1>1. /\ longer \in Seq(Event) /\ Len(longer) = n + 1
      /\ n \in Nat /\ n <= BufferSize /\ BufferSize \in Nat \ {0}
      /\ \A i \in 1..n : longer[i] = buffer[i]
      /\ longer[n + 1] = event
  BY AppendProperties, LenProperties, BusAssumption DEF BusTypeOK
<1> HIDE DEF longer, n
<1>2. \A i \in 1..(n + 1) : longer[i] = IF i = n + 1 THEN event ELSE buffer[i]
  <2>1. \A i \in 1..(n + 1) : i = n + 1 \/ i \in 1..n
    BY <1>1
  <2> QED BY <1>1, <2>1
<1>3. CASE n = BufferSize
  <2> DEFINE kept == SubSeq(longer, 2, n + 1)
  <2>1. \A i \in 2..(n + 1) : longer[i] \in Event
    <3>1. \A i \in 2..(n + 1) : i \in 1..Len(longer)
      BY <1>1
    <3> QED BY <1>1, <3>1, ElementOfSeq
  <2>2. /\ Len(kept) = IF 2 <= n + 1 THEN n + 1 - 2 + 1 ELSE 0
        /\ \A i \in 1..(n + 1 - 2 + 1) : kept[i] = longer[2 + i - 1]
    BY <1>1, <2>1, SubSeqProperties
  <2>3. Trimmed(longer) = kept
    <3>1. Len(longer) > BufferSize /\ Len(longer) - BufferSize + 1 = 2 /\ Len(longer) = n + 1
      BY <1>1, <1>3
    <3> QED BY <3>1 DEF Trimmed
  <2> HIDE DEF kept
  <2>4. Len(kept) = n
    BY <1>1, <1>3, <2>2
  <2>5. ASSUME NEW i \in 1..n PROVE kept[i] = IF i + 1 = n + 1 THEN event ELSE buffer[i + 1]
    <3>1. i \in 1..(n + 1 - 2 + 1) /\ 2 + i - 1 = i + 1 /\ i + 1 \in 1..(n + 1)
      BY <1>1
    <3>2. kept[i] = longer[i + 1]
      BY <2>2, <3>1
    <3> QED BY <1>2, <3>1, <3>2
  <2>6. Dropped = 1
    BY <1>3 DEF n, Dropped
  <2>7. n + 1 - Dropped = n
    BY <1>1, <2>6
  <2> QED BY <1>1, <2>3, <2>4, <2>5, <2>6, <2>7 DEF longer, n
<1>4. CASE n # BufferSize
  <2>1. Trimmed(longer) = longer
    <3>1. ~(Len(longer) > BufferSize)
      BY <1>1, <1>4
    <3> QED BY <3>1 DEF Trimmed
  <2>2. Dropped = 0
    BY <1>4 DEF n, Dropped
  <2>3. n + 1 - Dropped = n + 1 /\ \A i \in 1..(n + 1) : i + Dropped = i
    BY <1>1, <2>2
  <2> QED BY <1>1, <1>2, <2>1, <2>2, <2>3 DEF longer, n
<1> QED BY <1>3, <1>4

\* A new emission: its event is in the buffer; one that is pushed out is older
\* than all that stay.
LEMMA EmitBuffer ==
    ASSUME BusInv, BufferInv, NEW event \in Event, event.id = event_counter + 1,
           NEW ok, NEW held, Emit(event, ok, held)
    PROVE  BufferInv'
<1> DEFINE n == Len(buffer)
           frame == [event |-> event, live |-> TRUE, subs |-> <<>>, at |-> 1,
                     calling |-> FALSE, audience |-> ToSet(subscriptions)]
<1>1. /\ buffer' = Trimmed(Append(buffer, event)) /\ emitted_count' = emitted_count + 1
      /\ event_counter' = event_counter + 1 /\ stack' = Append(stack, frame)
  BY DEF Emit, Persist
<1>2. /\ Dropped \in {0, 1} /\ n \in Nat /\ n <= BufferSize /\ BufferSize \in Nat \ {0}
      /\ Len(buffer') = n + 1 - Dropped
      /\ \A i \in 1..(n + 1 - Dropped) :
           buffer'[i] = IF i + Dropped = n + 1 THEN event ELSE buffer[i + Dropped]
  <2>1. BusTypeOK /\ Len(buffer) <= BufferSize /\ BufferSize \in Nat \ {0}
    BY BusAssumption DEF BusInv, BusTypeOK
  <2> QED BY <1>1, <2>1, TrimmedEntries
<1>3. /\ emitted_count \in Nat /\ event_counter \in Nat
      /\ n = IF emitted_count < BufferSize THEN emitted_count ELSE BufferSize
      /\ \A i \in 1..n : buffer[i].id \in Nat /\ buffer[i].id <= event_counter
      /\ \A i, j \in 1..n : i < j => buffer[i].id < buffer[j].id
  <2>1. \A i \in 1..n : buffer[i] \in Event
    BY ElementOfSeq DEF BusInv, BusTypeOK
  <2> QED BY <2>1 DEF BusInv, BusTypeOK, BufferInv, BufferIsRecent, Event
<1>4. frame.event = event
  OBVIOUS
<1>5. Dropped = IF n = BufferSize THEN 1 ELSE 0
  BY DEF Dropped
<1> HIDE DEF frame, n
<1>6. Len(buffer') = IF emitted_count' < BufferSize THEN emitted_count' ELSE BufferSize
  BY <1>1, <1>2, <1>3, <1>5
<1>7. \A i \in 1..Len(buffer') : /\ i + Dropped \in 1..(n + 1)
                                 /\ i + Dropped # n + 1 => i + Dropped \in 1..n
  BY <1>2
<1>8. \A i, j \in 1..Len(buffer') : i < j => buffer'[i].id < buffer'[j].id
  <2> SUFFICES ASSUME NEW i \in 1..Len(buffer'), NEW j \in 1..Len(buffer'), i < j
               PROVE  buffer'[i].id < buffer'[j].id
    OBVIOUS
  <2>1. i + Dropped \in 1..n /\ buffer'[i] = buffer[i + Dropped]
    BY <1>2, <1>7
  <2>2. CASE j + Dropped = n + 1
    BY <1>2, <1>3, <2>1, <2>2
  <2>3. CASE j + Dropped # n + 1
    <3>1. j + Dropped \in 1..n /\ buffer'[j] = buffer[j + Dropped] /\ i + Dropped < j + Dropped
      BY <1>2, <1>7, <2>3
    <3> QED BY <1>3, <2>1, <3>1
  <2> QED BY <2>2, <2>3
<1>9. \A i \in 1..Len(buffer') : buffer'[i].id <= event_counter'
  <2> TAKE i \in 1..Len(buffer')
  <2>1. CASE i + Dropped = n + 1
    BY <1>1, <1>2, <1>3, <2>1
  <2>2. CASE i + Dropped # n + 1
    <3>1. i + Dropped \in 1..n /\ buffer'[i] = buffer[i + Dropped]
      BY <1>2, <1>7, <2>2
    <3> QED BY <1>1, <1>3, <3>1
  <2> QED BY <2>1, <2>2
<1>10. /\ DOMAIN buffer = 1..n /\ DOMAIN buffer' = 1..Len(buffer')
       /\ event \in ToSet(buffer')
  <2>1. DOMAIN buffer = 1..n /\ DOMAIN buffer' = 1..Len(buffer')
    BY <1>1, TrimmedKeeps, LenProperties DEF BusInv, BusTypeOK, n
  <2>2. n + 1 - Dropped \in 1..Len(buffer') /\ (n + 1 - Dropped) + Dropped = n + 1
    BY <1>2, <1>5
  <2>3. buffer'[n + 1 - Dropped] = event
    BY <1>2, <2>2
  <2> QED BY <2>1, <2>2, <2>3 DEF ToSet
<1>11. ASSUME NEW m \in 1..Len(stack)
       PROVE  \/ stack[m].event \in ToSet(buffer')
              \/ Len(buffer') = BufferSize /\ stack[m].event.id < buffer'[1].id
  <2>1. stack[m].event.id \in Nat
    BY ListFacts DEF Frame, Event
  <2>2. CASE Len(buffer) = BufferSize /\ stack[m].event.id < buffer[1].id
    <3>1. Dropped = 1 /\ n = BufferSize /\ Len(buffer') = n /\ 1 \in 1..Len(buffer') /\ 1 \in 1..n
      BY <1>2, <1>5, <2>2 DEF n
    <3>2. buffer[1].id < buffer'[1].id /\ buffer[1].id \in Nat /\ buffer'[1].id \in Nat
      <4>1. CASE n = 1
        <5>1. buffer'[1] = event
          BY <1>2, <3>1, <4>1
        <5> QED BY <1>3, <3>1, <5>1
      <4>2. CASE n # 1
        <5>1. buffer'[1] = buffer[2] /\ 2 \in 1..n
          BY <1>2, <3>1, <4>2
        <5> QED BY <1>3, <3>1, <5>1
      <4> QED BY <4>1, <4>2
    <3> QED BY <2>1, <2>2, <3>1, <3>2
  <2>3. CASE stack[m].event \in ToSet(buffer)
    <3>1. PICK k \in 1..n : stack[m].event = buffer[k]
      BY <1>10, <2>3 DEF ToSet
    <3>2. CASE k - Dropped \in 1..Len(buffer')
      <4>1. (k - Dropped) + Dropped = k /\ k # n + 1
        BY <1>2
      <4>2. buffer'[k - Dropped] = buffer[k]
        BY <1>2, <3>2, <4>1
      <4> QED BY <1>10, <3>1, <3>2, <4>2 DEF ToSet
    <3>3. CASE k - Dropped \notin 1..Len(buffer')
      <4>1. k = 1 /\ Dropped = 1 /\ n = BufferSize /\ Len(buffer') = n /\ 1 \in 1..Len(buffer')
        BY <1>2, <1>5, <3>3
      <4>2. buffer[1].id < buffer'[1].id
        <5>1. CASE n = 1
          <6>1. buffer'[1] = event
            BY <1>2, <4>1, <5>1
          <6> QED BY <1>3, <4>1, <6>1
        <5>2. CASE n # 1
          <6>1. buffer'[1] = buffer[2] /\ 2 \in 1..n
            BY <1>2, <4>1, <5>2
          <6> QED BY <1>3, <4>1, <6>1
        <5> QED BY <5>1, <5>2
      <4> QED BY <3>1, <4>1, <4>2
    <3> QED BY <3>2, <3>3
  <2> QED BY <2>2, <2>3 DEF BufferInv, BufferIsRecent
<1>12. /\ stack \in Seq(Frame) /\ Len(stack) \in Nat
  BY LenProperties DEF BusInv, BusTypeOK
<1>13. /\ Len(stack') = Len(stack) + 1
       /\ \A i \in 1..Len(stack) : stack'[i] = stack[i]
       /\ stack'[Len(stack) + 1] = frame
  <2>1. frame \in Frame
    <3>1. ToSet(subscriptions) \subseteq Subs /\ <<>> \in Seq(Subs)
      BY LenProperties, ElementOfSeq, EmptySeq DEF BusInv, BusTypeOK, ToSet
    <3> QED BY <3>1 DEF Frame, frame
  <2> QED BY <1>1, <1>12, <2>1, AppendProperties
<1>14. \A i \in 1..Len(stack') :
         \/ stack'[i].event \in ToSet(buffer')
         \/ Len(buffer') = BufferSize /\ stack'[i].event.id < buffer'[1].id
  <2> TAKE i \in 1..Len(stack')
  <2>1. CASE i \in 1..Len(stack)
    BY <1>11, <1>13, <2>1
  <2>2. CASE i = Len(stack) + 1
    BY <1>4, <1>10, <1>13, <2>2
  <2> QED BY <1>12, <1>13, <2>1, <2>2
<1> QED BY <1>6, <1>8, <1>9, <1>14 DEF BufferInv, BufferIsRecent

\* Every other step leaves the buffer and the events in dispatch as they are.
LEMMA OtherBuffer ==
    ASSUME BusInv, BusInv', BufferInv,
           \/ Step
           \/ \E event \in Event, ok, held \in SUBSET sinks : EmitRefused(event, ok, held)
           \/ \E sub \in Subs : Subscribe(sub) \/ Unsubscribe(sub)
           \/ \E k \in Sinks : ChangeSinks(k)
           \/ UNCHANGED bus_vars
    PROVE  BufferInv'
<1> DEFINE Kept == \A n \in 1..Len(stack') : \E m \in 1..Len(stack) :
                     stack'[n].event = stack[m].event
<1>1. /\ stack \in Seq(Frame) /\ stack' \in Seq(Frame)
      /\ Len(stack) \in Nat /\ Len(stack') \in Nat /\ event_counter \in Nat
      /\ DOMAIN stack = 1..Len(stack)
  BY LenProperties DEF BusInv, BusTypeOK
<1>2. ASSUME stack' = stack PROVE Kept
  BY <1>2
<1>3. ASSUME NEW frame \in Frame, Len(stack) \in 1..Len(stack),
             frame.event = stack[Len(stack)].event,
             stack' = [stack EXCEPT ![Len(stack)] = frame]
      PROVE  Kept
  <2>1. Len(stack') = Len(stack)
        /\ \A n \in 1..Len(stack) : stack'[n] = IF n = Len(stack) THEN frame ELSE stack[n]
    BY <1>1, <1>3, ExceptSeq
  <2> QED BY <1>3, <2>1
<1>4. ASSUME stack # <<>>
      PROVE  Len(stack) \in 1..Len(stack) /\ stack[Len(stack)] \in Frame
  <2>1. Len(stack) \in Nat /\ Len(stack) # 0
    BY <1>1, <1>4, EmptySeq
  <2>2. Len(stack) \in 1..Len(stack)
    BY <2>1
  <2> QED BY <1>1, <2>2, ElementOfSeq
<1>5. CASE CallBack
  <2>1. stack # <<>> /\ stack' = [stack EXCEPT ![Len(stack)] =
                                     [stack[Len(stack)] EXCEPT !.calling = TRUE]]
    BY <1>5 DEF CallBack, Dispatching
  <2>2. [stack[Len(stack)] EXCEPT !.calling = TRUE] \in Frame
    BY <1>4, <2>1 DEF Frame
  <2>3. Kept
    BY <1>3, <1>4, <2>1, <2>2
  <2> QED BY <1>1, <1>5, <2>3, SameEmissions DEF CallBack, counters
<1>6. CASE PassOver
  <2> DEFINE frame == [stack[Len(stack)] EXCEPT !.at = @ + 1]
  <2>1. stack # <<>> /\ stack' = [stack EXCEPT ![Len(stack)] = frame]
    BY <1>6 DEF PassOver, Dispatching
  <2>2. stack[Len(stack)] \in Frame /\ stack[Len(stack)].at + 1 \in Nat \ {0}
    BY <1>4, <2>1 DEF Frame
  <2>3. frame \in Frame /\ frame.event = stack[Len(stack)].event
    BY <2>2 DEF Frame
  <2>4. Kept
    BY <1>3, <1>4, <2>1, <2>3
  <2> QED BY <1>1, <1>6, <2>4, SameEmissions DEF PassOver, counters
<1>7. CASE CallbackEnds
  <2> DEFINE frame == [stack[Len(stack)] EXCEPT !.calling = FALSE, !.at = @ + 1]
  <2>1. stack # <<>> /\ stack' = [stack EXCEPT ![Len(stack)] = frame]
    BY <1>7 DEF CallbackEnds
  <2>2. stack[Len(stack)] \in Frame /\ stack[Len(stack)].at + 1 \in Nat \ {0}
    BY <1>4, <2>1 DEF Frame
  <2>3. frame \in Frame /\ frame.event = stack[Len(stack)].event
    BY <2>2 DEF Frame
  <2>4. Kept
    BY <1>3, <1>4, <2>1, <2>3
  <2> QED BY <1>1, <1>7, <2>4, SameEmissions DEF CallbackEnds, counters
<1>8. CASE EmitReturns
  <2>1. stack # <<>> /\ stack' = Front(stack)
    BY <1>8 DEF EmitReturns, Dispatching
  <2> DEFINE front == SubSeq(stack, 1, Len(stack) - 1)
  <2>2. Len(stack) \in 1..Len(stack)
    BY <1>4, <2>1
  <2>3. \A n \in 1..(Len(stack) - 1) : n \in 1..Len(stack) /\ stack[n] \in Frame
    <3>1. \A n \in 1..(Len(stack) - 1) : n \in 1..Len(stack)
      BY <1>1
    <3> QED BY <1>1, <3>1, ElementOfSeq
  <2>4. /\ Len(front) = IF 1 <= Len(stack) - 1 THEN Len(stack) - 1 - 1 + 1 ELSE 0
        /\ \A n \in 1..(Len(stack) - 1 - 1 + 1) : front[n] = stack[1 + n - 1]
    <3>1. 1 \in Int /\ Len(stack) - 1 \in Int
      BY <1>1
    <3> QED BY <2>3, <3>1, SubSeqProperties
  <2>5. stack' = front
    BY <2>1 DEF Front
  <2> HIDE DEF front
  <2>6. Len(front) = Len(stack) - 1
    <3>1. Len(stack) \in Nat /\ Len(stack) # 0
      BY <1>1, <2>2
    <3>2. CASE 1 <= Len(stack) - 1
      <4>1. Len(front) = Len(stack) - 1 - 1 + 1
        BY <2>4, <3>2
      <4> QED BY <3>1, <4>1
    <3>3. CASE Len(stack) = 1
      <4>1. Len(front) = 0
        BY <2>4, <3>3
      <4> QED BY <3>3, <4>1
    <3>4. 1 <= Len(stack) - 1 \/ Len(stack) = 1
      <4>1. \A l \in Nat : l # 0 => 1 <= l - 1 \/ l = 1
        OBVIOUS
      <4> QED BY <3>1, <4>1
    <3> QED BY <3>2, <3>3, <3>4
  <2>7. \A n \in 1..Len(front) : n \in 1..Len(stack) /\ front[n] = stack[n]
    <3> TAKE n \in 1..Len(front)
    <3>1. n \in 1..(Len(stack) - 1 - 1 + 1) /\ 1 + n - 1 = n /\ n \in 1..Len(stack)
      BY <1>1, <2>6
    <3> QED BY <2>4, <3>1
  <2>8. Kept
    BY <2>5, <2>7
  <2> QED BY <1>1, <1>8, <2>8, SameEmissions DEF EmitReturns, counters
<1>9. ASSUME NEW event \in Event, NEW ok, NEW held, EmitRefused(event, ok, held)
      PROVE  BufferInv'
  <2>1. /\ stack' = stack /\ buffer' = buffer /\ emitted_count' = emitted_count
        /\ event_counter' = event_counter + 1
    BY <1>9 DEF EmitRefused, Persist
  <2>2. Kept /\ event_counter <= event_counter'
    BY <1>1, <1>2, <2>1
  <2> QED BY <2>1, <2>2, SameEmissions
<1>10. ASSUME NEW sub \in Subs, Subscribe(sub) PROVE BufferInv'
  BY <1>1, <1>2, <1>10, SameEmissions DEF Subscribe, counters
<1>11. ASSUME NEW sub \in Subs, Unsubscribe(sub) PROVE BufferInv'
  <2>1. stack' = Detached(stack)
    BY <1>11 DEF Unsubscribe
  <2>2. DOMAIN stack' = 1..Len(stack)
    BY <1>1, <2>1 DEF Detached
  <2>3. Len(stack') = Len(stack)
    <3>1. 1..Len(stack') = 1..Len(stack)
      BY <1>1, <2>2, LenProperties
    <3> QED BY <1>1, <3>1
  <2>4. \A n \in 1..Len(stack) : stack[n] \in Frame
    BY <1>1, ElementOfSeq
  <2>5. \A n \in 1..Len(stack) : stack'[n].event = stack[n].event
    BY <1>1, <2>1, <2>4 DEF Detached, Frame
  <2>6. Kept
    BY <2>3, <2>5
  <2> QED BY <1>1, <1>11, <2>6, SameEmissions DEF Unsubscribe, counters
<1>12. ASSUME NEW k \in Sinks, ChangeSinks(k) PROVE BufferInv'
  BY <1>1, <1>2, <1>12, SameEmissions DEF ChangeSinks, counters
<1>13. CASE UNCHANGED bus_vars
  BY <1>1, <1>2, <1>13, SameEmissions DEF bus_vars, counters
<1> QED BY <1>5, <1>6, <1>7, <1>8, <1>9, <1>10, <1>11, <1>12, <1>13 DEF Step

\* The buffer holds the most recent accepted events, oldest first, and whatever is
\* in dispatch is there or older than all of it.
THEOREM BufferStaysRecent == BusSpec => []BufferIsRecent
<1>1. BusInit => BufferInv
  <2>1. Len(<<>>) = 0 /\ BufferSize \in Nat \ {0}
    BY EmptySeq, BusAssumption
  <2> QED BY <2>1 DEF BusInit, FreshBus, BufferInv, BufferIsRecent
<1>2. BusInv /\ BusInv' /\ BufferInv /\ [BusNext]_bus_vars => BufferInv'
  <2> SUFFICES ASSUME BusInv, BusInv', BufferInv, [BusNext]_bus_vars PROVE BufferInv'
    OBVIOUS
  <2>1. ASSUME NEW severity \in Severities, NEW category \in Categories, NEW source \in Sources,
               NEW ok \in SUBSET sinks, NEW held \in SUBSET sinks,
               \/ Emit(NewEvent(severity, category, source), ok, held)
               \/ EmitRefused(NewEvent(severity, category, source), ok, held)
        PROVE  BufferInv'
    <3> DEFINE event == NewEvent(severity, category, source)
    <3>1. event \in Event /\ event.id = event_counter + 1
      BY DEF NewEvent, Event, BusInv, BusTypeOK
    <3> HIDE DEF event
    <3>2. Emit(event, ok, held) \/ EmitRefused(event, ok, held)
      BY <2>1 DEF event
    <3> QED BY <3>1, <3>2, EmitBuffer, OtherBuffer
  <2> QED BY <2>1, OtherBuffer DEF BusNext, Use
<1>3. BufferInv => BufferIsRecent
  BY DEF BufferInv
<1> QED BY <1>1, <1>2, <1>3, BusIsConsistent, PTL DEF BusSpec

-----------------------------------------------------------------------------
(* The runtime: what is true of one bus is carried over the death of the     *)
(* process and the start of the next.  While a bus is up every step of the   *)
(* runtime is a step of the bus, so that NextBusInv does most of the work    *)

LEMMA InitRuntimeInv == RuntimeInit => RuntimeInv
<1> SUFFICES ASSUME RuntimeInit PROVE RuntimeInv
  OBVIOUS
<1> USE DEF RuntimeInit, FreshBus
<1>1. <<>> \in Seq(Subs) /\ <<>> \in Seq(Event) /\ <<>> \in Seq(Frame)
      /\ <<>> \in Seq(Call) /\ Len(<<>>) = 0
  BY EmptySeq
<1>2. BusTypeOK
  BY <1>1, BusAssumption DEF BusTypeOK, NotWithdrawn
<1>3. LogInOrder /\ DeliveredAtMostOnce
  BY DEF LogInOrder, DeliveredAtMostOnce
<1>4. EventsOfStartedBuses /\ UpAndPersisting /\ AlertsAreInTheTable
  BY DEF EventsOfStartedBuses, UpAndPersisting, AlertsAreInTheTable
<1> QED BY <1>2, <1>3, <1>4 DEF RuntimeInv

\* A new bus starts with nothing in dispatch, and no event has its number.
LEMMA StartRuntimeInv == ASSUME RuntimeInv, Start PROVE RuntimeInv'
<1> USE DEF Start, StartArguments, ResetBus, FirstSubscriptions
<1>1. /\ <<>> \in Seq(Subs) /\ <<>> \in Seq(Event) /\ <<P0>> \in Seq(Subs)
      /\ Len(<<>>) = 0 /\ Len(<<P0>>) = 1 /\ <<P0>>[1] = P0
  OBVIOUS
<1>2. bus \in Nat /\ bus < bus + 1
  BY DEF RuntimeInv, BusTypeOK
<1>3. BusTypeOK'
  BY <1>1, <1>2, BusAssumption DEF RuntimeInv, BusTypeOK, NotWithdrawn
<1>4. LogInOrder' /\ DeliveredAtMostOnce'
  BY DEF RuntimeInv, LogInOrder, DeliveredAtMostOnce
<1>5. /\ \A k \in Sinks : \A i \in 1..Len(log[k]) :
           log[k][i].bus <= bus + 1 /\ log[k][i].bus # bus + 1
      /\ \A i \in 1..Len(delivered) :
           delivered[i].event.bus <= bus + 1 /\ delivered[i].event.bus # bus + 1
  <2>1. ASSUME NEW k \in Sinks, NEW i \in 1..Len(log[k])
        PROVE  log[k][i].bus <= bus + 1 /\ log[k][i].bus # bus + 1
    <3>1. log[k][i] \in Event
      BY ElementOfSeq DEF RuntimeInv, BusTypeOK
    <3>2. log[k][i].bus \in Nat /\ log[k][i].bus <= bus
      BY <3>1 DEF Event, RuntimeInv, EventsOfStartedBuses
    <3> QED BY <1>2, <3>2
  <2>2. ASSUME NEW i \in 1..Len(delivered)
        PROVE  delivered[i].event.bus <= bus + 1 /\ delivered[i].event.bus # bus + 1
    <3>1. delivered[i] \in Call
      BY ElementOfSeq DEF RuntimeInv, BusTypeOK
    <3>2. delivered[i].event.bus \in Nat /\ delivered[i].event.bus <= bus
      BY <3>1 DEF Call, Event, RuntimeInv, EventsOfStartedBuses
    <3> QED BY <1>2, <3>2
  <2> QED BY <2>1, <2>2
<1>6. EventsOfStartedBuses'
  BY <1>5 DEF EventsOfStartedBuses
<1>7. stack' = <<>> /\ Len(stack') = 0
  BY <1>1
<1>8. BusInv'
  <2>1. EveryNumberAccounted'
    BY DEF EveryNumberAccounted
  <2>2. NumberedSoFar'
    BY <1>5, <1>7 DEF NumberedSoFar
  <2>3. FramesNest' /\ FramesAreDurable' /\ LoopsServe' /\ AudienceIsListed'
    BY <1>7 DEF FramesNest, FramesAreDurable, LoopsServe, AudienceIsListed
  <2>4. WithdrawnSeesOnlyInFlight'
    <3> SUFFICES ASSUME NEW i \in 1..Len(delivered)
                 PROVE  withdrawn'[delivered[i].sub] = NotWithdrawn
      BY DEF WithdrawnSeesOnlyInFlight
    <3>1. delivered[i] \in Call
      BY ElementOfSeq DEF RuntimeInv, BusTypeOK
    <3> QED BY <3>1 DEF Call
  <2>5. ListsAreClean'
    <3>1. NoRepeats(<<P0>>)
      BY <1>1 DEF NoRepeats
    <3>2. \A i \in 1..Len(<<P0>>) : withdrawn'[<<P0>>[i]] = NotWithdrawn
      BY <1>1
    <3>3. \A s \in Subs : withdrawn'[s] <= event_counter'
      BY DEF NotWithdrawn
    <3> QED BY <1>7, <3>1, <3>2, <3>3 DEF ListsAreClean
  <2> QED BY <1>3, <1>4, <2>1, <2>2, <2>3, <2>4, <2>5 DEF BusInv
<1>9. UpAndPersisting'
  BY <1>7, <1>8 DEF UpAndPersisting
<1>10. AlertsAreInTheTable'
  BY DEF RuntimeInv, AlertsAreInTheTable
<1> QED BY <1>3, <1>4, <1>6, <1>9, <1>10 DEF RuntimeInv

\* The process dies: of what the sinks held only the table is left, and that is
\* all the alerts need.
LEMMA CrashRuntimeInv == ASSUME RuntimeInv, Crash PROVE RuntimeInv'
<1> USE DEF Crash, ResetBus
<1>1. /\ <<>> \in Seq(Subs) /\ <<>> \in Seq(Event) /\ <<>> \in Seq(Frame)
      /\ Len(<<>>) = 0
  BY EmptySeq
<1>2. log \in [Sinks -> Seq(Event)] /\ Supabase \in Sinks
  BY DEF RuntimeInv, UpAndPersisting, StartArguments, BusTypeOK
<1>3. /\ log' \in [Sinks -> Seq(Event)]
      /\ log'[Supabase] = log[Supabase]
      /\ \A k \in Sinks : log'[k] = log[k] \/ log'[k] = <<>>
  BY <1>1, <1>2
<1>4. BusTypeOK'
  BY <1>1, <1>3, BusAssumption DEF RuntimeInv, BusTypeOK, NotWithdrawn
<1>5. LogInOrder'
  <2> SUFFICES ASSUME NEW k \in Sinks, NEW i \in 1..Len(log'[k]), NEW j \in 1..Len(log'[k]),
                      i < j, log'[k][i].bus = log'[k][j].bus
               PROVE  log'[k][i].id < log'[k][j].id
    BY DEF LogInOrder
  <2>1. log'[k] = log[k]
    BY <1>1, <1>3
  <2> QED BY <2>1 DEF RuntimeInv, LogInOrder
<1>6. DeliveredAtMostOnce'
  BY DEF RuntimeInv, DeliveredAtMostOnce
<1>7. EventsOfStartedBuses'
  <2>1. ASSUME NEW k \in Sinks, NEW i \in 1..Len(log'[k]) PROVE log'[k][i].bus <= bus
    <3>1. log'[k] = log[k]
      BY <1>1, <1>3
    <3> QED BY <3>1 DEF RuntimeInv, EventsOfStartedBuses
  <2> QED BY <2>1 DEF RuntimeInv, EventsOfStartedBuses
<1>8. UpAndPersisting' /\ AlertsAreInTheTable'
  BY <1>3 DEF UpAndPersisting, RuntimeInv, AlertsAreInTheTable
<1> QED BY <1>4, <1>5, <1>6, <1>7, <1>8 DEF RuntimeInv

\* What users of the runtime's bus do is what users of any bus do.
LEMMA RuntimeUseIsUse == RuntimeUse => Use
  BY DEF RuntimeUse, Use

\* A new number is of the bus that draws it.
LEMMA NewEventsAreOfThisBus ==
    ASSUME BusInv, EventsOfStartedBuses, [BusNext]_bus_vars
    PROVE  EventsOfStartedBuses' /\ bus' = bus
<1>1. bus' = bus
  BY DEF BusNext, Step, CallBack, PassOver, EmitReturns, CallbackEnds, Use, Emit, EmitRefused,
         Subscribe, Unsubscribe, ChangeSinks, bus_vars
<1>2. log \in [Sinks -> Seq(Event)] /\ bus \in Nat
  BY DEF BusInv, BusTypeOK
<1>3. ASSUME NEW k \in Sinks, NEW i \in 1..Len(log'[k]) PROVE log'[k][i].bus <= bus
  <2>1. ASSUME NEW event \in Event, event.bus = bus, NEW held, log' = Stored(event, held)
        PROVE  log'[k][i].bus <= bus
    <3>1. log[k] \in Seq(Event) /\ Len(log[k]) \in Nat
      BY <1>2, LenProperties
    <3>2. log'[k] = IF k \in held THEN Append(log[k], event) ELSE log[k]
      BY <2>1 DEF Stored
    <3>3. /\ Len(Append(log[k], event)) = Len(log[k]) + 1
          /\ \A j \in 1..Len(log[k]) : Append(log[k], event)[j] = log[k][j]
          /\ Append(log[k], event)[Len(log[k]) + 1] = event
      BY <2>1, <3>1, AppendProperties
    <3>4. \/ i \in 1..Len(log[k]) /\ log'[k][i] = log[k][i]
          \/ log'[k][i] = event
      BY <3>1, <3>2, <3>3
    <3> QED BY <1>2, <2>1, <3>4 DEF EventsOfStartedBuses
  <2>2. ASSUME NEW severity \in Severities, NEW category \in Categories,
               NEW source \in Sources, NEW ok, NEW held,
               \/ Emit(NewEvent(severity, category, source), ok, held)
               \/ EmitRefused(NewEvent(severity, category, source), ok, held)
        PROVE  log'[k][i].bus <= bus
    <3> DEFINE event == NewEvent(severity, category, source)
    <3>1. event \in Event /\ event.bus = bus
      BY DEF NewEvent, Event, BusInv, BusTypeOK
    <3> HIDE DEF event
    <3>2. log' = Stored(event, held)
      BY <2>2 DEF event, Emit, EmitRefused, Persist
    <3> QED BY <2>1, <3>1, <3>2
  <2>3. CASE UNCHANGED log
    BY <2>3 DEF EventsOfStartedBuses
  <2>4. CASE Step \/ UNCHANGED bus_vars
    BY <2>3, <2>4 DEF Step, CallBack, PassOver, EmitReturns, CallbackEnds, bus_vars
  <2>5. ASSUME NEW sub, Subscribe(sub) \/ Unsubscribe(sub) PROVE UNCHANGED log
    BY <2>5 DEF Subscribe, Unsubscribe
  <2>6. ASSUME NEW s, ChangeSinks(s) PROVE UNCHANGED log
    BY <2>6 DEF ChangeSinks
  <2> QED BY <2>2, <2>3, <2>4, <2>5, <2>6 DEF BusNext, Use
<1>4. ASSUME NEW i \in 1..Len(delivered') PROVE delivered'[i].event.bus <= bus
  <2>1. CASE i \in 1..Len(delivered) /\ delivered'[i] = delivered[i]
    BY <2>1 DEF EventsOfStartedBuses
  <2>2. CASE \E n \in 1..Len(stack) : delivered'[i].event = stack[n].event
    BY <1>2, <2>2 DEF BusInv, NumberedSoFar
  <2> QED BY <2>1, <2>2, CallsOfNext
<1> QED BY <1>1, <1>3, <1>4 DEF EventsOfStartedBuses

\* The table stays a sink of the bus, and each event emitted has it on record.
LEMMA TableStaysConfigured ==
    ASSUME BusInv, Supabase \in sinks,
           \A n \in 1..Len(stack) : Supabase \in stack[n].event.configured,
           Step \/ RuntimeUse \/ UNCHANGED bus_vars
    PROVE  /\ Supabase \in sinks'
           /\ \A n \in 1..Len(stack') : Supabase \in stack'[n].event.configured
<1>1. stack \in Seq(Frame) /\ Len(stack) \in Nat
  BY LenProperties DEF BusInv, BusTypeOK
<1>2. CASE UNCHANGED <<sinks, stack>>
  BY <1>2
<1>3. ASSUME NEW severity \in Severities, NEW category \in Categories, NEW source \in Sources,
             NEW ok, NEW held, Emit(NewEvent(severity, category, source), ok, held)
      PROVE  /\ Supabase \in sinks'
             /\ \A n \in 1..Len(stack') : Supabase \in stack'[n].event.configured
  <2> DEFINE event == NewEvent(severity, category, source)
             frame == [event |-> event, live |-> TRUE, subs |-> <<>>, at |-> 1,
                       calling |-> FALSE, audience |-> ToSet(subscriptions)]
  <2>1. event.configured = sinks /\ frame.event = event
    BY DEF NewEvent
  <2>2. stack' = Append(stack, frame) /\ sinks' = sinks
    BY <1>3 DEF Emit
  <2> HIDE DEF frame
  <2>3. \A n \in 1..Len(stack') : \/ n \in 1..Len(stack) /\ stack'[n] = stack[n]
                                  \/ stack'[n] = frame
    BY <1>1, <2>2
  <2> QED BY <2>1, <2>2, <2>3
<1>4. ASSUME NEW event, NEW ok, NEW held, EmitRefused(event, ok, held)
      PROVE  UNCHANGED <<sinks, stack>>
  BY <1>4 DEF EmitRefused
<1>5. ASSUME Len(stack') \in 0..Len(stack), UNCHANGED sinks,
             \A n \in 1..Len(stack') : stack'[n].event = stack[n].event
      PROVE  /\ Supabase \in sinks'
             /\ \A n \in 1..Len(stack') : Supabase \in stack'[n].event.configured
  BY <1>1, <1>5
<1>6. CASE CallBack \/ PassOver \/ CallbackEnds
  <2>1. \A n \in 1..Len(stack) : stack[n] \in Frame
    BY <1>1, ElementOfSeq
  <2>2. Len(stack) \in 1..Len(stack) /\ UNCHANGED sinks
    BY <1>1, <1>6, EmptySeq, LenProperties
       DEF CallBack, PassOver, CallbackEnds, Dispatching
  <2>3. /\ Len(stack') = Len(stack)
        /\ \A n \in 1..Len(stack') : stack'[n].event = stack[n].event
    <3>1. ASSUME NEW frame, frame.event = stack[Len(stack)].event,
                 stack' = [stack EXCEPT ![Len(stack)] = frame]
          PROVE  /\ Len(stack') = Len(stack)
                 /\ \A n \in 1..Len(stack') : stack'[n].event = stack[n].event
      BY <1>1, <2>2, <3>1
    <3>2. CASE CallBack
      <4> DEFINE frame == [stack[Len(stack)] EXCEPT !.calling = TRUE]
      <4>1. frame.event = stack[Len(stack)].event
        BY <2>1, <2>2 DEF Frame
      <4>2. stack' = [stack EXCEPT ![Len(stack)] = frame]
        BY <3>2 DEF CallBack
      <4> QED BY <3>1, <4>1, <4>2
    <3>3. CASE PassOver
      <4> DEFINE frame == [stack[Len(stack)] EXCEPT !.at = @ + 1]
      <4>1. frame.event = stack[Len(stack)].event
        BY <2>1, <2>2 DEF Frame
      <4>2. stack' = [stack EXCEPT ![Len(stack)] = frame]
        BY <3>3 DEF PassOver
      <4> QED BY <3>1, <4>1, <4>2
    <3>4. CASE CallbackEnds
      <4> DEFINE frame == [stack[Len(stack)] EXCEPT !.calling = FALSE, !.at = @ + 1]
      <4>1. frame.event = stack[Len(stack)].event
        BY <2>1, <2>2 DEF Frame
      <4>2. stack' = [stack EXCEPT ![Len(stack)] = frame]
        BY <3>4 DEF CallbackEnds
      <4> QED BY <3>1, <4>1, <4>2
    <3> QED BY <1>6, <3>2, <3>3, <3>4
  <2> QED BY <1>1, <1>5, <2>2, <2>3
<1>7. CASE EmitReturns
  <2>1. Len(stack) \in Nat \ {0} /\ UNCHANGED sinks
    BY <1>1, <1>7, EmptySeq DEF EmitReturns, Dispatching
  <2>2. stack' = SubSeq(stack, 1, Len(stack) - 1)
    BY <1>7 DEF EmitReturns, Front
  <2>3. \A n \in 1..(Len(stack) - 1) : stack[n] \in Frame
    BY <1>1, <2>1, ElementOfSeq
  <2> DEFINE front == SubSeq(stack, 1, Len(stack) - 1)
  <2>4. /\ Len(front) = IF 1 <= Len(stack) - 1 THEN Len(stack) - 1 - 1 + 1 ELSE 0
        /\ \A n \in 1..(Len(stack) - 1 - 1 + 1) : front[n] = stack[1 + n - 1]
    BY <1>1, <2>1, <2>3, SubSeqProperties
  <2>5. stack' = front
    BY <2>2
  <2> HIDE DEF front
  <2>6. Len(stack') \in 0..Len(stack) /\ Len(stack') = Len(stack) - 1
    BY <2>1, <2>4, <2>5
  <2>7. ASSUME NEW n \in 1..Len(stack') PROVE stack'[n] = stack[n]
    <3>1. n \in 1..(Len(stack) - 1 - 1 + 1) /\ 1 + n - 1 = n
      BY <2>1, <2>6
    <3>2. front[n] = stack[1 + n - 1]
      BY <2>4, <3>1
    <3> QED BY <2>5, <3>1, <3>2
  <2> QED BY <1>5, <2>1, <2>6, <2>7
<1>8. ASSUME NEW sub, Unsubscribe(sub)
      PROVE  /\ Supabase \in sinks'
             /\ \A n \in 1..Len(stack') : Supabase \in stack'[n].event.configured
  <2>1. \A n \in 1..Len(stack) : stack[n] \in Frame
    BY <1>1, ElementOfSeq
  <2>2. stack' = Detached(stack) /\ UNCHANGED sinks
    BY <1>8 DEF Unsubscribe
  <2>3. DOMAIN stack = 1..Len(stack)
    BY <1>1, LenProperties
  <2> DEFINE Kept(n) == IF stack[n].live
                        THEN [stack[n] EXCEPT !.live = FALSE, !.subs = subscriptions]
                        ELSE stack[n]
  <2>4. stack' = [n \in 1..Len(stack) |-> Kept(n)]
    BY <2>2, <2>3 DEF Detached
  <2>5. \A n \in 1..Len(stack) : Kept(n).event = stack[n].event
    BY <2>1 DEF Frame
  <2> HIDE DEF Kept
  <2>6. Len(stack') = Len(stack)
    BY <1>1, <2>4
  <2>7. \A n \in 1..Len(stack') : stack'[n].event = stack[n].event
    BY <2>4, <2>5, <2>6
  <2> QED BY <1>1, <1>5, <2>2, <2>6, <2>7
<1>9. ASSUME NEW sub, Subscribe(sub) PROVE UNCHANGED <<sinks, stack>>
  BY <1>9 DEF Subscribe
<1>10. ASSUME NEW k \in Sinks \ {Supabase}, ChangeSinks(k)
       PROVE  Supabase \in sinks' /\ UNCHANGED stack
  BY <1>10 DEF ChangeSinks
<1>11. CASE UNCHANGED bus_vars
  BY <1>2, <1>11 DEF bus_vars
<1>12. CASE Step
  BY <1>6, <1>7, <1>12 DEF Step
<1>13. CASE RuntimeUse
  BY <1>2, <1>3, <1>4, <1>8, <1>9, <1>10, <1>13 DEF RuntimeUse
<1> QED BY <1>11, <1>12, <1>13

\* A step of the bus that is up: what it calls P0 for is critical, by the filter
\* start() gave it, and in the table, which was configured for it.
LEMMA UpRuntimeInv ==
    ASSUME RuntimeInv, started, UNCHANGED started, Step \/ RuntimeUse \/ UNCHANGED bus_vars
    PROVE  RuntimeInv'
<1>1. /\ StartArguments /\ BusInv /\ Supabase \in sinks
      /\ \A n \in 1..Len(stack) : Supabase \in stack[n].event.configured
  BY DEF RuntimeInv, UpAndPersisting
<1>2. [BusNext]_bus_vars
  BY RuntimeUseIsUse DEF BusNext
<1>3. BusInv'
  BY <1>1, <1>2, NextBusInv
<1>4. EventsOfStartedBuses'
  BY <1>1, <1>2, NewEventsAreOfThisBus DEF RuntimeInv
<1>5. UpAndPersisting'
  BY <1>1, <1>3, TableStaysConfigured DEF UpAndPersisting
<1>6. AlertsAreInTheTable'
  <2> SUFFICES ASSUME NEW i \in 1..Len(delivered'), delivered'[i].sub = P0
               PROVE  /\ delivered'[i].event.severity >= CRITICAL
                      /\ delivered'[i].event \in ToSet(log'[Supabase])
    BY DEF AlertsAreInTheTable
  <2>1. ToSet(log[Supabase]) \subseteq ToSet(log'[Supabase])
    BY <1>1, <1>2, LogsGrow DEF StartArguments
  <2>2. CASE i \in 1..Len(delivered) /\ delivered'[i] = delivered[i]
    BY <2>1, <2>2 DEF RuntimeInv, AlertsAreInTheTable
  <2>3. ASSUME NEW n \in 1..Len(stack), delivered'[i].event = stack[n].event,
               Wants(P0, stack[n].event)
        PROVE  /\ delivered'[i].event.severity >= CRITICAL
               /\ delivered'[i].event \in ToSet(log'[Supabase])
    <3>1. stack[n].event \in ToSet(log[Supabase])
      BY <1>1 DEF StartArguments, BusInv, FramesAreDurable, HeldEverywhere
    <3>2. stack[n].event \in Event
      BY <1>1, ListFacts DEF Frame
    <3>3. stack[n].event.severity \in 0..3
      BY <3>2, BusAssumption DEF Event
    <3>4. Filter[P0].min = CRITICAL
      BY <1>1 DEF StartArguments
    <3>5. CRITICAL <= stack[n].event.severity
      BY <2>3, <3>4 DEF Wants
    <3> QED BY <2>1, <2>3, <3>1, <3>3, <3>5 DEF CRITICAL
  <2> QED BY <1>1, <1>2, <2>2, <2>3, CallsOfNext
<1> QED BY <1>3, <1>4, <1>5, <1>6 DEF RuntimeInv, BusInv

LEMMA NextRuntimeInv == RuntimeInv /\ [RuntimeNext]_runtime_vars => RuntimeInv'
<1> SUFFICES ASSUME RuntimeInv, [RuntimeNext]_runtime_vars PROVE RuntimeInv'
  OBVIOUS
<1>1. CASE Start
  BY <1>1, StartRuntimeInv
<1>2. CASE Crash
  BY <1>2, CrashRuntimeInv
<1>3. CASE started /\ (Step \/ RuntimeUse) /\ UNCHANGED started
  BY <1>3, UpRuntimeInv
<1>4. CASE UNCHANGED runtime_vars
  <2>1. CASE started
    BY <1>4, <2>1, UpRuntimeInv DEF runtime_vars
  <2>2. CASE ~started
    BY <1>4, <2>2 DEF runtime_vars, bus_vars, counters, RuntimeInv, BusTypeOK, LogInOrder,
       DeliveredAtMostOnce, EventsOfStartedBuses, UpAndPersisting, AlertsAreInTheTable
  <2> QED BY <2>1, <2>2
<1> QED BY <1>1, <1>2, <1>3, <1>4 DEF RuntimeNext

LEMMA RuntimeIsConsistent == RuntimeSpec => []RuntimeInv
<1> QED BY InitRuntimeInv, NextRuntimeInv, PTL DEF RuntimeSpec

-----------------------------------------------------------------------------
(* Theorems about the runtime *)

\* Whatever callbacks emit, subscribe or remove while P0 is being told, however
\* often the process dies and starts again: P0 is told of critical events only,
\* of each once, and each is in the table from before P0 is told on.
THEOREM AlertsHold == RuntimeSpec => []AlertsAreDurableAndOnce
<1>1. ASSUME RuntimeInv PROVE AlertsAreDurableAndOnce
  <2> SUFFICES ASSUME NEW i \in 1..Len(delivered), delivered[i].sub = P0
               PROVE  /\ delivered[i].event.severity >= CRITICAL
                      /\ delivered[i].event \in ToSet(log[Supabase])
                      /\ Cardinality(AlertsOf(delivered[i].event)) = 1
    BY DEF AlertsAreDurableAndOnce
  <2>1. ASSUME NEW j \in AlertsOf(delivered[i].event) PROVE j = i
    <3>1. /\ j \in 1..Len(delivered)
          /\ delivered[j].sub = P0 /\ delivered[j].event = delivered[i].event
      BY DEF AlertsOf
    <3>2. delivered[j] \in Call /\ delivered[i] \in Call
      BY <1>1, <3>1, ElementOfSeq DEF RuntimeInv, BusTypeOK
    <3>3. delivered[j] = delivered[i]
      BY <3>1, <3>2 DEF Call
    <3> QED BY <1>1, <3>1, <3>3 DEF RuntimeInv, DeliveredAtMostOnce
  <2>2. AlertsOf(delivered[i].event) = {i}
    BY <2>1 DEF AlertsOf
  <2>3. Cardinality({i}) = 1
    BY FS_Singleton
  <2> QED BY <1>1, <2>2, <2>3 DEF RuntimeInv, AlertsAreInTheTable
<1> QED BY <1>1, RuntimeIsConsistent, PTL

\* The table holds the events of every bus there has been in the order of their
\* numbers, none twice: restarts reuse numbers, never a number of one bus.
THEOREM TableIsOrdered == RuntimeSpec => []LogInOrder
<1>1. RuntimeInv => LogInOrder
  BY DEF RuntimeInv
<1> QED BY <1>1, RuntimeIsConsistent, PTL
=============================================================================

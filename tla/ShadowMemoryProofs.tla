------------------------- MODULE ShadowMemoryProofs -------------------------
(* Theorems about ShadowMemory, for every set of processes, keys and values. *)
(* LossNeedsOverlap speaks of the file alone; it is inductive together with  *)
(* what each process is going to write over it.                              *)
EXTENDS ShadowMemory, TLAPS

\* What a process will write is up to date, but for its own key and the keys
\* that are exposed by now.
CopiesCurrent ==
    \A p \in Procs : Busy(p) =>
        \A k \in Keys \ (exposed \cup {key[p]}) : memory[p][k] = last[k]

IInv == MemoryTypeOK /\ LossNeedsOverlap /\ CopiesCurrent

-----------------------------------------------------------------------------
LEMMA InitIInv == Init => IInv
<1> SUFFICES ASSUME Init PROVE IInv
  OBVIOUS
<1>1. MemoryTypeOK
  BY DEF Init, MemoryTypeOK, Memory, NoMemory
<1>2. LossNeedsOverlap
  BY DEF Init, LossNeedsOverlap
<1>3. CopiesCurrent
  BY DEF Init, CopiesCurrent, Busy
<1> QED BY <1>1, <1>2, <1>3 DEF IInv

\* A process that reads while nobody saves reads what is current; one that reads
\* while another saves exposes every key.
LEMMA UpdateIInv ==
    ASSUME IInv, NEW p \in Procs, NEW k \in Keys, NEW v \in Values, Update(p, k, v)
    PROVE  IInv'
<1> USE DEF IInv, MemoryTypeOK, Memory, Busy, Saving, Others
<1>1. MemoryTypeOK'
  BY MemoryAssumption DEF Update, Changed
<1>2. LossNeedsOverlap'
  BY DEF Update, LossNeedsOverlap
<1>3. CopiesCurrent'
  <2> SUFFICES ASSUME NEW q \in Procs, Busy(q)',
                      NEW j \in Keys, j \notin exposed', j # key'[q]
               PROVE  memory'[q][j] = last'[j]
    BY DEF CopiesCurrent
  <2>1. CASE \E r \in Others(p) : Saving(r)
    BY <2>1 DEF Update
  <2>2. CASE ~\E r \in Others(p) : Saving(r)
    <3>1. exposed' = exposed /\ last' = last
      BY <2>2 DEF Update
    <3>2. CASE q = p
      <4>1. \A r \in Procs : ~Saving(r)
        BY <2>2 DEF Update
      <4>2. file[j] = last[j]
        BY <3>1, <4>1 DEF LossNeedsOverlap
      <4>3. memory'[p][j] = file[j]
        BY <3>2 DEF Update, Changed
      <4> QED BY <3>1, <3>2, <4>2, <4>3
    <3>3. CASE q # p
      BY <3>1, <3>3 DEF Update, CopiesCurrent
    <3> QED BY <3>2, <3>3
  <2> QED BY <2>1, <2>2
<1> QED BY <1>1, <1>2, <1>3

LEMMA OpenIInv ==
    ASSUME IInv, NEW p \in Procs, Open(p)
    PROVE  IInv'
<1> USE DEF IInv, MemoryTypeOK, Memory, Busy, Saving, Open
<1>1. MemoryTypeOK'
  BY DEF NoMemory
<1>2. LossNeedsOverlap'
  BY DEF LossNeedsOverlap
<1>3. CopiesCurrent'
  BY DEF CopiesCurrent
<1> QED BY <1>1, <1>2, <1>3

\* The file becomes a copy that was current but for the writer's key, and that
\* key is current now; other copies are not current for it, if there are any.
LEMMA WriteIInv ==
    ASSUME IInv, NEW p \in Procs, Write(p)
    PROVE  IInv'
<1> USE DEF IInv, MemoryTypeOK, Memory, Busy, Saving, Others, Write
<1>1. MemoryTypeOK'
  OBVIOUS
<1>2. LossNeedsOverlap'
  <2> SUFFICES ASSUME NEW j \in Keys, j \notin exposed'
               PROVE  file'[j] = last'[j]
    BY DEF LossNeedsOverlap
  <2>1. CASE j = key[p]
    BY <2>1
  <2>2. CASE j # key[p]
    <3>1. j \notin exposed
      BY <2>2
    <3> QED BY <2>2, <3>1 DEF CopiesCurrent
  <2> QED BY <2>1, <2>2
<1>3. CopiesCurrent'
  <2> SUFFICES ASSUME NEW q \in Procs, Busy(q)',
                      NEW j \in Keys, j \notin exposed', j # key'[q]
               PROVE  memory'[q][j] = last'[j]
    BY DEF CopiesCurrent
  <2>1. q # p /\ Busy(q) /\ q \in Others(p)
    OBVIOUS
  <2>2. j \notin exposed /\ j # key[p]
    BY <2>1
  <2> QED BY <2>1, <2>2 DEF CopiesCurrent
<1> QED BY <1>1, <1>2, <1>3

\* A garbled file exposes every key.
LEMMA GarbledIInv ==
    ASSUME IInv, NEW p \in Procs, WriteGarbled(p)
    PROVE  IInv'
<1> USE DEF IInv, MemoryTypeOK, Memory, Busy, Saving, WriteGarbled
<1>1. MemoryTypeOK'
  BY DEF NoMemory
<1>2. LossNeedsOverlap' /\ CopiesCurrent'
  BY DEF LossNeedsOverlap, CopiesCurrent
<1> QED BY <1>1, <1>2

LEMMA AbandonIInv ==
    ASSUME IInv, NEW p \in Procs, Abandon(p)
    PROVE  IInv'
<1> USE DEF IInv, MemoryTypeOK, Memory, Busy, Saving, Abandon
<1>1. MemoryTypeOK'
  <2>1. NoMemory \in Memory /\ memory[p] \in Memory
    BY DEF NoMemory
  <2>2. CASE UNCHANGED <<file, text>>
    BY <2>2
  <2>3. CASE text' = TRUE /\ file' \in {NoMemory, memory[p]}
    <3>1. file' \in Memory
      BY <2>1, <2>3
    <3> QED BY <2>3, <3>1
  <2> QED BY <2>2, <2>3
<1>2. LossNeedsOverlap'
  BY DEF LossNeedsOverlap
<1>3. CopiesCurrent'
  BY DEF CopiesCurrent
<1> QED BY <1>1, <1>2, <1>3

LEMMA NextIInv == IInv /\ [Next]_vars => IInv'
<1> SUFFICES ASSUME IInv, [Next]_vars PROVE IInv'
  OBVIOUS
<1>1. CASE UNCHANGED vars
  BY <1>1 DEF vars, IInv, MemoryTypeOK, LossNeedsOverlap, CopiesCurrent, Busy, Saving
<1>2. ASSUME NEW p \in Procs, NEW k \in Keys, NEW v \in Values, Update(p, k, v)
      PROVE  IInv'
  BY <1>2, UpdateIInv
<1>3. ASSUME NEW p \in Procs, Open(p) \/ Write(p) \/ WriteGarbled(p) \/ Abandon(p)
      PROVE  IInv'
  BY <1>3, OpenIInv, WriteIInv, GarbledIInv, AbandonIInv
<1> QED BY <1>1, <1>2, <1>3 DEF Next

-----------------------------------------------------------------------------
\* The file, the copies and the bookkeeping keep their types.
THEOREM MemoryTypeCorrect == Spec => []MemoryTypeOK
<1>1. IInv => MemoryTypeOK
  BY DEF IInv
<1> QED BY <1>1, InitIInv, NextIInv, PTL DEF Spec

\* However many sidecars share the file, an update that returned is lost only
\* through another that overlapped it, one that read during a write, or a write
\* that was cut short or garbled (update_shadow_memory).
THEOREM UpdatesSurvive == Spec => []LossNeedsOverlap
<1>1. IInv => LossNeedsOverlap
  BY DEF IInv
<1> QED BY <1>1, InitIInv, NextIInv, PTL DEF Spec
=============================================================================

---------------------------- MODULE ShadowMemory ----------------------------
(* The shadow memory of mastermind_sidecar.py: a JSON file that the sidecars *)
(* of several processes read, change by one key and write back, without a    *)
(* lock.  Writing empties the file first; a process may die in between.      *)
(*                                                                           *)
(* `file` is what a reader finds: a missing, empty or garbled file reads as  *)
(* a memory without keys.  `text` tells them apart: what lies in the file,   *)
(* readable or not, is in the way of a shorter text.  How long texts are is  *)
(* left open, and so are the key "last_updated" and the in-memory lists of   *)
(* tasks and health reports.                                                 *)
EXTENDS Naturals, FiniteSets

CONSTANTS
    Procs,                \* processes with a sidecar on this file
    Keys, Values,
    None,                 \* no value: get_shadow_memory() of a key that is absent
    MaxUpdates            \* bound: calls of update_shadow_memory()

ASSUME MemoryAssumption == None \notin Values /\ MaxUpdates \in Nat

VARIABLES
    file,                         \* what the file holds, for a reader
    text,                         \* whether it holds any text
    stage,                        \* how far the update of each process is
    memory,                       \* the dictionary it is going to write
    key,                          \* the key it changes
    updates,                      \* history: updates begun
    last,                         \* history: the value of the last update of a key that returned
    exposed                       \* history: the keys whose last update may be lost

vars == <<file, text, stage, memory, key, updates, last, exposed>>

NoMemory == [k \in Keys |-> None]

Init ==
    /\ file = NoMemory /\ text = FALSE
    /\ stage = [p \in Procs |-> "idle"]
    /\ memory = [p \in Procs |-> NoMemory]
    /\ key \in [Procs -> Keys]
    /\ updates = 0
    /\ last = NoMemory
    /\ exposed = {}

-----------------------------------------------------------------------------
Others(p) == Procs \ {p}
Busy(p) == stage[p] # "idle"
Saving(p) == stage[p] = "saving"

\* update_shadow_memory() reads the file and changes its copy.  One that reads
\* while another has emptied the file will write a memory without the rest.
Changed_Fresh(k, v) == [NoMemory EXCEPT ![k] = v]
Changed(k, v) == [file EXCEPT ![k] = v]
Update(p, k, v) ==
    /\ ~Busy(p)
    /\ updates < MaxUpdates
    /\ updates' = updates + 1
    /\ stage' = [stage EXCEPT ![p] = "read"]
    /\ memory' = [memory EXCEPT ![p] = Changed(k, v)]
    /\ key' = [key EXCEPT ![p] = k]
    /\ exposed' = IF \E q \in Others(p) : Saving(q) THEN Keys ELSE exposed
    /\ UNCHANGED <<file, text, last>>

\* write_text() opens the file, which empties it.
Open(p) ==
    /\ stage[p] = "read"
    /\ stage' = [stage EXCEPT ![p] = "saving"]
    /\ file' = NoMemory /\ text' = FALSE
    /\ UNCHANGED <<memory, key, updates, last, exposed>>

\* It writes, and the update returns.  An update that was read before and is
\* written after undoes this one.
Write(p) ==
    /\ Saving(p)
    /\ file' = memory[p] /\ text' = TRUE
    /\ stage' = [stage EXCEPT ![p] = "idle"]
    /\ last' = [last EXCEPT ![key[p]] = memory[p][key[p]]]
    /\ exposed' = IF \E q \in Others(p) : Busy(q) THEN exposed \cup {key[p]} ELSE exposed \ {key[p]}
    /\ UNCHANGED <<memory, key, updates>>

\* It writes a text shorter than what others left in the file since it emptied
\* it, be that readable, garbled or half a text: the end of the longer one stays,
\* and nobody can read the file.
WriteGarbled(p) ==
    /\ Saving(p)
    /\ text
    /\ file' = NoMemory /\ UNCHANGED text
    /\ stage' = [stage EXCEPT ![p] = "idle"]
    /\ last' = [last EXCEPT ![key[p]] = memory[p][key[p]]]
    /\ exposed' = Keys
    /\ UNCHANGED <<memory, key, updates>>

\* The call raises, or the process dies.  Before the file is emptied only this
\* update is gone; after that nothing, a part or all of the text was written.
Abandon(p) ==
    /\ Busy(p)
    /\ stage' = [stage EXCEPT ![p] = "idle"]
    /\ \/ stage[p] = "read" /\ UNCHANGED <<file, text, exposed>>
       \/ Saving(p) /\ exposed' = Keys /\ UNCHANGED <<file, text>>
       \/ Saving(p) /\ exposed' = Keys /\ file' \in {NoMemory, memory[p]} /\ text' = TRUE
    /\ UNCHANGED <<memory, key, updates, last>>

Next ==
    \E p \in Procs :
        \/ \E k \in Keys, v \in Values : Update(p, k, v)
        \/ Open(p) \/ Write(p) \/ WriteGarbled(p) \/ Abandon(p)

Spec == Init /\ [][Next]_vars

-----------------------------------------------------------------------------
(* Properties *)

Memory == [Keys -> Values \cup {None}]

\* The file, and what each process is doing to it; a file without text reads as
\* one without keys.
MemoryTypeOK ==
    /\ file \in Memory /\ last \in Memory
    /\ text \in BOOLEAN /\ (~text => file = NoMemory)
    /\ stage \in [Procs -> {"idle", "read", "saving"}]
    /\ memory \in [Procs -> Memory]
    /\ key \in [Procs -> Keys]
    /\ exposed \subseteq Keys

\* While nobody writes, a reader finds for every key the value of the last
\* update that returned, unless another update overlapped that one, an update
\* began while another was writing, or a write was cut short or garbled.  In
\* particular an overlapping update undoes no key but those updated meanwhile
\* (update_shadow_memory writes back everything it read).
LossNeedsOverlap ==
    (\A p \in Procs : ~Saving(p)) => \A k \in Keys \ exposed : file[k] = last[k]
=============================================================================

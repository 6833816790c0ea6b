----------------------------- MODULE TaskQueue -----------------------------
(***************************************************************************)
(* What the task board promises its workers: each queued task is handed    *)
(* to one of them, the oldest first, what is saved survives the end of     *)
(* the process, and a restart queues the tasks of the workers that are     *)
(* gone and touches no other.                                              *)
(*                                                                         *)
(* It does not promise that an update survives a claim that has already    *)
(* chosen its task: that is Overwrite, an action of its own.               *)
(***************************************************************************)
EXTENDS Naturals

CONSTANTS
    TaskId,     \* task ids, numbered in the order of created_at
    Settled,    \* the states an update may write
    None        \* no such task yet

VARIABLES
    state,      \* each task's state as the board shows it
    kept,       \* each task's state as the next process would find it
    picked,     \* the task that a claim has chosen and not taken yet, at most one
    up          \* the orphans of the last process are queued again

State == Settled \cup {"queued", "ongoing"}

Oldest(s, t) == s[t] = "queued" /\ \A u \in TaskId : s[u] = "queued" => t <= u

Create(t) ==
    /\ up /\ state[t] = None /\ state' = [state EXCEPT ![t] = "queued"]
    /\ UNCHANGED <<kept, picked, up>>

Set(t) ==
    /\ up /\ state[t] # None /\ \E s \in Settled : state' = [state EXCEPT ![t] = s]
    /\ UNCHANGED <<kept, picked, up>>

Pick(t) ==
    /\ up /\ picked = {} /\ Oldest(state, t) /\ picked' = {t}
    /\ UNCHANGED <<state, kept, up>>

Take(t) ==
    /\ up /\ picked = {t} /\ picked' = {} /\ state' = [state EXCEPT ![t] = "ongoing"]
    /\ UNCHANGED <<kept, up>>

Claim(t) == state[t] = "queued" /\ Take(t)

\* The task was cancelled or settled since it was chosen, and is taken all the same.
Overwrite(t) == state[t] \in Settled \ {"queued"} /\ Take(t)

LetGo == picked' = {} /\ UNCHANGED <<state, kept, up>>
Save  == up /\ kept' = state /\ UNCHANGED <<state, picked, up>>

\* The process ends: what was not saved is lost.
Crash == state' = kept /\ picked' = {} /\ up' = FALSE /\ UNCHANGED kept

\* Its successor queues the orphans, before anything else.
Recover ==
    /\ ~up /\ up' = TRUE
    /\ state' = [t \in TaskId |-> IF state[t] = "ongoing" THEN "queued" ELSE state[t]]
    /\ UNCHANGED <<kept, picked>>

Init == state = [t \in TaskId |-> None] /\ kept = state /\ picked = {} /\ up = FALSE
Next ==
    \/ LetGo \/ Save \/ Crash \/ Recover
    \/ \E t \in TaskId : Create(t) \/ Set(t) \/ Pick(t) \/ Claim(t) \/ Overwrite(t)
Spec == Init /\ [][Next]_<<state, kept, picked, up>>
=============================================================================

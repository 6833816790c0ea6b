---------------------------- MODULE TaskStoreInv ----------------------------
(***************************************************************************)
(* The inductive invariant behind the safety properties of TaskStore.      *)
(***************************************************************************)
EXTENDS TaskStore

\* The lock is held through a claim, and requests do not claim.
Locked ==
    /\ \A w \in Worker : pc[w] \in {"selected", "claimed", "taken"} => lock = w
    /\ \A c \in Caller : pc[c] \in {"idle", "decided", "written", "saved"}

\* Operations are on tasks that exist.
Working == \A c \in Client : pc[c] # "idle" => task[c] \in TaskId /\ work[task[c]] # None

\* Nobody works before the orphans are queued again.
Booting ==
    /\ stage # "serving" => \A c \in Client : pc[c] = "idle"
    /\ stage \in {"down", "open"} => work = disk
    /\ stage = "requeued" => work = Requeued(disk)

\* A task between the SELECT and the UPDATE of its claim is not ongoing yet.
NotYet == \A w \in Worker : pc[w] = "selected" => work[task[w]] \in Settled

\* The task in a worker's hands is not queued, unless a request queued it again.
NotQueued ==
    \A w \in Worker : pc[w] \in {"claimed", "taken", "running"} /\ task[w] \notin again
                     => work[task[w]] # "queued"

Claims == StoreTypeOK /\ Locked /\ Working /\ Booting /\ NotYet /\ NotQueued /\ NoDoubleClaim
SInv   == Claims /\ ReturnedIsDurable /\ NoOrphan
=============================================================================

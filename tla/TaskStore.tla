----------------------------- MODULE TaskStore -----------------------------
(***************************************************************************)
(* SqliteTaskStore of langstage/tasks/sqlite_store.py: the rows of the     *)
(* task board behind one connection that every coroutine shares, used by   *)
(* the runner's workers and by the calls of server/routes_tasks.py.        *)
(*                                                                         *)
(* An operation is several statements with an await after each.  The       *)
(* connection has one open transaction: a commit publishes the statements  *)
(* of everybody.  Only claim_next takes the lock.                          *)
(*                                                                         *)
(* The runner is outside the repository: its workers claim, run and        *)
(* settle tasks, and a call of the routes reads the task, refuses some     *)
(* states, and updates it.                                                 *)
(***************************************************************************)
EXTENDS Naturals, FiniteSets

CONSTANTS
    TaskId,     \* task ids, numbered in the order of created_at
    Worker,     \* the runner's workers
    Caller,     \* requests of the task board
    Settled,    \* the states an update may write: queued (a retry), done, ...
    MaxCalls,   \* bound: calls of the routes
    MaxFaults,  \* bound: ends of the process and abandoned operations
    None

ASSUME StoreAssumption ==
    /\ TaskId \subseteq Nat /\ "queued" \in Settled
    /\ "ongoing" \notin Settled /\ None \notin Settled
    /\ None # "ongoing" /\ None \notin TaskId \cup Worker \cup Caller
    /\ Worker \cap Caller = {}

VARIABLES
    work,       \* the rows as the connection sees them: each task's state
    disk,       \* the rows as they were committed last
    stage,      \* "down", "open" (setup done), "requeued", "serving"
    lock,       \* who holds _lock
    pc,         \* where each coroutine stands
    task,       \* the task it works on
    calls, faults,
    dropped,    \* history: tasks whose operation was abandoned since the start
    again       \* history: tasks that a request queued again while a worker had them

rows == <<work, disk>>
history == <<dropped, again>>
bounds == <<calls, faults>>
storeVars == <<rows, stage, lock, pc, task, bounds, history>>

Client == Worker \cup Caller
State  == Settled \cup {"queued", "ongoing"}
Pc     == {"idle", "decided", "selected", "written", "claimed", "saved", "taken", "running"}

StoreTypeOK ==
    /\ work \in [TaskId -> State \cup {None}] /\ disk \in [TaskId -> State \cup {None}]
    /\ stage \in {"down", "open", "requeued", "serving"}
    /\ lock \in Worker \cup {None}
    /\ pc \in [Client -> Pc] /\ task \in [Client -> TaskId \cup {None}]
    /\ calls \in Nat /\ faults \in Nat /\ dropped \subseteq TaskId /\ again \subseteq TaskId

StoreInit ==
    /\ work = [t \in TaskId |-> None] /\ disk = work
    /\ stage = "down" /\ lock = None
    /\ pc = [c \in Client |-> "idle"] /\ task = [c \in Client |-> None]
    /\ calls = 0 /\ faults = 0 /\ dropped = {} /\ again = {}

Has(w, t)  == pc[w] \in {"selected", "claimed", "taken", "running"} /\ task[w] = t
Held(t)    == \E w \in Worker : Has(w, t)
Goto(c, p, t) == pc' = [pc EXCEPT ![c] = p] /\ task' = [task EXCEPT ![c] = t]
At(c, p) == stage = "serving" /\ pc[c] = p

----------------------------------------------------------------------------
\* The connection.

\* setup: connect and create the tables that are missing.
Setup ==
    /\ stage = "down" /\ stage' = "open"
    /\ UNCHANGED <<rows, lock, pc, task, bounds, history>>

Requeued(s) == [t \in TaskId |-> IF s[t] = "ongoing" THEN "queued" ELSE s[t]]

\* requeue_orphans, which the runner calls before its workers start.
Requeue ==
    /\ stage = "open" /\ stage' = "requeued"
    /\ work' = Requeued(work)
    /\ UNCHANGED <<disk, lock, pc, task, bounds, history>>

RequeueEnds ==
    /\ stage = "requeued" /\ stage' = "serving"
    /\ disk' = work
    /\ UNCHANGED <<work, lock, pc, task, bounds, history>>

\* close, or the end of the process, rolls back what is not committed.
Stop ==
    /\ stage # "down" /\ faults < MaxFaults
    /\ faults' = faults + 1 /\ stage' = "down"
    /\ work' = disk /\ lock' = None /\ dropped' = {} /\ again' = {}
    /\ pc' = [c \in Client |-> "idle"] /\ task' = [c \in Client |-> None]
    /\ UNCHANGED <<disk, calls>>

----------------------------------------------------------------------------
\* Calls of the routes.

\* create: the INSERT.
Insert(c, t) ==
    /\ At(c, "idle") /\ calls < MaxCalls /\ calls' = calls + 1
    /\ work[t] = None
    /\ work' = [work EXCEPT ![t] = "queued"]
    /\ Goto(c, "written", t)
    /\ UNCHANGED <<disk, stage, lock, faults, history>>

\* cancel, retry, resume, message: the task is read, and refused when it does not exist.
Decide(c, t) ==
    /\ At(c, "idle") /\ calls < MaxCalls /\ calls' = calls + 1
    /\ work[t] # None
    /\ Goto(c, "decided", t)
    /\ UNCHANGED <<rows, stage, lock, faults, history>>

\* update: the UPDATE, whatever the row says by now.  A worker never queues its task again.
Write(c) ==
    /\ At(c, "decided")
    /\ \E s \in Settled \ (IF c \in Worker THEN {"queued"} ELSE {}) :
          /\ work' = [work EXCEPT ![task[c]] = s]
          /\ again' = IF s = "queued" /\ Held(task[c]) THEN again \cup {task[c]} ELSE again
    /\ Goto(c, "written", task[c])
    /\ UNCHANGED <<disk, stage, lock, bounds, dropped>>

\* Mutant: the commit is forgotten.
CommitNot(c) ==
    /\ At(c, "written")
    /\ Goto(c, "saved", task[c])
    /\ UNCHANGED <<rows, stage, lock, bounds, history>>

\* The commit of create and update, then the get of what they return.
Commit(c) ==
    /\ At(c, "written")
    /\ disk' = work
    /\ Goto(c, "saved", task[c])
    /\ UNCHANGED <<work, stage, lock, bounds, history>>

Return(c) ==
    /\ At(c, "saved")
    /\ Goto(c, "idle", None)
    /\ UNCHANGED <<rows, stage, lock, bounds, history>>

----------------------------------------------------------------------------
\* The workers.

\* Mutant: ORDER BY created_at DESC.
Newest(t) == work[t] = "queued" /\ \A u \in TaskId : work[u] = "queued" => u <= t
Oldest(t) == work[t] = "queued" /\ \A u \in TaskId : work[u] = "queued" => t <= u

\* Mutant: claim_next without the lock.
SelectUnlocked(w) ==
    /\ At(w, "idle") /\ lock' = w
    /\ \E t \in TaskId : Oldest(t) /\ Goto(w, "selected", t)
    /\ UNCHANGED <<rows, stage, bounds, history>>

\* claim_next: the lock and the SELECT; without a queued task it returns at once.
Select(w) ==
    /\ At(w, "idle") /\ lock = None /\ lock' = w
    /\ \E t \in TaskId : Oldest(t) /\ Goto(w, "selected", t)
    /\ UNCHANGED <<rows, stage, bounds, history>>

\* claim_next: the UPDATE does not look at the state again.
Mark(w) ==
    /\ At(w, "selected")
    /\ work' = [work EXCEPT ![task[w]] = "ongoing"]
    /\ Goto(w, "claimed", task[w])
    /\ UNCHANGED <<disk, stage, lock, bounds, history>>

ClaimCommit(w) ==
    /\ At(w, "claimed")
    /\ disk' = work
    /\ Goto(w, "taken", task[w])
    /\ UNCHANGED <<work, stage, lock, bounds, history>>

\* claim_next: the get, the end of the lock, and the task is the worker's.
Take(w) ==
    /\ At(w, "taken")
    /\ lock' = None
    /\ Goto(w, "running", task[w])
    /\ UNCHANGED <<rows, stage, bounds, history>>

\* The run ends and the worker settles the task with an update.
RunEnds(w) ==
    /\ At(w, "running")
    /\ Goto(w, "decided", task[w])
    /\ UNCHANGED <<rows, stage, lock, bounds, history>>

\* Mutant: acquire and release without try, so that a cancelled claim keeps the lock.
BreakOffLocked(c) ==
    /\ stage = "serving" /\ pc[c] # "idle" /\ faults < MaxFaults
    /\ faults' = faults + 1
    /\ dropped' = dropped \cup {task[c]}
    /\ Goto(c, "idle", None)
    /\ UNCHANGED <<rows, stage, lock, calls, again>>

\* Any operation can end at an await: cancelled, or the statement failed.  What it has
\* written stays in the open transaction for the next commit of anybody.
BreakOff(c) ==
    /\ stage = "serving" /\ pc[c] # "idle" /\ faults < MaxFaults
    /\ faults' = faults + 1
    /\ lock' = IF lock = c THEN None ELSE lock
    /\ dropped' = dropped \cup {task[c]}
    /\ Goto(c, "idle", None)
    /\ UNCHANGED <<rows, stage, calls, again>>

Operate(c) == Write(c) \/ Commit(c) \/ Return(c)
Claiming(w) == Mark(w) \/ ClaimCommit(w) \/ Take(w)

StoreNext ==
    \/ Setup \/ Requeue \/ RequeueEnds \/ Stop
    \/ \E c \in Caller, t \in TaskId : Insert(c, t) \/ Decide(c, t)
    \/ \E c \in Client : Operate(c) \/ BreakOff(c)
    \/ \E w \in Worker : Select(w) \/ Claiming(w) \/ RunEnds(w)

StoreSpec == StoreInit /\ [][StoreNext]_storeVars

\* A started process opens the store, a begun operation of a live process goes on, some
\* worker asks for the next task, and a run ends.  Nobody has to call or to restart.
StoreFairness ==
    /\ WF_storeVars(Requeue) /\ WF_storeVars(RequeueEnds)
    /\ \A c \in Client : WF_storeVars(Operate(c))
    /\ \A w \in Worker : WF_storeVars(Claiming(w)) /\ WF_storeVars(RunEnds(w))
    /\ WF_storeVars(\E w \in Worker : Select(w))

FairStore == StoreSpec /\ StoreFairness

----------------------------------------------------------------------------
\* Properties.

\* The task that claim_next has read and not yet marked.
Selected == {task[w] : w \in {v \in Worker : pc[v] = "selected"}}

\* "Serialize the read-then-update so two workers can't claim one task", and the board's
\* order: the SELECT of a claim finds the oldest queued task while no other claim is between
\* its two statements, a task becomes ongoing by the claim that chose it and in no other
\* way, a process that ends loses what was not committed and nothing else, and
\* requeue_orphans, before anybody works, changes the ongoing rows and no other.  An update
\* between the SELECT and the UPDATE is lost: that is Queue!Overwrite.
Queue == INSTANCE TaskQueue WITH
    state <- work, kept <- disk, picked <- Selected, up <- stage \in {"requeued", "serving"}
ClaimsOnceInOrder == Queue!Spec

\* No two workers have one task at a time, unless a request queued it again meanwhile.
NoDoubleClaim ==
    \A t \in TaskId \ again : \A v, w \in Worker : Has(v, t) /\ Has(w, t) => v = w

\* A crash loses only what an operation that has not returned has written.
ReturnedIsDurable ==
    stage = "serving" =>
        \A t \in TaskId \ dropped : work[t] # disk[t] =>
            \E c \in Client : pc[c] \in {"written", "claimed"} /\ task[c] = t

\* requeue_orphans and the claims together: an ongoing task has a worker that claimed it,
\* unless the operation that was to settle or hand it over was abandoned.
NoOrphan ==
    stage = "serving" =>
        \A t \in TaskId \ dropped : work[t] = "ongoing" =>
            \E w \in Worker : pc[w] \in {"claimed", "taken", "running", "decided"}
                             /\ task[w] = t

\* A queued task is taken as long as the process serves: retries of older tasks, slow
\* commits and abandoned claims do not leave it behind.
QueuedIsServed ==
    \A t \in TaskId : (stage = "serving" /\ work[t] = "queued")
                      ~> (stage # "serving" \/ work[t] # "queued")
=============================================================================

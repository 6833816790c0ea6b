--------------------------- MODULE CronScheduler ---------------------------
(***************************************************************************)
(* The cron scheduler of langstage/scheduler.py, step by step.             *)
(*                                                                         *)
(* Three kinds of thread touch it.  Worker threads run add_job, remove_job *)
(* and _save_if_present; the event loop runs every run-loop, run_now and   *)
(* the callbacks the workers queue with call_soon_threadsafe; the database *)
(* threads commit what store.get and runner.enqueue ask for.  A step here  *)
(* is what one of them does between two points where another can act: an   *)
(* await on the loop, a lock or a database call in a worker.               *)
(*                                                                         *)
(* Schedule ids are fresh (uuid4), so a job of the model is added at most  *)
(* once; a restart brings back the rows of the store.  A schedule numbers  *)
(* its own board tasks: <<j, t>> is one row of the board.                  *)
(***************************************************************************)
EXTENDS Naturals

CONSTANTS
    Job,        \* the schedule ids that may ever be created
    Task,       \* the board tasks one schedule may ever enqueue
    BadCron,    \* schedules whose expression is valid but has no next date
    MaxExit,    \* bound: how often the process ends
    NoTask,     \* last_task_id is None
    NoRow,      \* the schedule has no row in cron_jobs
    NoJob       \* the loop is not inside _spawn_run_loop

ASSUME CronAssumption ==
    /\ BadCron \subseteq Job
    /\ MaxExit \in Nat
    /\ NoTask \notin Task
    /\ NoRow \notin Task \cup {NoTask}
    /\ NoJob \notin Job

Kind  == {"auto", "manual"}     \* _fire() from the run-loop, _fire(force=True) from run_now
Fires == Job \X Kind

Loop(j)   == <<j, "auto">>
ByHand(j) == <<j, "manual">>

VARIABLES
    phase,      \* "down", "loaded" (constructed), "running" (started), "stopped" (shut
                \* down), "broken" (its shutdown raised)
    jobs,       \* keys of _jobs
    tasks,      \* keys of _tasks
    lastTask,   \* CronJob.last_task_id, in memory
    row,        \* cron_jobs on disk: NoRow, or the last_task_id of the row
    add,        \* where add_job(j) stands, in its worker thread
    rm,         \* where remove_job(j) stands, in its worker thread
    spawnQ,     \* loop callbacks _spawn_run_loop(j) not yet run
    cancelQ,    \* loop callbacks task.cancel of j's run-loop not yet run
    spawning,   \* the job _spawn_run_loop has checked and not yet spawned
    fire,       \* where each run-loop ("auto") and each run_now ("manual") stands
    got,        \* the task a fire asked about, or the one it enqueued
    save,       \* where the fire's _save_if_present stands, in its worker thread
    board,      \* the board's tasks: free (no such task), open (unresolved) or closed
    lost,       \* history: tasks whose id was never stored in the schedule's row
    removed,    \* history: jobs remove_job deleted from the store
    early,      \* history: jobs removed while their add_job was still running
    byHand,     \* history: jobs a user ran by hand, or retried a run of
    unseen,     \* history: unresolved runs whose state a fire failed to read
    stray,      \* history: run-loops spawned behind the back of a removal or a shutdown
    exits       \* how often the process ended (bounded by MaxExit)

mem  == <<phase, jobs, tasks, lastTask>>
fast == <<fire, got, board>>
hist == <<lost, removed, early, byHand, unseen, stray, exits>>
vars == <<mem, row, add, rm, spawnQ, cancelQ, spawning, fast, save, hist>>

AddPC  == {"new", "save", "check", "start", "rollback", "over"}
RmPC   == {"idle", "delete", "unschedule"}
FirePC == {"none", "sleep", "check", "enqueue", "created", "persist", "abandoned"}
SavePC == {"idle", "queued", "locked"}

\* One type invariant: what each variable may hold.
TypeOK ==
    /\ phase \in {"down", "loaded", "running", "stopped", "broken"}
    /\ jobs \subseteq Job /\ tasks \subseteq Job
    /\ lastTask \in [Job -> Task \cup {NoTask}]
    /\ row \in [Job -> Task \cup {NoTask, NoRow}]
    /\ add \in [Job -> AddPC] /\ rm \in [Job -> RmPC]
    /\ spawnQ \subseteq Job /\ cancelQ \subseteq Job
    /\ spawning \in Job \cup {NoJob}
    /\ fire \in [Fires -> FirePC]
    /\ got \in [Fires -> Task \cup {NoTask}]
    /\ \A f \in Fires : fire[f] \in {"check", "created"} => got[f] \in Task
    /\ save \in [Fires -> SavePC]
    /\ board \in [Job -> [Task -> {"free", "open", "closed"}]]
    /\ lost \in [Job -> SUBSET Task]
    /\ removed \subseteq Job /\ early \subseteq Job /\ byHand \subseteq Job
    /\ unseen \in [Job -> SUBSET Task] /\ stray \subseteq Job
    /\ exits \in 0..MaxExit

Init ==
    /\ phase = "down" /\ jobs = {} /\ tasks = {}
    /\ lastTask = [j \in Job |-> NoTask]
    /\ row = [j \in Job |-> NoRow]
    /\ add = [j \in Job |-> "new"] /\ rm = [j \in Job |-> "idle"]
    /\ spawnQ = {} /\ cancelQ = {} /\ spawning = NoJob
    /\ fire = [f \in Fires |-> "none"]
    /\ got = [f \in Fires |-> NoTask]
    /\ save = [f \in Fires |-> "idle"]
    /\ board = [j \in Job |-> [t \in Task |-> "free"]]
    /\ lost = [j \in Job |-> {}]
    /\ removed = {} /\ early = {} /\ byHand = {}
    /\ unseen = [j \in Job |-> {}] /\ stray = {} /\ exits = 0

\* _store_lock is held inside remove_job and inside _save_if_present.  add_job's
\* own locked section is a single step.
LockFree ==
    /\ \A j \in Job : rm[j] # "delete"
    /\ \A f \in Fires : save[f] # "locked"

\* The loop thread runs one thing at a time; it can be caught by another thread
\* between the guard of _spawn_run_loop and the assignment it guards.
LoopFree == phase # "down" /\ spawning = NoJob

\* SqliteCronStore: the rows read back, INSERT OR REPLACE of a job as it is in
\* memory now, DELETE.
StoredJobs  == {j \in Job : row[j] # NoRow}
WriteRow(j) == row' = [row EXCEPT ![j] = lastTask[j]]
DropRow(j)  == row' = [row EXCEPT ![j] = NoRow]

----------------------------------------------------------------------------
\* Process lifetime.

\* CronScheduler.__init__ and _load: the rows come back, those whose next run
\* cannot be computed are skipped.
Load ==
    /\ phase = "down"
    /\ phase' = "loaded"
    /\ jobs' = StoredJobs \ BadCron
    /\ lastTask' = [j \in Job |-> IF row[j] # NoRow THEN row[j] ELSE NoTask]
    /\ UNCHANGED <<tasks, row, add, rm, spawnQ, cancelQ, spawning, fast, save, hist>>

\* start(): on the loop, so each run-loop is spawned at once.
Start ==
    /\ phase = "loaded"
    /\ phase' = "running"
    /\ tasks' = tasks \cup jobs
    /\ fire' = [f \in Fires |->
                  IF f[2] = "auto" /\ f[1] \in jobs \ tasks THEN "sleep" ELSE fire[f]]
    /\ UNCHANGED <<jobs, lastTask, row, add, rm, spawnQ, cancelQ, spawning,
                   got, save, board, hist>>

\* What task.cancel() leaves of a run-loop at each of its awaits.  Cancelled in
\* runner.enqueue, it still goes through _fire's finally clause.
AfterCancel(pc) == IF pc = "enqueue" THEN "abandoned" ELSE "none"

Cancelled(js) == {f \in Fires : f[2] = "auto" /\ f[1] \in js}

\* Cancelling the run-loops of the jobs in js: the id of a task that is created
\* but not yet recorded is never stored, and _fire's finally clause saves.
CancelLoops(js) ==
    /\ fire' = [f \in Fires |-> IF f \in Cancelled(js) THEN AfterCancel(fire[f]) ELSE fire[f]]
    /\ save' = [f \in Fires |-> IF f \in Cancelled(js) /\ fire[f] = "created"
                                THEN "queued" ELSE save[f]]
    /\ lost' = [j \in Job |-> IF j \in js /\ fire[Loop(j)] = "created"
                              THEN lost[j] \cup {got[Loop(j)]} ELSE lost[j]]

\* shutdown(), on the loop.
Shutdown ==
    /\ phase = "running" /\ LoopFree
    /\ phase' = "stopped"
    /\ CancelLoops(tasks)
    /\ tasks' = {}
    /\ UNCHANGED <<jobs, lastTask, row, add, rm, spawnQ, cancelQ, spawning,
                   got, board, removed, early, byHand, unseen, stray, exits>>

\* remove_job(j) in a worker pops from _tasks while shutdown() goes through it: "dictionary
\* changed size during iteration" leaves shutdown with some loops cancelled and nothing else
\* of it done.
ShutdownRaises(j) ==
    /\ phase = "running" /\ LoopFree
    /\ rm[j] = "unschedule" /\ j \in tasks
    /\ phase' = "broken"
    /\ \E js \in SUBSET tasks : CancelLoops(js)
    /\ tasks' = tasks \ {j} /\ cancelQ' = cancelQ \cup {j}
    /\ rm' = [rm EXCEPT ![j] = "idle"]
    /\ UNCHANGED <<jobs, lastTask, row, add, spawnQ, spawning,
                   got, board, removed, early, byHand, unseen, stray, exits>>

\* The process ends, after a shutdown or by a crash at any point: what is in
\* memory is gone, cron_jobs and the board stay.
Exit ==
    /\ phase # "down" /\ exits < MaxExit
    /\ exits' = exits + 1
    /\ phase' = "down" /\ jobs' = {} /\ tasks' = {}
    /\ lastTask' = [j \in Job |-> NoTask]
    /\ add' = [j \in Job |-> IF add[j] = "new" THEN "new" ELSE "over"]
    /\ rm' = [j \in Job |-> "idle"]
    /\ spawnQ' = {} /\ cancelQ' = {} /\ spawning' = NoJob
    /\ fire' = [f \in Fires |-> "none"]
    /\ got' = [f \in Fires |-> NoTask]
    /\ save' = [f \in Fires |-> "idle"]
    /\ lost' = [j \in Job |-> lost[j] \cup
                  {t \in Task : /\ row[j] # t
                                /\ \/ lastTask[j] = t
                                   \/ \E k \in Kind : fire[<<j, k>>] = "created"
                                                      /\ got[<<j, k>>] = t}]
    /\ stray' = {}
    /\ UNCHANGED <<row, board, removed, early, byHand, unseen>>
----------------------------------------------------------------------------
\* add_job(j), in a worker thread.

\* The job is registered before anything is saved.  An expression with no next
\* date makes _compute_next raise outside every try: add_job ends there.
AddInsert(j) ==
    /\ phase \in {"running", "stopped", "broken"} /\ add[j] = "new"
    /\ jobs' = jobs \cup {j}
    /\ add' = [add EXCEPT ![j] = IF j \in BadCron THEN "over" ELSE "save"]
    /\ UNCHANGED <<phase, tasks, lastTask, row, rm, spawnQ, cancelQ, spawning, fast, save, hist>>

\* The row is written under _store_lock, whatever became of the job meanwhile.
AddSave(j) ==
    /\ add[j] = "save" /\ LockFree
    /\ WriteRow(j)
    /\ add' = [add EXCEPT ![j] = "check"]
    /\ UNCHANGED <<mem, rm, spawnQ, cancelQ, spawning, fast, save, hist>>

\* Mutant: a failed save is only logged.
AddSaveFailsQuietly(j) ==
    /\ add[j] = "save" /\ LockFree
    /\ add' = [add EXCEPT ![j] = "check"]
    /\ UNCHANGED <<mem, row, rm, spawnQ, cancelQ, spawning, fast, save, hist>>

\* The write fails: the registration is undone.
AddSaveFails(j) ==
    /\ add[j] = "save" /\ LockFree
    /\ jobs' = jobs \ {j}
    /\ add' = [add EXCEPT ![j] = "over"]
    /\ UNCHANGED <<phase, tasks, lastTask, row, rm, spawnQ, cancelQ, spawning, fast, save, hist>>

\* if self._started.
Started == phase \in {"running", "broken"}
AddCheck(j) ==
    /\ add[j] = "check"
    /\ add' = [add EXCEPT ![j] = IF Started THEN "start" ELSE "over"]
    /\ UNCHANGED <<mem, row, rm, spawnQ, cancelQ, spawning, fast, save, hist>>

\* Mutant: off the loop, nothing is handed to it.
AddStartOffLoop(j) ==
    /\ add[j] = "start" /\ Started
    /\ add' = [add EXCEPT ![j] = "over"]
    /\ UNCHANGED <<mem, row, rm, spawnQ, cancelQ, spawning, fast, save, hist>>

\* _start_job from a worker thread: hand the spawn to the loop.
AddStart(j) ==
    /\ add[j] = "start" /\ Started
    /\ spawnQ' = spawnQ \cup {j}
    /\ add' = [add EXCEPT ![j] = "over"]
    /\ UNCHANGED <<mem, row, rm, cancelQ, spawning, fast, save, hist>>

\* The loop is gone since the check: roll back, outside _store_lock.
AddRollback(j) ==
    /\ add[j] = "start" /\ ~Started
    /\ jobs' = jobs \ {j}
    /\ add' = [add EXCEPT ![j] = "rollback"]
    /\ UNCHANGED <<phase, tasks, lastTask, row, rm, spawnQ, cancelQ, spawning, fast, save, hist>>

\* _delete: the row goes, or the failure is only logged.
AddUndo(j) ==
    /\ add[j] = "rollback"
    /\ \/ DropRow(j)
       \/ UNCHANGED row
    /\ add' = [add EXCEPT ![j] = "over"]
    /\ UNCHANGED <<mem, rm, spawnQ, cancelQ, spawning, fast, save, hist>>

----------------------------------------------------------------------------
\* remove_job(j), in a worker thread.

\* Take _store_lock and pop the job; a job that is not there returns False.
RemovePop(j) ==
    /\ phase # "down" /\ rm[j] = "idle" /\ j \in jobs /\ LockFree
    /\ jobs' = jobs \ {j}
    /\ rm' = [rm EXCEPT ![j] = "delete"]
    /\ early' = IF add[j] = "over" THEN early ELSE early \cup {j}
    /\ UNCHANGED <<phase, tasks, lastTask, row, add, spawnQ, cancelQ, spawning,
                   fast, save, lost, removed, byHand, unseen, stray, exits>>

\* _delete and release the lock; a failed delete is only logged.
RemoveDelete(j) ==
    /\ rm[j] = "delete"
    /\ \/ DropRow(j) /\ removed' = removed \cup {j}
       \/ UNCHANGED <<row, removed>>
    /\ rm' = [rm EXCEPT ![j] = "unschedule"]
    /\ UNCHANGED <<mem, add, spawnQ, cancelQ, spawning, fast, save,
                   lost, early, byHand, unseen, stray, exits>>

\* Mutant: off the loop, the popped task is not cancelled.
RemoveUncancelled(j) ==
    /\ rm[j] = "unschedule"
    /\ tasks' = tasks \ {j}
    /\ rm' = [rm EXCEPT ![j] = "idle"]
    /\ UNCHANGED <<phase, jobs, lastTask, row, add, spawnQ, cancelQ, spawning, fast, save, hist>>

\* Pop the run-loop's task and queue its cancellation on the loop.
RemoveUnschedule(j) ==
    /\ rm[j] = "unschedule"
    /\ tasks' = tasks \ {j}
    /\ cancelQ' = IF j \in tasks THEN cancelQ \cup {j} ELSE cancelQ
    /\ rm' = [rm EXCEPT ![j] = "idle"]
    /\ UNCHANGED <<phase, jobs, lastTask, row, add, spawnQ, spawning, fast, save, hist>>

----------------------------------------------------------------------------
\* Callbacks on the event loop.

\* _spawn_run_loop(j), up to its guard ...
SpawnCheck(j) ==
    /\ LoopFree /\ j \in spawnQ
    /\ spawnQ' = spawnQ \ {j}
    /\ spawning' = IF j \in jobs /\ j \notin tasks THEN j ELSE NoJob
    /\ UNCHANGED <<mem, row, add, rm, cancelQ, fast, save, hist>>

\* ... and the assignment.  After a shutdown the loop still runs what it was handed, and a
\* removal may have come and gone since the guard.
Spawn(j) ==
    /\ spawning = j
    /\ spawning' = NoJob
    /\ tasks' = tasks \cup {j}
    /\ fire' = [fire EXCEPT ![Loop(j)] = "sleep"]
    /\ stray' = IF phase = "running" /\ (j \in jobs \/ rm[j] # "idle")
                THEN stray ELSE stray \cup {j}
    /\ UNCHANGED <<phase, jobs, lastTask, row, add, rm, spawnQ, cancelQ,
                   got, save, board, lost, removed, early, byHand, unseen, exits>>

\* task.cancel(), queued by remove_job.
Cancel(j) ==
    /\ LoopFree /\ j \in cancelQ
    /\ cancelQ' = cancelQ \ {j}
    /\ CancelLoops({j})
    /\ UNCHANGED <<mem, row, add, rm, spawnQ, spawning, got, board,
                   removed, early, byHand, unseen, stray, exits>>

----------------------------------------------------------------------------
\* _fire, from a run-loop or from run_now.

\* The run-loop's sleep ends.  A schedule that has a last task asks the board
\* about it; the id it asks about is fixed here, before the await.
Wake(j) ==
    /\ LoopFree /\ fire[Loop(j)] = "sleep"
    /\ got' = [got EXCEPT ![Loop(j)] = lastTask[j]]
    /\ fire' = [fire EXCEPT ![Loop(j)] = IF lastTask[j] = NoTask THEN "enqueue" ELSE "check"]
    /\ UNCHANGED <<mem, row, add, rm, spawnQ, cancelQ, spawning, save, board, hist>>

\* The previous run is unresolved: the fire is skipped, and nothing is saved.
Skip(j) ==
    /\ LoopFree /\ fire[Loop(j)] = "check"
    /\ board[j][got[Loop(j)]] = "open"
    /\ fire' = [fire EXCEPT ![Loop(j)] = "sleep"]
    /\ got' = [got EXCEPT ![Loop(j)] = NoTask]
    /\ UNCHANGED <<mem, row, add, rm, spawnQ, cancelQ, spawning, save, board, hist>>

\* Mutant: the fire goes on whatever the previous run's state is.
ProceedAnyway(j) ==
    /\ LoopFree /\ fire[Loop(j)] = "check"
    /\ fire' = [fire EXCEPT ![Loop(j)] = "enqueue"]
    /\ got' = [got EXCEPT ![Loop(j)] = NoTask]
    /\ UNCHANGED <<mem, row, add, rm, spawnQ, cancelQ, spawning, save, board, hist>>

\* It is resolved: go on to runner.enqueue.
Proceed(j) ==
    /\ LoopFree /\ fire[Loop(j)] = "check"
    /\ board[j][got[Loop(j)]] # "open"
    /\ fire' = [fire EXCEPT ![Loop(j)] = "enqueue"]
    /\ got' = [got EXCEPT ![Loop(j)] = NoTask]
    /\ UNCHANGED <<mem, row, add, rm, spawnQ, cancelQ, spawning, save, board, hist>>

\* store.get raises, which _task_state takes for a task that is gone: the fire goes on with
\* the previous run unresolved.  (With a resolved one it is Proceed all the same.)
ReadFails(j) ==
    /\ LoopFree /\ fire[Loop(j)] = "check"
    /\ board[j][got[Loop(j)]] = "open"
    /\ unseen' = [unseen EXCEPT ![j] = @ \cup {got[Loop(j)]}]
    /\ fire' = [fire EXCEPT ![Loop(j)] = "enqueue"]
    /\ got' = [got EXCEPT ![Loop(j)] = NoTask]
    /\ UNCHANGED <<mem, row, add, rm, spawnQ, cancelQ, spawning, save, board,
                   lost, removed, early, byHand, stray, exits>>

\* run_now(j): force, so no check.
RunNow(j) ==
    /\ LoopFree /\ phase = "running" /\ j \in jobs
    /\ fire[ByHand(j)] = "none" /\ save[ByHand(j)] = "idle"
    /\ fire' = [fire EXCEPT ![ByHand(j)] = "enqueue"]
    /\ byHand' = byHand \cup {j}
    /\ UNCHANGED <<mem, row, add, rm, spawnQ, cancelQ, spawning, got, save, board,
                   lost, removed, early, unseen, stray, exits>>

\* runner.enqueue commits the task, in the board's database thread ...
EnqueueCommit(f, t) ==
    /\ fire[f] = "enqueue" /\ board[f[1]][t] = "free"
    /\ board' = [board EXCEPT ![f[1]][t] = "open"]
    /\ got' = [got EXCEPT ![f] = t]
    /\ fire' = [fire EXCEPT ![f] = "created"]
    /\ UNCHANGED <<mem, row, add, rm, spawnQ, cancelQ, spawning, save, hist>>

\* ... and the loop comes back from the await with the id and starts the save.
Record(f) ==
    /\ LoopFree /\ fire[f] = "created"
    /\ lastTask' = [lastTask EXCEPT ![f[1]] = got[f]]
    /\ got' = [got EXCEPT ![f] = NoTask]
    /\ fire' = [fire EXCEPT ![f] = "persist"]
    /\ save' = [save EXCEPT ![f] = "queued"]
    /\ UNCHANGED <<phase, jobs, tasks, row, add, rm, spawnQ, cancelQ, spawning, board, hist>>

\* runner.enqueue raises: last_status is an error, the stats are saved all the same.
EnqueueFails(f) ==
    /\ LoopFree /\ fire[f] = "enqueue"
    /\ fire' = [fire EXCEPT ![f] = "persist"]
    /\ save' = [save EXCEPT ![f] = "queued"]
    /\ UNCHANGED <<mem, row, add, rm, spawnQ, cancelQ, spawning, got, board, hist>>

\* Mutant: _fire swallows the cancellation and the run-loop goes on.
AbandonSwallowed(f) ==
    /\ LoopFree /\ fire[f] = "abandoned"
    /\ fire' = [fire EXCEPT ![f] = "sleep"]
    /\ save' = [save EXCEPT ![f] = "queued"]
    /\ UNCHANGED <<mem, row, add, rm, spawnQ, cancelQ, spawning, got, board, hist>>

\* A run-loop cancelled inside runner.enqueue: the commit it asked for happens
\* all the same, or never; the finally clause saves what last_task_id was before.
Abandon(f) ==
    /\ LoopFree /\ fire[f] = "abandoned"
    /\ \/ UNCHANGED <<board, lost>>
       \/ \E t \in Task :
            /\ board[f[1]][t] = "free"
            /\ board' = [board EXCEPT ![f[1]][t] = "open"]
            /\ lost' = [lost EXCEPT ![f[1]] = @ \cup {t}]
    /\ fire' = [fire EXCEPT ![f] = "none"]
    /\ save' = [save EXCEPT ![f] = "queued"]
    /\ UNCHANGED <<mem, row, add, rm, spawnQ, cancelQ, spawning, got,
                   removed, early, byHand, unseen, stray, exits>>

\* Mutant: the row is written without looking for the job.
SaveUnchecked(f) ==
    /\ save[f] = "queued" /\ LockFree
    /\ save' = [save EXCEPT ![f] = "locked"]
    /\ UNCHANGED <<mem, row, add, rm, spawnQ, cancelQ, spawning, fast, hist>>

\* _save_if_present, in a worker thread: under the lock, look for the job ...
SaveCheck(f) ==
    /\ save[f] = "queued" /\ LockFree
    /\ save' = [save EXCEPT ![f] = IF f[1] \in jobs THEN "locked" ELSE "idle"]
    /\ UNCHANGED <<mem, row, add, rm, spawnQ, cancelQ, spawning, fast, hist>>

\* Mutant: a failed write is tried again.
SaveRetries(f) ==
    /\ save[f] = "locked"
    /\ \/ WriteRow(f[1]) /\ save' = [save EXCEPT ![f] = "idle"]
       \/ save' = [save EXCEPT ![f] = "queued"] /\ UNCHANGED row
    /\ UNCHANGED <<mem, add, rm, spawnQ, cancelQ, spawning, fast, hist>>

\* ... and write its row, as last_task_id is now.  A failed write is only logged.
SaveWrite(f) ==
    /\ save[f] = "locked"
    /\ \/ WriteRow(f[1])
       \/ UNCHANGED row
    /\ save' = [save EXCEPT ![f] = "idle"]
    /\ UNCHANGED <<mem, add, rm, spawnQ, cancelQ, spawning, fast, hist>>

\* Back on the loop: the run-loop sleeps again, run_now returns.
FireEnds(f) ==
    /\ LoopFree /\ fire[f] = "persist" /\ save[f] = "idle"
    /\ fire' = [fire EXCEPT ![f] = IF f[2] = "auto" THEN "sleep" ELSE "none"]
    /\ UNCHANGED <<mem, row, add, rm, spawnQ, cancelQ, spawning, got, save, board, hist>>

----------------------------------------------------------------------------
\* The board, owned by the task runner and its users: a run is resolved (done,
\* failed or cancelled), and a user may retry it.
Resolve(j, t) ==
    /\ phase # "down" /\ board[j][t] = "open"
    /\ board' = [board EXCEPT ![j][t] = "closed"]
    /\ unseen' = [unseen EXCEPT ![j] = @ \ {t}]
    /\ UNCHANGED <<mem, row, add, rm, spawnQ, cancelQ, spawning, fire, got, save,
                   lost, removed, early, byHand, stray, exits>>

Retry(j, t) ==
    /\ phase # "down" /\ board[j][t] = "closed"
    /\ board' = [board EXCEPT ![j][t] = "open"]
    /\ byHand' = byHand \cup {j}
    /\ UNCHANGED <<mem, row, add, rm, spawnQ, cancelQ, spawning, fire, got, save,
                   lost, removed, early, unseen, stray, exits>>

Adding(j)   == \/ AddInsert(j) \/ AddSave(j) \/ AddSaveFails(j) \/ AddCheck(j)
               \/ AddStart(j) \/ AddRollback(j) \/ AddUndo(j)
Removing(j) == RemovePop(j) \/ RemoveDelete(j) \/ RemoveUnschedule(j)
Callback(j) == SpawnCheck(j) \/ Spawn(j) \/ Cancel(j)
Firing(f)   == \/ \E t \in Task : EnqueueCommit(f, t)
               \/ Record(f) \/ EnqueueFails(f) \/ Abandon(f)
               \/ SaveCheck(f) \/ SaveWrite(f) \/ FireEnds(f)
Checking(j) == Wake(j) \/ Skip(j) \/ Proceed(j) \/ ReadFails(j) \/ RunNow(j)
Board(j)    == \E t \in Task : Resolve(j, t) \/ Retry(j, t)

Next ==
    \/ Load \/ Start \/ Shutdown \/ Exit \/ \E j \in Job : ShutdownRaises(j)
    \/ \E j \in Job : Adding(j) \/ Removing(j) \/ Callback(j) \/ Checking(j) \/ Board(j)
    \/ \E f \in Fires : Firing(f)

Spec == Init /\ [][Next]_vars

\* While the process lives, its threads and its loop go on with what they have
\* begun.  A waiting thread gets _store_lock in the end (strong fairness): whoever
\* holds it is in one database call, and a fire comes back a cron period later.
\* Nobody has to add, remove or resolve anything, and the process may end.
Fairness ==
    /\ \A j \in Job :
        /\ WF_vars(AddCheck(j)) /\ WF_vars(AddStart(j)) /\ WF_vars(AddUndo(j))
        /\ WF_vars(AddRollback(j))
        /\ SF_vars(AddSave(j) \/ AddSaveFails(j))
        /\ WF_vars(RemoveDelete(j)) /\ WF_vars(RemoveUnschedule(j))
        /\ WF_vars(SpawnCheck(j)) /\ WF_vars(Spawn(j)) /\ WF_vars(Cancel(j))
        /\ WF_vars(Skip(j) \/ Proceed(j) \/ ReadFails(j))
    /\ \A f \in Fires :
        /\ WF_vars((\E t \in Task : EnqueueCommit(f, t)) \/ EnqueueFails(f))
        /\ WF_vars(Record(f)) /\ WF_vars(Abandon(f)) /\ WF_vars(FireEnds(f))
        /\ SF_vars(SaveCheck(f)) /\ WF_vars(SaveWrite(f))

FairSpec == Spec /\ Fairness

----------------------------------------------------------------------------
\* What the scheduler promises.

Open(j) == {t \in Task : board[j][t] = "open"}

\* What the schedule can know of its unresolved runs: their id reached its row, and no read
\* of their state failed.
Known(j) == Open(j) \ (lost[j] \cup unseen[j])

\* gh #78: a schedule that nobody has run by hand never has two runs unresolved at a
\* time, leaving out the runs it cannot know of: those whose id never reached its row, and
\* those whose state the board failed to tell a later fire.
OverlapProtection ==
    \A j \in Job \ byHand : \A t, u \in Known(j) : t = u

\* gh #82: on a started scheduler a registered schedule, once add_job is over, has
\* a run-loop or one about to be spawned.  Expressions with no next date aside.
Attended(j) == fire[Loop(j)] # "none" \/ j \in spawnQ \/ spawning = j
NoZombie ==
    phase = "running" => \A j \in jobs \ BadCron : add[j] \in {"new", "over"} => Attended(j)

\* gh #151: a registered schedule whose add_job got past its save is in the store,
\* so that it survives a crash at any later point.
LiveIsDurable ==
    \A j \in jobs \ BadCron : add[j] # "save" => row[j] # NoRow

\* A schedule deleted from the store stays deleted, whatever its fires still do
\* and however often the process restarts.  Removals that overtook the schedule's
\* own add_job aside.
DeletedStaysDeleted ==
    \A j \in removed \ early : j \notin jobs /\ row[j] = NoRow

\* A run-loop is always within reach of whoever is to end it: its schedule is registered in
\* a started scheduler and it is in _tasks, where remove_job and shutdown find it; or a
\* removal that has popped the schedule is still to look there; or its cancellation is queued.
\* Run-loops spawned after the removal or the shutdown that should have found them are left
\* out (remove_job looks at _tasks only for a registered schedule), and what a shutdown that
\* raised leaves behind.
Live(j) == fire[Loop(j)] \notin {"none", "abandoned"}
NoLostLoop ==
    phase # "broken" => \A j \in Job \ stray : Live(j) =>
        \/ j \in cancelQ
        \/ j \in tasks /\ (rm[j] # "idle" \/ (phase = "running" /\ j \in jobs))

\* A fire that got as far as runner.enqueue ends, whoever else is after the lock.
FireCompletes ==
    \A f \in Fires : fire[f] \in {"enqueue", "created", "persist"} ~> fire[f] \in {"none", "sleep"}

\* A run-loop whose cancellation remove_job has queued ends, wherever it is met.
CancelledLoopEnds ==
    \A j \in Job : j \in cancelQ ~> fire[Loop(j)] = "none"
=============================================================================

-------------------------- MODULE CronSchedulerInv --------------------------
(***************************************************************************)
(* The inductive invariant behind the safety properties of CronScheduler.  *)
(* Each part says what a step may rely on; TaskBoardProofs shows that      *)
(* together they survive every step.                                       *)
(***************************************************************************)
EXTENDS CronScheduler

\* A schedule not yet created has left no trace anywhere.
Fresh ==
    \A j \in Job : add[j] = "new" =>
        /\ j \notin jobs \cup tasks \cup cancelQ
        /\ row[j] = NoRow /\ rm[j] = "idle"
        /\ \A f \in Fires : f[1] = j => save[f] # "locked"

\* A schedule being removed or rolled back is registered no more.
Leaving ==
    \A j \in Job : rm[j] # "idle" \/ j \in cancelQ \/ add[j] = "rollback" => j \notin jobs

\* _store_lock: no fire writes a row while a removal deletes one.
StoreLocked ==
    \A j \in Job : rm[j] = "delete" => \A f \in Fires : save[f] # "locked"

\* What makes a deletion final: its add_job is over and no write of its row is
\* under way.
Deleted ==
    /\ \A j \in Job : rm[j] = "delete" /\ j \notin early => add[j] = "over"
    /\ \A j \in removed \ early :
        /\ j \notin jobs /\ row[j] = NoRow /\ add[j] = "over"
        /\ \A f \in Fires : f[1] = j => save[f] # "locked"

\* Before start() there is nothing on the loop, and before the load no worker
\* thread either.
Quiet ==
    /\ phase \in {"down", "loaded"} =>
        /\ tasks = {} /\ spawnQ = {} /\ cancelQ = {} /\ spawning = NoJob
        /\ \A f \in Fires : fire[f] = "none"
        /\ \A j \in Job : add[j] \in {"new", "over"}
    /\ phase = "down" => /\ \A j \in Job : rm[j] = "idle"
                         /\ \A f \in Fires : save[f] = "idle"

\* A schedule is spawned once: as long as the spawn is still to come, it has no
\* run-loop.
SpawnOnce ==
    \A j \in Job :
        /\ add[j] \in {"new", "save", "check", "start"} => fire[Loop(j)] = "none"
        /\ j \in spawnQ => fire[Loop(j)] = "none" /\ add[j] = "over"
        /\ spawning = j => fire[Loop(j)] = "none" /\ add[j] = "over" /\ j \notin spawnQ

\* While the scheduler runs, a registered schedule listed in _tasks has a live
\* run-loop, and none that is being cancelled.
Tracked ==
    phase = "running" => \A j \in jobs :
        /\ j \in tasks => fire[Loop(j)] # "none"
        /\ fire[Loop(j)] # "abandoned"

\* What an unattended schedule knows of its unresolved runs is where it will look for them.
RecordedFor(j) ==
    /\ fire[ByHand(j)] = "none"
    /\ phase = "down" => \A t \in Known(j) : t = row[j]
    /\ phase # "down" => \A t \in Known(j) :
          t = lastTask[j] \/ (fire[Loop(j)] = "created" /\ t = got[Loop(j)])
    /\ fire[Loop(j)] = "check" => got[Loop(j)] = lastTask[j]
    /\ fire[Loop(j)] = "enqueue" => Known(j) = {}
    /\ fire[Loop(j)] = "created" => \A t \in Known(j) : t = got[Loop(j)]
Recorded == \A j \in Job \ byHand : RecordedFor(j)

IInv ==
    /\ TypeOK
    /\ Fresh /\ Leaving /\ StoreLocked /\ Deleted /\ LiveIsDurable
    /\ NoLostLoop /\ Quiet /\ SpawnOnce /\ Tracked /\ NoZombie
    /\ Recorded
=============================================================================

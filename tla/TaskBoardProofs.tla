-------------------------- MODULE TaskBoardProofs --------------------------
(***************************************************************************)
(* What the two halves of the task board keep.                             *)
(*                                                                         *)
(* The store, for any number of tasks, workers, requests and faults: a     *)
(* task is in the hands of one worker, what has been returned is on the    *)
(* disk, an ongoing task has its worker, and the store implements          *)
(* TaskQueue.                                                              *)
(*                                                                         *)
(* The scheduler, for every set of schedules, tasks and manual schedules,  *)
(* and every number of restarts.  Its invariants are grouped by what they  *)
(* rest on: who holds the lock, which schedules are on their way out, what *)
(* a fire knows about the board.                                           *)
(***************************************************************************)
EXTENDS TaskStoreInv, CronSchedulerInv, TLAPS

----------------------------------------------------------------------------
\* The store.

LEMMA SInvInit == StoreInit => SInv
BY StoreAssumption DEF StoreInit, SInv, Claims, StoreTypeOK, Locked, Working, Booting, NotYet, NotQueued,
   NoDoubleClaim, ReturnedIsDurable, NoOrphan, Client, State, Pc, Has

\* Every variable keeps its type.
LEMMA StoreTypeStep == StoreTypeOK /\ Working /\ [StoreNext]_storeVars => (StoreTypeOK)'
<1> SUFFICES ASSUME StoreTypeOK /\ Working, [StoreNext]_storeVars PROVE (StoreTypeOK)'
  OBVIOUS
<1> USE StoreAssumption DEF StoreTypeOK, Working, Client, State, Pc
<1>1. CASE Setup
  BY <1>1 DEF Setup, Oldest, Requeued, rows, bounds, history
<1>2. CASE Requeue
  BY <1>2 DEF Requeue, Requeued, Oldest, Requeued, rows, bounds, history
<1>3. CASE RequeueEnds
  BY <1>3 DEF RequeueEnds, Oldest, Requeued, rows, bounds, history
<1>4. CASE Stop
  BY <1>4 DEF Stop, Oldest, Requeued, rows, bounds, history
<1>5. ASSUME NEW c \in Caller, NEW t \in TaskId, Insert(c, t) PROVE (StoreTypeOK)'
  BY <1>5 DEF Insert, Goto, At, Oldest, Requeued, rows, bounds, history
<1>6. ASSUME NEW c \in Caller, NEW t \in TaskId, Decide(c, t) PROVE (StoreTypeOK)'
  BY <1>6 DEF Decide, Goto, At, Oldest, Requeued, rows, bounds, history
<1>7. ASSUME NEW c \in Client, Write(c) PROVE (StoreTypeOK)'
  <2>1. task[c] \in TaskId
    BY <1>7 DEF Write, At
  <2>2. PICK s \in Settled : /\ work' = [work EXCEPT ![task[c]] = s]
                             /\ again' \in {again, again \cup {task[c]}}
    BY <1>7 DEF Write
  <2>3. again' \subseteq TaskId
    BY <2>1, <2>2
  <2>4. work' \in [TaskId -> State \cup {None}]
    BY <2>1, <2>2
  <2> QED BY <1>7, <2>1, <2>3, <2>4 DEF Write, Goto, bounds
<1>8. ASSUME NEW c \in Client, Commit(c) PROVE (StoreTypeOK)'
  BY <1>8 DEF Commit, Goto, At, Oldest, Requeued, rows, bounds, history
<1>9. ASSUME NEW c \in Client, Return(c) PROVE (StoreTypeOK)'
  BY <1>9 DEF Return, Goto, At, Oldest, Requeued, rows, bounds, history
<1>10. ASSUME NEW c \in Client, BreakOff(c) PROVE (StoreTypeOK)'
  <2>1. task[c] \in TaskId
    BY <1>10 DEF BreakOff
  <2>2. dropped' \subseteq TaskId
    BY <1>10, <2>1 DEF BreakOff
  <2>3. lock' \in Worker \cup {None}
    BY <1>10 DEF BreakOff
  <2> QED BY <1>10, <2>2, <2>3 DEF BreakOff, Goto, rows
<1>11. ASSUME NEW w \in Worker, Select(w) PROVE (StoreTypeOK)'
  BY <1>11 DEF Select, Goto, At, Oldest, Requeued, rows, bounds, history
<1>12. ASSUME NEW w \in Worker, Mark(w) PROVE (StoreTypeOK)'
  BY <1>12 DEF Mark, Goto, At, Oldest, Requeued, rows, bounds, history
<1>13. ASSUME NEW w \in Worker, ClaimCommit(w) PROVE (StoreTypeOK)'
  BY <1>13 DEF ClaimCommit, Goto, At, Oldest, Requeued, rows, bounds, history
<1>14. ASSUME NEW w \in Worker, Take(w) PROVE (StoreTypeOK)'
  BY <1>14 DEF Take, Goto, At, Oldest, Requeued, rows, bounds, history
<1>15. ASSUME NEW w \in Worker, RunEnds(w) PROVE (StoreTypeOK)'
  BY <1>15 DEF RunEnds, Goto, At, Oldest, Requeued, rows, bounds, history
<1>16. CASE UNCHANGED storeVars
  BY <1>16 DEF storeVars, rows, bounds, history, Oldest, Requeued
<1> QED BY <1>1, <1>2, <1>3, <1>4, <1>5, <1>6, <1>7, <1>8, <1>9, <1>10, <1>11, <1>12, <1>13, <1>14, <1>15, <1>16 DEF StoreNext, Operate, Claiming

\* The lock is kept.
LEMMA LockStep == StoreTypeOK /\ Locked /\ [StoreNext]_storeVars => (Locked)'
<1> SUFFICES ASSUME StoreTypeOK /\ Locked, [StoreNext]_storeVars PROVE (Locked)'
  OBVIOUS
<1> USE StoreAssumption DEF StoreTypeOK, Locked, Client, State, Pc
<1>1. CASE Setup
  BY <1>1 DEF Setup, Oldest, rows, bounds, history
<1>2. CASE Requeue
  BY <1>2 DEF Requeue, Requeued, Oldest, rows, bounds, history
<1>3. CASE RequeueEnds
  BY <1>3 DEF RequeueEnds, Oldest, rows, bounds, history
<1>4. CASE Stop
  BY <1>4 DEF Stop, Oldest, rows, bounds, history
<1>5. ASSUME NEW c \in Caller, NEW t \in TaskId, Insert(c, t) PROVE (Locked)'
  BY <1>5 DEF Insert, Goto, At, Oldest, rows, bounds, history
<1>6. ASSUME NEW c \in Caller, NEW t \in TaskId, Decide(c, t) PROVE (Locked)'
  BY <1>6 DEF Decide, Goto, At, Oldest, rows, bounds, history
<1>7. ASSUME NEW c \in Client, Write(c) PROVE (Locked)'
  BY <1>7 DEF Write, Goto, At, Oldest, rows, bounds, history
<1>8. ASSUME NEW c \in Client, Commit(c) PROVE (Locked)'
  BY <1>8 DEF Commit, Goto, At, Oldest, rows, bounds, history
<1>9. ASSUME NEW c \in Client, Return(c) PROVE (Locked)'
  BY <1>9 DEF Return, Goto, At, Oldest, rows, bounds, history
<1>10. ASSUME NEW c \in Client, BreakOff(c) PROVE (Locked)'
  BY <1>10 DEF BreakOff, Goto, At, Oldest, rows, bounds, history
<1>11. ASSUME NEW w \in Worker, Select(w) PROVE (Locked)'
  BY <1>11 DEF Select, Goto, At, Oldest, rows, bounds, history
<1>12. ASSUME NEW w \in Worker, Mark(w) PROVE (Locked)'
  BY <1>12 DEF Mark, Goto, At, Oldest, rows, bounds, history
<1>13. ASSUME NEW w \in Worker, ClaimCommit(w) PROVE (Locked)'
  BY <1>13 DEF ClaimCommit, Goto, At, Oldest, rows, bounds, history
<1>14. ASSUME NEW w \in Worker, Take(w) PROVE (Locked)'
  BY <1>14 DEF Take, Goto, At, Oldest, rows, bounds, history
<1>15. ASSUME NEW w \in Worker, RunEnds(w) PROVE (Locked)'
  BY <1>15 DEF RunEnds, Goto, At, Oldest, rows, bounds, history
<1>16. CASE UNCHANGED storeVars
  BY <1>16 DEF storeVars, rows, bounds, history, Oldest
<1> QED BY <1>1, <1>2, <1>3, <1>4, <1>5, <1>6, <1>7, <1>8, <1>9, <1>10, <1>11, <1>12, <1>13, <1>14, <1>15, <1>16 DEF StoreNext, Operate, Claiming

\* Tasks at work exist.
LEMMA WorkStep == StoreTypeOK /\ Locked /\ Working /\ Booting /\ [StoreNext]_storeVars => (Working)'
<1> SUFFICES ASSUME StoreTypeOK /\ Locked /\ Working /\ Booting, [StoreNext]_storeVars PROVE (Working)'
  OBVIOUS
<1> USE StoreAssumption DEF StoreTypeOK, Working, Locked, Booting, Client, State, Pc
<1>1. CASE Setup
  BY <1>1 DEF Setup, Oldest, Requeued, rows, bounds, history
<1>2. CASE Requeue
  BY <1>2 DEF Requeue, Requeued, Oldest, Requeued, rows, bounds, history
<1>3. CASE RequeueEnds
  BY <1>3 DEF RequeueEnds, Oldest, Requeued, rows, bounds, history
<1>4. CASE Stop
  BY <1>4 DEF Stop, Oldest, Requeued, rows, bounds, history
<1>5. ASSUME NEW c \in Caller, NEW t \in TaskId, Insert(c, t) PROVE (Working)'
  BY <1>5 DEF Insert, Goto, At, Oldest, Requeued, rows, bounds, history
<1>6. ASSUME NEW c \in Caller, NEW t \in TaskId, Decide(c, t) PROVE (Working)'
  BY <1>6 DEF Decide, Goto, At, Oldest, Requeued, rows, bounds, history
<1>7. ASSUME NEW c \in Client, Write(c) PROVE (Working)'
  BY <1>7 DEF Write, Goto, At, Oldest, Requeued, rows, bounds, history
<1>8. ASSUME NEW c \in Client, Commit(c) PROVE (Working)'
  BY <1>8 DEF Commit, Goto, At, Oldest, Requeued, rows, bounds, history
<1>9. ASSUME NEW c \in Client, Return(c) PROVE (Working)'
  BY <1>9 DEF Return, Goto, At, Oldest, Requeued, rows, bounds, history
<1>10. ASSUME NEW c \in Client, BreakOff(c) PROVE (Working)'
  BY <1>10 DEF BreakOff, Goto, At, Oldest, Requeued, rows, bounds, history
<1>11. ASSUME NEW w \in Worker, Select(w) PROVE (Working)'
  BY <1>11 DEF Select, Goto, At, Oldest, Requeued, rows, bounds, history
<1>12. ASSUME NEW w \in Worker, Mark(w) PROVE (Working)'
  BY <1>12 DEF Mark, Goto, At, Oldest, Requeued, rows, bounds, history
<1>13. ASSUME NEW w \in Worker, ClaimCommit(w) PROVE (Working)'
  BY <1>13 DEF ClaimCommit, Goto, At, Oldest, Requeued, rows, bounds, history
<1>14. ASSUME NEW w \in Worker, Take(w) PROVE (Working)'
  BY <1>14 DEF Take, Goto, At, Oldest, Requeued, rows, bounds, history
<1>15. ASSUME NEW w \in Worker, RunEnds(w) PROVE (Working)'
  BY <1>15 DEF RunEnds, Goto, At, Oldest, Requeued, rows, bounds, history
<1>16. CASE UNCHANGED storeVars
  BY <1>16 DEF storeVars, rows, bounds, history, Oldest, Requeued
<1> QED BY <1>1, <1>2, <1>3, <1>4, <1>5, <1>6, <1>7, <1>8, <1>9, <1>10, <1>11, <1>12, <1>13, <1>14, <1>15, <1>16 DEF StoreNext, Operate, Claiming

\* The start comes first.
LEMMA BootStep == StoreTypeOK /\ Booting /\ [StoreNext]_storeVars => (Booting)'
<1> SUFFICES ASSUME StoreTypeOK /\ Booting, [StoreNext]_storeVars PROVE (Booting)'
  OBVIOUS
<1> USE StoreAssumption DEF StoreTypeOK, Booting, Client, State, Pc
<1>1. CASE Setup
  BY <1>1 DEF Setup, Requeued, rows, bounds, history
<1>2. CASE Requeue
  BY <1>2 DEF Requeue, Requeued, Requeued, rows, bounds, history
<1>3. CASE RequeueEnds
  BY <1>3 DEF RequeueEnds, Requeued, rows, bounds, history
<1>4. CASE Stop
  BY <1>4 DEF Stop, Requeued, rows, bounds, history
<1>5. ASSUME NEW c \in Caller, NEW t \in TaskId, Insert(c, t) PROVE (Booting)'
  BY <1>5 DEF Insert, Goto, At, Requeued, rows, bounds, history
<1>6. ASSUME NEW c \in Caller, NEW t \in TaskId, Decide(c, t) PROVE (Booting)'
  BY <1>6 DEF Decide, Goto, At, Requeued, rows, bounds, history
<1>7. ASSUME NEW c \in Client, Write(c) PROVE (Booting)'
  BY <1>7 DEF Write, Goto, At, Requeued, rows, bounds, history
<1>8. ASSUME NEW c \in Client, Commit(c) PROVE (Booting)'
  BY <1>8 DEF Commit, Goto, At, Requeued, rows, bounds, history
<1>9. ASSUME NEW c \in Client, Return(c) PROVE (Booting)'
  BY <1>9 DEF Return, Goto, At, Requeued, rows, bounds, history
<1>10. ASSUME NEW c \in Client, BreakOff(c) PROVE (Booting)'
  BY <1>10 DEF BreakOff, Goto, At, Requeued, rows, bounds, history
<1>11. ASSUME NEW w \in Worker, Select(w) PROVE (Booting)'
  BY <1>11 DEF Select, Goto, At, Requeued, rows, bounds, history
<1>12. ASSUME NEW w \in Worker, Mark(w) PROVE (Booting)'
  BY <1>12 DEF Mark, Goto, At, Requeued, rows, bounds, history
<1>13. ASSUME NEW w \in Worker, ClaimCommit(w) PROVE (Booting)'
  BY <1>13 DEF ClaimCommit, Goto, At, Requeued, rows, bounds, history
<1>14. ASSUME NEW w \in Worker, Take(w) PROVE (Booting)'
  BY <1>14 DEF Take, Goto, At, Requeued, rows, bounds, history
<1>15. ASSUME NEW w \in Worker, RunEnds(w) PROVE (Booting)'
  BY <1>15 DEF RunEnds, Goto, At, Requeued, rows, bounds, history
<1>16. CASE UNCHANGED storeVars
  BY <1>16 DEF storeVars, rows, bounds, history, Requeued
<1> QED BY <1>1, <1>2, <1>3, <1>4, <1>5, <1>6, <1>7, <1>8, <1>9, <1>10, <1>11, <1>12, <1>13, <1>14, <1>15, <1>16 DEF StoreNext, Operate, Claiming

\* A selected task waits for its UPDATE.
LEMMA NotYetStep == Claims /\ [StoreNext]_storeVars => (NotYet)'
<1> SUFFICES ASSUME Claims, [StoreNext]_storeVars PROVE (NotYet)'
  OBVIOUS
<1> USE StoreAssumption DEF Claims, StoreTypeOK, Locked, Working, Booting, NotYet, Client, State, Pc
<1>1. CASE Setup
  BY <1>1 DEF Setup, Oldest, Requeued, rows, bounds, history
<1>2. CASE Requeue
  BY <1>2 DEF Requeue, Requeued, Oldest, Requeued, rows, bounds, history
<1>3. CASE RequeueEnds
  BY <1>3 DEF RequeueEnds, Oldest, Requeued, rows, bounds, history
<1>4. CASE Stop
  BY <1>4 DEF Stop, Oldest, Requeued, rows, bounds, history
<1>5. ASSUME NEW c \in Caller, NEW t \in TaskId, Insert(c, t) PROVE (NotYet)'
  BY <1>5 DEF Insert, Goto, At, Oldest, Requeued, rows, bounds, history
<1>6. ASSUME NEW c \in Caller, NEW t \in TaskId, Decide(c, t) PROVE (NotYet)'
  BY <1>6 DEF Decide, Goto, At, Oldest, Requeued, rows, bounds, history
<1>7. ASSUME NEW c \in Client, Write(c) PROVE (NotYet)'
  BY <1>7 DEF Write, Goto, At, Oldest, Requeued, rows, bounds, history
<1>8. ASSUME NEW c \in Client, Commit(c) PROVE (NotYet)'
  BY <1>8 DEF Commit, Goto, At, Oldest, Requeued, rows, bounds, history
<1>9. ASSUME NEW c \in Client, Return(c) PROVE (NotYet)'
  BY <1>9 DEF Return, Goto, At, Oldest, Requeued, rows, bounds, history
<1>10. ASSUME NEW c \in Client, BreakOff(c) PROVE (NotYet)'
  BY <1>10 DEF BreakOff, Goto, At, Oldest, Requeued, rows, bounds, history
<1>11. ASSUME NEW w \in Worker, Select(w) PROVE (NotYet)'
  BY <1>11 DEF Select, Goto, At, Oldest, Requeued, rows, bounds, history
<1>12. ASSUME NEW w \in Worker, Mark(w) PROVE (NotYet)'
  BY <1>12 DEF Mark, Goto, At, Oldest, Requeued, rows, bounds, history
<1>13. ASSUME NEW w \in Worker, ClaimCommit(w) PROVE (NotYet)'
  BY <1>13 DEF ClaimCommit, Goto, At, Oldest, Requeued, rows, bounds, history
<1>14. ASSUME NEW w \in Worker, Take(w) PROVE (NotYet)'
  BY <1>14 DEF Take, Goto, At, Oldest, Requeued, rows, bounds, history
<1>15. ASSUME NEW w \in Worker, RunEnds(w) PROVE (NotYet)'
  BY <1>15 DEF RunEnds, Goto, At, Oldest, Requeued, rows, bounds, history
<1>16. CASE UNCHANGED storeVars
  BY <1>16 DEF storeVars, rows, bounds, history, Oldest, Requeued
<1> QED BY <1>1, <1>2, <1>3, <1>4, <1>5, <1>6, <1>7, <1>8, <1>9, <1>10, <1>11, <1>12, <1>13, <1>14, <1>15, <1>16 DEF StoreNext, Operate, Claiming

\* A claimed task stays claimed.
LEMMA NotQueuedStep == Claims /\ [StoreNext]_storeVars => (NotQueued)'
<1> SUFFICES ASSUME Claims, [StoreNext]_storeVars PROVE (NotQueued)'
  OBVIOUS
<1> USE StoreAssumption DEF Claims, StoreTypeOK, Locked, Working, Booting, NotYet, NotQueued, Client, State, Pc
<1>1. CASE Setup
  BY <1>1 DEF Setup, Oldest, Requeued, Has, Held, rows, bounds, history
<1>2. CASE Requeue
  BY <1>2 DEF Requeue, Requeued, Oldest, Requeued, Has, Held, rows, bounds, history
<1>3. CASE RequeueEnds
  BY <1>3 DEF RequeueEnds, Oldest, Requeued, Has, Held, rows, bounds, history
<1>4. CASE Stop
  BY <1>4 DEF Stop, Oldest, Requeued, Has, Held, rows, bounds, history
<1>5. ASSUME NEW c \in Caller, NEW t \in TaskId, Insert(c, t) PROVE (NotQueued)'
  BY <1>5 DEF Insert, Goto, At, Oldest, Requeued, Has, Held, rows, bounds, history
<1>6. ASSUME NEW c \in Caller, NEW t \in TaskId, Decide(c, t) PROVE (NotQueued)'
  BY <1>6 DEF Decide, Goto, At, Oldest, Requeued, Has, Held, rows, bounds, history
<1>7. ASSUME NEW c \in Client, Write(c) PROVE (NotQueued)'
  BY <1>7 DEF Write, Goto, At, Oldest, Requeued, Has, Held, rows, bounds, history
<1>8. ASSUME NEW c \in Client, Commit(c) PROVE (NotQueued)'
  BY <1>8 DEF Commit, Goto, At, Oldest, Requeued, Has, Held, rows, bounds, history
<1>9. ASSUME NEW c \in Client, Return(c) PROVE (NotQueued)'
  BY <1>9 DEF Return, Goto, At, Oldest, Requeued, Has, Held, rows, bounds, history
<1>10. ASSUME NEW c \in Client, BreakOff(c) PROVE (NotQueued)'
  BY <1>10 DEF BreakOff, Goto, At, Oldest, Requeued, Has, Held, rows, bounds, history
<1>11. ASSUME NEW w \in Worker, Select(w) PROVE (NotQueued)'
  BY <1>11 DEF Select, Goto, At, Oldest, Requeued, Has, Held, rows, bounds, history
<1>12. ASSUME NEW w \in Worker, Mark(w) PROVE (NotQueued)'
  BY <1>12 DEF Mark, Goto, At, Oldest, Requeued, Has, Held, rows, bounds, history
<1>13. ASSUME NEW w \in Worker, ClaimCommit(w) PROVE (NotQueued)'
  BY <1>13 DEF ClaimCommit, Goto, At, Oldest, Requeued, Has, Held, rows, bounds, history
<1>14. ASSUME NEW w \in Worker, Take(w) PROVE (NotQueued)'
  BY <1>14 DEF Take, Goto, At, Oldest, Requeued, Has, Held, rows, bounds, history
<1>15. ASSUME NEW w \in Worker, RunEnds(w) PROVE (NotQueued)'
  BY <1>15 DEF RunEnds, Goto, At, Oldest, Requeued, Has, Held, rows, bounds, history
<1>16. CASE UNCHANGED storeVars
  BY <1>16 DEF storeVars, rows, bounds, history, Oldest, Requeued, Has, Held
<1> QED BY <1>1, <1>2, <1>3, <1>4, <1>5, <1>6, <1>7, <1>8, <1>9, <1>10, <1>11, <1>12, <1>13, <1>14, <1>15, <1>16 DEF StoreNext, Operate, Claiming

\* A queued task is in nobody's hands.
LEMMA ClaimStep == Claims /\ [StoreNext]_storeVars => (NoDoubleClaim)'
<1> SUFFICES ASSUME Claims, [StoreNext]_storeVars PROVE (NoDoubleClaim)'
  OBVIOUS
<1> USE StoreAssumption DEF Claims, StoreTypeOK, Locked, Working, Booting, NotYet, NotQueued, NoDoubleClaim, Has, Client, State, Pc
<1>1. CASE Setup
  BY <1>1 DEF Setup, Oldest, Held, rows, bounds, history
<1>2. CASE Requeue
  BY <1>2 DEF Requeue, Requeued, Oldest, Held, rows, bounds, history
<1>3. CASE RequeueEnds
  BY <1>3 DEF RequeueEnds, Oldest, Held, rows, bounds, history
<1>4. CASE Stop
  BY <1>4 DEF Stop, Oldest, Held, rows, bounds, history
<1>5. ASSUME NEW c \in Caller, NEW t \in TaskId, Insert(c, t) PROVE (NoDoubleClaim)'
  BY <1>5 DEF Insert, Goto, At, Oldest, Held, rows, bounds, history
<1>6. ASSUME NEW c \in Caller, NEW t \in TaskId, Decide(c, t) PROVE (NoDoubleClaim)'
  BY <1>6 DEF Decide, Goto, At, Oldest, Held, rows, bounds, history
<1>7. ASSUME NEW c \in Client, Write(c) PROVE (NoDoubleClaim)'
  BY <1>7 DEF Write, Goto, At, Oldest, Held, rows, bounds, history
<1>8. ASSUME NEW c \in Client, Commit(c) PROVE (NoDoubleClaim)'
  BY <1>8 DEF Commit, Goto, At, Oldest, Held, rows, bounds, history
<1>9. ASSUME NEW c \in Client, Return(c) PROVE (NoDoubleClaim)'
  BY <1>9 DEF Return, Goto, At, Oldest, Held, rows, bounds, history
<1>10. ASSUME NEW c \in Client, BreakOff(c) PROVE (NoDoubleClaim)'
  BY <1>10 DEF BreakOff, Goto, At, Oldest, Held, rows, bounds, history
<1>11. ASSUME NEW w \in Worker, Select(w) PROVE (NoDoubleClaim)'
  <2>1. PICK t \in TaskId : Oldest(t) /\ Goto(w, "selected", t)
    BY <1>11 DEF Select
  <2>2. \A v \in Worker : ~(pc[v] \in {"selected", "claimed", "taken"})
    BY <1>11 DEF Select
  <2>3. \A v \in Worker : Has(v, t) => t \in again
    BY <2>1, <2>2 DEF Oldest
  <2>4. \A v \in Worker, u \in TaskId : v # w => (Has(v, u)' <=> Has(v, u))
    BY <2>1 DEF Goto
  <2>5. \A u \in TaskId : Has(w, u)' <=> u = t
    BY <2>1 DEF Goto
  <2>6. again' = again
    BY <1>11 DEF Select, history
  <2>7. \A v \in Worker : v # w /\ Has(v, t)' => t \in again'
    BY <2>3, <2>4, <2>6
  <2> QED BY <2>4, <2>5, <2>6, <2>7
<1>12. ASSUME NEW w \in Worker, Mark(w) PROVE (NoDoubleClaim)'
  BY <1>12 DEF Mark, Goto, At, Oldest, Held, rows, bounds, history
<1>13. ASSUME NEW w \in Worker, ClaimCommit(w) PROVE (NoDoubleClaim)'
  BY <1>13 DEF ClaimCommit, Goto, At, Oldest, Held, rows, bounds, history
<1>14. ASSUME NEW w \in Worker, Take(w) PROVE (NoDoubleClaim)'
  BY <1>14 DEF Take, Goto, At, Oldest, Held, rows, bounds, history
<1>15. ASSUME NEW w \in Worker, RunEnds(w) PROVE (NoDoubleClaim)'
  BY <1>15 DEF RunEnds, Goto, At, Oldest, Held, rows, bounds, history
<1>16. CASE UNCHANGED storeVars
  BY <1>16 DEF storeVars, rows, bounds, history, Oldest, Held
<1> QED BY <1>1, <1>2, <1>3, <1>4, <1>5, <1>6, <1>7, <1>8, <1>9, <1>10, <1>11, <1>12, <1>13, <1>14, <1>15, <1>16 DEF StoreNext, Operate, Claiming

\* What is not on the disk belongs to an operation at work.
LEMMA DurableStep == Claims /\ ReturnedIsDurable /\ [StoreNext]_storeVars => (ReturnedIsDurable)'
<1> SUFFICES ASSUME Claims /\ ReturnedIsDurable, [StoreNext]_storeVars PROVE (ReturnedIsDurable)'
  OBVIOUS
<1> USE StoreAssumption DEF Claims, StoreTypeOK, Locked, Working, Booting, ReturnedIsDurable, Client, State, Pc
<1>1. CASE Setup
  BY <1>1 DEF Setup, rows, bounds, history
<1>2. CASE Requeue
  BY <1>2 DEF Requeue, Requeued, rows, bounds, history
<1>3. CASE RequeueEnds
  BY <1>3 DEF RequeueEnds, rows, bounds, history
<1>4. CASE Stop
  BY <1>4 DEF Stop, rows, bounds, history
<1>5. ASSUME NEW c \in Caller, NEW t \in TaskId, Insert(c, t) PROVE (ReturnedIsDurable)'
  BY <1>5 DEF Insert, Goto, At, rows, bounds, history
<1>6. ASSUME NEW c \in Caller, NEW t \in TaskId, Decide(c, t) PROVE (ReturnedIsDurable)'
  BY <1>6 DEF Decide, Goto, At, rows, bounds, history
<1>7. ASSUME NEW c \in Client, Write(c) PROVE (ReturnedIsDurable)'
  BY <1>7 DEF Write, Goto, At, rows, bounds, history
<1>8. ASSUME NEW c \in Client, Commit(c) PROVE (ReturnedIsDurable)'
  BY <1>8 DEF Commit, Goto, At, rows, bounds, history
<1>9. ASSUME NEW c \in Client, Return(c) PROVE (ReturnedIsDurable)'
  BY <1>9 DEF Return, Goto, At, rows, bounds, history
<1>10. ASSUME NEW c \in Client, BreakOff(c) PROVE (ReturnedIsDurable)'
  BY <1>10 DEF BreakOff, Goto, At, rows, bounds, history
<1>11. ASSUME NEW w \in Worker, Select(w) PROVE (ReturnedIsDurable)'
  <2>1. PICK t \in TaskId : Goto(w, "selected", t)
    BY <1>11 DEF Select
  <2>2. \A c \in Client : pc[c] \in {"written", "claimed"} => pc'[c] = pc[c] /\ task'[c] = task[c]
    BY <1>11, <2>1 DEF Select, At, Goto
  <2>3. UNCHANGED <<work, disk, stage, dropped>>
    BY <1>11 DEF Select, rows, history
  <2>4. ASSUME NEW u \in TaskId \ dropped, work[u] # disk[u], stage = "serving"
        PROVE  \E c \in Client : pc'[c] \in {"written", "claimed"} /\ task'[c] = u
    BY <2>2, <2>4
  <2> QED BY <2>3, <2>4
<1>12. ASSUME NEW w \in Worker, Mark(w) PROVE (ReturnedIsDurable)'
  BY <1>12 DEF Mark, Goto, At, rows, bounds, history
<1>13. ASSUME NEW w \in Worker, ClaimCommit(w) PROVE (ReturnedIsDurable)'
  BY <1>13 DEF ClaimCommit, Goto, At, rows, bounds, history
<1>14. ASSUME NEW w \in Worker, Take(w) PROVE (ReturnedIsDurable)'
  BY <1>14 DEF Take, Goto, At, rows, bounds, history
<1>15. ASSUME NEW w \in Worker, RunEnds(w) PROVE (ReturnedIsDurable)'
  BY <1>15 DEF RunEnds, Goto, At, rows, bounds, history
<1>16. CASE UNCHANGED storeVars
  BY <1>16 DEF storeVars, rows, bounds, history
<1> QED BY <1>1, <1>2, <1>3, <1>4, <1>5, <1>6, <1>7, <1>8, <1>9, <1>10, <1>11, <1>12, <1>13, <1>14, <1>15, <1>16 DEF StoreNext, Operate, Claiming

\* An ongoing task has its worker.
LEMMA OrphanStep == Claims /\ NoOrphan /\ [StoreNext]_storeVars => (NoOrphan)'
<1> SUFFICES ASSUME Claims /\ NoOrphan, [StoreNext]_storeVars PROVE (NoOrphan)'
  OBVIOUS
<1> USE StoreAssumption DEF Claims, StoreTypeOK, Locked, Working, Booting, NoOrphan, Client, State, Pc
<1>1. CASE Setup
  BY <1>1 DEF Setup, Requeued, rows, bounds, history
<1>2. CASE Requeue
  BY <1>2 DEF Requeue, Requeued, Requeued, rows, bounds, history
<1>3. CASE RequeueEnds
  BY <1>3 DEF RequeueEnds, Requeued, rows, bounds, history
<1>4. CASE Stop
  BY <1>4 DEF Stop, Requeued, rows, bounds, history
<1>5. ASSUME NEW c \in Caller, NEW t \in TaskId, Insert(c, t) PROVE (NoOrphan)'
  BY <1>5 DEF Insert, Goto, At, Requeued, rows, bounds, history
<1>6. ASSUME NEW c \in Caller, NEW t \in TaskId, Decide(c, t) PROVE (NoOrphan)'
  BY <1>6 DEF Decide, Goto, At, Requeued, rows, bounds, history
<1>7. ASSUME NEW c \in Client, Write(c) PROVE (NoOrphan)'
  BY <1>7 DEF Write, Goto, At, Requeued, rows, bounds, history
<1>8. ASSUME NEW c \in Client, Commit(c) PROVE (NoOrphan)'
  BY <1>8 DEF Commit, Goto, At, Requeued, rows, bounds, history
<1>9. ASSUME NEW c \in Client, Return(c) PROVE (NoOrphan)'
  BY <1>9 DEF Return, Goto, At, Requeued, rows, bounds, history
<1>10. ASSUME NEW c \in Client, BreakOff(c) PROVE (NoOrphan)'
  BY <1>10 DEF BreakOff, Goto, At, Requeued, rows, bounds, history
<1>11. ASSUME NEW w \in Worker, Select(w) PROVE (NoOrphan)'
  <2>1. PICK t \in TaskId : Goto(w, "selected", t)
    BY <1>11 DEF Select
  <2>2. \A v \in Worker : pc[v] # "idle" => pc'[v] = pc[v] /\ task'[v] = task[v]
    BY <1>11, <2>1 DEF Select, At, Goto
  <2>3. UNCHANGED <<work, stage, dropped>>
    BY <1>11 DEF Select, rows, history
  <2>4. ASSUME NEW u \in TaskId \ dropped, work[u] = "ongoing", stage = "serving"
        PROVE  \E v \in Worker : /\ pc'[v] \in {"claimed", "taken", "running", "decided"}
                                  /\ task'[v] = u
    BY <2>2, <2>4
  <2> QED BY <2>3, <2>4
<1>12. ASSUME NEW w \in Worker, Mark(w) PROVE (NoOrphan)'
  BY <1>12 DEF Mark, Goto, At, Requeued, rows, bounds, history
<1>13. ASSUME NEW w \in Worker, ClaimCommit(w) PROVE (NoOrphan)'
  BY <1>13 DEF ClaimCommit, Goto, At, Requeued, rows, bounds, history
<1>14. ASSUME NEW w \in Worker, Take(w) PROVE (NoOrphan)'
  BY <1>14 DEF Take, Goto, At, Requeued, rows, bounds, history
<1>15. ASSUME NEW w \in Worker, RunEnds(w) PROVE (NoOrphan)'
  BY <1>15 DEF RunEnds, Goto, At, Requeued, rows, bounds, history
<1>16. CASE UNCHANGED storeVars
  BY <1>16 DEF storeVars, rows, bounds, history, Requeued
<1> QED BY <1>1, <1>2, <1>3, <1>4, <1>5, <1>6, <1>7, <1>8, <1>9, <1>10, <1>11, <1>12, <1>13, <1>14, <1>15, <1>16 DEF StoreNext, Operate, Claiming

LEMMA SInvStep == SInv /\ [StoreNext]_storeVars => SInv'
BY StoreTypeStep, LockStep, WorkStep, BootStep, NotYetStep, NotQueuedStep, ClaimStep, DurableStep,
   OrphanStep DEF SInv, Claims

THEOREM StoreInvariance == StoreSpec => []SInv
<1>1. StoreInit => SInv
  BY SInvInit
<1>2. SInv /\ [StoreNext]_storeVars => SInv'
  BY SInvStep
<1> QED BY <1>1, <1>2, PTL DEF StoreSpec

\* Every variable keeps its type.
THEOREM StoreTypesHold == StoreSpec => []StoreTypeOK
<1>1. SInv => StoreTypeOK
  BY DEF SInv, Claims
<1> QED BY <1>1, StoreInvariance, PTL

\* Two workers never have one task, unless a request queued it again meanwhile.
THEOREM TasksAreClaimedOnce == StoreSpec => []NoDoubleClaim
<1>1. SInv => NoDoubleClaim
  BY DEF SInv, Claims
<1> QED BY <1>1, StoreInvariance, PTL

\* What an operation has returned survives a crash.
THEOREM ReturnsAreDurable == StoreSpec => []ReturnedIsDurable
<1>1. SInv => ReturnedIsDurable
  BY DEF SInv
<1> QED BY <1>1, StoreInvariance, PTL

\* Every ongoing task has a worker that claimed it in this process.
THEOREM OngoingIsWorkedOn == StoreSpec => []NoOrphan
<1>1. SInv => NoOrphan
  BY DEF SInv
<1> QED BY <1>1, StoreInvariance, PTL

----------------------------------------------------------------------------
\* The refinement.

LEMMA QueueInit == StoreInit => Queue!Init
<1> SUFFICES ASSUME StoreInit PROVE Queue!Init
  OBVIOUS
<1>1. \A w \in Worker : pc[w] # "selected"
  BY DEF StoreInit, Client
<1>2. Selected = {}
  BY <1>1 DEF Selected
<1>3. (stage \in {"requeued", "serving"}) = FALSE
  BY DEF StoreInit
<1> QED BY <1>2, <1>3 DEF StoreInit, Queue!Init

\* Which task is selected changes only by Select, Mark, an abandoned claim and a stop.
LEMMA SelectedStays ==
    ASSUME \A w \in Worker : pc'[w] = "selected" <=> pc[w] = "selected",
           \A w \in Worker : pc[w] = "selected" => task'[w] = task[w]
    PROVE  Selected' = Selected
BY DEF Selected

\* The lock makes it one task at most.
LEMMA OneSelected ==
    ASSUME SInv, NEW w \in Worker, pc[w] = "selected" PROVE Selected = {task[w]}
BY DEF SInv, Claims, Locked, Selected

LEMMA QueueStep ==
    SInv /\ [StoreNext]_storeVars
      => [Queue!Next]_<<work, disk, Selected, stage \in {"requeued", "serving"}>>
<1> SUFFICES ASSUME SInv, [StoreNext]_storeVars
             PROVE  \/ Queue!Next
                    \/ UNCHANGED <<work, disk, Selected, stage \in {"requeued", "serving"}>>
  OBVIOUS
<1> USE StoreAssumption DEF SInv, Claims, StoreTypeOK, Client
<1>1. CASE Setup
  <2>1. Selected' = Selected
    BY <1>1, SelectedStays DEF Setup
  <2> QED BY <1>1, <2>1 DEF Setup, rows
<1>2. CASE Requeue
  <2>1. Selected' = Selected
    BY <1>2, SelectedStays DEF Requeue
  <2> QED BY <1>2, <2>1 DEF Requeue, Requeued, Queue!Next, Queue!Recover
<1>3. CASE RequeueEnds
  <2>1. Selected' = Selected
    BY <1>3, SelectedStays DEF RequeueEnds
  <2> QED BY <1>3, <2>1 DEF RequeueEnds, Queue!Next, Queue!Save
<1>4. CASE Stop
  <2>1. \A w \in Worker : pc'[w] = "idle"
    BY <1>4 DEF Stop
  <2>2. Selected' = {}
    BY <2>1 DEF Selected
  <2> QED BY <1>4, <2>2 DEF Stop, Queue!Next, Queue!Crash
<1>5. ASSUME NEW c \in Caller, NEW t \in TaskId, Insert(c, t) PROVE Queue!Next
  <2>1. Selected' = Selected
    BY <1>5, SelectedStays DEF Insert, At, Goto
  <2>2. Queue!Create(t)
    BY <1>5, <2>1 DEF Insert, At, Queue!Create
  <2> QED BY <2>2 DEF Queue!Next
<1>6. ASSUME NEW c \in Caller, NEW t \in TaskId, Decide(c, t)
      PROVE  UNCHANGED <<work, disk, Selected, stage>>
  <2>1. Selected' = Selected
    BY <1>6, SelectedStays DEF Decide, At, Goto
  <2> QED BY <1>6, <2>1 DEF Decide, rows
<1>7. ASSUME NEW c \in Client, Write(c) PROVE Queue!Next
  <2>1. Selected' = Selected
    BY <1>7, SelectedStays DEF Write, At, Goto
  <2>2. task[c] \in TaskId /\ work[task[c]] # None
    BY <1>7 DEF Write, At, Working
  <2>3. \E s \in Settled : work' = [work EXCEPT ![task[c]] = s]
    BY <1>7 DEF Write
  <2>4. Queue!Set(task[c])
    BY <1>7, <2>1, <2>2, <2>3 DEF Write, At, Queue!Set
  <2> QED BY <2>2, <2>4 DEF Queue!Next
<1>8. ASSUME NEW c \in Client, Commit(c) PROVE Queue!Next
  <2>1. Selected' = Selected
    BY <1>8, SelectedStays DEF Commit, At, Goto
  <2> QED BY <1>8, <2>1 DEF Commit, At, Queue!Next, Queue!Save
<1>9. ASSUME NEW c \in Client, Return(c) PROVE UNCHANGED <<work, disk, Selected, stage>>
  <2>1. Selected' = Selected
    BY <1>9, SelectedStays DEF Return, At, Goto
  <2> QED BY <1>9, <2>1 DEF Return, rows
<1>10. ASSUME NEW c \in Client, BreakOff(c)
       PROVE  Queue!Next \/ UNCHANGED <<work, disk, Selected, stage>>
  <2>1. CASE pc[c] # "selected"
    <3>1. Selected' = Selected
      BY <1>10, <2>1, SelectedStays DEF BreakOff, Goto
    <3> QED BY <1>10, <3>1 DEF BreakOff, rows
  <2>2. CASE pc[c] = "selected"
    <3>1. c \in Worker /\ \A w \in Worker : pc[w] = "selected" => w = c
      BY <2>2 DEF Locked
    <3>2. \A w \in Worker : pc'[w] # "selected"
      BY <1>10, <3>1 DEF BreakOff, Goto
    <3>3. Selected' = {}
      BY <3>2 DEF Selected
    <3> QED BY <1>10, <3>3 DEF BreakOff, rows, Queue!Next, Queue!LetGo
  <2> QED BY <2>1, <2>2
<1>11. ASSUME NEW w \in Worker, Select(w) PROVE Queue!Next
  <2>1. PICK t \in TaskId : Oldest(t) /\ Goto(w, "selected", t)
    BY <1>11 DEF Select
  <2>2. \A v \in Worker : pc[v] # "selected"
    BY <1>11 DEF Select, At, Locked
  <2>3. Selected = {}
    BY <2>2 DEF Selected
  <2>4. /\ \A v \in Worker : pc'[v] = "selected" <=> v = w
        /\ task'[w] = t
    BY <2>1, <2>2 DEF Goto
  <2>5. Selected' = {t}
    BY <2>4 DEF Selected
  <2>6. Queue!Pick(t)
    BY <1>11, <2>1, <2>3, <2>5 DEF Select, At, rows, Oldest, Queue!Pick, Queue!Oldest
  <2> QED BY <2>6 DEF Queue!Next
<1>12. ASSUME NEW w \in Worker, Mark(w) PROVE Queue!Next
  <2>1. pc[w] = "selected" /\ task[w] \in TaskId /\ work[task[w]] \in Settled
    BY <1>12 DEF Mark, At, NotYet, Working
  <2>2. Selected = {task[w]}
    BY <2>1, OneSelected
  <2>3. \A v \in Worker : pc'[v] # "selected"
    BY <1>12, <2>1 DEF Mark, Goto, Locked
  <2>4. Selected' = {}
    BY <2>3 DEF Selected
  <2>5. Queue!Take(task[w])
    BY <1>12, <2>2, <2>4 DEF Mark, At, Queue!Take
  <2> QED BY <2>1, <2>5 DEF Queue!Next, Queue!Claim, Queue!Overwrite
<1>13. ASSUME NEW w \in Worker, ClaimCommit(w) PROVE Queue!Next
  <2>1. Selected' = Selected
    BY <1>13, SelectedStays DEF ClaimCommit, At, Goto
  <2> QED BY <1>13, <2>1 DEF ClaimCommit, At, Queue!Next, Queue!Save
<1>14. ASSUME NEW w \in Worker, Take(w) \/ RunEnds(w)
       PROVE  UNCHANGED <<work, disk, Selected, stage>>
  <2>1. Selected' = Selected
    BY <1>14, SelectedStays DEF Take, RunEnds, At, Goto
  <2> QED BY <1>14, <2>1 DEF Take, RunEnds, rows
<1>15. CASE UNCHANGED storeVars
  <2>1. Selected' = Selected
    BY <1>15, SelectedStays DEF storeVars
  <2> QED BY <1>15, <2>1 DEF storeVars, rows
<1> QED BY <1>1, <1>2, <1>3, <1>4, <1>5, <1>6, <1>7, <1>8, <1>9, <1>10, <1>11, <1>12, <1>13,
           <1>14, <1>15 DEF StoreNext, Operate, Claiming

\* The SELECT of a claim finds the oldest queued task and only the claim that chose a task
\* marks it; an update that came between is overwritten, in an action that says so.  The end
\* of the process loses what was not committed, and the restart changes the ongoing rows
\* and no other.
THEOREM StoreIsQueue == StoreSpec => ClaimsOnceInOrder
<1>1. StoreInit => Queue!Init
  BY QueueInit
<1>2. SInv /\ [StoreNext]_storeVars
        => [Queue!Next]_<<work, disk, Selected, stage \in {"requeued", "serving"}>>
  BY QueueStep
<1> QED BY <1>1, <1>2, StoreInvariance, PTL DEF StoreSpec, ClaimsOnceInOrder, Queue!Spec

----------------------------------------------------------------------------
\* The scheduler.

\* The three operations of the table of schedules are read for what they do to the rows.
USE DEF StoredJobs, WriteRow, DropRow

\* The two fires of a schedule, and the schedule of a fire.
LEMMA FireOfJob ==
  /\ \A j \in Job : Loop(j) \in Fires /\ ByHand(j) \in Fires
  /\ \A j \in Job : Loop(j)[1] = j /\ Loop(j)[2] = "auto"
  /\ \A j \in Job : ByHand(j)[1] = j /\ ByHand(j)[2] = "manual"
  /\ \A f \in Fires : f[1] \in Job /\ f[2] \in {"auto", "manual"}
  /\ \A f \in Fires : f = Loop(f[1]) \/ f = ByHand(f[1])
  /\ \A f \in Fires : f[2] = "auto" => f = Loop(f[1])
  /\ \A i, j \in Job : Loop(i) # ByHand(j)
  BY DEF Fires, Kind, Loop, ByHand

\* The scheduler's variables keep their types.
LEMMA TypeInit == Init => TypeOK
  BY CronAssumption DEF Init, TypeOK, AddPC, RmPC, FirePC, SavePC

\* Every step keeps them.
LEMMA TypeStep == TypeOK /\ [Next]_vars => TypeOK'
<1> SUFFICES ASSUME TypeOK, [Next]_vars PROVE TypeOK'
  OBVIOUS
<1> USE CronAssumption, FireOfJob DEF TypeOK, mem, fast, hist, AddPC, RmPC, FirePC, SavePC
<1>1. CASE Load
  BY <1>1 DEF Load
<1>2. CASE Start
  BY <1>2 DEF Start
<1>3. ASSUME NEW js \in SUBSET Job, CancelLoops(js)
      PROVE  /\ fire' \in [Fires -> FirePC]
             /\ save' \in [Fires -> SavePC]
             /\ lost' \in [Job -> SUBSET Task]
             /\ \A f \in Fires : fire'[f] \in {"check", "created"} => fire[f] = fire'[f]
  <2>1. fire' \in [Fires -> FirePC]
    BY <1>3 DEF CancelLoops, AfterCancel
  <2>2. save' \in [Fires -> SavePC]
    BY <1>3 DEF CancelLoops
  <2>3. lost' \in [Job -> SUBSET Task]
    <3>1. \A j \in Job : fire[Loop(j)] = "created" => got[Loop(j)] \in Task
      OBVIOUS
    <3> QED BY <1>3, <3>1 DEF CancelLoops
  <2>4. \A f \in Fires : fire'[f] \in {"check", "created"} => fire[f] = fire'[f]
    BY <1>3 DEF CancelLoops, AfterCancel
  <2> QED BY <2>1, <2>2, <2>3, <2>4
<1>4. CASE Shutdown
  <2>1. CancelLoops(tasks) /\ got' = got
    BY <1>4 DEF Shutdown
  <2>2. /\ fire' \in [Fires -> FirePC] /\ save' \in [Fires -> SavePC]
        /\ lost' \in [Job -> SUBSET Task]
        /\ \A f \in Fires : fire'[f] \in {"check", "created"} => got'[f] \in Task
    BY <2>1, <1>3
  <2> QED BY <1>4, <2>2 DEF Shutdown
<1>5. CASE Exit
  <2>1. lost' \in [Job -> SUBSET Task]
    <3> DEFINE Forgotten(j) == {t \in Task : /\ row[j] # t
                                /\ \/ lastTask[j] = t
                                   \/ \E k \in Kind : fire[<<j, k>>] = "created"
                                                      /\ got[<<j, k>>] = t}
    <3>1. \A j \in Job : Forgotten(j) \in SUBSET Task
      OBVIOUS
    <3>2. lost' = [j \in Job |-> lost[j] \cup Forgotten(j)]
      BY <1>5 DEF Exit
    <3> HIDE DEF Forgotten
    <3> QED BY <3>1, <3>2
  <2>2. exits' \in 0..MaxExit
    BY <1>5 DEF Exit
  <2> QED BY <1>5, <2>1, <2>2 DEF Exit
<1>6. ASSUME NEW j \in Job, Adding(j) PROVE TypeOK'
  <2>1. CASE AddInsert(j)
    BY <2>1 DEF AddInsert
  <2>2. CASE AddSave(j)
    BY <2>2 DEF AddSave
  <2>3. CASE AddSaveFails(j)
    BY <2>3 DEF AddSaveFails
  <2>4. CASE AddCheck(j)
    BY <2>4 DEF AddCheck
  <2>5. CASE AddStart(j)
    BY <2>5 DEF AddStart
  <2>6. CASE AddRollback(j)
    BY <2>6 DEF AddRollback
  <2>7. CASE AddUndo(j)
    <3>1. row' \in [Job -> Task \cup {NoTask, NoRow}]
      <4>1. row' = [row EXCEPT ![j] = NoRow] \/ row' = row
        BY <2>7 DEF AddUndo
      <4>2. CASE row' = [row EXCEPT ![j] = NoRow]
        BY <4>2
      <4>3. CASE row' = row
        BY <4>3
      <4> QED BY <4>1, <4>2, <4>3
    <3>2. /\ add' \in [Job -> AddPC] /\ UNCHANGED <<mem, rm, spawnQ, cancelQ, spawning>>
          /\ UNCHANGED <<fast, save, hist>>
      BY <2>7 DEF AddUndo
    <3> QED BY <3>1, <3>2
  <2> QED BY <1>6, <2>1, <2>2, <2>3, <2>4, <2>5, <2>6, <2>7 DEF Adding
<1>7. ASSUME NEW j \in Job, Removing(j) PROVE TypeOK'
  <2>1. CASE RemovePop(j)
    BY <2>1 DEF RemovePop
  <2>2. CASE RemoveDelete(j)
    <3>1. row' \in [Job -> Task \cup {NoTask, NoRow}] /\ removed' \subseteq Job
      <4>1. CASE DropRow(j) /\ removed' = removed \cup {j}
        BY <4>1
      <4>2. CASE UNCHANGED <<row, removed>>
        BY <4>2
      <4> QED BY <2>2, <4>1, <4>2 DEF RemoveDelete
    <3>2. /\ rm' \in [Job -> RmPC] /\ UNCHANGED <<mem, add, spawnQ, cancelQ, spawning>>
          /\ UNCHANGED <<fast, save, lost, early, byHand, unseen, stray, exits>>
      BY <2>2 DEF RemoveDelete
    <3> QED BY <3>1, <3>2
  <2>3. CASE RemoveUnschedule(j)
    BY <2>3 DEF RemoveUnschedule
  <2> QED BY <1>7, <2>1, <2>2, <2>3 DEF Removing
<1>8. ASSUME NEW j \in Job, Callback(j) PROVE TypeOK'
  <2>1. CASE SpawnCheck(j)
    BY <2>1 DEF SpawnCheck
  <2>2. CASE Spawn(j)
    BY <2>2 DEF Spawn
  <2>3. CASE Cancel(j)
    <3>1. CancelLoops({j}) /\ {j} \in SUBSET Job
      BY <2>3 DEF Cancel
    <3>2. /\ fire' \in [Fires -> FirePC] /\ save' \in [Fires -> SavePC]
          /\ lost' \in [Job -> SUBSET Task]
          /\ \A f \in Fires : fire'[f] \in {"check", "created"} => fire[f] = fire'[f]
      BY <3>1, <1>3
    <3>3. got' = got
      BY <2>3 DEF Cancel
    <3>4. \A f \in Fires : fire'[f] \in {"check", "created"} => got'[f] \in Task
      BY <3>2, <3>3
    <3> QED BY <2>3, <3>2, <3>4 DEF Cancel
  <2> QED BY <1>8, <2>1, <2>2, <2>3 DEF Callback
<1>9. ASSUME NEW j \in Job, Checking(j) PROVE TypeOK'
  <2>1. CASE Wake(j)
    BY <2>1 DEF Wake
  <2>2. CASE Skip(j)
    BY <2>2 DEF Skip
  <2>3. CASE Proceed(j)
    BY <2>3 DEF Proceed
  <2>4. CASE RunNow(j)
    BY <2>4 DEF RunNow
  <2>5. CASE ReadFails(j)
    <3>1. unseen' \in [Job -> SUBSET Task]
      BY <2>5 DEF ReadFails
    <3> QED BY <2>5, <3>1 DEF ReadFails
  <2> QED BY <1>9, <2>1, <2>2, <2>3, <2>4, <2>5 DEF Checking
<1>10. ASSUME NEW j \in Job, Board(j) PROVE TypeOK'
  <2>1. ASSUME NEW t \in Task, Resolve(j, t) PROVE TypeOK'
    BY <2>1 DEF Resolve
  <2>2. ASSUME NEW t \in Task, Retry(j, t) PROVE TypeOK'
    BY <2>2 DEF Retry
  <2> QED BY <1>10, <2>1, <2>2 DEF Board
<1>11. ASSUME NEW f \in Fires, Firing(f) PROVE TypeOK'
  <2>1. ASSUME NEW t \in Task, EnqueueCommit(f, t) PROVE TypeOK'
    BY <2>1 DEF EnqueueCommit
  <2>2. CASE Record(f)
    BY <2>2 DEF Record
  <2>3. CASE EnqueueFails(f)
    BY <2>3 DEF EnqueueFails
  <2>4. CASE Abandon(f)
    <3>1. CASE UNCHANGED <<board, lost>>
      BY <2>4, <3>1 DEF Abandon
    <3>2. ASSUME NEW t \in Task,
                 board' = [board EXCEPT ![f[1]][t] = "open"],
                 lost' = [lost EXCEPT ![f[1]] = @ \cup {t}]
          PROVE  TypeOK'
      <4>1. board' \in [Job -> [Task -> {"free", "open", "closed"}]]
        BY <3>2
      <4>2. lost' \in [Job -> SUBSET Task]
        BY <3>2
      <4> QED BY <2>4, <4>1, <4>2 DEF Abandon
    <3> QED BY <2>4, <3>1, <3>2 DEF Abandon
  <2>5. CASE SaveCheck(f)
    BY <2>5 DEF SaveCheck
  <2>6. CASE SaveWrite(f)
    <3>1. row' \in [Job -> Task \cup {NoTask, NoRow}]
      <4>1. CASE row' = row
        BY <4>1
      <4>2. CASE row' = [row EXCEPT ![f[1]] = lastTask[f[1]]]
        BY <4>2
      <4> QED BY <2>6, <4>1, <4>2 DEF SaveWrite
    <3>2. /\ save' \in [Fires -> SavePC] /\ UNCHANGED <<mem, add, rm, spawnQ, cancelQ, spawning>>
          /\ UNCHANGED <<fast, hist>>
      BY <2>6 DEF SaveWrite
    <3> QED BY <3>1, <3>2
  <2>7. CASE FireEnds(f)
    BY <2>7 DEF FireEnds
  <2> QED BY <1>11, <2>1, <2>2, <2>3, <2>4, <2>5, <2>6, <2>7 DEF Firing
<1>12. ASSUME NEW j \in Job, ShutdownRaises(j) PROVE TypeOK'
  <2>1. PICK js \in SUBSET tasks : CancelLoops(js)
    BY <1>12 DEF ShutdownRaises
  <2>2. js \in SUBSET Job
    OBVIOUS
  <2>3. /\ fire' \in [Fires -> FirePC] /\ save' \in [Fires -> SavePC]
        /\ lost' \in [Job -> SUBSET Task]
        /\ \A f \in Fires : fire'[f] \in {"check", "created"} => fire[f] = fire'[f]
    BY <2>1, <2>2, <1>3
  <2>4. got' = got
    BY <1>12 DEF ShutdownRaises
  <2>5. \A f \in Fires : fire'[f] \in {"check", "created"} => got'[f] \in Task
    BY <2>3, <2>4
  <2>6. /\ phase' = "broken" /\ tasks' \subseteq Job /\ cancelQ' \subseteq Job
        /\ rm' \in [Job -> RmPC]
    BY <1>12 DEF ShutdownRaises
  <2>7. UNCHANGED <<jobs, lastTask, row, add, spawnQ, spawning, got, board, removed, early,
                    byHand, unseen, stray, exits>>
    BY <1>12 DEF ShutdownRaises
  <2> QED BY <2>3, <2>5, <2>6, <2>7
<1>13. CASE UNCHANGED vars
  BY <1>13 DEF vars
<1>14. QED
  BY <1>1, <1>2, <1>4, <1>5, <1>6, <1>7, <1>8, <1>9, <1>10, <1>11, <1>12, <1>13 DEF Next


----------------------------------------------------------------------------
\* What the shared steps do, in the terms the invariants use.

\* Cancelling run-loops leaves every other fire alone and starts no other save.
LEMMA CancelFacts ==
  ASSUME TypeOK, NEW js \in SUBSET Job, CancelLoops(js)
  PROVE  /\ \A j \in Job : fire'[Loop(j)] = IF j \in js THEN AfterCancel(fire[Loop(j)])
                                                       ELSE fire[Loop(j)]
         /\ \A j \in Job : fire'[ByHand(j)] = fire[ByHand(j)]
         /\ \A f \in Fires : save'[f] \in {save[f], "queued"}
         /\ \A f \in Fires : fire[f] = "none" => fire'[f] = "none"
  BY FireOfJob DEF CancelLoops, Cancelled, AfterCancel, TypeOK

\* shutdown() cancels the run-loops in _tasks and forgets them.
LEMMA ShutdownStep ==
  ASSUME TypeOK, Shutdown
  PROVE  /\ \A j \in Job : fire'[Loop(j)] = IF j \in tasks THEN AfterCancel(fire[Loop(j)])
                                                       ELSE fire[Loop(j)]
         /\ \A j \in Job : fire'[ByHand(j)] = fire[ByHand(j)]
         /\ \A f \in Fires : save'[f] \in {save[f], "queued"}
         /\ \A f \in Fires : fire[f] = "none" => fire'[f] = "none"
         /\ phase = "running" /\ LoopFree /\ phase' = "stopped" /\ tasks' = {}
         /\ UNCHANGED <<jobs, lastTask, row, add, rm, spawnQ, cancelQ, spawning,
                        got, board, removed, early, byHand, unseen, stray>>
<1>1. tasks \in SUBSET Job /\ CancelLoops(tasks)
  BY DEF Shutdown, TypeOK
<1> QED BY <1>1, CancelFacts DEF Shutdown

\* What a shutdown does that raises: some run-loops are cancelled, and the removal beside it
\* goes its way.
BrokenEffect(i) ==
  /\ \A j \in Job : fire'[Loop(j)] \in {fire[Loop(j)], AfterCancel(fire[Loop(j)])}
  /\ \A j \in Job : fire'[ByHand(j)] = fire[ByHand(j)]
  /\ \A f \in Fires : save'[f] \in {save[f], "queued"}
  /\ \A f \in Fires : fire[f] = "none" => fire'[f] = "none"
  /\ phase = "running" /\ LoopFree /\ phase' = "broken"
  /\ rm[i] = "unschedule" /\ rm' = [rm EXCEPT ![i] = "idle"]
  /\ i \in tasks /\ tasks' = tasks \ {i} /\ cancelQ' = cancelQ \cup {i}
  /\ UNCHANGED <<jobs, lastTask, row, add, spawnQ, spawning,
                 got, board, removed, early, byHand, unseen, stray>>

\* A shutdown that raises has only that effect.
LEMMA BrokenStep ==
  ASSUME TypeOK, NEW i \in Job, ShutdownRaises(i)
  PROVE  BrokenEffect(i)
<1>1. PICK js \in SUBSET tasks : CancelLoops(js)
  BY DEF ShutdownRaises
<1>2. js \in SUBSET Job
  BY DEF TypeOK
<1>3. /\ \A j \in Job : fire'[Loop(j)] = IF j \in js THEN AfterCancel(fire[Loop(j)])
                                                     ELSE fire[Loop(j)]
      /\ \A j \in Job : fire'[ByHand(j)] = fire[ByHand(j)]
      /\ \A f \in Fires : save'[f] \in {save[f], "queued"}
      /\ \A f \in Fires : fire[f] = "none" => fire'[f] = "none"
  BY <1>1, <1>2, CancelFacts
<1> QED BY <1>3 DEF ShutdownRaises, BrokenEffect

\* What the cancellation of one run-loop does.
CancelEffect(i) ==
  /\ \A j \in Job : fire'[Loop(j)] = IF j = i THEN AfterCancel(fire[Loop(j)])
                                             ELSE fire[Loop(j)]
  /\ \A j \in Job : fire'[ByHand(j)] = fire[ByHand(j)]
  /\ \A f \in Fires : save'[f] \in {save[f], "queued"}
  /\ \A f \in Fires : fire[f] = "none" => fire'[f] = "none"
  /\ LoopFree /\ i \in cancelQ /\ cancelQ' = cancelQ \ {i}
  /\ UNCHANGED <<phase, jobs, tasks, lastTask, row, add, rm, spawnQ, spawning,
                 got, board, removed, early, byHand, unseen, stray>>

\* The callback queued by remove_job has only that effect.
LEMMA CancelStep ==
  ASSUME TypeOK, NEW i \in Job, Cancel(i)
  PROVE  CancelEffect(i)
<1>1. {i} \in SUBSET Job /\ CancelLoops({i})
  BY DEF Cancel
<1>2. /\ \A j \in Job : fire'[Loop(j)] = IF j \in {i} THEN AfterCancel(fire[Loop(j)])
                                                     ELSE fire[Loop(j)]
      /\ \A j \in Job : fire'[ByHand(j)] = fire[ByHand(j)]
      /\ \A f \in Fires : save'[f] \in {save[f], "queued"}
      /\ \A f \in Fires : fire[f] = "none" => fire'[f] = "none"
  BY <1>1, CancelFacts
<1> QED BY <1>2 DEF Cancel, CancelEffect, mem

\* What a step of one fire may do.
FiringEffect(f) ==
  /\ UNCHANGED <<phase, jobs, tasks, add, rm, spawnQ, cancelQ, spawning, removed, early, byHand,
                 unseen, stray>>
  /\ \A g \in Fires \ {f} : fire'[g] = fire[g] /\ save'[g] = save[g]
  /\ fire[f] = "none" => fire'[f] = "none"
  /\ fire'[f] = "none" => fire[f] \in {"none", "abandoned"} \/ f[2] = "manual"
  /\ fire'[f] = "abandoned" => fire[f] = "abandoned"
  /\ fire[f] = "abandoned" => fire'[f] \in {"none", "abandoned"}
  /\ save'[f] = "locked" => save[f] = "locked" \/ (f[1] \in jobs /\ LockFree)
  /\ \A j \in Job : row'[j] = row[j] \/ (j = f[1] /\ save[f] = "locked" /\ row'[j] # NoRow)

\* Each step of a fire has only that effect.
LEMMA FiringStep ==
  ASSUME TypeOK, NEW f \in Fires, Firing(f)
  PROVE  FiringEffect(f)
<1> USE CronAssumption, FireOfJob DEF TypeOK, mem, fast, hist, FiringEffect, FirePC, SavePC
<1>1. ASSUME NEW t \in Task, EnqueueCommit(f, t) PROVE FiringEffect(f)
  BY <1>1 DEF EnqueueCommit
<1>2. CASE Record(f)
  BY <1>2 DEF Record
<1>3. CASE EnqueueFails(f)
  BY <1>3 DEF EnqueueFails
<1>4. CASE Abandon(f)
  <2>1. /\ UNCHANGED <<phase, jobs, tasks, row, add, rm, spawnQ, cancelQ, spawning, removed, early, byHand,
                 unseen, stray>>
        /\ fire' = [fire EXCEPT ![f] = "none"]
        /\ save' = [save EXCEPT ![f] = "queued"]
        /\ fire[f] = "abandoned"
    BY <1>4 DEF Abandon
  <2> QED BY <2>1
<1>5. CASE SaveCheck(f)
  BY <1>5 DEF SaveCheck
<1>6. CASE SaveWrite(f)
  <2>1. /\ UNCHANGED <<phase, jobs, tasks, add, rm, spawnQ, cancelQ, spawning, removed, early, byHand, fire,
                     unseen, stray>>
        /\ save' = [save EXCEPT ![f] = "idle"] /\ save[f] = "locked"
    BY <1>6 DEF SaveWrite
  <2>2. \A j \in Job : row'[j] = row[j] \/ (j = f[1] /\ row'[j] # NoRow)
    <3>1. CASE row' = row
      BY <3>1
    <3>2. CASE row' = [row EXCEPT ![f[1]] = lastTask[f[1]]]
      BY <3>2
    <3> QED BY <1>6, <3>1, <3>2 DEF SaveWrite
  <2> QED BY <2>1, <2>2
<1>7. CASE FireEnds(f)
  BY <1>7 DEF FireEnds
<1> QED BY <1>1, <1>2, <1>3, <1>4, <1>5, <1>6, <1>7 DEF Firing

----------------------------------------------------------------------------
\* The parts of the invariant, one lemma each.

\* A schedule leaves its first trace in add_job.
LEMMA FreshStep ==
  ASSUME TypeOK, SpawnOnce, Fresh, TypeOK', [Next]_vars PROVE Fresh'
<1> USE CronAssumption, FireOfJob DEF TypeOK, mem, fast, hist, LockFree, LoopFree, AfterCancel, Started, Fresh, SpawnOnce
<1>1. CASE Load
  BY <1>1 DEF Load
<1>2. CASE Start
  BY <1>2 DEF Start
<1>3. CASE Shutdown
  BY <1>3, ShutdownStep
<1>4. CASE Exit
  BY <1>4 DEF Exit
<1>5. ASSUME NEW i \in Job, Adding(i) PROVE Fresh'
  BY <1>5 DEF Adding, AddInsert, AddSave, AddSaveFails, AddCheck, AddStart, AddRollback, AddUndo
<1>6. ASSUME NEW i \in Job, Removing(i) PROVE Fresh'
  BY <1>6 DEF Removing, RemovePop, RemoveDelete, RemoveUnschedule
<1>7. ASSUME NEW i \in Job, Callback(i) PROVE Fresh'
  <2>1. CASE SpawnCheck(i)
    BY <2>1 DEF SpawnCheck
  <2>2. CASE Spawn(i)
    BY <2>2 DEF Spawn
  <2>3. CASE Cancel(i)
    <3>1. CancelEffect(i) BY <2>3, CancelStep
    <3> QED BY <3>1 DEF CancelEffect
  <2> QED BY <1>7, <2>1, <2>2, <2>3 DEF Callback
<1>8. ASSUME NEW i \in Job, Checking(i) PROVE Fresh'
  BY <1>8 DEF Checking, Wake, Skip, Proceed, ReadFails, RunNow
<1>9. ASSUME NEW i \in Job, Board(i) PROVE Fresh'
  BY <1>9 DEF Board, Resolve, Retry
<1>10. ASSUME NEW f \in Fires, Firing(f) PROVE Fresh'
  <2>1. FiringEffect(f) BY <1>10, FiringStep
  <2> QED BY <2>1 DEF FiringEffect
<1>11. ASSUME NEW i \in Job, ShutdownRaises(i) PROVE Fresh'
  <2>1. BrokenEffect(i) BY <1>11, BrokenStep
  <2> QED BY <2>1 DEF BrokenEffect
<1>12. CASE UNCHANGED vars
  BY <1>12 DEF vars
<1> QED BY <1>1, <1>2, <1>3, <1>4, <1>5, <1>6, <1>7, <1>8, <1>9, <1>10, <1>11, <1>12 DEF Next

\* A removal or a rollback unregisters its schedule before anything else, and no id is registered twice.
LEMMA LeavingStep ==
  ASSUME TypeOK, Quiet, Fresh, Leaving, TypeOK', [Next]_vars PROVE Leaving'
<1> USE CronAssumption, FireOfJob DEF TypeOK, mem, fast, hist, LockFree, LoopFree, AfterCancel, Started, Leaving, Fresh, Quiet
<1>1. CASE Load
  BY <1>1 DEF Load
<1>2. CASE Start
  BY <1>2 DEF Start
<1>3. CASE Shutdown
  BY <1>3, ShutdownStep
<1>4. CASE Exit
  BY <1>4 DEF Exit
<1>5. ASSUME NEW i \in Job, Adding(i) PROVE Leaving'
  BY <1>5 DEF Adding, AddInsert, AddSave, AddSaveFails, AddCheck, AddStart, AddRollback, AddUndo
<1>6. ASSUME NEW i \in Job, Removing(i) PROVE Leaving'
  BY <1>6 DEF Removing, RemovePop, RemoveDelete, RemoveUnschedule
<1>7. ASSUME NEW i \in Job, Callback(i) PROVE Leaving'
  <2>1. CASE SpawnCheck(i)
    BY <2>1 DEF SpawnCheck
  <2>2. CASE Spawn(i)
    BY <2>2 DEF Spawn
  <2>3. CASE Cancel(i)
    <3>1. CancelEffect(i) BY <2>3, CancelStep
    <3> QED BY <3>1 DEF CancelEffect
  <2> QED BY <1>7, <2>1, <2>2, <2>3 DEF Callback
<1>8. ASSUME NEW i \in Job, Checking(i) PROVE Leaving'
  BY <1>8 DEF Checking, Wake, Skip, Proceed, ReadFails, RunNow
<1>9. ASSUME NEW i \in Job, Board(i) PROVE Leaving'
  BY <1>9 DEF Board, Resolve, Retry
<1>10. ASSUME NEW f \in Fires, Firing(f) PROVE Leaving'
  <2>1. FiringEffect(f) BY <1>10, FiringStep
  <2> QED BY <2>1 DEF FiringEffect
<1>11. ASSUME NEW i \in Job, ShutdownRaises(i) PROVE Leaving'
  <2>1. BrokenEffect(i) BY <1>11, BrokenStep
  <2> QED BY <2>1 DEF BrokenEffect
<1>12. CASE UNCHANGED vars
  BY <1>12 DEF vars
<1> QED BY <1>1, <1>2, <1>3, <1>4, <1>5, <1>6, <1>7, <1>8, <1>9, <1>10, <1>11, <1>12 DEF Next

\* _store_lock keeps a removal and the save of a fire apart.
LEMMA StoreLockedStep ==
  ASSUME TypeOK, StoreLocked, TypeOK', [Next]_vars PROVE StoreLocked'
<1> USE CronAssumption, FireOfJob DEF TypeOK, mem, fast, hist, LockFree, LoopFree, AfterCancel, Started, StoreLocked
<1>1. CASE Load
  BY <1>1 DEF Load
<1>2. CASE Start
  BY <1>2 DEF Start
<1>3. CASE Shutdown
  BY <1>3, ShutdownStep
<1>4. CASE Exit
  BY <1>4 DEF Exit
<1>5. ASSUME NEW i \in Job, Adding(i) PROVE StoreLocked'
  BY <1>5 DEF Adding, AddInsert, AddSave, AddSaveFails, AddCheck, AddStart, AddRollback, AddUndo
<1>6. ASSUME NEW i \in Job, Removing(i) PROVE StoreLocked'
  BY <1>6 DEF Removing, RemovePop, RemoveDelete, RemoveUnschedule
<1>7. ASSUME NEW i \in Job, Callback(i) PROVE StoreLocked'
  <2>1. CASE SpawnCheck(i)
    BY <2>1 DEF SpawnCheck
  <2>2. CASE Spawn(i)
    BY <2>2 DEF Spawn
  <2>3. CASE Cancel(i)
    <3>1. CancelEffect(i) BY <2>3, CancelStep
    <3> QED BY <3>1 DEF CancelEffect
  <2> QED BY <1>7, <2>1, <2>2, <2>3 DEF Callback
<1>8. ASSUME NEW i \in Job, Checking(i) PROVE StoreLocked'
  BY <1>8 DEF Checking, Wake, Skip, Proceed, ReadFails, RunNow
<1>9. ASSUME NEW i \in Job, Board(i) PROVE StoreLocked'
  BY <1>9 DEF Board, Resolve, Retry
<1>10. ASSUME NEW f \in Fires, Firing(f) PROVE StoreLocked'
  <2>1. FiringEffect(f) BY <1>10, FiringStep
  <2> QED BY <2>1 DEF FiringEffect
<1>11. ASSUME NEW i \in Job, ShutdownRaises(i) PROVE StoreLocked'
  <2>1. BrokenEffect(i) BY <1>11, BrokenStep
  <2> QED BY <2>1 DEF BrokenEffect
<1>12. CASE UNCHANGED vars
  BY <1>12 DEF vars
<1> QED BY <1>1, <1>2, <1>3, <1>4, <1>5, <1>6, <1>7, <1>8, <1>9, <1>10, <1>11, <1>12 DEF Next

\* A deletion stays final: only add_job and a save under way could write the row again.
LEMMA DeletedStep ==
  ASSUME TypeOK, Fresh, StoreLocked, Leaving, Deleted, TypeOK', [Next]_vars PROVE Deleted'
<1> USE CronAssumption, FireOfJob DEF TypeOK, mem, fast, hist, LockFree, LoopFree, AfterCancel, Started, Deleted, Fresh, StoreLocked, Leaving
<1>1. CASE Load
  BY <1>1 DEF Load
<1>2. CASE Start
  BY <1>2 DEF Start
<1>3. CASE Shutdown
  BY <1>3, ShutdownStep
<1>4. CASE Exit
  BY <1>4 DEF Exit
<1>5. ASSUME NEW i \in Job, Adding(i) PROVE Deleted'
  BY <1>5 DEF Adding, AddInsert, AddSave, AddSaveFails, AddCheck, AddStart, AddRollback, AddUndo
<1>6. ASSUME NEW i \in Job, Removing(i) PROVE Deleted'
  <2>1. CASE RemovePop(i)
    BY <2>1 DEF RemovePop
  <2>2. CASE RemoveDelete(i)
    BY <2>2 DEF RemoveDelete
  <2>3. CASE RemoveUnschedule(i)
    BY <2>3 DEF RemoveUnschedule
  <2> QED BY <1>6, <2>1, <2>2, <2>3 DEF Removing
<1>7. ASSUME NEW i \in Job, Callback(i) PROVE Deleted'
  <2>1. CASE SpawnCheck(i)
    BY <2>1 DEF SpawnCheck
  <2>2. CASE Spawn(i)
    BY <2>2 DEF Spawn
  <2>3. CASE Cancel(i)
    <3>1. CancelEffect(i) BY <2>3, CancelStep
    <3> QED BY <3>1 DEF CancelEffect
  <2> QED BY <1>7, <2>1, <2>2, <2>3 DEF Callback
<1>8. ASSUME NEW i \in Job, Checking(i) PROVE Deleted'
  BY <1>8 DEF Checking, Wake, Skip, Proceed, ReadFails, RunNow
<1>9. ASSUME NEW i \in Job, Board(i) PROVE Deleted'
  BY <1>9 DEF Board, Resolve, Retry
<1>10. ASSUME NEW f \in Fires, Firing(f) PROVE Deleted'
  <2>1. FiringEffect(f) BY <1>10, FiringStep
  <2> QED BY <2>1 DEF FiringEffect
<1>11. ASSUME NEW i \in Job, ShutdownRaises(i) PROVE Deleted'
  <2>1. BrokenEffect(i) BY <1>11, BrokenStep
  <2> QED BY <2>1 DEF BrokenEffect
<1>12. CASE UNCHANGED vars
  BY <1>12 DEF vars
<1> QED BY <1>1, <1>2, <1>3, <1>4, <1>5, <1>6, <1>7, <1>8, <1>9, <1>10, <1>11, <1>12 DEF Next

\* The row of a registered schedule is dropped by nobody.
LEMMA LiveIsDurableStep ==
  ASSUME TypeOK, Leaving, LiveIsDurable, TypeOK', [Next]_vars PROVE LiveIsDurable'
<1> USE CronAssumption, FireOfJob DEF TypeOK, mem, fast, hist, LockFree, LoopFree, AfterCancel, Started, LiveIsDurable, Leaving
<1>1. CASE Load
  BY <1>1 DEF Load
<1>2. CASE Start
  BY <1>2 DEF Start
<1>3. CASE Shutdown
  BY <1>3, ShutdownStep
<1>4. CASE Exit
  BY <1>4 DEF Exit
<1>5. ASSUME NEW i \in Job, Adding(i) PROVE LiveIsDurable'
  BY <1>5 DEF Adding, AddInsert, AddSave, AddSaveFails, AddCheck, AddStart, AddRollback, AddUndo
<1>6. ASSUME NEW i \in Job, Removing(i) PROVE LiveIsDurable'
  BY <1>6 DEF Removing, RemovePop, RemoveDelete, RemoveUnschedule
<1>7. ASSUME NEW i \in Job, Callback(i) PROVE LiveIsDurable'
  <2>1. CASE SpawnCheck(i)
    BY <2>1 DEF SpawnCheck
  <2>2. CASE Spawn(i)
    BY <2>2 DEF Spawn
  <2>3. CASE Cancel(i)
    <3>1. CancelEffect(i) BY <2>3, CancelStep
    <3> QED BY <3>1 DEF CancelEffect
  <2> QED BY <1>7, <2>1, <2>2, <2>3 DEF Callback
<1>8. ASSUME NEW i \in Job, Checking(i) PROVE LiveIsDurable'
  BY <1>8 DEF Checking, Wake, Skip, Proceed, ReadFails, RunNow
<1>9. ASSUME NEW i \in Job, Board(i) PROVE LiveIsDurable'
  BY <1>9 DEF Board, Resolve, Retry
<1>10. ASSUME NEW f \in Fires, Firing(f) PROVE LiveIsDurable'
  <2>1. FiringEffect(f) BY <1>10, FiringStep
  <2> QED BY <2>1 DEF FiringEffect
<1>11. ASSUME NEW i \in Job, ShutdownRaises(i) PROVE LiveIsDurable'
  <2>1. BrokenEffect(i) BY <1>11, BrokenStep
  <2> QED BY <2>1 DEF BrokenEffect
<1>12. CASE UNCHANGED vars
  BY <1>12 DEF vars
<1> QED BY <1>1, <1>2, <1>3, <1>4, <1>5, <1>6, <1>7, <1>8, <1>9, <1>10, <1>11, <1>12 DEF Next

\* Whoever takes a run-loop out of _tasks cancels it or queues its cancellation.
LEMMA NoLostLoopStep ==
  ASSUME TypeOK, Quiet, SpawnOnce, NoLostLoop, TypeOK', [Next]_vars PROVE NoLostLoop'
<1> USE CronAssumption, FireOfJob DEF TypeOK, mem, fast, hist, LockFree, LoopFree, AfterCancel, Started, NoLostLoop, Live, Quiet, SpawnOnce
<1>1. CASE Load
  BY <1>1 DEF Load
<1>2. CASE Start
  BY <1>2 DEF Start
<1>3. CASE Shutdown
  BY <1>3, ShutdownStep
<1>4. CASE Exit
  BY <1>4 DEF Exit
<1>5. ASSUME NEW i \in Job, Adding(i) PROVE NoLostLoop'
  BY <1>5 DEF Adding, AddInsert, AddSave, AddSaveFails, AddCheck, AddStart, AddRollback, AddUndo
<1>6. ASSUME NEW i \in Job, Removing(i) PROVE NoLostLoop'
  <2>1. CASE RemovePop(i)
    BY <2>1 DEF RemovePop
  <2>2. CASE RemoveDelete(i)
    BY <2>2 DEF RemoveDelete
  <2>3. CASE RemoveUnschedule(i)
    BY <2>3 DEF RemoveUnschedule
  <2> QED BY <1>6, <2>1, <2>2, <2>3 DEF Removing
<1>7. ASSUME NEW i \in Job, Callback(i) PROVE NoLostLoop'
  <2>1. CASE SpawnCheck(i)
    BY <2>1 DEF SpawnCheck
  <2>2. CASE Spawn(i)
    BY <2>2 DEF Spawn
  <2>3. CASE Cancel(i)
    <3>1. CancelEffect(i) BY <2>3, CancelStep
    <3> QED BY <3>1 DEF CancelEffect
  <2> QED BY <1>7, <2>1, <2>2, <2>3 DEF Callback
<1>8. ASSUME NEW i \in Job, Checking(i) PROVE NoLostLoop'
  <2>1. /\ UNCHANGED <<phase, jobs, tasks, rm, cancelQ, stray>>
        /\ \A j \in Job : fire'[Loop(j)] = "none" <=> fire[Loop(j)] = "none"
        /\ \A j \in Job : fire'[Loop(j)] = "abandoned" <=> fire[Loop(j)] = "abandoned"
    <3>1. CASE Wake(i)
      BY <3>1 DEF Wake
    <3>2. CASE Skip(i) \/ Proceed(i) \/ ReadFails(i)
      BY <3>2 DEF Skip, Proceed, ReadFails
    <3>3. CASE RunNow(i)
      BY <3>3 DEF RunNow
    <3> QED BY <1>8, <3>1, <3>2, <3>3 DEF Checking
  <2> QED BY <2>1
<1>9. ASSUME NEW i \in Job, Board(i) PROVE NoLostLoop'
  BY <1>9 DEF Board, Resolve, Retry
<1>10. ASSUME NEW f \in Fires, Firing(f) PROVE NoLostLoop'
  <2>1. FiringEffect(f) BY <1>10, FiringStep
  <2>2. UNCHANGED <<phase, jobs, tasks, rm, cancelQ, stray>>
    BY <2>1 DEF FiringEffect
  <2>3. \A j \in Job : Live(j)' => Live(j)
    BY <2>1 DEF FiringEffect
  <2> QED BY <2>2, <2>3
<1>11. ASSUME NEW i \in Job, ShutdownRaises(i) PROVE NoLostLoop'
  <2>1. BrokenEffect(i) BY <1>11, BrokenStep
  <2> QED BY <2>1 DEF BrokenEffect
<1>12. CASE UNCHANGED vars
  BY <1>12 DEF vars
<1> QED BY <1>1, <1>2, <1>3, <1>4, <1>5, <1>6, <1>7, <1>8, <1>9, <1>10, <1>11, <1>12 DEF Next

\* Nothing reaches the loop before start().
LEMMA QuietStep ==
  ASSUME TypeOK, Quiet, Leaving, TypeOK', [Next]_vars PROVE Quiet'
<1> USE CronAssumption, FireOfJob DEF TypeOK, mem, fast, hist, LockFree, LoopFree, AfterCancel, Started, Quiet
<1>1. CASE Load
  BY <1>1 DEF Load
<1>2. CASE Start
  BY <1>2 DEF Start
<1>3. CASE Shutdown
  BY <1>3, ShutdownStep
<1>4. CASE Exit
  BY <1>4 DEF Exit
<1>5. ASSUME NEW i \in Job, Adding(i) PROVE Quiet'
  BY <1>5 DEF Adding, AddInsert, AddSave, AddSaveFails, AddCheck, AddStart, AddRollback, AddUndo
<1>6. ASSUME NEW i \in Job, Removing(i) PROVE Quiet'
  BY <1>6 DEF Removing, RemovePop, RemoveDelete, RemoveUnschedule
<1>7. ASSUME NEW i \in Job, Callback(i) PROVE Quiet'
  <2>1. CASE SpawnCheck(i)
    BY <2>1 DEF SpawnCheck
  <2>2. CASE Spawn(i)
    BY <2>2 DEF Spawn
  <2>3. CASE Cancel(i)
    <3>1. CancelEffect(i) BY <2>3, CancelStep
    <3> QED BY <3>1 DEF CancelEffect
  <2> QED BY <1>7, <2>1, <2>2, <2>3 DEF Callback
<1>8. ASSUME NEW i \in Job, Checking(i) PROVE Quiet'
  BY <1>8 DEF Checking, Wake, Skip, Proceed, ReadFails, RunNow
<1>9. ASSUME NEW i \in Job, Board(i) PROVE Quiet'
  BY <1>9 DEF Board, Resolve, Retry
<1>10. ASSUME NEW f \in Fires, Firing(f) PROVE Quiet'
  <2>1. FiringEffect(f)
    BY <1>10, FiringStep
  <2>2. fire[f] # "none" \/ save[f] # "idle"
    BY <1>10 DEF Firing, EnqueueCommit, Record, EnqueueFails, Abandon, SaveCheck, SaveWrite, FireEnds
  <2>3. phase # "down"
    BY <2>2
  <2> QED BY <2>1, <2>3 DEF FiringEffect
<1>11. ASSUME NEW i \in Job, ShutdownRaises(i) PROVE Quiet'
  <2>1. BrokenEffect(i) BY <1>11, BrokenStep
  <2> QED BY <2>1 DEF BrokenEffect
<1>12. CASE UNCHANGED vars
  BY <1>12 DEF vars
<1> QED BY <1>1, <1>2, <1>3, <1>4, <1>5, <1>6, <1>7, <1>8, <1>9, <1>10, <1>11, <1>12 DEF Next

\* The spawn of a schedule is handed over once, by its add_job.
LEMMA SpawnOnceStep ==
  ASSUME TypeOK, Quiet, Fresh, SpawnOnce, TypeOK', [Next]_vars PROVE SpawnOnce'
<1> USE CronAssumption, FireOfJob DEF TypeOK, mem, fast, hist, LockFree, LoopFree, AfterCancel, Started, SpawnOnce, Quiet, Fresh
<1>1. CASE Load
  BY <1>1 DEF Load
<1>2. CASE Start
  BY <1>2 DEF Start
<1>3. CASE Shutdown
  BY <1>3, ShutdownStep
<1>4. CASE Exit
  BY <1>4 DEF Exit
<1>5. ASSUME NEW i \in Job, Adding(i) PROVE SpawnOnce'
  BY <1>5 DEF Adding, AddInsert, AddSave, AddSaveFails, AddCheck, AddStart, AddRollback, AddUndo
<1>6. ASSUME NEW i \in Job, Removing(i) PROVE SpawnOnce'
  BY <1>6 DEF Removing, RemovePop, RemoveDelete, RemoveUnschedule
<1>7. ASSUME NEW i \in Job, Callback(i) PROVE SpawnOnce'
  <2>1. CASE SpawnCheck(i)
    BY <2>1 DEF SpawnCheck
  <2>2. CASE Spawn(i)
    BY <2>2 DEF Spawn
  <2>3. CASE Cancel(i)
    <3>1. CancelEffect(i) BY <2>3, CancelStep
    <3> QED BY <3>1 DEF CancelEffect
  <2> QED BY <1>7, <2>1, <2>2, <2>3 DEF Callback
<1>8. ASSUME NEW i \in Job, Checking(i) PROVE SpawnOnce'
  BY <1>8 DEF Checking, Wake, Skip, Proceed, ReadFails, RunNow
<1>9. ASSUME NEW i \in Job, Board(i) PROVE SpawnOnce'
  BY <1>9 DEF Board, Resolve, Retry
<1>10. ASSUME NEW f \in Fires, Firing(f) PROVE SpawnOnce'
  <2>1. FiringEffect(f) BY <1>10, FiringStep
  <2> QED BY <2>1 DEF FiringEffect
<1>11. ASSUME NEW i \in Job, ShutdownRaises(i) PROVE SpawnOnce'
  <2>1. BrokenEffect(i) BY <1>11, BrokenStep
  <2> QED BY <2>1 DEF BrokenEffect
<1>12. CASE UNCHANGED vars
  BY <1>12 DEF vars
<1> QED BY <1>1, <1>2, <1>3, <1>4, <1>5, <1>6, <1>7, <1>8, <1>9, <1>10, <1>11, <1>12 DEF Next

\* A run-loop of a registered schedule ends with the scheduler only.
LEMMA TrackedStep ==
  ASSUME TypeOK, Quiet, Fresh, Leaving, SpawnOnce, Tracked, TypeOK', [Next]_vars PROVE Tracked'
<1> USE CronAssumption, FireOfJob DEF TypeOK, mem, fast, hist, LockFree, LoopFree, AfterCancel, Started, Tracked, Quiet, Fresh, Leaving, SpawnOnce
<1>1. CASE Load
  BY <1>1 DEF Load
<1>2. CASE Start
  BY <1>2 DEF Start
<1>3. CASE Shutdown
  BY <1>3, ShutdownStep
<1>4. CASE Exit
  BY <1>4 DEF Exit
<1>5. ASSUME NEW i \in Job, Adding(i) PROVE Tracked'
  BY <1>5 DEF Adding, AddInsert, AddSave, AddSaveFails, AddCheck, AddStart, AddRollback, AddUndo
<1>6. ASSUME NEW i \in Job, Removing(i) PROVE Tracked'
  BY <1>6 DEF Removing, RemovePop, RemoveDelete, RemoveUnschedule
<1>7. ASSUME NEW i \in Job, Callback(i) PROVE Tracked'
  <2>1. CASE SpawnCheck(i)
    BY <2>1 DEF SpawnCheck
  <2>2. CASE Spawn(i)
    BY <2>2 DEF Spawn
  <2>3. CASE Cancel(i)
    <3>1. CancelEffect(i) BY <2>3, CancelStep
    <3>2. i \notin jobs
      BY <3>1 DEF CancelEffect
    <3>3. /\ UNCHANGED <<phase, jobs, tasks>>
          /\ \A j \in Job : j # i => fire'[Loop(j)] = fire[Loop(j)]
      BY ONLY <3>1 DEF CancelEffect
    <3> QED BY <3>2, <3>3
  <2> QED BY <1>7, <2>1, <2>2, <2>3 DEF Callback
<1>8. ASSUME NEW i \in Job, Checking(i) PROVE Tracked'
  BY <1>8 DEF Checking, Wake, Skip, Proceed, ReadFails, RunNow
<1>9. ASSUME NEW i \in Job, Board(i) PROVE Tracked'
  BY <1>9 DEF Board, Resolve, Retry
<1>10. ASSUME NEW f \in Fires, Firing(f) PROVE Tracked'
  <2>1. FiringEffect(f) BY <1>10, FiringStep
  <2> QED BY <2>1 DEF FiringEffect
<1>11. ASSUME NEW i \in Job, ShutdownRaises(i) PROVE Tracked'
  <2>1. BrokenEffect(i) BY <1>11, BrokenStep
  <2> QED BY <2>1 DEF BrokenEffect
<1>12. CASE UNCHANGED vars
  BY <1>12 DEF vars
<1> QED BY <1>1, <1>2, <1>3, <1>4, <1>5, <1>6, <1>7, <1>8, <1>9, <1>10, <1>11, <1>12 DEF Next

\* Every path through add_job hands the schedule to the loop or undoes it.
LEMMA NoZombieStep ==
  ASSUME TypeOK, Quiet, Fresh, Leaving, SpawnOnce, Tracked, NoZombie, TypeOK', [Next]_vars PROVE NoZombie'
<1> USE CronAssumption, FireOfJob DEF TypeOK, mem, fast, hist, LockFree, LoopFree, AfterCancel, Started, NoZombie, Attended, Quiet, Fresh, Leaving, SpawnOnce, Tracked
<1>1. CASE Load
  BY <1>1 DEF Load
<1>2. CASE Start
  BY <1>2 DEF Start
<1>3. CASE Shutdown
  BY <1>3, ShutdownStep
<1>4. CASE Exit
  BY <1>4 DEF Exit
<1>5. ASSUME NEW i \in Job, Adding(i) PROVE NoZombie'
  BY <1>5 DEF Adding, AddInsert, AddSave, AddSaveFails, AddCheck, AddStart, AddRollback, AddUndo
<1>6. ASSUME NEW i \in Job, Removing(i) PROVE NoZombie'
  BY <1>6 DEF Removing, RemovePop, RemoveDelete, RemoveUnschedule
<1>7. ASSUME NEW i \in Job, Callback(i) PROVE NoZombie'
  <2>1. CASE SpawnCheck(i)
    BY <2>1 DEF SpawnCheck
  <2>2. CASE Spawn(i)
    BY <2>2 DEF Spawn
  <2>3. CASE Cancel(i)
    <3>1. CancelEffect(i) BY <2>3, CancelStep
    <3>2. i \notin jobs
      BY <3>1 DEF CancelEffect
    <3>3. /\ UNCHANGED <<phase, jobs, tasks, add, spawnQ, spawning>>
          /\ \A j \in Job : j # i => fire'[Loop(j)] = fire[Loop(j)]
      BY ONLY <3>1 DEF CancelEffect
    <3> QED BY <3>2, <3>3
  <2> QED BY <1>7, <2>1, <2>2, <2>3 DEF Callback
<1>8. ASSUME NEW i \in Job, Checking(i) PROVE NoZombie'
  BY <1>8 DEF Checking, Wake, Skip, Proceed, ReadFails, RunNow
<1>9. ASSUME NEW i \in Job, Board(i) PROVE NoZombie'
  BY <1>9 DEF Board, Resolve, Retry
<1>10. ASSUME NEW f \in Fires, Firing(f) PROVE NoZombie'
  <2>1. FiringEffect(f) BY <1>10, FiringStep
  <2> QED BY <2>1 DEF FiringEffect
<1>11. ASSUME NEW i \in Job, ShutdownRaises(i) PROVE NoZombie'
  <2>1. BrokenEffect(i) BY <1>11, BrokenStep
  <2> QED BY <2>1 DEF BrokenEffect
<1>12. CASE UNCHANGED vars
  BY <1>12 DEF vars
<1> QED BY <1>1, <1>2, <1>3, <1>4, <1>5, <1>6, <1>7, <1>8, <1>9, <1>10, <1>11, <1>12 DEF Next

\* What cancelling does to the known runs of an unattended schedule: a run created
\* and not recorded is lost.
LEMMA CancelKnown ==
  ASSUME TypeOK, NEW js \in SUBSET Job, CancelLoops(js), board' = board, unseen' = unseen,
         NEW j \in Job
  PROVE  /\ j \notin js => Known(j)' = Known(j)
         /\ fire[Loop(j)] # "created" => Known(j)' = Known(j)
         /\ j \in js /\ fire[Loop(j)] = "created" => Known(j)' = Known(j) \ {got[Loop(j)]}
  BY FireOfJob DEF CancelLoops, Known, Open, TypeOK

\* A fire touches the board and the memory of its own schedule only.
LEMMA FiringFrame ==
  ASSUME TypeOK, NEW f \in Fires, Firing(f), NEW j \in Job, f[1] # j
  PROVE  /\ lastTask'[j] = lastTask[j] /\ board'[j] = board[j] /\ lost'[j] = lost[j]
         /\ unseen' = unseen /\ got'[Loop(j)] = got[Loop(j)] /\ phase' = phase
<1> USE FireOfJob DEF TypeOK, mem, fast, hist
<1>1. ASSUME NEW t \in Task, EnqueueCommit(f, t)
      PROVE  /\ lastTask'[j] = lastTask[j] /\ board'[j] = board[j] /\ lost'[j] = lost[j]
             /\ unseen' = unseen /\ got'[Loop(j)] = got[Loop(j)] /\ phase' = phase
  BY <1>1 DEF EnqueueCommit
<1>2. CASE Record(f)
  BY <1>2 DEF Record
<1>3. CASE Abandon(f)
  <2>1. UNCHANGED <<lastTask, got, phase, unseen>>
    BY <1>3 DEF Abandon
  <2>2. CASE UNCHANGED <<board, lost>>
    BY <2>1, <2>2
  <2>3. ASSUME NEW t \in Task, board' = [board EXCEPT ![f[1]][t] = "open"],
               lost' = [lost EXCEPT ![f[1]] = @ \cup {t}]
        PROVE  board'[j] = board[j] /\ lost'[j] = lost[j]
    BY <2>3
  <2> QED BY <1>3, <2>1, <2>2, <2>3 DEF Abandon
<1>4. CASE EnqueueFails(f) \/ SaveCheck(f) \/ SaveWrite(f) \/ FireEnds(f)
  BY <1>4 DEF EnqueueFails, SaveCheck, SaveWrite, FireEnds
<1> QED BY <1>1, <1>2, <1>3, <1>4 DEF Firing

\* What was run by hand remains so.
LEMMA ByHandGrows == TypeOK /\ [Next]_vars => byHand \subseteq byHand'
<1> SUFFICES ASSUME TypeOK, [Next]_vars PROVE byHand \subseteq byHand'
  OBVIOUS
<1> USE DEF TypeOK, hist
<1>1. CASE Load \/ Start \/ Shutdown \/ Exit \/ \E j \in Job : ShutdownRaises(j)
  BY <1>1 DEF Load, Start, Shutdown, Exit, ShutdownRaises
<1>2. ASSUME NEW j \in Job, Adding(j) PROVE byHand \subseteq byHand'
  BY <1>2 DEF Adding, AddInsert, AddSave, AddSaveFails, AddCheck, AddStart, AddRollback, AddUndo
<1>3. ASSUME NEW j \in Job, Removing(j) \/ Callback(j) PROVE byHand \subseteq byHand'
  BY <1>3 DEF Removing, RemovePop, RemoveDelete, RemoveUnschedule, Callback, SpawnCheck, Spawn,
              Cancel
<1>4. ASSUME NEW j \in Job, Checking(j) \/ Board(j) PROVE byHand \subseteq byHand'
  BY <1>4 DEF Checking, Wake, Skip, Proceed, ReadFails, RunNow, Board, Resolve, Retry
<1>5. ASSUME NEW f \in Fires, Firing(f) PROVE byHand \subseteq byHand'
  BY <1>5 DEF Firing, EnqueueCommit, Record, EnqueueFails, Abandon, SaveCheck, SaveWrite, FireEnds
<1>6. CASE UNCHANGED vars
  BY <1>6 DEF vars
<1> QED BY <1>1, <1>2, <1>3, <1>4, <1>5, <1>6 DEF Next

\* The run an unattended schedule may have unresolved is the one it remembers.
LEMMA RecordedStep ==
  ASSUME TypeOK, Quiet, SpawnOnce, Recorded, TypeOK', [Next]_vars PROVE Recorded'
<1> SUFFICES ASSUME NEW j \in Job, j \notin byHand' PROVE RecordedFor(j)'
  BY DEF Recorded
<1>00. Shutdown =>
         /\ fire'[Loop(j)] = IF j \in tasks THEN AfterCancel(fire[Loop(j)]) ELSE fire[Loop(j)]
         /\ fire'[ByHand(j)] = fire[ByHand(j)]
  BY ShutdownStep
<1>01. ASSUME NEW i \in Job, ShutdownRaises(i)
       PROVE  /\ fire'[Loop(j)] \in {fire[Loop(j)], AfterCancel(fire[Loop(j)])}
              /\ fire'[ByHand(j)] = fire[ByHand(j)]
              /\ fire'[Loop(j)] = "created" => Known(j)' = Known(j)
              /\ Known(j)' \subseteq Known(j)
              /\ fire[Loop(j)] = "created" /\ fire'[Loop(j)] # "created"
                   => Known(j)' = Known(j) \ {got[Loop(j)]}
  <2>1. PICK js \in SUBSET tasks : CancelLoops(js)
    BY <1>01 DEF ShutdownRaises
  <2>2. js \in SUBSET Job /\ board' = board /\ unseen' = unseen
    BY <1>01 DEF ShutdownRaises, TypeOK
  <2>3. /\ fire'[Loop(j)] = IF j \in js THEN AfterCancel(fire[Loop(j)]) ELSE fire[Loop(j)]
        /\ fire'[ByHand(j)] = fire[ByHand(j)]
    BY <2>1, <2>2, CancelFacts
  <2>4. /\ j \notin js => Known(j)' = Known(j)
        /\ fire[Loop(j)] # "created" => Known(j)' = Known(j)
        /\ j \in js /\ fire[Loop(j)] = "created" => Known(j)' = Known(j) \ {got[Loop(j)]}
    BY <2>1, <2>2, CancelKnown
  <2> QED BY <2>3, <2>4 DEF AfterCancel
<1> USE CronAssumption, FireOfJob DEF TypeOK, mem, fast, hist, LoopFree, Quiet, SpawnOnce
<1>0. RecordedFor(j)
  BY ByHandGrows DEF Recorded
<1>1. Known(j) \subseteq Task /\ NoTask \notin Known(j) /\ NoRow \notin Known(j)
  BY DEF Known, Open
<1> USE <1>0, <1>1 DEF RecordedFor
<1>2. CASE Load
  BY <1>2 DEF Load, Known, Open
<1>3. CASE Start
  BY <1>3 DEF Start, Known, Open
<1>4. CASE Shutdown
  <2>1. CancelLoops(tasks) /\ tasks \in SUBSET Job /\ board' = board /\ unseen' = unseen
        /\ UNCHANGED <<got, lastTask>> /\ phase # "down" /\ phase' # "down"
    BY <1>4 DEF Shutdown
  <2>2. /\ fire'[Loop(j)] = IF j \in tasks THEN AfterCancel(fire[Loop(j)]) ELSE fire[Loop(j)]
        /\ fire'[ByHand(j)] = fire[ByHand(j)]
    BY <1>4, <1>00
  <2>3. /\ j \notin tasks => Known(j)' = Known(j)
        /\ fire[Loop(j)] # "created" => Known(j)' = Known(j)
        /\ j \in tasks /\ fire[Loop(j)] = "created" => Known(j)' = Known(j) \ {got[Loop(j)]}
    BY <2>1, CancelKnown
  <2> QED BY <2>1, <2>2, <2>3 DEF AfterCancel
<1>5. CASE Exit
  <2>1. ASSUME NEW t \in Known(j)' PROVE t = row'[j]
    <3>1. t \in Task /\ t \notin lost'[j] /\ board[j][t] = "open"
      BY <1>5 DEF Exit, Known, Open
    <3>2. t \in Known(j)
      BY <1>5, <3>1 DEF Exit, Known, Open
    <3>3. row[j] = t \/ ~ (lastTask[j] = t \/ (fire[Loop(j)] = "created" /\ got[Loop(j)] = t))
      BY <1>5, <3>1 DEF Exit, Loop, Kind
    <3> QED BY <1>5, <3>2, <3>3 DEF Exit
  <2> QED BY <1>5, <2>1 DEF Exit
<1>6. ASSUME NEW i \in Job, Adding(i) PROVE RecordedFor(j)'
  <2>1. phase # "down" /\ UNCHANGED <<phase, lastTask, fire, got, board, lost, unseen>>
    BY <1>6 DEF Adding, AddInsert, AddSave, AddSaveFails, AddCheck, AddStart, AddRollback, AddUndo
  <2> QED BY <2>1 DEF Known, Open
<1>7. ASSUME NEW i \in Job, Removing(i) PROVE RecordedFor(j)'
  <2>1. phase # "down" /\ UNCHANGED <<phase, lastTask, fire, got, board, lost, unseen>>
    BY <1>7 DEF Removing, RemovePop, RemoveDelete, RemoveUnschedule
  <2> QED BY <2>1 DEF Known, Open
<1>8. ASSUME NEW i \in Job, SpawnCheck(i) \/ Spawn(i) PROVE RecordedFor(j)'
  BY <1>8 DEF SpawnCheck, Spawn, Known, Open
<1>9. ASSUME NEW i \in Job, Cancel(i) PROVE RecordedFor(j)'
  <2>1. CancelLoops({i}) /\ {i} \in SUBSET Job /\ board' = board /\ unseen' = unseen
        /\ UNCHANGED <<got, lastTask, phase, row>>
    BY <1>9 DEF Cancel
  <2>2. CancelEffect(i)
    BY <1>9, CancelStep
  <2>3. /\ i # j => Known(j)' = Known(j)
        /\ fire[Loop(j)] # "created" => Known(j)' = Known(j)
        /\ i = j /\ fire[Loop(j)] = "created" => Known(j)' = Known(j) \ {got[Loop(j)]}
    <3> HIDE DEF TypeOK, Quiet, SpawnOnce, RecordedFor
    <3>1. TypeOK
      OBVIOUS
    <3> DEFINE js == {i}
    <3>2. js \in SUBSET Job /\ CancelLoops(js)
      BY <2>1
    <3>3. (i = j) <=> (j \in js)
      OBVIOUS
    <3> HIDE DEF js
    <3>4. /\ j \notin js => Known(j)' = Known(j)
          /\ fire[Loop(j)] # "created" => Known(j)' = Known(j)
          /\ j \in js /\ fire[Loop(j)] = "created" => Known(j)' = Known(j) \ {got[Loop(j)]}
      BY <2>1, <3>1, <3>2, CancelKnown
    <3> QED BY <3>3, <3>4
  <2> QED BY <2>1, <2>2, <2>3 DEF AfterCancel, CancelEffect
<1>10. ASSUME NEW i \in Job, Checking(i) PROVE RecordedFor(j)'
  <2>1. UNCHANGED <<phase, row, lastTask, board, lost>> /\ phase # "down"
    BY <1>10 DEF Checking, Wake, Skip, Proceed, ReadFails, RunNow
  <2>3. CASE Wake(i)
    <3>1. Known(j)' = Known(j)
      BY <2>1, <2>3 DEF Wake, Known, Open
    <3> QED BY <2>1, <2>3, <3>1 DEF Wake
  <2>4. CASE Skip(i)
    <3>1. Known(j)' = Known(j)
      BY <2>1, <2>4 DEF Skip, Known, Open
    <3> QED BY <2>1, <2>4, <3>1 DEF Skip
  <2>5. CASE Proceed(i)
    <3>1. i = j => Known(j) = {}
      BY <2>5 DEF Proceed, Known, Open
    <3>2. Known(j)' = Known(j)
      BY <2>1, <2>5 DEF Proceed, Known, Open
    <3> QED BY <2>1, <2>5, <3>1, <3>2 DEF Proceed
  <2>7. CASE ReadFails(i)
    <3>1. i = j => \A t \in Known(j) : t = got[Loop(j)]
      BY <2>7 DEF ReadFails
    <3>2. unseen' = [unseen EXCEPT ![i] = @ \cup {got[Loop(i)]}]
      BY <2>7 DEF ReadFails
    <3>3. Known(j)' \subseteq Known(j)
      BY <2>1, <3>2 DEF Known, Open
    <3>4. i = j => Known(j)' = {}
      <4>1. i = j => got[Loop(j)] \notin Known(j)'
        BY <3>2 DEF Known
      <4> QED BY <3>1, <3>3, <4>1
    <3>5. i # j => fire'[Loop(j)] = fire[Loop(j)] /\ got'[Loop(j)] = got[Loop(j)]
      BY <2>7 DEF ReadFails
    <3>6. i = j => fire'[Loop(j)] = "enqueue"
      BY <2>7 DEF ReadFails
    <3>7. fire'[ByHand(j)] = fire[ByHand(j)]
      BY <2>7 DEF ReadFails
    <3> QED BY <2>1, <3>3, <3>4, <3>5, <3>6, <3>7
  <2>6. CASE RunNow(i)
    <3>1. i # j
      BY <2>6 DEF RunNow
    <3>2. Known(j)' = Known(j)
      BY <2>1, <2>6 DEF RunNow, Known, Open
    <3> QED BY <2>1, <2>6, <3>1, <3>2 DEF RunNow
  <2> QED BY <1>10, <2>3, <2>4, <2>5, <2>6, <2>7 DEF Checking
<1>11. ASSUME NEW i \in Job, Board(i) PROVE RecordedFor(j)'
  <2>1. UNCHANGED <<phase, row, lastTask, fire, got, lost>>
    BY <1>11 DEF Board, Resolve, Retry
  <2>2. Known(j)' \subseteq Known(j)
    <3>1. ASSUME NEW t \in Task, Resolve(i, t) PROVE Known(j)' \subseteq Known(j)
      BY <3>1 DEF Resolve, Known, Open
    <3>2. ASSUME NEW t \in Task, Retry(i, t) PROVE Known(j)' \subseteq Known(j)
      BY <3>2 DEF Retry, Known, Open
    <3> QED BY <1>11, <3>1, <3>2 DEF Board
  <2> QED BY <2>1, <2>2
<1>12. ASSUME NEW f \in Fires, Firing(f) PROVE RecordedFor(j)'
  <2>0. FiringEffect(f) /\ unseen' = unseen
    BY <1>12, FiringStep DEF FiringEffect
  <2>1. CASE f[1] # j
    <3>1. /\ f # Loop(j) /\ f # ByHand(j)
          /\ fire'[Loop(j)] = fire[Loop(j)] /\ fire'[ByHand(j)] = fire[ByHand(j)]
          /\ row'[j] = row[j]
      BY <2>0, <2>1 DEF FiringEffect
    <3>2. /\ lastTask'[j] = lastTask[j] /\ board'[j] = board[j] /\ lost'[j] = lost[j]
          /\ unseen' = unseen /\ got'[Loop(j)] = got[Loop(j)] /\ phase' = phase
      BY <1>12, <2>1, FiringFrame
    <3> QED BY <3>1, <3>2 DEF Known, Open
  <2>2. CASE f = Loop(j)
    <3>1. phase' = phase /\ phase # "down" /\ fire'[ByHand(j)] = fire[ByHand(j)]
      <4>1. phase' = phase /\ fire'[ByHand(j)] = fire[ByHand(j)]
        BY <2>0, <2>2 DEF FiringEffect
      <4>2. phase = "down" => fire[f] = "none" /\ save[f] = "idle"
        OBVIOUS
      <4>3. fire[f] # "none" \/ save[f] # "idle"
        BY <1>12 DEF Firing, EnqueueCommit, Record, EnqueueFails, Abandon, SaveCheck, SaveWrite, FireEnds
      <4> QED BY <4>1, <4>2, <4>3
    <3>2. ASSUME NEW t \in Task, EnqueueCommit(f, t) PROVE RecordedFor(j)'
      <4>1. Known(j) = {}
        BY <2>2, <3>2 DEF EnqueueCommit
      <4>2. Known(j)' \subseteq Known(j) \cup {t}
        BY <2>2, <3>2 DEF EnqueueCommit, Known, Open
      <4>3. /\ fire'[Loop(j)] = "created" /\ got'[Loop(j)] = t /\ phase' = phase
        BY <2>2, <3>2 DEF EnqueueCommit
      <4> QED BY <3>1, <4>1, <4>2, <4>3
    <3>3. CASE Record(f)
      <4>1. Known(j)' = Known(j)
        BY <3>3 DEF Record, Known, Open
      <4> QED BY <2>2, <3>1, <3>3, <4>1 DEF Record
    <3>4. CASE EnqueueFails(f) \/ SaveCheck(f) \/ SaveWrite(f) \/ FireEnds(f)
      <4>1. /\ UNCHANGED <<lastTask, board, lost, got, unseen>>
            /\ fire'[Loop(j)] \in {fire[Loop(j)], "persist", "sleep"}
        BY <2>2, <3>4 DEF EnqueueFails, SaveCheck, SaveWrite, FireEnds
      <4>2. fire'[Loop(j)] = fire[Loop(j)] \/ (fire[Loop(j)] \in {"enqueue", "persist"})
        BY <2>2, <3>4 DEF EnqueueFails, SaveCheck, SaveWrite, FireEnds
      <4>3. Known(j)' = Known(j)
        BY <4>1 DEF Known, Open
      <4> QED BY <3>1, <4>1, <4>2, <4>3
    <3>5. CASE Abandon(f)
      <4>1. /\ UNCHANGED <<lastTask, got>> /\ fire[Loop(j)] = "abandoned"
            /\ fire'[Loop(j)] = "none"
        BY <2>2, <3>5 DEF Abandon
      <4>2. Known(j)' \subseteq Known(j)
        <5>1. ASSUME NEW t \in Task, board' = [board EXCEPT ![f[1]][t] = "open"],
                     lost' = [lost EXCEPT ![f[1]] = @ \cup {t}]
              PROVE  Known(j)' \subseteq Known(j)
          BY <2>0, <2>2, <5>1 DEF Known, Open
        <5>2. CASE UNCHANGED <<board, lost>>
          BY <2>0, <5>2 DEF Known, Open
        <5> QED BY <3>5, <5>1, <5>2 DEF Abandon
      <4> QED BY <3>1, <4>1, <4>2
    <3> QED BY <1>12, <3>2, <3>3, <3>4, <3>5 DEF Firing
  <2>3. CASE f = ByHand(j)
    <3>1. SaveCheck(f) \/ SaveWrite(f)
      BY <1>12, <2>3 DEF Firing, EnqueueCommit, Record, EnqueueFails, Abandon, FireEnds
    <3>2. /\ UNCHANGED <<phase, lastTask, fire, got, board, lost, unseen>> /\ save[f] # "idle"
      BY <3>1 DEF SaveCheck, SaveWrite
    <3>3. phase # "down"
      BY <3>2
    <3> QED BY <3>2, <3>3 DEF Known, Open
  <2>4. f[1] = j => f = Loop(j) \/ f = ByHand(j)
    <3>1. PICK i \in Job, k \in Kind : f = <<i, k>>
      BY DEF Fires
    <3> QED BY <3>1 DEF Kind, Loop, ByHand
  <2> QED BY <2>1, <2>2, <2>3, <2>4
<1>13. CASE UNCHANGED vars
  BY <1>13 DEF vars, Known, Open
<1>14. ASSUME NEW i \in Job, ShutdownRaises(i) PROVE RecordedFor(j)'
  <2>1. UNCHANGED <<got, lastTask>> /\ phase # "down" /\ phase' # "down"
    BY <1>14 DEF ShutdownRaises
  <2> QED BY <1>01, <1>14, <2>1 DEF AfterCancel
<1> QED
  BY <1>2, <1>3, <1>4, <1>5, <1>6, <1>7, <1>8, <1>9, <1>10, <1>11, <1>12, <1>13, <1>14
     DEF Next, Callback

----------------------------------------------------------------------------
\* The theorems.

\* The invariant holds at first ...
LEMMA InvInit == Init => IInv
<1> SUFFICES ASSUME Init PROVE IInv
  OBVIOUS
<1>1. TypeOK
  BY TypeInit
<1>2. Fresh /\ Leaving /\ StoreLocked /\ Deleted /\ LiveIsDurable
  BY DEF Init, Fresh, Leaving, StoreLocked, Deleted, LiveIsDurable
<1>3. NoLostLoop /\ Quiet /\ SpawnOnce /\ Tracked /\ NoZombie
  BY FireOfJob, CronAssumption DEF Init, NoLostLoop, Live, Quiet, SpawnOnce, Tracked, NoZombie
<1>4. Recorded
  BY FireOfJob DEF Init, Recorded, RecordedFor, Known, Open
<1> QED BY <1>1, <1>2, <1>3, <1>4 DEF IInv

\* ... and every step keeps it.
LEMMA InvStep == IInv /\ [Next]_vars => IInv'
<1> SUFFICES ASSUME IInv, [Next]_vars PROVE IInv'
  OBVIOUS
<1>1. TypeOK'
  BY TypeStep DEF IInv
<1>2. Fresh' /\ Leaving' /\ StoreLocked'
  BY <1>1, FreshStep, LeavingStep, StoreLockedStep DEF IInv
<1>3. Deleted' /\ LiveIsDurable' /\ NoLostLoop'
  BY <1>1, DeletedStep, LiveIsDurableStep, NoLostLoopStep DEF IInv
<1>4. Quiet' /\ SpawnOnce' /\ Tracked'
  BY <1>1, QuietStep, SpawnOnceStep, TrackedStep DEF IInv
<1>5. NoZombie' /\ Recorded'
  BY <1>1, NoZombieStep, RecordedStep DEF IInv
<1> QED BY <1>1, <1>2, <1>3, <1>4, <1>5 DEF IInv

\* What each variable may hold: the ids a fire works with are always task ids.
THEOREM TypeCorrect == Spec => []TypeOK
  BY TypeInit, TypeStep, PTL DEF Spec

\* The inductive invariant holds throughout.
THEOREM Invariance == Spec => []IInv
  BY InvInit, InvStep, PTL DEF Spec

\* gh #78: without a user's hand in it, a schedule has at most one unresolved run whose id
\* was kept and whose state no fire failed to read, for any number of schedules, tasks,
\* failed reads and restarts.
THEOREM NoOverlap == Spec => []OverlapProtection
<1>1. IInv => OverlapProtection
  <2> SUFFICES ASSUME IInv, NEW j \in Job \ byHand,
                      NEW t \in Known(j), NEW u \in Known(j)
               PROVE  t = u
    BY DEF OverlapProtection, Known
  <2> QED BY DEF IInv, Recorded, RecordedFor
<1> QED BY <1>1, Invariance, PTL

\* gh #82: no registered schedule is left without a run-loop.
THEOREM EveryScheduleAttended == Spec => []NoZombie
<1>1. IInv => NoZombie
  BY DEF IInv
<1> QED BY <1>1, Invariance, PTL

\* gh #151: a created schedule is in the store.
THEOREM SchedulesSurvive == Spec => []LiveIsDurable
<1>1. IInv => LiveIsDurable
  BY DEF IInv
<1> QED BY <1>1, Invariance, PTL

\* A deleted schedule is not brought back by what its fires still save.
THEOREM DeletionIsFinal == Spec => []DeletedStaysDeleted
<1>1. IInv => DeletedStaysDeleted
  BY DEF IInv, Deleted, DeletedStaysDeleted
<1> QED BY <1>1, Invariance, PTL

\* A live run-loop is where a removal or the shutdown will find it, or is being cancelled,
\* unless it was spawned after them or the shutdown raised.
THEOREM LoopsWithinReach == Spec => []NoLostLoop
<1>1. IInv => NoLostLoop
  BY DEF IInv
<1> QED BY <1>1, Invariance, PTL

=============================================================================

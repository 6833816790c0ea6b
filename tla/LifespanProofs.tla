--------------------------- MODULE LifespanProofs ---------------------------
(***************************************************************************)
(* For any number of servers and of steps that raise: what serves has its  *)
(* backend, and without overlap the agent's checkpointer is open and the   *)
(* registered parts are those of the server.                               *)
(***************************************************************************)
EXTENDS Lifespan, TLAPS

\* What is up at each stage of a server, and what is gone.
PartsUp ==
    \A s \in Server :
        /\ stage[s] \in {"upgrade", "start runner", "start scheduler", "bind", "serving",
                        "draining", "stop scheduler", "stop runner", "close store"}
           => s \in store
        /\ stage[s] \in {"start scheduler", "bind", "serving", "draining",
                        "stop scheduler", "stop runner"} => s \in runner
        /\ stage[s] \in {"bind", "serving", "draining", "stop scheduler"} => s \in scheduler
        /\ stage[s] = "stop runner" => s \notin scheduler
        /\ stage[s] = "close store" => s \notin runner

Ordered == scheduler \subseteq runner /\ runner \subseteq store

Connected == \A s \in streams \cup requests : Started(s)

\* Without overlap one thread is alive at a time.
OneActive == ~overlapped => \A s, o \in Server : Active(s) /\ Active(o) => s = o

\* Nobody has the saver of a server that has not come to its upgrade.
Fresh ==
    \A s \in Server : stage[s] \in {"none", "setup", "upgrade"} =>
        /\ s \notin cm /\ s \notin saver /\ checkpointer # s
        /\ \A o \in Server : prior[o] # s

\* From its upgrade to the restore a server's saver is the agent's, and what it will put
\* back is open and not its own.
PutsBack(s) ==
    /\ prior[s] # s /\ prior[s] \notin Server \ saver
    /\ stage[s] \in {"start runner", "start scheduler", "bind", "serving", "draining",
                    "stop scheduler", "stop runner", "close store", "restore"}
       => checkpointer = s /\ s \in saver
    /\ stage[s] = "close saver" => checkpointer # s

Swapped == ~overlapped => \A s \in Server : Active(s) /\ s \in cm => PutsBack(s)

\* The server puts the earlier checkpointer back; the server is to be the registered one.
Leaving(s) == stage[s] \in {"restore", "close saver"}
Registers(s) == Active(s) /\ stage[s] \notin {"clear scheduler", "clear runner"}

\* What is put back was put aside.
Saved ==
    /\ \A s \in cm : prior[s] # None
    /\ \A s \in Server : Leaving(s) => s \in cm

Named ==
    ~overlapped => \A s \in Server : Registers(s) => theRunner = s /\ theScheduler = s

\* The stages in which a server's store is open, its saver is, its saver is the agent's,
\* and the scheduler it registered is registered.
StoreStage(s) ==
    stage[s] \in {"upgrade", "start runner", "start scheduler", "bind", "serving",
                  "draining", "stop scheduler", "stop runner", "close store"}
SwapStage(s) ==
    stage[s] \in {"start runner", "start scheduler", "bind", "serving", "draining",
                  "stop scheduler", "stop runner", "close store", "restore"}
SaverStage(s) == SwapStage(s) \/ stage[s] = "close saver"
NamedStage(s) == Active(s) /\ stage[s] # "clear runner"

\* As long as nothing raised a store and a saver are closed on the way.
Closed ==
    raises = 0 =>
        /\ \A s \in store : StoreStage(s)
        /\ \A s \in saver \cap cm : SaverStage(s)

\* Nor do servers that did not overlap leave their saver to the agent, or themselves
\* registered.
GivenBack ==
    raises = 0 /\ ~overlapped =>
        /\ \A s \in cm : prior[s] = Memory
        /\ checkpointer \in Server => checkpointer \in cm /\ SwapStage(checkpointer)

Unregistered ==
    raises = 0 /\ ~overlapped =>
        /\ theRunner \in Server => Active(theRunner)
        /\ theScheduler \in Server => NamedStage(theScheduler)

LInv ==
    /\ TypeOK /\ PartsUp /\ Ordered /\ Connected /\ OneActive /\ Fresh
    /\ Swapped /\ Saved /\ Named /\ NoClosedSaver
    /\ Closed /\ GivenBack /\ Unregistered

LEMMA OneMore ==
    0 \in 0..MaxRaises /\ \A n \in 0..MaxRaises : n < MaxRaises => n + 1 \in 0..MaxRaises
BY LifespanAssumption

LEMMA LInvInit == Init => LInv
<1> SUFFICES ASSUME Init PROVE LInv
  OBVIOUS
<1> USE LifespanAssumption DEF Init
<1>1. TypeOK
  <2>1. stage \in [Server -> Stages] /\ prior \in [Server -> Server \cup {Memory, None}]
    BY DEF Stages
  <2>2. caller \in [at : {"starting", "stopping"}, of : Server] \cup [at : {"free"}, of : {None}]
    OBVIOUS
  <2>3. overlapped \in BOOLEAN /\ raises \in 0..MaxRaises
    BY ONLY Init, OneMore DEF Init
  <2> QED BY <2>1, <2>2, <2>3 DEF TypeOK
<1>2. PartsUp /\ Ordered /\ Connected /\ OneActive /\ Fresh
  BY DEF PartsUp, Ordered, Connected, OneActive, Fresh, Active
<1>3. Swapped /\ Saved /\ Named /\ NoClosedSaver
  BY DEF Swapped, PutsBack, Saved, Leaving, Named, Registers, NoClosedSaver, Active
<1>4. Closed /\ GivenBack /\ Unregistered
  BY DEF Closed, GivenBack, Unregistered
<1> QED BY <1>1, <1>2, <1>3, <1>4 DEF LInv

LEMMA TypeStep == LInv /\ [Next]_vars => (TypeOK)'
<1> SUFFICES ASSUME LInv, [Next]_vars PROVE (TypeOK)'
  OBVIOUS
<1> USE LifespanAssumption DEF LInv, Goto, TypeOK, Stages, Saved, Leaving
<1>1. CASE Running
  BY <1>1 DEF Running, open, parts, agent, registered, history
<1>2. CASE GiveUp
  BY <1>2 DEF GiveUp, open, parts, agent, registered, history
<1>3. CASE Stopped
  BY <1>3 DEF Stopped, open, parts, agent, registered, history
<1>4. ASSUME NEW s \in Server, Run(s) PROVE (TypeOK)'
  BY <1>4 DEF Run, Register, open, parts, agent, registered, history
<1>5. ASSUME NEW s \in Server, Stop(s) PROVE (TypeOK)'
  BY <1>5 DEF Stop, open, parts, agent, registered, history
<1>6. ASSUME NEW s \in Server, Raise(s) PROVE (TypeOK)'
  <2>1. raises \in 0..MaxRaises /\ raises < MaxRaises /\ raises' = raises + 1
    BY <1>6 DEF Raise
  <2>3. raises' \in 0..MaxRaises
    BY ONLY <2>1, OneMore
  <2>2. stage' \in [Server -> Stages]
    BY <1>6 DEF Raise
  <2> QED BY <1>6, <2>3, <2>2 DEF Raise, open, parts, agent, registered, history
<1>7. ASSUME NEW s \in Server, Setup(s) PROVE (TypeOK)'
  BY <1>7 DEF Setup, open, parts, agent, registered, history
<1>8. ASSUME NEW s \in Server, Upgrade(s) PROVE (TypeOK)'
  <2>1. checkpointer' \in Server \cup {Memory, Own}
    BY <1>8 DEF Upgrade, Swap
  <2>2. prior' \in [Server -> Server \cup {Memory, None}]
    BY <1>8 DEF Upgrade, Swap, agent
  <2>3. saver' \subseteq Server /\ cm' \subseteq Server
    BY <1>8 DEF Upgrade, Swap, agent
  <2> QED BY <1>8, <2>1, <2>2, <2>3 DEF Upgrade, open, parts, agent, registered, history
<1>9. ASSUME NEW s \in Server, NoUpgrade(s) PROVE (TypeOK)'
  BY <1>9 DEF NoUpgrade, open, parts, agent, registered, history
<1>10. ASSUME NEW s \in Server, StartRunner(s) PROVE (TypeOK)'
  BY <1>10 DEF StartRunner, open, parts, agent, registered, history
<1>11. ASSUME NEW s \in Server, StartScheduler(s) PROVE (TypeOK)'
  BY <1>11 DEF StartScheduler, open, parts, agent, registered, history
<1>12. ASSUME NEW s \in Server, Bind(s) PROVE (TypeOK)'
  BY <1>12 DEF Bind, StartupComplete, open, parts, agent, registered, history
<1>13. ASSUME NEW s \in Server, BindFails(s) PROVE (TypeOK)'
  BY <1>13 DEF BindFails, StartupComplete, open, parts, agent, registered, history
<1>14. ASSUME NEW s \in Server, Connect(s) PROVE (TypeOK)'
  BY <1>14 DEF Connect, open, parts, agent, registered, history
<1>15. ASSUME NEW s \in Server, Answered(s) PROVE (TypeOK)'
  BY <1>15 DEF Answered, open, parts, agent, registered, history
<1>16. ASSUME NEW s \in Server, StreamEnds(s) PROVE (TypeOK)'
  BY <1>16 DEF StreamEnds, open, parts, agent, registered, history
<1>17. ASSUME NEW s \in Server, CutOff(s) PROVE (TypeOK)'
  BY <1>17 DEF CutOff, open, parts, agent, registered, history
<1>18. ASSUME NEW s \in Server, Drain(s) PROVE (TypeOK)'
  BY <1>18 DEF Drain, open, parts, agent, registered, history
<1>19. ASSUME NEW s \in Server, Drained(s) PROVE (TypeOK)'
  BY <1>19 DEF Drained, open, parts, agent, registered, history
<1>20. ASSUME NEW s \in Server, StopScheduler(s) PROVE (TypeOK)'
  BY <1>20 DEF StopScheduler, open, parts, agent, registered, history
<1>21. ASSUME NEW s \in Server, StopRunner(s) PROVE (TypeOK)'
  BY <1>21 DEF StopRunner, open, parts, agent, registered, history
<1>22. ASSUME NEW s \in Server, CloseStore(s) PROVE (TypeOK)'
  BY <1>22 DEF CloseStore, open, parts, agent, registered, history
<1>23. ASSUME NEW s \in Server, Restore(s) PROVE (TypeOK)'
  BY <1>23 DEF Restore, open, parts, agent, registered, history
<1>24. ASSUME NEW s \in Server, CloseSaver(s) PROVE (TypeOK)'
  BY <1>24 DEF CloseSaver, open, parts, agent, registered, history
<1>25. ASSUME NEW s \in Server, ClearScheduler(s) PROVE (TypeOK)'
  BY <1>25 DEF ClearScheduler, open, parts, agent, registered, history
<1>26. ASSUME NEW s \in Server, ClearRunner(s) PROVE (TypeOK)'
  BY <1>26 DEF ClearRunner, open, parts, agent, registered, history
<1>27. CASE UNCHANGED vars
  BY <1>27 DEF vars, open, parts, agent, registered, history
<1> QED
  BY <1>1, <1>2, <1>3, <1>4, <1>5, <1>6, <1>7, <1>8, <1>9, <1>10, <1>11, <1>12, <1>13,
         <1>14, <1>15, <1>16, <1>17, <1>18, <1>19, <1>20, <1>21, <1>22, <1>23, <1>24, <1>25,
         <1>26, <1>27
  DEF Next, Startup, Shutdown

LEMMA PartsStep == LInv /\ [Next]_vars => (PartsUp /\ Ordered)'
<1> SUFFICES ASSUME LInv, [Next]_vars PROVE (PartsUp /\ Ordered)'
  OBVIOUS
<1> USE LifespanAssumption DEF LInv, Goto, TypeOK, PartsUp, Ordered
<1>1. CASE Running
  BY <1>1 DEF Running, open, parts, agent, registered, history
<1>2. CASE GiveUp
  BY <1>2 DEF GiveUp, open, parts, agent, registered, history
<1>3. CASE Stopped
  BY <1>3 DEF Stopped, open, parts, agent, registered, history
<1>4. ASSUME NEW s \in Server, Run(s) PROVE (PartsUp /\ Ordered)'
  BY <1>4 DEF Run, Register, open, parts, agent, registered, history
<1>5. ASSUME NEW s \in Server, Stop(s) PROVE (PartsUp /\ Ordered)'
  BY <1>5 DEF Stop, open, parts, agent, registered, history
<1>6. ASSUME NEW s \in Server, Raise(s) PROVE (PartsUp /\ Ordered)'
  BY <1>6 DEF Raise, open, parts, agent, registered, history
<1>7. ASSUME NEW s \in Server, Setup(s) PROVE (PartsUp /\ Ordered)'
  BY <1>7 DEF Setup, open, parts, agent, registered, history
<1>8. ASSUME NEW s \in Server, Upgrade(s) PROVE (PartsUp /\ Ordered)'
  BY <1>8 DEF Upgrade, Swap, open, parts, agent, registered, history
<1>9. ASSUME NEW s \in Server, NoUpgrade(s) PROVE (PartsUp /\ Ordered)'
  BY <1>9 DEF NoUpgrade, open, parts, agent, registered, history
<1>10. ASSUME NEW s \in Server, StartRunner(s) PROVE (PartsUp /\ Ordered)'
  BY <1>10 DEF StartRunner, open, parts, agent, registered, history
<1>11. ASSUME NEW s \in Server, StartScheduler(s) PROVE (PartsUp /\ Ordered)'
  BY <1>11 DEF StartScheduler, open, parts, agent, registered, history
<1>12. ASSUME NEW s \in Server, Bind(s) PROVE (PartsUp /\ Ordered)'
  BY <1>12 DEF Bind, StartupComplete, open, parts, agent, registered, history
<1>13. ASSUME NEW s \in Server, BindFails(s) PROVE (PartsUp /\ Ordered)'
  BY <1>13 DEF BindFails, StartupComplete, open, parts, agent, registered, history
<1>14. ASSUME NEW s \in Server, Connect(s) PROVE (PartsUp /\ Ordered)'
  BY <1>14 DEF Connect, open, parts, agent, registered, history
<1>15. ASSUME NEW s \in Server, Answered(s) PROVE (PartsUp /\ Ordered)'
  BY <1>15 DEF Answered, open, parts, agent, registered, history
<1>16. ASSUME NEW s \in Server, StreamEnds(s) PROVE (PartsUp /\ Ordered)'
  BY <1>16 DEF StreamEnds, open, parts, agent, registered, history
<1>17. ASSUME NEW s \in Server, CutOff(s) PROVE (PartsUp /\ Ordered)'
  BY <1>17 DEF CutOff, open, parts, agent, registered, history
<1>18. ASSUME NEW s \in Server, Drain(s) PROVE (PartsUp /\ Ordered)'
  BY <1>18 DEF Drain, open, parts, agent, registered, history
<1>19. ASSUME NEW s \in Server, Drained(s) PROVE (PartsUp /\ Ordered)'
  BY <1>19 DEF Drained, open, parts, agent, registered, history
<1>20. ASSUME NEW s \in Server, StopScheduler(s) PROVE (PartsUp /\ Ordered)'
  BY <1>20 DEF StopScheduler, open, parts, agent, registered, history
<1>21. ASSUME NEW s \in Server, StopRunner(s) PROVE (PartsUp /\ Ordered)'
  BY <1>21 DEF StopRunner, open, parts, agent, registered, history
<1>22. ASSUME NEW s \in Server, CloseStore(s) PROVE (PartsUp /\ Ordered)'
  BY <1>22 DEF CloseStore, open, parts, agent, registered, history
<1>23. ASSUME NEW s \in Server, Restore(s) PROVE (PartsUp /\ Ordered)'
  BY <1>23 DEF Restore, open, parts, agent, registered, history
<1>24. ASSUME NEW s \in Server, CloseSaver(s) PROVE (PartsUp /\ Ordered)'
  BY <1>24 DEF CloseSaver, open, parts, agent, registered, history
<1>25. ASSUME NEW s \in Server, ClearScheduler(s) PROVE (PartsUp /\ Ordered)'
  BY <1>25 DEF ClearScheduler, open, parts, agent, registered, history
<1>26. ASSUME NEW s \in Server, ClearRunner(s) PROVE (PartsUp /\ Ordered)'
  BY <1>26 DEF ClearRunner, open, parts, agent, registered, history
<1>27. CASE UNCHANGED vars
  BY <1>27 DEF vars, open, parts, agent, registered, history
<1> QED
  BY <1>1, <1>2, <1>3, <1>4, <1>5, <1>6, <1>7, <1>8, <1>9, <1>10, <1>11, <1>12, <1>13,
         <1>14, <1>15, <1>16, <1>17, <1>18, <1>19, <1>20, <1>21, <1>22, <1>23, <1>24, <1>25,
         <1>26, <1>27
  DEF Next, Startup, Shutdown

LEMMA ConnectedStep == LInv /\ [Next]_vars => (Connected)'
<1> SUFFICES ASSUME LInv, [Next]_vars PROVE (Connected)'
  OBVIOUS
<1> USE LifespanAssumption DEF LInv, Goto, TypeOK, Connected, Started
<1>1. CASE Running
  BY <1>1 DEF Running, open, parts, agent, registered, history
<1>2. CASE GiveUp
  BY <1>2 DEF GiveUp, open, parts, agent, registered, history
<1>3. CASE Stopped
  BY <1>3 DEF Stopped, open, parts, agent, registered, history
<1>4. ASSUME NEW s \in Server, Run(s) PROVE (Connected)'
  BY <1>4 DEF Run, Register, open, parts, agent, registered, history
<1>5. ASSUME NEW s \in Server, Stop(s) PROVE (Connected)'
  BY <1>5 DEF Stop, open, parts, agent, registered, history
<1>6. ASSUME NEW s \in Server, Raise(s) PROVE (Connected)'
  BY <1>6 DEF Raise, open, parts, agent, registered, history
<1>7. ASSUME NEW s \in Server, Setup(s) PROVE (Connected)'
  BY <1>7 DEF Setup, open, parts, agent, registered, history
<1>8. ASSUME NEW s \in Server, Upgrade(s) PROVE (Connected)'
  BY <1>8 DEF Upgrade, Swap, open, parts, agent, registered, history
<1>9. ASSUME NEW s \in Server, NoUpgrade(s) PROVE (Connected)'
  BY <1>9 DEF NoUpgrade, open, parts, agent, registered, history
<1>10. ASSUME NEW s \in Server, StartRunner(s) PROVE (Connected)'
  BY <1>10 DEF StartRunner, open, parts, agent, registered, history
<1>11. ASSUME NEW s \in Server, StartScheduler(s) PROVE (Connected)'
  BY <1>11 DEF StartScheduler, open, parts, agent, registered, history
<1>12. ASSUME NEW s \in Server, Bind(s) PROVE (Connected)'
  BY <1>12 DEF Bind, StartupComplete, open, parts, agent, registered, history
<1>13. ASSUME NEW s \in Server, BindFails(s) PROVE (Connected)'
  BY <1>13 DEF BindFails, StartupComplete, open, parts, agent, registered, history
<1>14. ASSUME NEW s \in Server, Connect(s) PROVE (Connected)'
  BY <1>14 DEF Connect, open, parts, agent, registered, history
<1>15. ASSUME NEW s \in Server, Answered(s) PROVE (Connected)'
  BY <1>15 DEF Answered, open, parts, agent, registered, history
<1>16. ASSUME NEW s \in Server, StreamEnds(s) PROVE (Connected)'
  BY <1>16 DEF StreamEnds, open, parts, agent, registered, history
<1>17. ASSUME NEW s \in Server, CutOff(s) PROVE (Connected)'
  BY <1>17 DEF CutOff, open, parts, agent, registered, history
<1>18. ASSUME NEW s \in Server, Drain(s) PROVE (Connected)'
  BY <1>18 DEF Drain, open, parts, agent, registered, history
<1>19. ASSUME NEW s \in Server, Drained(s) PROVE (Connected)'
  BY <1>19 DEF Drained, open, parts, agent, registered, history
<1>20. ASSUME NEW s \in Server, StopScheduler(s) PROVE (Connected)'
  BY <1>20 DEF StopScheduler, open, parts, agent, registered, history
<1>21. ASSUME NEW s \in Server, StopRunner(s) PROVE (Connected)'
  BY <1>21 DEF StopRunner, open, parts, agent, registered, history
<1>22. ASSUME NEW s \in Server, CloseStore(s) PROVE (Connected)'
  BY <1>22 DEF CloseStore, open, parts, agent, registered, history
<1>23. ASSUME NEW s \in Server, Restore(s) PROVE (Connected)'
  BY <1>23 DEF Restore, open, parts, agent, registered, history
<1>24. ASSUME NEW s \in Server, CloseSaver(s) PROVE (Connected)'
  BY <1>24 DEF CloseSaver, open, parts, agent, registered, history
<1>25. ASSUME NEW s \in Server, ClearScheduler(s) PROVE (Connected)'
  BY <1>25 DEF ClearScheduler, open, parts, agent, registered, history
<1>26. ASSUME NEW s \in Server, ClearRunner(s) PROVE (Connected)'
  BY <1>26 DEF ClearRunner, open, parts, agent, registered, history
<1>27. CASE UNCHANGED vars
  BY <1>27 DEF vars, open, parts, agent, registered, history
<1> QED
  BY <1>1, <1>2, <1>3, <1>4, <1>5, <1>6, <1>7, <1>8, <1>9, <1>10, <1>11, <1>12, <1>13,
         <1>14, <1>15, <1>16, <1>17, <1>18, <1>19, <1>20, <1>21, <1>22, <1>23, <1>24, <1>25,
         <1>26, <1>27
  DEF Next, Startup, Shutdown

LEMMA OneActiveStep == LInv /\ [Next]_vars => (OneActive)'
<1> SUFFICES ASSUME LInv, [Next]_vars PROVE (OneActive)'
  OBVIOUS
<1>a. stage \in [Server -> Stages]
  BY DEF LInv, TypeOK
<1>b. ASSUME overlapped' = overlapped, \A o \in Server : Active(o)' => Active(o)
     PROVE  (OneActive)'
  BY <1>b DEF LInv, OneActive
<1>1. CASE Running
  <2>1. overlapped' = overlapped /\ \A o \in Server : Active(o)' => Active(o)
    BY ONLY <1>a, <1>1 DEF Running, Goto, Active, history
  <2> QED BY <1>b, <2>1
<1>2. CASE GiveUp
  <2>1. overlapped' = overlapped /\ \A o \in Server : Active(o)' => Active(o)
    BY ONLY <1>a, <1>2 DEF GiveUp, Goto, Active, history
  <2> QED BY <1>b, <2>1
<1>3. CASE Stopped
  <2>1. overlapped' = overlapped /\ \A o \in Server : Active(o)' => Active(o)
    BY ONLY <1>a, <1>3 DEF Stopped, Goto, Active, history
  <2> QED BY <1>b, <2>1
<1>4. ASSUME NEW s \in Server, Run(s) PROVE (OneActive)'
  <2>1. overlapped' = (overlapped \/ \E o \in Server : Active(o))
    BY <1>4 DEF Run
  <2>2. \A o \in Server \ {s} : Active(o)' => Active(o)
    BY ONLY <1>a, <1>4 DEF Run, Goto, Active
  <2> QED BY <2>1, <2>2 DEF OneActive
<1>5. ASSUME NEW s \in Server, Stop(s) PROVE (OneActive)'
  <2>1. overlapped' = overlapped /\ \A o \in Server : Active(o)' => Active(o)
    BY ONLY <1>a, <1>5 DEF Stop, Goto, Active, history
  <2> QED BY <1>b, <2>1
<1>6. ASSUME NEW s \in Server, Raise(s) PROVE (OneActive)'
  <2>1. overlapped' = overlapped /\ \A o \in Server : Active(o)' => Active(o)
    BY ONLY <1>a, <1>6 DEF Raise, Goto, Active, history
  <2> QED BY <1>b, <2>1
<1>7. ASSUME NEW s \in Server, Setup(s) PROVE (OneActive)'
  <2>1. overlapped' = overlapped /\ \A o \in Server : Active(o)' => Active(o)
    BY ONLY <1>a, <1>7 DEF Setup, Goto, Active, history
  <2> QED BY <1>b, <2>1
<1>8. ASSUME NEW s \in Server, Upgrade(s) PROVE (OneActive)'
  <2>1. overlapped' = overlapped /\ \A o \in Server : Active(o)' => Active(o)
    BY ONLY <1>a, <1>8 DEF Upgrade, Swap, Goto, Active, history
  <2> QED BY <1>b, <2>1
<1>9. ASSUME NEW s \in Server, NoUpgrade(s) PROVE (OneActive)'
  <2>1. overlapped' = overlapped /\ \A o \in Server : Active(o)' => Active(o)
    BY ONLY <1>a, <1>9 DEF NoUpgrade, Goto, Active, history
  <2> QED BY <1>b, <2>1
<1>10. ASSUME NEW s \in Server, StartRunner(s) PROVE (OneActive)'
  <2>1. overlapped' = overlapped /\ \A o \in Server : Active(o)' => Active(o)
    BY ONLY <1>a, <1>10 DEF StartRunner, Goto, Active, history
  <2> QED BY <1>b, <2>1
<1>11. ASSUME NEW s \in Server, StartScheduler(s) PROVE (OneActive)'
  <2>1. overlapped' = overlapped /\ \A o \in Server : Active(o)' => Active(o)
    BY ONLY <1>a, <1>11 DEF StartScheduler, Goto, Active, history
  <2> QED BY <1>b, <2>1
<1>12. ASSUME NEW s \in Server, Bind(s) PROVE (OneActive)'
  <2>1. overlapped' = overlapped /\ \A o \in Server : Active(o)' => Active(o)
    BY ONLY <1>a, <1>12 DEF Bind, StartupComplete, Goto, Active, history
  <2> QED BY <1>b, <2>1
<1>13. ASSUME NEW s \in Server, BindFails(s) PROVE (OneActive)'
  <2>1. overlapped' = overlapped /\ \A o \in Server : Active(o)' => Active(o)
    BY ONLY <1>a, <1>13 DEF BindFails, StartupComplete, Goto, Active, history
  <2> QED BY <1>b, <2>1
<1>14. ASSUME NEW s \in Server, Connect(s) PROVE (OneActive)'
  <2>1. overlapped' = overlapped /\ \A o \in Server : Active(o)' => Active(o)
    BY ONLY <1>a, <1>14 DEF Connect, Goto, Active, history
  <2> QED BY <1>b, <2>1
<1>15. ASSUME NEW s \in Server, Answered(s) PROVE (OneActive)'
  <2>1. overlapped' = overlapped /\ \A o \in Server : Active(o)' => Active(o)
    BY ONLY <1>a, <1>15 DEF Answered, Goto, Active, history
  <2> QED BY <1>b, <2>1
<1>16. ASSUME NEW s \in Server, StreamEnds(s) PROVE (OneActive)'
  <2>1. overlapped' = overlapped /\ \A o \in Server : Active(o)' => Active(o)
    BY ONLY <1>a, <1>16 DEF StreamEnds, Goto, Active, history
  <2> QED BY <1>b, <2>1
<1>17. ASSUME NEW s \in Server, CutOff(s) PROVE (OneActive)'
  <2>1. overlapped' = overlapped /\ \A o \in Server : Active(o)' => Active(o)
    BY ONLY <1>a, <1>17 DEF CutOff, Goto, Active, history
  <2> QED BY <1>b, <2>1
<1>18. ASSUME NEW s \in Server, Drain(s) PROVE (OneActive)'
  <2>1. overlapped' = overlapped /\ \A o \in Server : Active(o)' => Active(o)
    BY ONLY <1>a, <1>18 DEF Drain, Goto, Active, history
  <2> QED BY <1>b, <2>1
<1>19. ASSUME NEW s \in Server, Drained(s) PROVE (OneActive)'
  <2>1. overlapped' = overlapped /\ \A o \in Server : Active(o)' => Active(o)
    BY ONLY <1>a, <1>19 DEF Drained, Goto, Active, history
  <2> QED BY <1>b, <2>1
<1>20. ASSUME NEW s \in Server, StopScheduler(s) PROVE (OneActive)'
  <2>1. overlapped' = overlapped /\ \A o \in Server : Active(o)' => Active(o)
    BY ONLY <1>a, <1>20 DEF StopScheduler, Goto, Active, history
  <2> QED BY <1>b, <2>1
<1>21. ASSUME NEW s \in Server, StopRunner(s) PROVE (OneActive)'
  <2>1. overlapped' = overlapped /\ \A o \in Server : Active(o)' => Active(o)
    BY ONLY <1>a, <1>21 DEF StopRunner, Goto, Active, history
  <2> QED BY <1>b, <2>1
<1>22. ASSUME NEW s \in Server, CloseStore(s) PROVE (OneActive)'
  <2>1. overlapped' = overlapped /\ \A o \in Server : Active(o)' => Active(o)
    BY ONLY <1>a, <1>22 DEF CloseStore, Goto, Active, history
  <2> QED BY <1>b, <2>1
<1>23. ASSUME NEW s \in Server, Restore(s) PROVE (OneActive)'
  <2>1. overlapped' = overlapped /\ \A o \in Server : Active(o)' => Active(o)
    BY ONLY <1>a, <1>23 DEF Restore, Goto, Active, history
  <2> QED BY <1>b, <2>1
<1>24. ASSUME NEW s \in Server, CloseSaver(s) PROVE (OneActive)'
  <2>1. overlapped' = overlapped /\ \A o \in Server : Active(o)' => Active(o)
    BY ONLY <1>a, <1>24 DEF CloseSaver, Goto, Active, history
  <2> QED BY <1>b, <2>1
<1>25. ASSUME NEW s \in Server, ClearScheduler(s) PROVE (OneActive)'
  <2>1. overlapped' = overlapped /\ \A o \in Server : Active(o)' => Active(o)
    BY ONLY <1>a, <1>25 DEF ClearScheduler, Goto, Active, history
  <2> QED BY <1>b, <2>1
<1>26. ASSUME NEW s \in Server, ClearRunner(s) PROVE (OneActive)'
  <2>1. overlapped' = overlapped /\ \A o \in Server : Active(o)' => Active(o)
    BY ONLY <1>a, <1>26 DEF ClearRunner, Goto, Active, history
  <2> QED BY <1>b, <2>1
<1>27. CASE UNCHANGED vars
  <2>1. overlapped' = overlapped /\ \A o \in Server : Active(o)' => Active(o)
    BY ONLY <1>a, <1>27 DEF vars, Goto, Active, history
  <2> QED BY <1>b, <2>1
<1> QED
  BY <1>1, <1>2, <1>3, <1>4, <1>5, <1>6, <1>7, <1>8, <1>9, <1>10, <1>11, <1>12, <1>13,
         <1>14, <1>15, <1>16, <1>17, <1>18, <1>19, <1>20, <1>21, <1>22, <1>23, <1>24, <1>25,
         <1>26, <1>27
  DEF Next, Startup, Shutdown

LEMMA FreshStep == LInv /\ [Next]_vars => (Fresh)'
<1> SUFFICES ASSUME LInv, [Next]_vars PROVE (Fresh)'
  OBVIOUS
<1>a. stage \in [Server -> Stages]
  BY DEF LInv, TypeOK
<1> USE LifespanAssumption DEF LInv, Goto, TypeOK, Fresh
<1>1. CASE Running
  BY <1>1 DEF Running, open, parts, agent, registered, history
<1>2. CASE GiveUp
  BY <1>2 DEF GiveUp, open, parts, agent, registered, history
<1>3. CASE Stopped
  BY <1>3 DEF Stopped, open, parts, agent, registered, history
<1>4. ASSUME NEW s \in Server, Run(s) PROVE (Fresh)'
  BY <1>4 DEF Run, Register, open, parts, agent, registered, history
<1>5. ASSUME NEW s \in Server, Stop(s) PROVE (Fresh)'
  BY <1>5 DEF Stop, open, parts, agent, registered, history
<1>6. ASSUME NEW s \in Server, Raise(s) PROVE (Fresh)'
  BY <1>6 DEF Raise, open, parts, agent, registered, history
<1>7. ASSUME NEW s \in Server, Setup(s) PROVE (Fresh)'
  BY <1>7 DEF Setup, open, parts, agent, registered, history
<1>8. ASSUME NEW s \in Server, Upgrade(s) PROVE (Fresh)'
  BY <1>8 DEF Upgrade, Swap, open, parts, agent, registered, history
<1>9. ASSUME NEW s \in Server, NoUpgrade(s) PROVE (Fresh)'
  <2>1. /\ UNCHANGED <<cm, prior, checkpointer>> /\ saver' \in {saver, saver \cup {s}}
        /\ stage' = [stage EXCEPT ![s] = "start runner"]
    BY ONLY <1>9 DEF NoUpgrade, Goto
  <2>2. ASSUME NEW o \in Server, stage'[o] \in {"none", "setup", "upgrade"}
        PROVE  o # s /\ stage[o] \in {"none", "setup", "upgrade"}
    BY ONLY <1>a, <2>1, <2>2
  <2> QED BY ONLY <2>1, <2>2, LInv DEF LInv, Fresh
<1>10. ASSUME NEW s \in Server, StartRunner(s) PROVE (Fresh)'
  BY <1>10 DEF StartRunner, open, parts, agent, registered, history
<1>11. ASSUME NEW s \in Server, StartScheduler(s) PROVE (Fresh)'
  BY <1>11 DEF StartScheduler, open, parts, agent, registered, history
<1>12. ASSUME NEW s \in Server, Bind(s) PROVE (Fresh)'
  BY <1>12 DEF Bind, StartupComplete, open, parts, agent, registered, history
<1>13. ASSUME NEW s \in Server, BindFails(s) PROVE (Fresh)'
  BY <1>13 DEF BindFails, StartupComplete, open, parts, agent, registered, history
<1>14. ASSUME NEW s \in Server, Connect(s) PROVE (Fresh)'
  BY <1>14 DEF Connect, open, parts, agent, registered, history
<1>15. ASSUME NEW s \in Server, Answered(s) PROVE (Fresh)'
  BY <1>15 DEF Answered, open, parts, agent, registered, history
<1>16. ASSUME NEW s \in Server, StreamEnds(s) PROVE (Fresh)'
  BY <1>16 DEF StreamEnds, open, parts, agent, registered, history
<1>17. ASSUME NEW s \in Server, CutOff(s) PROVE (Fresh)'
  BY <1>17 DEF CutOff, open, parts, agent, registered, history
<1>18. ASSUME NEW s \in Server, Drain(s) PROVE (Fresh)'
  BY <1>18 DEF Drain, open, parts, agent, registered, history
<1>19. ASSUME NEW s \in Server, Drained(s) PROVE (Fresh)'
  BY <1>19 DEF Drained, open, parts, agent, registered, history
<1>20. ASSUME NEW s \in Server, StopScheduler(s) PROVE (Fresh)'
  BY <1>20 DEF StopScheduler, open, parts, agent, registered, history
<1>21. ASSUME NEW s \in Server, StopRunner(s) PROVE (Fresh)'
  BY <1>21 DEF StopRunner, open, parts, agent, registered, history
<1>22. ASSUME NEW s \in Server, CloseStore(s) PROVE (Fresh)'
  BY <1>22 DEF CloseStore, open, parts, agent, registered, history
<1>23. ASSUME NEW s \in Server, Restore(s) PROVE (Fresh)'
  BY <1>23 DEF Restore, open, parts, agent, registered, history
<1>24. ASSUME NEW s \in Server, CloseSaver(s) PROVE (Fresh)'
  BY <1>24 DEF CloseSaver, open, parts, agent, registered, history
<1>25. ASSUME NEW s \in Server, ClearScheduler(s) PROVE (Fresh)'
  BY <1>25 DEF ClearScheduler, open, parts, agent, registered, history
<1>26. ASSUME NEW s \in Server, ClearRunner(s) PROVE (Fresh)'
  BY <1>26 DEF ClearRunner, open, parts, agent, registered, history
<1>27. CASE UNCHANGED vars
  BY <1>27 DEF vars, open, parts, agent, registered, history
<1> QED
  BY <1>1, <1>2, <1>3, <1>4, <1>5, <1>6, <1>7, <1>8, <1>9, <1>10, <1>11, <1>12, <1>13,
         <1>14, <1>15, <1>16, <1>17, <1>18, <1>19, <1>20, <1>21, <1>22, <1>23, <1>24, <1>25,
         <1>26, <1>27
  DEF Next, Startup, Shutdown

LEMMA SavedStep == LInv /\ [Next]_vars => (Saved)'
<1> SUFFICES ASSUME LInv, [Next]_vars PROVE (Saved)'
  OBVIOUS
<1>a. stage \in [Server -> Stages]
  BY DEF LInv, TypeOK
<1>b. ASSUME UNCHANGED <<cm, prior>>, \A o \in Server : Leaving(o)' => Leaving(o)
     PROVE  (Saved)'
  BY <1>b DEF LInv, Saved
<1>1. CASE Running
  <2>1. UNCHANGED <<cm, prior>> /\ \A o \in Server : Leaving(o)' => Leaving(o)
    BY ONLY <1>a, <1>1 DEF Running, Goto, agent, Leaving
  <2> QED BY <1>b, <2>1
<1>2. CASE GiveUp
  <2>1. UNCHANGED <<cm, prior>> /\ \A o \in Server : Leaving(o)' => Leaving(o)
    BY ONLY <1>a, <1>2 DEF GiveUp, Goto, agent, Leaving
  <2> QED BY <1>b, <2>1
<1>3. CASE Stopped
  <2>1. UNCHANGED <<cm, prior>> /\ \A o \in Server : Leaving(o)' => Leaving(o)
    BY ONLY <1>a, <1>3 DEF Stopped, Goto, agent, Leaving
  <2> QED BY <1>b, <2>1
<1>4. ASSUME NEW s \in Server, Run(s) PROVE (Saved)'
  <2>1. UNCHANGED <<cm, prior>> /\ \A o \in Server : Leaving(o)' => Leaving(o)
    BY ONLY <1>a, <1>4 DEF Run, Register, Goto, agent, Leaving
  <2> QED BY <1>b, <2>1
<1>5. ASSUME NEW s \in Server, Stop(s) PROVE (Saved)'
  <2>1. UNCHANGED <<cm, prior>> /\ \A o \in Server : Leaving(o)' => Leaving(o)
    BY ONLY <1>a, <1>5 DEF Stop, Goto, agent, Leaving
  <2> QED BY <1>b, <2>1
<1>6. ASSUME NEW s \in Server, Raise(s) PROVE (Saved)'
  <2>1. UNCHANGED <<cm, prior>> /\ \A o \in Server : Leaving(o)' => Leaving(o)
    BY ONLY <1>a, <1>6 DEF Raise, Goto, agent, Leaving
  <2> QED BY <1>b, <2>1
<1>7. ASSUME NEW s \in Server, Setup(s) PROVE (Saved)'
  <2>1. UNCHANGED <<cm, prior>> /\ \A o \in Server : Leaving(o)' => Leaving(o)
    BY ONLY <1>a, <1>7 DEF Setup, Goto, agent, Leaving
  <2> QED BY <1>b, <2>1
<1>8. ASSUME NEW s \in Server, Upgrade(s) PROVE (Saved)'
  <2>1. /\ cm' = cm \cup {s} /\ prior' = [prior EXCEPT ![s] = checkpointer]
        /\ checkpointer # None
    BY <1>8, LifespanAssumption DEF Upgrade, LInv, TypeOK
  <2>2. ASSUME NEW o \in cm' PROVE prior'[o] # None
    <3>1. o \in Server /\ (o = s \/ o \in cm)
      BY <2>1 DEF LInv, TypeOK
    <3> QED BY <2>1, <3>1 DEF LInv, TypeOK, Saved
  <2>3. \A o \in Server : Leaving(o)' => Leaving(o)
    BY ONLY <1>a, <1>8 DEF Upgrade, Goto, Leaving
  <2> QED BY <2>1, <2>2, <2>3 DEF LInv, Saved
<1>9. ASSUME NEW s \in Server, NoUpgrade(s) PROVE (Saved)'
  <2>1. UNCHANGED <<cm, prior>> /\ \A o \in Server : Leaving(o)' => Leaving(o)
    BY ONLY <1>a, <1>9 DEF NoUpgrade, Goto, agent, Leaving
  <2> QED BY <1>b, <2>1
<1>10. ASSUME NEW s \in Server, StartRunner(s) PROVE (Saved)'
  <2>1. UNCHANGED <<cm, prior>> /\ \A o \in Server : Leaving(o)' => Leaving(o)
    BY ONLY <1>a, <1>10 DEF StartRunner, Goto, agent, Leaving
  <2> QED BY <1>b, <2>1
<1>11. ASSUME NEW s \in Server, StartScheduler(s) PROVE (Saved)'
  <2>1. UNCHANGED <<cm, prior>> /\ \A o \in Server : Leaving(o)' => Leaving(o)
    BY ONLY <1>a, <1>11 DEF StartScheduler, Goto, agent, Leaving
  <2> QED BY <1>b, <2>1
<1>12. ASSUME NEW s \in Server, Bind(s) PROVE (Saved)'
  <2>1. UNCHANGED <<cm, prior>> /\ \A o \in Server : Leaving(o)' => Leaving(o)
    BY ONLY <1>a, <1>12 DEF Bind, StartupComplete, Goto, agent, Leaving
  <2> QED BY <1>b, <2>1
<1>13. ASSUME NEW s \in Server, BindFails(s) PROVE (Saved)'
  <2>1. UNCHANGED <<cm, prior>> /\ \A o \in Server : Leaving(o)' => Leaving(o)
    BY ONLY <1>a, <1>13 DEF BindFails, StartupComplete, Goto, agent, Leaving
  <2> QED BY <1>b, <2>1
<1>14. ASSUME NEW s \in Server, Connect(s) PROVE (Saved)'
  <2>1. UNCHANGED <<cm, prior>> /\ \A o \in Server : Leaving(o)' => Leaving(o)
    BY ONLY <1>a, <1>14 DEF Connect, Goto, agent, Leaving
  <2> QED BY <1>b, <2>1
<1>15. ASSUME NEW s \in Server, Answered(s) PROVE (Saved)'
  <2>1. UNCHANGED <<cm, prior>> /\ \A o \in Server : Leaving(o)' => Leaving(o)
    BY ONLY <1>a, <1>15 DEF Answered, Goto, agent, Leaving
  <2> QED BY <1>b, <2>1
<1>16. ASSUME NEW s \in Server, StreamEnds(s) PROVE (Saved)'
  <2>1. UNCHANGED <<cm, prior>> /\ \A o \in Server : Leaving(o)' => Leaving(o)
    BY ONLY <1>a, <1>16 DEF StreamEnds, Goto, agent, Leaving
  <2> QED BY <1>b, <2>1
<1>17. ASSUME NEW s \in Server, CutOff(s) PROVE (Saved)'
  <2>1. UNCHANGED <<cm, prior>> /\ \A o \in Server : Leaving(o)' => Leaving(o)
    BY ONLY <1>a, <1>17 DEF CutOff, Goto, agent, Leaving
  <2> QED BY <1>b, <2>1
<1>18. ASSUME NEW s \in Server, Drain(s) PROVE (Saved)'
  <2>1. UNCHANGED <<cm, prior>> /\ \A o \in Server : Leaving(o)' => Leaving(o)
    BY ONLY <1>a, <1>18 DEF Drain, Goto, agent, Leaving
  <2> QED BY <1>b, <2>1
<1>19. ASSUME NEW s \in Server, Drained(s) PROVE (Saved)'
  <2>1. UNCHANGED <<cm, prior>> /\ \A o \in Server : Leaving(o)' => Leaving(o)
    BY ONLY <1>a, <1>19 DEF Drained, Goto, agent, Leaving
  <2> QED BY <1>b, <2>1
<1>20. ASSUME NEW s \in Server, StopScheduler(s) PROVE (Saved)'
  <2>1. UNCHANGED <<cm, prior>> /\ \A o \in Server : Leaving(o)' => Leaving(o)
    BY ONLY <1>a, <1>20 DEF StopScheduler, Goto, agent, Leaving
  <2> QED BY <1>b, <2>1
<1>21. ASSUME NEW s \in Server, StopRunner(s) PROVE (Saved)'
  <2>1. UNCHANGED <<cm, prior>> /\ \A o \in Server : Leaving(o)' => Leaving(o)
    BY ONLY <1>a, <1>21 DEF StopRunner, Goto, agent, Leaving
  <2> QED BY <1>b, <2>1
<1>22. ASSUME NEW s \in Server, CloseStore(s) PROVE (Saved)'
  <2>1. UNCHANGED <<cm, prior>>
    BY <1>22 DEF CloseStore, agent
  <2>2. \A o \in Server : Leaving(o)' => Leaving(o) \/ o \in cm
    BY ONLY <1>a, <1>22 DEF CloseStore, Goto, Leaving
  <2> QED BY <2>1, <2>2 DEF LInv, Saved
<1>23. ASSUME NEW s \in Server, Restore(s) PROVE (Saved)'
  <2>1. UNCHANGED <<cm, prior>> /\ \A o \in Server : Leaving(o)' => Leaving(o)
    BY ONLY <1>a, <1>23 DEF Restore, Goto, agent, Leaving
  <2> QED BY <1>b, <2>1
<1>24. ASSUME NEW s \in Server, CloseSaver(s) PROVE (Saved)'
  <2>1. UNCHANGED <<cm, prior>> /\ \A o \in Server : Leaving(o)' => Leaving(o)
    BY ONLY <1>a, <1>24 DEF CloseSaver, Goto, agent, Leaving
  <2> QED BY <1>b, <2>1
<1>25. ASSUME NEW s \in Server, ClearScheduler(s) PROVE (Saved)'
  <2>1. UNCHANGED <<cm, prior>> /\ \A o \in Server : Leaving(o)' => Leaving(o)
    BY ONLY <1>a, <1>25 DEF ClearScheduler, Goto, agent, Leaving
  <2> QED BY <1>b, <2>1
<1>26. ASSUME NEW s \in Server, ClearRunner(s) PROVE (Saved)'
  <2>1. UNCHANGED <<cm, prior>> /\ \A o \in Server : Leaving(o)' => Leaving(o)
    BY ONLY <1>a, <1>26 DEF ClearRunner, Goto, agent, Leaving
  <2> QED BY <1>b, <2>1
<1>27. CASE UNCHANGED vars
  <2>1. UNCHANGED <<cm, prior>> /\ \A o \in Server : Leaving(o)' => Leaving(o)
    BY ONLY <1>a, <1>27 DEF vars, Goto, agent, Leaving
  <2> QED BY <1>b, <2>1
<1> QED
  BY <1>1, <1>2, <1>3, <1>4, <1>5, <1>6, <1>7, <1>8, <1>9, <1>10, <1>11, <1>12, <1>13,
         <1>14, <1>15, <1>16, <1>17, <1>18, <1>19, <1>20, <1>21, <1>22, <1>23, <1>24, <1>25,
         <1>26, <1>27
  DEF Next, Startup, Shutdown

LEMMA SwappedStep == LInv /\ [Next]_vars => (Swapped)'
<1> SUFFICES ASSUME LInv, [Next]_vars PROVE (Swapped)'
  OBVIOUS
<1>a. stage \in [Server -> Stages]
  BY DEF LInv, TypeOK
<1>c. prior \in [Server -> Server \cup {Memory, None}]
  BY DEF LInv, TypeOK
<1> USE LifespanAssumption DEF LInv, Goto, TypeOK
<1>1. CASE Running
  <2>1. UNCHANGED <<stage, saver, cm, prior, checkpointer, overlapped>>
    BY <1>1 DEF Running, agent, history
  <2> QED BY <2>1 DEF Swapped, PutsBack, Active
<1>2. CASE GiveUp
  <2>1. UNCHANGED <<stage, saver, cm, prior, checkpointer, overlapped>>
    BY <1>2 DEF GiveUp, agent, history
  <2> QED BY <2>1 DEF Swapped, PutsBack, Active
<1>3. CASE Stopped
  <2>1. UNCHANGED <<stage, saver, cm, prior, checkpointer, overlapped>>
    BY <1>3 DEF Stopped, agent, history
  <2> QED BY <2>1 DEF Swapped, PutsBack, Active
<1>4. ASSUME NEW s \in Server, Run(s) PROVE (Swapped)'
  <2> SUFFICES ASSUME ~overlapped', NEW o \in Server, Active(o)', o \in cm' PROVE FALSE
    BY DEF Swapped
  <2>1. o = s
    BY <1>4 DEF Run, Active
  <2> QED BY <1>4, <2>1 DEF Run, agent, Fresh
<1>5. ASSUME NEW s \in Server, Stop(s) PROVE (Swapped)'
  <2> SUFFICES ASSUME ~overlapped', NEW o \in Server, Active(o)', o \in cm' PROVE PutsBack(o)'
    BY DEF Swapped
  <2>1. ~overlapped /\ Active(o) /\ o \in cm
    BY <1>5 DEF Stop, open, parts, agent, registered, history, Active
  <2> QED BY <1>5, <2>1 DEF Stop, open, parts, agent, registered, history, PutsBack, Swapped
<1>6. ASSUME NEW s \in Server, Raise(s) PROVE (Swapped)'
  <2> SUFFICES ASSUME ~overlapped', NEW o \in Server, Active(o)', o \in cm' PROVE FALSE
    BY DEF Swapped
  <2>1. o # s /\ Active(o) /\ Active(s) /\ ~overlapped
    BY <1>6 DEF Raise, Active
  <2> QED BY <2>1 DEF OneActive
<1>7. ASSUME NEW s \in Server, Setup(s) PROVE (Swapped)'
  <2> SUFFICES ASSUME ~overlapped', NEW o \in Server, Active(o)', o \in cm' PROVE PutsBack(o)'
    BY DEF Swapped
  <2>1. o = s /\ ~overlapped
    BY <1>7 DEF Setup, open, parts, agent, registered, history, OneActive, Active
  <2>2. s \in cm => PutsBack(s)
    BY <1>7, <2>1 DEF Setup, Swapped, Active
  <2> QED BY <1>7, <2>1, <2>2 DEF Setup, open, parts, agent, registered, history, PutsBack, Fresh, Saved
<1>8. ASSUME NEW s \in Server, Upgrade(s) PROVE (Swapped)'
  <2> SUFFICES ASSUME ~overlapped', NEW o \in Server, Active(o)', o \in cm' PROVE PutsBack(o)'
    BY DEF Swapped
  <2>1. o = s /\ ~overlapped
    BY <1>8 DEF Upgrade, Swap, NoClosedSaver, open, parts, agent, registered, history, OneActive, Active
  <2>2. s \in cm => PutsBack(s)
    BY <1>8, <2>1 DEF Upgrade, Swap, NoClosedSaver, Swapped, Active
  <2>3. /\ prior'[s] = checkpointer /\ checkpointer' = s /\ saver' = saver \cup {s}
        /\ stage'[s] = "start runner" /\ stage[s] = "upgrade"
    BY ONLY <1>a, <1>8, <1>c DEF Upgrade, Swap, Goto
  <2>4. checkpointer # s /\ checkpointer \notin Server \ saver
    BY <2>1, <2>3 DEF Fresh, NoClosedSaver
  <2> QED BY ONLY <2>1, <2>3, <2>4 DEF PutsBack
<1>9. ASSUME NEW s \in Server, NoUpgrade(s) PROVE (Swapped)'
  <2> SUFFICES ASSUME ~overlapped', NEW o \in Server, Active(o)', o \in cm' PROVE PutsBack(o)'
    BY DEF Swapped
  <2>1. o = s /\ ~overlapped
    BY <1>9 DEF NoUpgrade, open, parts, agent, registered, history, OneActive, Active
  <2>2. s \in cm => PutsBack(s)
    BY <1>9, <2>1 DEF NoUpgrade, Swapped, Active
  <2> QED BY <1>9, <2>1, <2>2 DEF NoUpgrade, open, parts, agent, registered, history, PutsBack, Fresh, Saved
<1>10. ASSUME NEW s \in Server, StartRunner(s) PROVE (Swapped)'
  <2> SUFFICES ASSUME ~overlapped', NEW o \in Server, Active(o)', o \in cm' PROVE PutsBack(o)'
    BY DEF Swapped
  <2>1. o = s /\ ~overlapped
    BY <1>10 DEF StartRunner, open, parts, agent, registered, history, OneActive, Active
  <2>2. s \in cm => PutsBack(s)
    BY <1>10, <2>1 DEF StartRunner, Swapped, Active
  <2>3. /\ UNCHANGED <<saver, cm, prior, checkpointer>>
        /\ stage[s] = "start runner" /\ stage'[s] = "start scheduler"
    BY ONLY <1>a, <1>10 DEF StartRunner, Goto, agent
  <2> QED BY <2>1, <2>2, <2>3 DEF PutsBack
<1>11. ASSUME NEW s \in Server, StartScheduler(s) PROVE (Swapped)'
  <2> SUFFICES ASSUME ~overlapped', NEW o \in Server, Active(o)', o \in cm' PROVE PutsBack(o)'
    BY DEF Swapped
  <2>1. o = s /\ ~overlapped
    BY <1>11 DEF StartScheduler, open, parts, agent, registered, history, OneActive, Active
  <2>2. s \in cm => PutsBack(s)
    BY <1>11, <2>1 DEF StartScheduler, Swapped, Active
  <2>3. /\ UNCHANGED <<saver, cm, prior, checkpointer>>
        /\ stage[s] = "start scheduler" /\ stage'[s] = "bind"
    BY ONLY <1>a, <1>11 DEF StartScheduler, Goto, agent
  <2> QED BY <2>1, <2>2, <2>3 DEF PutsBack
<1>12. ASSUME NEW s \in Server, Bind(s) PROVE (Swapped)'
  <2> SUFFICES ASSUME ~overlapped', NEW o \in Server, Active(o)', o \in cm' PROVE PutsBack(o)'
    BY DEF Swapped
  <2>1. o = s /\ ~overlapped
    BY <1>12 DEF Bind, StartupComplete, open, parts, agent, registered, history, OneActive, Active
  <2>2. s \in cm => PutsBack(s)
    BY <1>12, <2>1 DEF Bind, StartupComplete, Swapped, Active
  <2>3. /\ UNCHANGED <<saver, cm, prior, checkpointer>>
        /\ stage[s] = "bind" /\ stage'[s] = "serving"
    BY ONLY <1>a, <1>12 DEF Bind, StartupComplete, Goto, agent
  <2> QED BY <2>1, <2>2, <2>3 DEF PutsBack
<1>13. ASSUME NEW s \in Server, BindFails(s) PROVE (Swapped)'
  <2> SUFFICES ASSUME ~overlapped', NEW o \in Server, Active(o)', o \in cm' PROVE PutsBack(o)'
    BY DEF Swapped
  <2>1. o = s /\ ~overlapped
    BY <1>13 DEF BindFails, StartupComplete, open, parts, agent, registered, history, OneActive, Active
  <2>2. s \in cm => PutsBack(s)
    BY <1>13, <2>1 DEF BindFails, StartupComplete, Swapped, Active
  <2>3. /\ UNCHANGED <<saver, cm, prior, checkpointer>>
        /\ stage[s] = "bind" /\ stage'[s] = "stop scheduler"
    BY ONLY <1>a, <1>13 DEF BindFails, StartupComplete, Goto, agent
  <2> QED BY <2>1, <2>2, <2>3 DEF PutsBack
<1>14. ASSUME NEW s \in Server, Connect(s) PROVE (Swapped)'
  <2> SUFFICES ASSUME ~overlapped', NEW o \in Server, Active(o)', o \in cm' PROVE PutsBack(o)'
    BY DEF Swapped
  <2>1. ~overlapped /\ Active(o) /\ o \in cm
    BY <1>14 DEF Connect, open, parts, agent, registered, history, Active
  <2> QED BY <1>14, <2>1 DEF Connect, open, parts, agent, registered, history, PutsBack, Swapped
<1>15. ASSUME NEW s \in Server, Answered(s) PROVE (Swapped)'
  <2> SUFFICES ASSUME ~overlapped', NEW o \in Server, Active(o)', o \in cm' PROVE PutsBack(o)'
    BY DEF Swapped
  <2>1. ~overlapped /\ Active(o) /\ o \in cm
    BY <1>15 DEF Answered, open, parts, agent, registered, history, Active
  <2> QED BY <1>15, <2>1 DEF Answered, open, parts, agent, registered, history, PutsBack, Swapped
<1>16. ASSUME NEW s \in Server, StreamEnds(s) PROVE (Swapped)'
  <2> SUFFICES ASSUME ~overlapped', NEW o \in Server, Active(o)', o \in cm' PROVE PutsBack(o)'
    BY DEF Swapped
  <2>1. ~overlapped /\ Active(o) /\ o \in cm
    BY <1>16 DEF StreamEnds, open, parts, agent, registered, history, Active
  <2> QED BY <1>16, <2>1 DEF StreamEnds, open, parts, agent, registered, history, PutsBack, Swapped
<1>17. ASSUME NEW s \in Server, CutOff(s) PROVE (Swapped)'
  <2> SUFFICES ASSUME ~overlapped', NEW o \in Server, Active(o)', o \in cm' PROVE PutsBack(o)'
    BY DEF Swapped
  <2>1. ~overlapped /\ Active(o) /\ o \in cm
    BY <1>17 DEF CutOff, open, parts, agent, registered, history, Active
  <2> QED BY <1>17, <2>1 DEF CutOff, open, parts, agent, registered, history, PutsBack, Swapped
<1>18. ASSUME NEW s \in Server, Drain(s) PROVE (Swapped)'
  <2> SUFFICES ASSUME ~overlapped', NEW o \in Server, Active(o)', o \in cm' PROVE PutsBack(o)'
    BY DEF Swapped
  <2>1. o = s /\ ~overlapped
    BY <1>18 DEF Drain, open, parts, agent, registered, history, OneActive, Active
  <2>2. s \in cm => PutsBack(s)
    BY <1>18, <2>1 DEF Drain, Swapped, Active
  <2>3. /\ UNCHANGED <<saver, cm, prior, checkpointer>>
        /\ stage[s] = "serving" /\ stage'[s] = "draining"
    BY ONLY <1>a, <1>18 DEF Drain, Goto, agent
  <2> QED BY <2>1, <2>2, <2>3 DEF PutsBack
<1>19. ASSUME NEW s \in Server, Drained(s) PROVE (Swapped)'
  <2> SUFFICES ASSUME ~overlapped', NEW o \in Server, Active(o)', o \in cm' PROVE PutsBack(o)'
    BY DEF Swapped
  <2>1. o = s /\ ~overlapped
    BY <1>19 DEF Drained, open, parts, agent, registered, history, OneActive, Active
  <2>2. s \in cm => PutsBack(s)
    BY <1>19, <2>1 DEF Drained, Swapped, Active
  <2>3. /\ UNCHANGED <<saver, cm, prior, checkpointer>>
        /\ stage[s] = "draining" /\ stage'[s] = "stop scheduler"
    BY ONLY <1>a, <1>19 DEF Drained, Goto, agent
  <2> QED BY <2>1, <2>2, <2>3 DEF PutsBack
<1>20. ASSUME NEW s \in Server, StopScheduler(s) PROVE (Swapped)'
  <2> SUFFICES ASSUME ~overlapped', NEW o \in Server, Active(o)', o \in cm' PROVE PutsBack(o)'
    BY DEF Swapped
  <2>1. o = s /\ ~overlapped
    BY <1>20 DEF StopScheduler, open, parts, agent, registered, history, OneActive, Active
  <2>2. s \in cm => PutsBack(s)
    BY <1>20, <2>1 DEF StopScheduler, Swapped, Active
  <2>3. /\ UNCHANGED <<saver, cm, prior, checkpointer>>
        /\ stage[s] = "stop scheduler" /\ stage'[s] = "stop runner"
    BY ONLY <1>a, <1>20 DEF StopScheduler, Goto, agent
  <2> QED BY <2>1, <2>2, <2>3 DEF PutsBack
<1>21. ASSUME NEW s \in Server, StopRunner(s) PROVE (Swapped)'
  <2> SUFFICES ASSUME ~overlapped', NEW o \in Server, Active(o)', o \in cm' PROVE PutsBack(o)'
    BY DEF Swapped
  <2>1. o = s /\ ~overlapped
    BY <1>21 DEF StopRunner, open, parts, agent, registered, history, OneActive, Active
  <2>2. s \in cm => PutsBack(s)
    BY <1>21, <2>1 DEF StopRunner, Swapped, Active
  <2>3. /\ UNCHANGED <<saver, cm, prior, checkpointer>>
        /\ stage[s] = "stop runner" /\ stage'[s] = "close store"
    BY ONLY <1>a, <1>21 DEF StopRunner, Goto, agent
  <2> QED BY <2>1, <2>2, <2>3 DEF PutsBack
<1>22. ASSUME NEW s \in Server, CloseStore(s) PROVE (Swapped)'
  <2> SUFFICES ASSUME ~overlapped', NEW o \in Server, Active(o)', o \in cm' PROVE PutsBack(o)'
    BY DEF Swapped
  <2>1. o = s /\ ~overlapped
    BY <1>22 DEF CloseStore, open, parts, agent, registered, history, OneActive, Active
  <2>2. s \in cm => PutsBack(s)
    BY <1>22, <2>1 DEF CloseStore, Swapped, Active
  <2>3. /\ UNCHANGED <<saver, cm, prior, checkpointer>>
        /\ stage[s] = "close store" /\ stage'[s] \in {"restore", "clear scheduler"}
    BY ONLY <1>a, <1>22 DEF CloseStore, Goto, agent
  <2> QED BY <2>1, <2>2, <2>3 DEF PutsBack
<1>23. ASSUME NEW s \in Server, Restore(s) PROVE (Swapped)'
  <2> SUFFICES ASSUME ~overlapped', NEW o \in Server, Active(o)', o \in cm' PROVE PutsBack(o)'
    BY DEF Swapped
  <2>1. o = s /\ ~overlapped
    BY <1>23 DEF Restore, open, parts, agent, registered, history, OneActive, Active
  <2>2. s \in cm => PutsBack(s)
    BY <1>23, <2>1 DEF Restore, Swapped, Active
  <2>3. /\ checkpointer' = prior[s] /\ UNCHANGED <<saver, cm, prior>>
        /\ stage[s] = "restore" /\ stage'[s] = "close saver"
    BY ONLY <1>a, <1>23 DEF Restore, Goto, agent
  <2> QED BY <2>1, <2>2, <2>3 DEF PutsBack, Saved, Leaving
<1>24. ASSUME NEW s \in Server, CloseSaver(s) PROVE (Swapped)'
  <2> SUFFICES ASSUME ~overlapped', NEW o \in Server, Active(o)', o \in cm' PROVE PutsBack(o)'
    BY DEF Swapped
  <2>1. o = s /\ ~overlapped
    BY <1>24 DEF CloseSaver, open, parts, agent, registered, history, OneActive, Active
  <2>2. s \in cm => PutsBack(s)
    BY <1>24, <2>1 DEF CloseSaver, Swapped, Active
  <2>3. /\ saver' = saver \ {s} /\ UNCHANGED <<cm, prior, checkpointer>>
        /\ stage[s] = "close saver" /\ stage'[s] = "clear scheduler"
    BY ONLY <1>a, <1>24 DEF CloseSaver, Goto, agent
  <2> QED BY <2>1, <2>2, <2>3 DEF PutsBack
<1>25. ASSUME NEW s \in Server, ClearScheduler(s) PROVE (Swapped)'
  <2> SUFFICES ASSUME ~overlapped', NEW o \in Server, Active(o)', o \in cm' PROVE PutsBack(o)'
    BY DEF Swapped
  <2>1. o = s /\ ~overlapped
    BY <1>25 DEF ClearScheduler, open, parts, agent, registered, history, OneActive, Active
  <2>2. s \in cm => PutsBack(s)
    BY <1>25, <2>1 DEF ClearScheduler, Swapped, Active
  <2>3. /\ UNCHANGED <<saver, cm, prior, checkpointer>>
        /\ stage'[s] = "clear runner"
    BY ONLY <1>a, <1>25 DEF ClearScheduler, Goto, agent
  <2> QED BY <2>1, <2>2, <2>3 DEF PutsBack
<1>26. ASSUME NEW s \in Server, ClearRunner(s) PROVE (Swapped)'
  <2> SUFFICES ASSUME ~overlapped', NEW o \in Server, Active(o)', o \in cm' PROVE PutsBack(o)'
    BY DEF Swapped
  <2>1. o = s /\ ~overlapped
    BY <1>26 DEF ClearRunner, open, parts, agent, registered, history, OneActive, Active
  <2>2. s \in cm => PutsBack(s)
    BY <1>26, <2>1 DEF ClearRunner, Swapped, Active
  <2>3. /\ UNCHANGED <<saver, cm, prior, checkpointer>>
        /\ stage'[s] = "ended"
    BY ONLY <1>a, <1>26 DEF ClearRunner, Goto, agent
  <2> QED BY <2>1, <2>2, <2>3 DEF PutsBack
<1>27. CASE UNCHANGED vars
  <2>1. UNCHANGED <<stage, saver, cm, prior, checkpointer, overlapped>>
    BY <1>27 DEF vars, agent, history
  <2> QED BY <2>1 DEF Swapped, PutsBack, Active
<1> QED
  BY <1>1, <1>2, <1>3, <1>4, <1>5, <1>6, <1>7, <1>8, <1>9, <1>10, <1>11, <1>12, <1>13,
         <1>14, <1>15, <1>16, <1>17, <1>18, <1>19, <1>20, <1>21, <1>22, <1>23, <1>24, <1>25,
         <1>26, <1>27
  DEF Next, Startup, Shutdown

LEMMA NamedStep == LInv /\ [Next]_vars => (Named)'
<1> SUFFICES ASSUME LInv, [Next]_vars PROVE (Named)'
  OBVIOUS
<1>a. stage \in [Server -> Stages]
  BY DEF LInv, TypeOK
<1>b. ASSUME UNCHANGED <<overlapped, registered>>, \A o \in Server : Registers(o)' => Registers(o)
     PROVE  (Named)'
  BY <1>b DEF LInv, Named, registered
<1>1. CASE Running
  <2>1. UNCHANGED <<overlapped, registered>> /\ \A o \in Server : Registers(o)' => Registers(o)
    BY ONLY <1>a, <1>1 DEF Running, Goto, registered, history, Registers, Active
  <2> QED BY <1>b, <2>1
<1>2. CASE GiveUp
  <2>1. UNCHANGED <<overlapped, registered>> /\ \A o \in Server : Registers(o)' => Registers(o)
    BY ONLY <1>a, <1>2 DEF GiveUp, Goto, registered, history, Registers, Active
  <2> QED BY <1>b, <2>1
<1>3. CASE Stopped
  <2>1. UNCHANGED <<overlapped, registered>> /\ \A o \in Server : Registers(o)' => Registers(o)
    BY ONLY <1>a, <1>3 DEF Stopped, Goto, registered, history, Registers, Active
  <2> QED BY <1>b, <2>1
<1>4. ASSUME NEW s \in Server, Run(s) PROVE (Named)'
  <2>1. /\ overlapped' = (overlapped \/ \E o \in Server : Active(o))
        /\ theRunner' = s /\ theScheduler' = s
    BY <1>4 DEF Run, Register
  <2>2. \A o \in Server \ {s} : Registers(o)' => Active(o)
    BY ONLY <1>a, <1>4 DEF Run, Goto, Registers, Active
  <2> QED BY <2>1, <2>2 DEF Named
<1>5. ASSUME NEW s \in Server, Stop(s) PROVE (Named)'
  <2>1. UNCHANGED <<overlapped, registered>> /\ \A o \in Server : Registers(o)' => Registers(o)
    BY ONLY <1>a, <1>5 DEF Stop, Goto, registered, history, Registers, Active
  <2> QED BY <1>b, <2>1
<1>6. ASSUME NEW s \in Server, Raise(s) PROVE (Named)'
  <2>1. UNCHANGED <<overlapped, registered>> /\ \A o \in Server : Registers(o)' => Registers(o)
    BY ONLY <1>a, <1>6 DEF Raise, Goto, registered, history, Registers, Active
  <2> QED BY <1>b, <2>1
<1>7. ASSUME NEW s \in Server, Setup(s) PROVE (Named)'
  <2>1. UNCHANGED <<overlapped, registered>> /\ \A o \in Server : Registers(o)' => Registers(o)
    BY ONLY <1>a, <1>7 DEF Setup, Goto, registered, history, Registers, Active
  <2> QED BY <1>b, <2>1
<1>8. ASSUME NEW s \in Server, Upgrade(s) PROVE (Named)'
  <2>1. UNCHANGED <<overlapped, registered>> /\ \A o \in Server : Registers(o)' => Registers(o)
    BY ONLY <1>a, <1>8 DEF Upgrade, Swap, Goto, registered, history, Registers, Active
  <2> QED BY <1>b, <2>1
<1>9. ASSUME NEW s \in Server, NoUpgrade(s) PROVE (Named)'
  <2>1. UNCHANGED <<overlapped, registered>> /\ \A o \in Server : Registers(o)' => Registers(o)
    BY ONLY <1>a, <1>9 DEF NoUpgrade, Goto, registered, history, Registers, Active
  <2> QED BY <1>b, <2>1
<1>10. ASSUME NEW s \in Server, StartRunner(s) PROVE (Named)'
  <2>1. UNCHANGED <<overlapped, registered>> /\ \A o \in Server : Registers(o)' => Registers(o)
    BY ONLY <1>a, <1>10 DEF StartRunner, Goto, registered, history, Registers, Active
  <2> QED BY <1>b, <2>1
<1>11. ASSUME NEW s \in Server, StartScheduler(s) PROVE (Named)'
  <2>1. UNCHANGED <<overlapped, registered>> /\ \A o \in Server : Registers(o)' => Registers(o)
    BY ONLY <1>a, <1>11 DEF StartScheduler, Goto, registered, history, Registers, Active
  <2> QED BY <1>b, <2>1
<1>12. ASSUME NEW s \in Server, Bind(s) PROVE (Named)'
  <2>1. UNCHANGED <<overlapped, registered>> /\ \A o \in Server : Registers(o)' => Registers(o)
    BY ONLY <1>a, <1>12 DEF Bind, StartupComplete, Goto, registered, history, Registers, Active
  <2> QED BY <1>b, <2>1
<1>13. ASSUME NEW s \in Server, BindFails(s) PROVE (Named)'
  <2>1. UNCHANGED <<overlapped, registered>> /\ \A o \in Server : Registers(o)' => Registers(o)
    BY ONLY <1>a, <1>13 DEF BindFails, StartupComplete, Goto, registered, history, Registers, Active
  <2> QED BY <1>b, <2>1
<1>14. ASSUME NEW s \in Server, Connect(s) PROVE (Named)'
  <2>1. UNCHANGED <<overlapped, registered>> /\ \A o \in Server : Registers(o)' => Registers(o)
    BY ONLY <1>a, <1>14 DEF Connect, Goto, registered, history, Registers, Active
  <2> QED BY <1>b, <2>1
<1>15. ASSUME NEW s \in Server, Answered(s) PROVE (Named)'
  <2>1. UNCHANGED <<overlapped, registered>> /\ \A o \in Server : Registers(o)' => Registers(o)
    BY ONLY <1>a, <1>15 DEF Answered, Goto, registered, history, Registers, Active
  <2> QED BY <1>b, <2>1
<1>16. ASSUME NEW s \in Server, StreamEnds(s) PROVE (Named)'
  <2>1. UNCHANGED <<overlapped, registered>> /\ \A o \in Server : Registers(o)' => Registers(o)
    BY ONLY <1>a, <1>16 DEF StreamEnds, Goto, registered, history, Registers, Active
  <2> QED BY <1>b, <2>1
<1>17. ASSUME NEW s \in Server, CutOff(s) PROVE (Named)'
  <2>1. UNCHANGED <<overlapped, registered>> /\ \A o \in Server : Registers(o)' => Registers(o)
    BY ONLY <1>a, <1>17 DEF CutOff, Goto, registered, history, Registers, Active
  <2> QED BY <1>b, <2>1
<1>18. ASSUME NEW s \in Server, Drain(s) PROVE (Named)'
  <2>1. UNCHANGED <<overlapped, registered>> /\ \A o \in Server : Registers(o)' => Registers(o)
    BY ONLY <1>a, <1>18 DEF Drain, Goto, registered, history, Registers, Active
  <2> QED BY <1>b, <2>1
<1>19. ASSUME NEW s \in Server, Drained(s) PROVE (Named)'
  <2>1. UNCHANGED <<overlapped, registered>> /\ \A o \in Server : Registers(o)' => Registers(o)
    BY ONLY <1>a, <1>19 DEF Drained, Goto, registered, history, Registers, Active
  <2> QED BY <1>b, <2>1
<1>20. ASSUME NEW s \in Server, StopScheduler(s) PROVE (Named)'
  <2>1. UNCHANGED <<overlapped, registered>> /\ \A o \in Server : Registers(o)' => Registers(o)
    BY ONLY <1>a, <1>20 DEF StopScheduler, Goto, registered, history, Registers, Active
  <2> QED BY <1>b, <2>1
<1>21. ASSUME NEW s \in Server, StopRunner(s) PROVE (Named)'
  <2>1. UNCHANGED <<overlapped, registered>> /\ \A o \in Server : Registers(o)' => Registers(o)
    BY ONLY <1>a, <1>21 DEF StopRunner, Goto, registered, history, Registers, Active
  <2> QED BY <1>b, <2>1
<1>22. ASSUME NEW s \in Server, CloseStore(s) PROVE (Named)'
  <2>1. UNCHANGED <<overlapped, registered>> /\ \A o \in Server : Registers(o)' => Registers(o)
    BY ONLY <1>a, <1>22 DEF CloseStore, Goto, registered, history, Registers, Active
  <2> QED BY <1>b, <2>1
<1>23. ASSUME NEW s \in Server, Restore(s) PROVE (Named)'
  <2>1. UNCHANGED <<overlapped, registered>> /\ \A o \in Server : Registers(o)' => Registers(o)
    BY ONLY <1>a, <1>23 DEF Restore, Goto, registered, history, Registers, Active
  <2> QED BY <1>b, <2>1
<1>24. ASSUME NEW s \in Server, CloseSaver(s) PROVE (Named)'
  <2>1. UNCHANGED <<overlapped, registered>> /\ \A o \in Server : Registers(o)' => Registers(o)
    BY ONLY <1>a, <1>24 DEF CloseSaver, Goto, registered, history, Registers, Active
  <2> QED BY <1>b, <2>1
<1>25. ASSUME NEW s \in Server, ClearScheduler(s) PROVE (Named)'
  <2>1. overlapped' = overlapped /\ Active(s) /\ ~Registers(s)'
    BY ONLY <1>a, <1>25 DEF ClearScheduler, Goto, Registers, Active, history
  <2>2. \A o \in Server \ {s} : Registers(o)' => Active(o)
    BY ONLY <1>a, <1>25 DEF ClearScheduler, Goto, Registers, Active
  <2> QED BY <2>1, <2>2 DEF LInv, OneActive, Named
<1>26. ASSUME NEW s \in Server, ClearRunner(s) PROVE (Named)'
  <2>1. overlapped' = overlapped /\ Active(s) /\ ~Registers(s)'
    BY ONLY <1>a, <1>26 DEF ClearRunner, Goto, Registers, Active, history
  <2>2. \A o \in Server \ {s} : Registers(o)' => Active(o)
    BY ONLY <1>a, <1>26 DEF ClearRunner, Goto, Registers, Active
  <2> QED BY <2>1, <2>2 DEF LInv, OneActive, Named
<1>27. CASE UNCHANGED vars
  <2>1. UNCHANGED <<overlapped, registered>> /\ \A o \in Server : Registers(o)' => Registers(o)
    BY ONLY <1>a, <1>27 DEF vars, Goto, registered, history, Registers, Active
  <2> QED BY <1>b, <2>1
<1> QED
  BY <1>1, <1>2, <1>3, <1>4, <1>5, <1>6, <1>7, <1>8, <1>9, <1>10, <1>11, <1>12, <1>13,
         <1>14, <1>15, <1>16, <1>17, <1>18, <1>19, <1>20, <1>21, <1>22, <1>23, <1>24, <1>25,
         <1>26, <1>27
  DEF Next, Startup, Shutdown

LEMMA SaverStep == LInv /\ [Next]_vars => (NoClosedSaver)'
<1> SUFFICES ASSUME LInv, [Next]_vars PROVE (NoClosedSaver)'
  OBVIOUS
<1> USE LifespanAssumption DEF LInv, Goto, TypeOK, NoClosedSaver, Swapped, OneActive, Active, Saved, Leaving
<1>1. CASE Running
  BY <1>1 DEF Running, open, parts, agent, registered, history
<1>2. CASE GiveUp
  BY <1>2 DEF GiveUp, open, parts, agent, registered, history
<1>3. CASE Stopped
  BY <1>3 DEF Stopped, open, parts, agent, registered, history
<1>4. ASSUME NEW s \in Server, Run(s) PROVE (NoClosedSaver)'
  BY <1>4 DEF Run, Register, open, parts, agent, registered, history
<1>5. ASSUME NEW s \in Server, Stop(s) PROVE (NoClosedSaver)'
  BY <1>5 DEF Stop, open, parts, agent, registered, history
<1>6. ASSUME NEW s \in Server, Raise(s) PROVE (NoClosedSaver)'
  BY <1>6 DEF Raise, open, parts, agent, registered, history
<1>7. ASSUME NEW s \in Server, Setup(s) PROVE (NoClosedSaver)'
  BY <1>7 DEF Setup, open, parts, agent, registered, history
<1>8. ASSUME NEW s \in Server, Upgrade(s) PROVE (NoClosedSaver)'
  BY <1>8 DEF Upgrade, Swap, open, parts, agent, registered, history
<1>9. ASSUME NEW s \in Server, NoUpgrade(s) PROVE (NoClosedSaver)'
  BY <1>9 DEF NoUpgrade, open, parts, agent, registered, history
<1>10. ASSUME NEW s \in Server, StartRunner(s) PROVE (NoClosedSaver)'
  BY <1>10 DEF StartRunner, open, parts, agent, registered, history
<1>11. ASSUME NEW s \in Server, StartScheduler(s) PROVE (NoClosedSaver)'
  BY <1>11 DEF StartScheduler, open, parts, agent, registered, history
<1>12. ASSUME NEW s \in Server, Bind(s) PROVE (NoClosedSaver)'
  BY <1>12 DEF Bind, StartupComplete, open, parts, agent, registered, history
<1>13. ASSUME NEW s \in Server, BindFails(s) PROVE (NoClosedSaver)'
  BY <1>13 DEF BindFails, StartupComplete, open, parts, agent, registered, history
<1>14. ASSUME NEW s \in Server, Connect(s) PROVE (NoClosedSaver)'
  BY <1>14 DEF Connect, open, parts, agent, registered, history
<1>15. ASSUME NEW s \in Server, Answered(s) PROVE (NoClosedSaver)'
  BY <1>15 DEF Answered, open, parts, agent, registered, history
<1>16. ASSUME NEW s \in Server, StreamEnds(s) PROVE (NoClosedSaver)'
  BY <1>16 DEF StreamEnds, open, parts, agent, registered, history
<1>17. ASSUME NEW s \in Server, CutOff(s) PROVE (NoClosedSaver)'
  BY <1>17 DEF CutOff, open, parts, agent, registered, history
<1>18. ASSUME NEW s \in Server, Drain(s) PROVE (NoClosedSaver)'
  BY <1>18 DEF Drain, open, parts, agent, registered, history
<1>19. ASSUME NEW s \in Server, Drained(s) PROVE (NoClosedSaver)'
  BY <1>19 DEF Drained, open, parts, agent, registered, history
<1>20. ASSUME NEW s \in Server, StopScheduler(s) PROVE (NoClosedSaver)'
  BY <1>20 DEF StopScheduler, open, parts, agent, registered, history
<1>21. ASSUME NEW s \in Server, StopRunner(s) PROVE (NoClosedSaver)'
  BY <1>21 DEF StopRunner, open, parts, agent, registered, history
<1>22. ASSUME NEW s \in Server, CloseStore(s) PROVE (NoClosedSaver)'
  BY <1>22 DEF CloseStore, open, parts, agent, registered, history
<1>23. ASSUME NEW s \in Server, Restore(s) PROVE (NoClosedSaver)'
  <2>1. ~overlapped => PutsBack(s)
    BY <1>23 DEF Restore, Swapped, Active
  <2>2. s \in cm /\ checkpointer' = prior[s] /\ saver' = saver /\ overlapped' = overlapped
    BY <1>23 DEF Restore, agent, history
  <2> QED BY <2>1, <2>2 DEF PutsBack
<1>24. ASSUME NEW s \in Server, CloseSaver(s) PROVE (NoClosedSaver)'
  <2>1. ~overlapped => PutsBack(s)
    BY <1>24 DEF CloseSaver, Swapped, Active
  <2>2. checkpointer' = checkpointer /\ saver' = saver \ {s} /\ overlapped' = overlapped
    BY <1>24 DEF CloseSaver, agent, history
  <2>3. s \in cm /\ stage[s] = "close saver" /\ Active(s)
    BY <1>24 DEF CloseSaver
  <2> QED BY <2>1, <2>2, <2>3 DEF PutsBack
<1>25. ASSUME NEW s \in Server, ClearScheduler(s) PROVE (NoClosedSaver)'
  BY <1>25 DEF ClearScheduler, open, parts, agent, registered, history
<1>26. ASSUME NEW s \in Server, ClearRunner(s) PROVE (NoClosedSaver)'
  BY <1>26 DEF ClearRunner, open, parts, agent, registered, history
<1>27. CASE UNCHANGED vars
  BY <1>27 DEF vars, open, parts, agent, registered, history
<1> QED
  BY <1>1, <1>2, <1>3, <1>4, <1>5, <1>6, <1>7, <1>8, <1>9, <1>10, <1>11, <1>12, <1>13,
         <1>14, <1>15, <1>16, <1>17, <1>18, <1>19, <1>20, <1>21, <1>22, <1>23, <1>24, <1>25,
         <1>26, <1>27
  DEF Next, Startup, Shutdown

LEMMA ClosedStep == LInv /\ [Next]_vars => (Closed)'
<1> SUFFICES ASSUME LInv, [Next]_vars PROVE (Closed)'
  OBVIOUS
<1>a. stage \in [Server -> Stages]
  BY DEF LInv, TypeOK
<1>r. raises \in Nat
  BY LifespanAssumption DEF LInv, TypeOK
<1>t. store \subseteq Server /\ saver \subseteq Server /\ cm \subseteq Server /\ Closed
  BY DEF LInv, TypeOK
<1>1. CASE Running
  BY ONLY <1>a, <1>t, <1>1 DEF Running, parts, agent, registered, history, Closed,
     StoreStage, SaverStage, SwapStage
<1>2. CASE GiveUp
  BY ONLY <1>a, <1>t, <1>2 DEF GiveUp, parts, agent, registered, history, Closed,
     StoreStage, SaverStage, SwapStage
<1>3. CASE Stopped
  BY ONLY <1>a, <1>t, <1>3 DEF Stopped, parts, agent, registered, history, Closed,
     StoreStage, SaverStage, SwapStage
<1>4. ASSUME NEW s \in Server, Run(s) PROVE (Closed)'
  BY ONLY <1>a, <1>t, <1>4 DEF Run, Goto, Register, parts, agent, Closed, StoreStage,
     SaverStage, SwapStage
<1>5. ASSUME NEW s \in Server, Stop(s) PROVE (Closed)'
  BY ONLY <1>a, <1>t, <1>5 DEF Stop, parts, agent, registered, history, Closed,
     StoreStage, SaverStage, SwapStage
<1>6. ASSUME NEW s \in Server, Raise(s) PROVE (Closed)'
  <2>1. raises' = raises + 1
    BY <1>6 DEF Raise
  <2>2. raises' # 0
    BY ONLY <1>r, <2>1
  <2> QED BY <2>2 DEF Closed
<1>7. ASSUME NEW s \in Server, Setup(s) PROVE (Closed)'
  BY ONLY <1>a, <1>t, <1>7 DEF Setup, Goto, agent, registered, history, Closed,
     StoreStage, SaverStage, SwapStage
<1>8. ASSUME NEW s \in Server, Upgrade(s) PROVE (Closed)'
  BY ONLY <1>a, <1>t, <1>8 DEF Upgrade, Goto, Swap, parts, registered, history, Closed,
     StoreStage, SaverStage, SwapStage
<1>9. ASSUME NEW s \in Server, NoUpgrade(s) PROVE (Closed)'
  BY ONLY <1>a, <1>t, <1>9 DEF NoUpgrade, Goto, parts, registered, history, Closed,
     StoreStage, SaverStage, SwapStage
<1>10. ASSUME NEW s \in Server, StartRunner(s) PROVE (Closed)'
  BY ONLY <1>a, <1>t, <1>10 DEF StartRunner, Goto, agent, registered, history, Closed,
     StoreStage, SaverStage, SwapStage
<1>11. ASSUME NEW s \in Server, StartScheduler(s) PROVE (Closed)'
  BY ONLY <1>a, <1>t, <1>11 DEF StartScheduler, Goto, agent, registered, history, Closed,
     StoreStage, SaverStage, SwapStage
<1>12. ASSUME NEW s \in Server, Bind(s) PROVE (Closed)'
  BY ONLY <1>a, <1>t, <1>12 DEF Bind, Goto, StartupComplete, parts, agent, registered,
     history, Closed, StoreStage, SaverStage, SwapStage
<1>13. ASSUME NEW s \in Server, BindFails(s) PROVE (Closed)'
  BY ONLY <1>a, <1>t, <1>13 DEF BindFails, Goto, StartupComplete, parts, agent,
     registered, history, Closed, StoreStage, SaverStage, SwapStage
<1>14. ASSUME NEW s \in Server, Connect(s) PROVE (Closed)'
  BY ONLY <1>a, <1>t, <1>14 DEF Connect, parts, agent, registered, history, Closed,
     StoreStage, SaverStage, SwapStage
<1>15. ASSUME NEW s \in Server, Answered(s) PROVE (Closed)'
  BY ONLY <1>a, <1>t, <1>15 DEF Answered, parts, agent, registered, history, Closed,
     StoreStage, SaverStage, SwapStage
<1>16. ASSUME NEW s \in Server, StreamEnds(s) PROVE (Closed)'
  BY ONLY <1>a, <1>t, <1>16 DEF StreamEnds, parts, agent, registered, history, Closed,
     StoreStage, SaverStage, SwapStage
<1>17. ASSUME NEW s \in Server, CutOff(s) PROVE (Closed)'
  BY ONLY <1>a, <1>t, <1>17 DEF CutOff, parts, agent, registered, history, Closed,
     StoreStage, SaverStage, SwapStage
<1>18. ASSUME NEW s \in Server, Drain(s) PROVE (Closed)'
  BY ONLY <1>a, <1>t, <1>18 DEF Drain, Goto, parts, agent, registered, history, Closed,
     StoreStage, SaverStage, SwapStage
<1>19. ASSUME NEW s \in Server, Drained(s) PROVE (Closed)'
  BY ONLY <1>a, <1>t, <1>19 DEF Drained, Goto, parts, agent, registered, history, Closed,
     StoreStage, SaverStage, SwapStage
<1>20. ASSUME NEW s \in Server, StopScheduler(s) PROVE (Closed)'
  BY ONLY <1>a, <1>t, <1>20 DEF StopScheduler, Goto, agent, registered, history, Closed,
     StoreStage, SaverStage, SwapStage
<1>21. ASSUME NEW s \in Server, StopRunner(s) PROVE (Closed)'
  BY ONLY <1>a, <1>t, <1>21 DEF StopRunner, Goto, agent, registered, history, Closed,
     StoreStage, SaverStage, SwapStage
<1>22. ASSUME NEW s \in Server, CloseStore(s) PROVE (Closed)'
  BY ONLY <1>a, <1>t, <1>22 DEF CloseStore, Goto, agent, registered, history, Closed,
     StoreStage, SaverStage, SwapStage
<1>23. ASSUME NEW s \in Server, Restore(s) PROVE (Closed)'
  BY ONLY <1>a, <1>t, <1>23 DEF Restore, Goto, parts, registered, history, Closed,
     StoreStage, SaverStage, SwapStage
<1>24. ASSUME NEW s \in Server, CloseSaver(s) PROVE (Closed)'
  BY ONLY <1>a, <1>t, <1>24 DEF CloseSaver, Goto, parts, registered, history, Closed,
     StoreStage, SaverStage, SwapStage
<1>25. ASSUME NEW s \in Server, ClearScheduler(s) PROVE (Closed)'
  BY ONLY <1>a, <1>t, <1>25 DEF ClearScheduler, Goto, parts, agent, history, Closed,
     StoreStage, SaverStage, SwapStage
<1>26. ASSUME NEW s \in Server, ClearRunner(s) PROVE (Closed)'
  BY ONLY <1>a, <1>t, <1>26 DEF ClearRunner, Goto, parts, agent, history, Closed,
     StoreStage, SaverStage, SwapStage
<1>27. CASE UNCHANGED vars
  BY ONLY <1>a, <1>t, <1>27 DEF vars, agent, parts, registered, history, Closed,
     StoreStage, SaverStage, SwapStage
<1> QED
  BY <1>1, <1>2, <1>3, <1>4, <1>5, <1>6, <1>7, <1>8, <1>9, <1>10, <1>11, <1>12, <1>13,
         <1>14, <1>15, <1>16, <1>17, <1>18, <1>19, <1>20, <1>21, <1>22, <1>23, <1>24, <1>25,
         <1>26, <1>27
  DEF Next, Startup, Shutdown

LEMMA GivenBackStep == LInv /\ [Next]_vars => (GivenBack)'
<1> SUFFICES ASSUME LInv, [Next]_vars PROVE (GivenBack)'
  OBVIOUS
<1>a. stage \in [Server -> Stages]
  BY DEF LInv, TypeOK
<1>r. raises \in Nat
  BY LifespanAssumption DEF LInv, TypeOK
<1>t. /\ Server \cap {Memory, Own} = {} /\ checkpointer \in Server \cup {Memory, Own}
      /\ cm \subseteq Server /\ prior \in [Server -> Server \cup {Memory, None}] /\ GivenBack
  BY LifespanAssumption DEF LInv, TypeOK
<1>1. CASE Running
  BY ONLY <1>a, <1>t, <1>1 DEF Running, parts, agent, registered, history, GivenBack,
     SwapStage
<1>2. CASE GiveUp
  BY ONLY <1>a, <1>t, <1>2 DEF GiveUp, parts, agent, registered, history, GivenBack,
     SwapStage
<1>3. CASE Stopped
  BY ONLY <1>a, <1>t, <1>3 DEF Stopped, parts, agent, registered, history, GivenBack,
     SwapStage
<1>4. ASSUME NEW s \in Server, Run(s) PROVE (GivenBack)'
  BY ONLY <1>a, <1>t, <1>4 DEF Run, Goto, Register, parts, agent, GivenBack, SwapStage
<1>5. ASSUME NEW s \in Server, Stop(s) PROVE (GivenBack)'
  BY ONLY <1>a, <1>t, <1>5 DEF Stop, parts, agent, registered, history, GivenBack,
     SwapStage
<1>6. ASSUME NEW s \in Server, Raise(s) PROVE (GivenBack)'
  <2>1. raises' = raises + 1
    BY <1>6 DEF Raise
  <2>2. raises' # 0
    BY ONLY <1>r, <2>1
  <2> QED BY <2>2 DEF GivenBack
<1>7. ASSUME NEW s \in Server, Setup(s) PROVE (GivenBack)'
  BY ONLY <1>a, <1>t, <1>7 DEF Setup, Goto, agent, registered, history, GivenBack,
     SwapStage
<1>8. ASSUME NEW s \in Server, Upgrade(s) PROVE (GivenBack)'
  <2> SUFFICES ASSUME raises' = 0, ~overlapped' PROVE (GivenBack)'
    BY DEF GivenBack
  <2>1. /\ raises = 0 /\ ~overlapped /\ Active(s) /\ stage[s] = "upgrade" /\ checkpointer # Own
        /\ checkpointer' = s /\ cm' = cm \cup {s} /\ prior' = [prior EXCEPT ![s] = checkpointer]
        /\ stage' = [stage EXCEPT ![s] = "start runner"]
    BY <1>8 DEF Upgrade, Swap, Goto, Active, history
  <2>2. checkpointer \notin Server
    <3>1. checkpointer \in Server => SwapStage(checkpointer)
      BY ONLY <1>t, <2>1 DEF GivenBack
    <3>2. checkpointer \in Server => checkpointer = s
      BY <2>1, <3>1 DEF LInv, OneActive, Active, SwapStage
    <3> QED BY ONLY <2>1, <3>1, <3>2 DEF SwapStage
  <2> QED BY ONLY <1>a, <1>t, <2>1, <2>2 DEF GivenBack, SwapStage
<1>9. ASSUME NEW s \in Server, NoUpgrade(s) PROVE (GivenBack)'
  BY ONLY <1>a, <1>t, <1>9 DEF NoUpgrade, Goto, parts, registered, history, GivenBack,
     SwapStage
<1>10. ASSUME NEW s \in Server, StartRunner(s) PROVE (GivenBack)'
  BY ONLY <1>a, <1>t, <1>10 DEF StartRunner, Goto, agent, registered, history, GivenBack,
     SwapStage
<1>11. ASSUME NEW s \in Server, StartScheduler(s) PROVE (GivenBack)'
  BY ONLY <1>a, <1>t, <1>11 DEF StartScheduler, Goto, agent, registered, history,
     GivenBack, SwapStage
<1>12. ASSUME NEW s \in Server, Bind(s) PROVE (GivenBack)'
  BY ONLY <1>a, <1>t, <1>12 DEF Bind, Goto, StartupComplete, parts, agent, registered,
     history, GivenBack, SwapStage
<1>13. ASSUME NEW s \in Server, BindFails(s) PROVE (GivenBack)'
  BY ONLY <1>a, <1>t, <1>13 DEF BindFails, Goto, StartupComplete, parts, agent,
     registered, history, GivenBack, SwapStage
<1>14. ASSUME NEW s \in Server, Connect(s) PROVE (GivenBack)'
  BY ONLY <1>a, <1>t, <1>14 DEF Connect, parts, agent, registered, history, GivenBack,
     SwapStage
<1>15. ASSUME NEW s \in Server, Answered(s) PROVE (GivenBack)'
  BY ONLY <1>a, <1>t, <1>15 DEF Answered, parts, agent, registered, history, GivenBack,
     SwapStage
<1>16. ASSUME NEW s \in Server, StreamEnds(s) PROVE (GivenBack)'
  BY ONLY <1>a, <1>t, <1>16 DEF StreamEnds, parts, agent, registered, history, GivenBack,
     SwapStage
<1>17. ASSUME NEW s \in Server, CutOff(s) PROVE (GivenBack)'
  BY ONLY <1>a, <1>t, <1>17 DEF CutOff, parts, agent, registered, history, GivenBack,
     SwapStage
<1>18. ASSUME NEW s \in Server, Drain(s) PROVE (GivenBack)'
  BY ONLY <1>a, <1>t, <1>18 DEF Drain, Goto, parts, agent, registered, history, GivenBack,
     SwapStage
<1>19. ASSUME NEW s \in Server, Drained(s) PROVE (GivenBack)'
  BY ONLY <1>a, <1>t, <1>19 DEF Drained, Goto, parts, agent, registered, history,
     GivenBack, SwapStage
<1>20. ASSUME NEW s \in Server, StopScheduler(s) PROVE (GivenBack)'
  BY ONLY <1>a, <1>t, <1>20 DEF StopScheduler, Goto, agent, registered, history,
     GivenBack, SwapStage
<1>21. ASSUME NEW s \in Server, StopRunner(s) PROVE (GivenBack)'
  BY ONLY <1>a, <1>t, <1>21 DEF StopRunner, Goto, agent, registered, history, GivenBack,
     SwapStage
<1>22. ASSUME NEW s \in Server, CloseStore(s) PROVE (GivenBack)'
  <2>1. checkpointer = s => s \in cm \/ raises # 0 \/ overlapped
    BY ONLY <1>t DEF GivenBack
  <2> QED BY ONLY <1>a, <1>t, <2>1, <1>22 DEF CloseStore, Goto, agent, history, GivenBack, SwapStage
<1>23. ASSUME NEW s \in Server, Restore(s) PROVE (GivenBack)'
  <2> SUFFICES ASSUME raises' = 0, ~overlapped' PROVE (GivenBack)'
    BY DEF GivenBack
  <2>1. s \in cm
    BY <1>23 DEF Restore, LInv, Saved, Leaving
  <2>2. raises = 0 /\ ~overlapped /\ checkpointer' = prior[s] /\ cm' = cm /\ prior' = prior
    BY <1>23 DEF Restore, history
  <2> QED BY ONLY <1>t, <2>1, <2>2 DEF GivenBack
<1>24. ASSUME NEW s \in Server, CloseSaver(s) PROVE (GivenBack)'
  BY ONLY <1>a, <1>t, <1>24 DEF CloseSaver, Goto, parts, registered, history, GivenBack,
     SwapStage
<1>25. ASSUME NEW s \in Server, ClearScheduler(s) PROVE (GivenBack)'
  BY ONLY <1>a, <1>t, <1>25 DEF ClearScheduler, Goto, parts, agent, history, GivenBack,
     SwapStage
<1>26. ASSUME NEW s \in Server, ClearRunner(s) PROVE (GivenBack)'
  BY ONLY <1>a, <1>t, <1>26 DEF ClearRunner, Goto, parts, agent, history, GivenBack,
     SwapStage
<1>27. CASE UNCHANGED vars
  BY ONLY <1>a, <1>t, <1>27 DEF vars, agent, parts, registered, history, GivenBack,
     SwapStage
<1> QED
  BY <1>1, <1>2, <1>3, <1>4, <1>5, <1>6, <1>7, <1>8, <1>9, <1>10, <1>11, <1>12, <1>13,
         <1>14, <1>15, <1>16, <1>17, <1>18, <1>19, <1>20, <1>21, <1>22, <1>23, <1>24, <1>25,
         <1>26, <1>27
  DEF Next, Startup, Shutdown

LEMMA UnregisteredStep == LInv /\ [Next]_vars => (Unregistered)'
<1> SUFFICES ASSUME LInv, [Next]_vars PROVE (Unregistered)'
  OBVIOUS
<1>a. stage \in [Server -> Stages]
  BY DEF LInv, TypeOK
<1>r. raises \in Nat
  BY LifespanAssumption DEF LInv, TypeOK
<1>t. /\ None \notin Server /\ theRunner \in Server \cup {None} /\ theScheduler \in Server \cup {None}
      /\ Unregistered
  BY LifespanAssumption DEF LInv, TypeOK
<1>1. CASE Running
  BY ONLY <1>a, <1>t, <1>1 DEF Running, parts, agent, registered, history, Unregistered,
     NamedStage, Active
<1>2. CASE GiveUp
  BY ONLY <1>a, <1>t, <1>2 DEF GiveUp, parts, agent, registered, history, Unregistered,
     NamedStage, Active
<1>3. CASE Stopped
  BY ONLY <1>a, <1>t, <1>3 DEF Stopped, parts, agent, registered, history, Unregistered,
     NamedStage, Active
<1>4. ASSUME NEW s \in Server, Run(s) PROVE (Unregistered)'
  BY ONLY <1>a, <1>t, <1>4 DEF Run, Goto, Register, parts, agent, Unregistered,
     NamedStage, Active
<1>5. ASSUME NEW s \in Server, Stop(s) PROVE (Unregistered)'
  BY ONLY <1>a, <1>t, <1>5 DEF Stop, parts, agent, registered, history, Unregistered,
     NamedStage, Active
<1>6. ASSUME NEW s \in Server, Raise(s) PROVE (Unregistered)'
  <2>1. raises' = raises + 1
    BY <1>6 DEF Raise
  <2>2. raises' # 0
    BY ONLY <1>r, <2>1
  <2> QED BY <2>2 DEF Unregistered
<1>7. ASSUME NEW s \in Server, Setup(s) PROVE (Unregistered)'
  BY ONLY <1>a, <1>t, <1>7 DEF Setup, Goto, agent, registered, history, Unregistered,
     NamedStage, Active
<1>8. ASSUME NEW s \in Server, Upgrade(s) PROVE (Unregistered)'
  BY ONLY <1>a, <1>t, <1>8 DEF Upgrade, Goto, Swap, parts, registered, history,
     Unregistered, NamedStage, Active
<1>9. ASSUME NEW s \in Server, NoUpgrade(s) PROVE (Unregistered)'
  BY ONLY <1>a, <1>t, <1>9 DEF NoUpgrade, Goto, parts, registered, history, Unregistered,
     NamedStage, Active
<1>10. ASSUME NEW s \in Server, StartRunner(s) PROVE (Unregistered)'
  BY ONLY <1>a, <1>t, <1>10 DEF StartRunner, Goto, agent, registered, history,
     Unregistered, NamedStage, Active
<1>11. ASSUME NEW s \in Server, StartScheduler(s) PROVE (Unregistered)'
  BY ONLY <1>a, <1>t, <1>11 DEF StartScheduler, Goto, agent, registered, history,
     Unregistered, NamedStage, Active
<1>12. ASSUME NEW s \in Server, Bind(s) PROVE (Unregistered)'
  BY ONLY <1>a, <1>t, <1>12 DEF Bind, Goto, StartupComplete, parts, agent, registered,
     history, Unregistered, NamedStage, Active
<1>13. ASSUME NEW s \in Server, BindFails(s) PROVE (Unregistered)'
  BY ONLY <1>a, <1>t, <1>13 DEF BindFails, Goto, StartupComplete, parts, agent,
     registered, history, Unregistered, NamedStage, Active
<1>14. ASSUME NEW s \in Server, Connect(s) PROVE (Unregistered)'
  BY ONLY <1>a, <1>t, <1>14 DEF Connect, parts, agent, registered, history, Unregistered,
     NamedStage, Active
<1>15. ASSUME NEW s \in Server, Answered(s) PROVE (Unregistered)'
  BY ONLY <1>a, <1>t, <1>15 DEF Answered, parts, agent, registered, history, Unregistered,
     NamedStage, Active
<1>16. ASSUME NEW s \in Server, StreamEnds(s) PROVE (Unregistered)'
  BY ONLY <1>a, <1>t, <1>16 DEF StreamEnds, parts, agent, registered, history,
     Unregistered, NamedStage, Active
<1>17. ASSUME NEW s \in Server, CutOff(s) PROVE (Unregistered)'
  BY ONLY <1>a, <1>t, <1>17 DEF CutOff, parts, agent, registered, history, Unregistered,
     NamedStage, Active
<1>18. ASSUME NEW s \in Server, Drain(s) PROVE (Unregistered)'
  BY ONLY <1>a, <1>t, <1>18 DEF Drain, Goto, parts, agent, registered, history,
     Unregistered, NamedStage, Active
<1>19. ASSUME NEW s \in Server, Drained(s) PROVE (Unregistered)'
  BY ONLY <1>a, <1>t, <1>19 DEF Drained, Goto, parts, agent, registered, history,
     Unregistered, NamedStage, Active
<1>20. ASSUME NEW s \in Server, StopScheduler(s) PROVE (Unregistered)'
  BY ONLY <1>a, <1>t, <1>20 DEF StopScheduler, Goto, agent, registered, history,
     Unregistered, NamedStage, Active
<1>21. ASSUME NEW s \in Server, StopRunner(s) PROVE (Unregistered)'
  BY ONLY <1>a, <1>t, <1>21 DEF StopRunner, Goto, agent, registered, history,
     Unregistered, NamedStage, Active
<1>22. ASSUME NEW s \in Server, CloseStore(s) PROVE (Unregistered)'
  BY ONLY <1>a, <1>t, <1>22 DEF CloseStore, Goto, agent, registered, history,
     Unregistered, NamedStage, Active
<1>23. ASSUME NEW s \in Server, Restore(s) PROVE (Unregistered)'
  BY ONLY <1>a, <1>t, <1>23 DEF Restore, Goto, parts, registered, history, Unregistered,
     NamedStage, Active
<1>24. ASSUME NEW s \in Server, CloseSaver(s) PROVE (Unregistered)'
  BY ONLY <1>a, <1>t, <1>24 DEF CloseSaver, Goto, parts, registered, history,
     Unregistered, NamedStage, Active
<1>25. ASSUME NEW s \in Server, ClearScheduler(s) PROVE (Unregistered)'
  BY ONLY <1>a, <1>t, <1>25 DEF ClearScheduler, Goto, parts, agent, history, Unregistered,
     NamedStage, Active
<1>26. ASSUME NEW s \in Server, ClearRunner(s) PROVE (Unregistered)'
  BY ONLY <1>a, <1>t, <1>26 DEF ClearRunner, Goto, parts, agent, history, Unregistered,
     NamedStage, Active
<1>27. CASE UNCHANGED vars
  BY ONLY <1>a, <1>t, <1>27 DEF vars, agent, parts, registered, history, Unregistered,
     NamedStage, Active
<1> QED
  BY <1>1, <1>2, <1>3, <1>4, <1>5, <1>6, <1>7, <1>8, <1>9, <1>10, <1>11, <1>12, <1>13,
         <1>14, <1>15, <1>16, <1>17, <1>18, <1>19, <1>20, <1>21, <1>22, <1>23, <1>24, <1>25,
         <1>26, <1>27
  DEF Next, Startup, Shutdown

THEOREM Invariance == Spec => []LInv
<1>1. Init => LInv
  BY LInvInit
<1>2. LInv /\ [Next]_vars => LInv'
  BY TypeStep, PartsStep, ConnectedStep, OneActiveStep, FreshStep, SavedStep, SwappedStep,
     NamedStep, SaverStep, ClosedStep, GivenBackStep, UnregisteredStep DEF LInv
<1> QED BY <1>1, <1>2, PTL DEF Spec

\* Every variable keeps its type, for any number of servers and of steps that raise.
THEOREM TypesHold == Spec => []TypeOK
<1>1. LInv => TypeOK
  BY DEF LInv
<1> QED BY <1>1, Invariance, PTL

\* What serves has its store, runner and scheduler, whatever raised.
THEOREM BackendIsUp == Spec => []BackendWhileServing
<1>1. LInv => BackendWhileServing
  BY DEF LInv, TypeOK, PartsUp, Ordered, Connected, BackendWhileServing, Started
<1> QED BY <1>1, Invariance, PTL

\* The agent is never left with a closed checkpointer, unless two servers overlapped.
THEOREM SaversAreOpen == Spec => []NoClosedSaver
<1>1. LInv => NoClosedSaver
  BY DEF LInv
<1> QED BY <1>1, Invariance, PTL

\* A server that did not overlap another serves with its own checkpointer and parts.
THEOREM ServersUseTheirOwn == Spec => []ServesWithItsOwn
<1>1. LInv => ServesWithItsOwn
  BY DEF LInv, TypeOK, Swapped, PutsBack, Named, Registers, ServesWithItsOwn, Started, Active
<1> QED BY <1>1, Invariance, PTL

\* When every thread has ended, and neither a step raised nor two servers overlapped, nothing
\* of the servers is left: no part, no open checkpointer, nothing registered.
THEOREM EndsClean == Spec => []NothingLeft
<1>1. ASSUME LInv, raises = 0, ~overlapped, \A s \in Server : ~Active(s)
      PROVE  /\ store = {} /\ runner = {} /\ scheduler = {} /\ streams = {} /\ requests = {}
             /\ saver \cap cm = {} /\ checkpointer \in {Memory, Own}
             /\ theRunner = None /\ theScheduler = None
  <2>1. store = {} /\ saver \cap cm = {}
    BY <1>1 DEF LInv, TypeOK, Closed, StoreStage, SaverStage, SwapStage, Active
  <2>2. runner = {} /\ scheduler = {}
    BY <1>1, <2>1 DEF LInv, Ordered
  <2>3. streams = {} /\ requests = {}
    BY <1>1 DEF LInv, TypeOK, Connected, Started, Active
  <2>4. checkpointer \in {Memory, Own}
    BY <1>1 DEF LInv, TypeOK, GivenBack, SwapStage, Active
  <2>5. theRunner = None /\ theScheduler = None
    BY <1>1 DEF LInv, TypeOK, Unregistered, NamedStage
  <2> QED BY <2>1, <2>2, <2>3, <2>4, <2>5
<1>2. LInv => NothingLeft
  BY <1>1 DEF NothingLeft
<1> QED BY <1>2, Invariance, PTL

=============================================================================

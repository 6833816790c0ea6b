------------------------------ MODULE Lifespan ------------------------------
(***************************************************************************)
(* The life of servers over one agent: CoworkApp.run and BackgroundServer  *)
(* of langstage/app.py on the caller's thread, and on each server's own    *)
(* thread the lifespan of langstage/server/main.py around uvicorn, which   *)
(* is modelled as far as server/shutdown.py and app.py rely on it.         *)
(***************************************************************************)
EXTENDS Naturals, FiniteSets

CONSTANTS
    Server,     \* one for each app that create_server makes
    MaxRaises,  \* bound: steps of a lifespan that raise
    None,       \* nothing registered
    Memory,     \* the in-memory checkpointer that CoworkApp attached
    Own         \* a checkpointer that the agent came with

ASSUME LifespanAssumption ==
    /\ None \notin Server /\ Memory \notin Server /\ Own \notin Server
    /\ Memory # Own /\ None \notin {Memory, Own} /\ MaxRaises \in Nat

VARIABLES
    stage,      \* how far each server's thread has come
    exit,       \* servers told to end: should_exit
    caller,     \* the thread that runs and stops servers: [at, of]
    streams, requests,  \* servers with an open SSE stream, with another open request
    store, runner, scheduler,   \* servers whose part is up
    saver,      \* servers whose SQLite checkpointer is open
    cm,         \* servers with app.state._ckpt_cm
    prior,      \* app.state._ckpt_prior of each server
    checkpointer,   \* the agent's checkpointer
    theRunner, theScheduler,    \* what set_runner and set_scheduler registered
    overlapped, \* history: a server was made before another's thread had ended
    raises      \* history: number of lifespan steps that raised

parts == <<store, runner, scheduler>>
agent == <<saver, cm, prior, checkpointer>>
registered == <<theRunner, theScheduler>>
open == <<streams, requests>>
history == <<overlapped, raises>>
vars == <<stage, exit, caller, open, parts, agent, registered, history>>

Stages == {"none", "setup", "upgrade", "start runner", "start scheduler", "bind",
           "serving", "draining", "stop scheduler", "stop runner", "close store",
           "restore", "close saver", "clear scheduler", "clear runner", "ended"}

Active(s) == stage[s] \notin {"none", "ended"}

Init ==
    /\ stage = [s \in Server |-> "none"] /\ exit = {}
    /\ caller = [at |-> "free", of |-> None]
    /\ streams = {} /\ requests = {} /\ store = {} /\ runner = {} /\ scheduler = {}
    /\ saver = {} /\ cm = {} /\ prior = [s \in Server |-> None]
    \* CoworkApp.__init__ attaches an in-memory checkpointer where there is none.
    /\ checkpointer \in {Memory, Own}
    /\ theRunner = None /\ theScheduler = None
    /\ overlapped = FALSE /\ raises = 0

Goto(s, next) == stage' = [stage EXCEPT ![s] = next]

\* A step of the lifespan raises: nothing after it is done.
Raise(s) ==
    /\ stage[s] \in {"setup", "start runner", "start scheduler",
                    "stop scheduler", "stop runner", "close store"}
    /\ raises < MaxRaises /\ raises' = raises + 1
    /\ Goto(s, "ended")
    /\ UNCHANGED <<exit, caller, open, parts, agent, registered, overlapped>>

----------------------------------------------------------------------------
\* The caller.

\* Mutant: the runner of an earlier server stays registered.
RegisterFirst(s) ==
    theRunner' = (IF theRunner = None THEN s ELSE theRunner) /\ theScheduler' = s
Register(s) == theRunner' = s /\ theScheduler' = s

\* run: create_server registers the runner and the scheduler, the thread is started.
Run(s) ==
    /\ caller.at = "free" /\ stage[s] = "none"
    /\ caller' = [at |-> "starting", of |-> s]
    /\ Register(s) /\ Goto(s, "setup")
    /\ overlapped' = (overlapped \/ \E o \in Server : Active(o))
    /\ UNCHANGED <<exit, open, parts, agent, raises>>

Started(s) == stage[s] \in {"serving", "draining"}

\* run returns the handle once the server is bound.
Running ==
    /\ caller.at = "starting" /\ Started(caller.of)
    /\ caller' = [at |-> "free", of |-> None]
    /\ UNCHANGED <<stage, exit, open, parts, agent, registered, history>>

\* The thread has ended, or the startup timeout has passed: should_exit, two seconds to
\* end, RuntimeError.  _serve_blocking exits the process instead.
GiveUp ==
    /\ caller.at = "starting" /\ ~Started(caller.of)
    /\ exit' = exit \cup {caller.of}
    /\ caller' = [at |-> "free", of |-> None]
    /\ UNCHANGED <<stage, open, parts, agent, registered, history>>

\* BackgroundServer.stop, or a signal to the process.
Stop(s) ==
    /\ caller.at = "free" /\ stage[s] = "serving" /\ s \notin exit
    /\ exit' = exit \cup {s}
    /\ caller' = [at |-> "stopping", of |-> s]
    /\ UNCHANGED <<stage, open, parts, agent, registered, history>>

\* join(timeout) returns when the thread has ended or after the timeout.
Stopped ==
    /\ caller.at = "stopping"
    /\ caller' = [at |-> "free", of |-> None]
    /\ UNCHANGED <<stage, exit, open, parts, agent, registered, history>>

----------------------------------------------------------------------------
\* The startup.

Setup(s) ==
    /\ stage[s] = "setup" /\ Goto(s, "upgrade")
    /\ store' = store \cup {s}
    /\ UNCHANGED <<exit, caller, open, runner, scheduler, agent, registered, history>>

Swap(s) == checkpointer' = s

\* A checkpointer that LangStage attached is replaced by a SQLite one, which is kept for
\* the shutdown.  The mark stays on the agent, so a server after this one replaces what
\* it finds there, whatever that is.
Upgrade(s) ==
    /\ stage[s] = "upgrade" /\ Goto(s, "start runner")
    /\ checkpointer # Own
    /\ saver' = saver \cup {s} /\ cm' = cm \cup {s}
    /\ prior' = [prior EXCEPT ![s] = checkpointer] /\ Swap(s)
    /\ UNCHANGED <<exit, caller, open, parts, registered, history>>

\* Nothing to replace, or it failed and the old one stays; when the failing step is the
\* saver's setup, the saver stays open.
NoUpgrade(s) ==
    /\ stage[s] = "upgrade" /\ Goto(s, "start runner")
    /\ \/ UNCHANGED saver
       \/ checkpointer # Own /\ saver' = saver \cup {s}
    /\ UNCHANGED <<exit, caller, open, parts, cm, prior, checkpointer, registered, history>>

StartRunner(s) ==
    /\ stage[s] = "start runner" /\ Goto(s, "start scheduler")
    /\ runner' = runner \cup {s}
    /\ UNCHANGED <<exit, caller, open, store, scheduler, agent, registered, history>>

StartScheduler(s) ==
    /\ stage[s] = "start scheduler" /\ Goto(s, "bind")
    /\ scheduler' = scheduler \cup {s}
    /\ UNCHANGED <<exit, caller, open, store, runner, agent, registered, history>>

\* Mutant: the lifespan yields before the runner is started.
StartupEarly(s) == stage[s] \in {"start runner", "bind"}
StartupComplete(s) == stage[s] = "bind"

\* uvicorn binds after the lifespan's startup.
Bind(s) ==
    /\ StartupComplete(s) /\ s \notin exit /\ Goto(s, "serving")
    /\ UNCHANGED <<exit, caller, open, parts, agent, registered, history>>

\* A bind that fails, or an exit wanted meanwhile: the lifespan's shutdown.
BindFails(s) ==
    /\ StartupComplete(s) /\ Goto(s, "stop scheduler")
    /\ UNCHANGED <<exit, caller, open, parts, agent, registered, history>>

----------------------------------------------------------------------------
\* Serving and the shutdown.

\* A browser opens a stream or sends another request, which ends by itself.
Connect(s) ==
    /\ stage[s] = "serving" /\ s \notin exit
    /\ \/ streams' = streams \cup {s} /\ UNCHANGED requests
       \/ requests' = requests \cup {s} /\ UNCHANGED streams
    /\ UNCHANGED <<stage, exit, caller, parts, agent, registered, history>>

Answered(s) ==
    /\ requests' = requests \ {s} /\ s \in requests
    /\ UNCHANGED <<stage, exit, caller, streams, parts, agent, registered, history>>

\* The browser closes the stream, or until_shutdown ends it once the event is set.
StreamEnds(s) ==
    /\ streams' = streams \ {s} /\ s \in streams
    /\ UNCHANGED <<stage, exit, caller, requests, parts, agent, registered, history>>

\* Server.shutdown sets the event and waits for the open connections.
Drain(s) ==
    /\ stage[s] = "serving" /\ s \in exit /\ Goto(s, "draining")
    /\ UNCHANGED <<exit, caller, open, parts, agent, registered, history>>

\* Mutant: only streams are cut off after the grace period.
CutOffStreams(s) ==
    /\ stage[s] = "draining" /\ streams' = streams \ {s} /\ s \in streams
    /\ UNCHANGED <<stage, exit, caller, requests, parts, agent, registered, history>>

\* timeout_graceful_shutdown: uvicorn cancels what is still open.
CutOff(s) ==
    /\ stage[s] = "draining" /\ s \in streams \cup requests
    /\ streams' = streams \ {s} /\ requests' = requests \ {s}
    /\ UNCHANGED <<stage, exit, caller, parts, agent, registered, history>>

Drained(s) ==
    /\ stage[s] = "draining" /\ s \notin streams \cup requests
    /\ Goto(s, "stop scheduler")
    /\ UNCHANGED <<exit, caller, open, parts, agent, registered, history>>

StopScheduler(s) ==
    /\ stage[s] = "stop scheduler" /\ Goto(s, "stop runner")
    /\ scheduler' = scheduler \ {s}
    /\ UNCHANGED <<exit, caller, open, store, runner, agent, registered, history>>

StopRunner(s) ==
    /\ stage[s] = "stop runner" /\ Goto(s, "close store")
    /\ runner' = runner \ {s}
    /\ UNCHANGED <<exit, caller, open, store, scheduler, agent, registered, history>>

CloseStore(s) ==
    /\ stage[s] = "close store" /\ Goto(s, IF s \in cm THEN "restore" ELSE "clear scheduler")
    /\ store' = store \ {s}
    /\ UNCHANGED <<exit, caller, open, runner, scheduler, agent, registered, history>>

\* Mutant: the agent keeps the saver.
RestoreNothing(s) ==
    /\ stage[s] = "restore" /\ Goto(s, "close saver")
    /\ UNCHANGED <<exit, caller, open, parts, agent, registered, history>>

Restore(s) ==
    /\ stage[s] = "restore" /\ Goto(s, "close saver")
    /\ checkpointer' = prior[s]
    /\ UNCHANGED <<exit, caller, open, parts, saver, cm, prior, registered, history>>

\* An exception of the close is swallowed.
CloseSaver(s) ==
    /\ stage[s] = "close saver" /\ Goto(s, "clear scheduler")
    /\ saver' = saver \ {s}
    /\ UNCHANGED <<exit, caller, open, parts, cm, prior, checkpointer, registered, history>>

ClearScheduler(s) ==
    /\ stage[s] = "clear scheduler" /\ Goto(s, "clear runner")
    /\ theScheduler' = None
    /\ UNCHANGED <<exit, caller, open, parts, agent, theRunner, history>>

\* Mutant: only the scheduler is cleared.
ClearRunnerNot(s) ==
    /\ stage[s] = "clear runner" /\ Goto(s, "ended")
    /\ UNCHANGED <<exit, caller, open, parts, agent, registered, history>>

ClearRunner(s) ==
    /\ stage[s] = "clear runner" /\ Goto(s, "ended")
    /\ theRunner' = None
    /\ UNCHANGED <<exit, caller, open, parts, agent, theScheduler, history>>

Startup(s) ==
    \/ Setup(s) \/ Upgrade(s) \/ NoUpgrade(s) \/ StartRunner(s) \/ StartScheduler(s)
    \/ Bind(s) \/ BindFails(s)
Shutdown(s) ==
    \/ Drain(s) \/ Drained(s) \/ StopScheduler(s) \/ StopRunner(s) \/ CloseStore(s)
    \/ Restore(s) \/ CloseSaver(s) \/ ClearScheduler(s) \/ ClearRunner(s)

Next ==
    \/ Running \/ GiveUp \/ Stopped
    \/ \E s \in Server :
          \/ Run(s) \/ Stop(s) \/ Startup(s) \/ Shutdown(s) \/ Raise(s)
          \/ Connect(s) \/ Answered(s) \/ StreamEnds(s) \/ CutOff(s)

Spec == Init /\ [][Next]_vars

\* The server's thread goes on, and the grace period ends.  Nothing is assumed of the
\* browser, of the requests or of the caller.
FairSpec ==
    Spec /\ \A s \in Server : WF_vars(Startup(s)) /\ WF_vars(Shutdown(s)) /\ WF_vars(CutOff(s))

----------------------------------------------------------------------------
\* Properties.

TypeOK ==
    /\ stage \in [Server -> Stages] /\ exit \subseteq Server
    /\ caller \in [at : {"starting", "stopping"}, of : Server] \cup [at : {"free"}, of : {None}]
    /\ streams \subseteq Server /\ requests \subseteq Server
    /\ store \subseteq Server /\ runner \subseteq Server /\ scheduler \subseteq Server
    /\ saver \subseteq Server /\ cm \subseteq Server
    /\ prior \in [Server -> Server \cup {Memory, None}]
    /\ checkpointer \in Server \cup {Memory, Own}
    /\ theRunner \in Server \cup {None} /\ theScheduler \in Server \cup {None}
    /\ overlapped \in BOOLEAN /\ raises \in 0..MaxRaises

\* As long as requests are answered the store, the runner and the scheduler are up, and
\* what works on the store is gone before the store is closed, whatever raised.
BackendWhileServing ==
    /\ \A s \in Server : Started(s) \/ s \in streams \cup requests
                         => s \in store \cap runner \cap scheduler
    /\ scheduler \subseteq runner /\ runner \subseteq store

\* "the graph object isn't left holding a closed connection": the agent never has a
\* checkpointer that is closed, unless two servers overlapped.
NoClosedSaver == ~overlapped => checkpointer \notin Server \ saver

\* A server that replaced the checkpointer serves with its own durable one, and the
\* agent's tools reach its runner and its scheduler, unless two servers overlapped.
ServesWithItsOwn ==
    \A s \in Server : Started(s) /\ ~overlapped =>
        /\ s \in cm => checkpointer = s
        /\ theRunner = s /\ theScheduler = s

\* When the servers are gone nothing of them is left, unless a step raised, two servers
\* overlapped, or an upgrade failed half-way.
NothingLeft ==
    (raises = 0 /\ ~overlapped /\ \A s \in Server : ~Active(s)) =>
        /\ store = {} /\ runner = {} /\ scheduler = {} /\ streams = {} /\ requests = {}
        /\ saver \cap cm = {} /\ checkpointer \in {Memory, Own}
        /\ theRunner = None /\ theScheduler = None

\* A server that was told to end, or whose start was given up, ends, whatever browsers
\* keep open.
StopEnds == \A s \in Server : s \in exit ~> stage[s] = "ended"
=============================================================================

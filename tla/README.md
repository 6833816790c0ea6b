# A verification project for LangStage

LangStage serves a LangGraph agent behind a FastAPI application: a chat with a
server-sent event stream, a board of background tasks, cron schedules that
enqueue such tasks, a canvas and a notebook the agent writes to, a file browser,
and a React client. The modules here model the parts of it that run
concurrently or keep state between calls; TLC checks them on small instances and
TLAPS proves what the runs check, liveness apart, for every value of the constants.

Paths below are relative to the repository's root.

## Inventory

| Component | State | Operations | Hard behaviour | What makes it correct |
|---|---|---|---|---|
| Cron scheduler, `langstage/scheduler.py` | `_jobs`, `_tasks`, `_started`, `_loop`, the rows of `cron_jobs` | add_job, remove_job, run_now, start, shutdown, run-loops, fires, saves | worker threads against the loop, crash between enqueue and save, failed writes, cancellation at any await | no overlapping runs, no zombie schedule, a live schedule survives a restart and a deleted one does not return |
| Task store, `langstage/tasks/sqlite_store.py` | `tasks`, `task_events` | create, get, list, claim_next, update, requeue_orphans, append_events, get_events | awaits between the statements of one operation, several workers, restart | a task is claimed once and the oldest first, what was returned is durable, orphans and nothing else run again |
| Task board, `langstage/server/routes_tasks.py` | none of its own | create, cancel, retry, resume, message | calls race the runner's workers | only tasks in the right state are resumed |
| Canvas, `langstage/tools.py`, `langstage/workspace/canvas_manager.py` | `.canvas/canvas.md`, the table of batches | add, update, section, reorder, remove; the panel's remove and clear | parallel tool calls, the panel writes without the lock | no item is lost, ids are unique, a batch keeps the order of its calls |
| Canvas format, `langstage/canvas.py` | the file | export, load, legacy load | items that do not parse back | a reload gives back what was exported |
| Notebook, `langstage/tools.py` | cells, namespace, counters; the LRU table of notebooks | add, insert, modify, delete, execute, reset | indices shift; runs of several sessions share one shell and one process limit | a cell runs in its own namespace, the limit is restored, provenance names the right cell |
| Chat stream, `langstage/server/routes_chat.py`, `langstage/oneturn.py` | the adapter's sessions, queues and turns | stream, send, complete, interrupt, cancel, reap | reconnects against the reaper, two consumers of one queue, stale frames | a turn's answer reaches whoever asked, an idle session is reaped and no other |
| Lifespan, `langstage/server/main.py`, `langstage/app.py`, `langstage/server/shutdown.py` | the globals, runner, scheduler, checkpointer, open streams | startup, shutdown, stop of the streams | a step fails half way, streams that never end | everything started is stopped, nothing is used after it is closed |
| Virtual file system, `langstage/virtual_fs.py` | files, directories; the session table | mkdir, write, unlink, rmdir, list; create, get, expire | long sequences of calls, expiry under a request | the paths always form a tree, a session has one workspace and keeps it while it is used |
| File manager, `langstage/workspace/file_manager.py`, `langstage/server/routes_files.py` | the disk | read, preview, mkdir, upload, delete, watch | links, dangling paths | nothing outside the workspace is touched |
| HTTP middleware, `langstage/server/middleware.py` | none | one decision per request | order and composition of the guards | exactly the intended requests pass |
| Client, `frontend/src/hooks/useAgentStream.ts`, `frontend/src/extraction.ts` | messages, buffers, pending approval, streaming flag, what `localStorage` holds | handle a frame, flush, send, answer, cancel, reset, reload | buffered deltas against other frames, failed and refused requests, reconnects | the timeline is what the page was told, a pending approval can be given |
| Display of values, shell tool, usage report, configuration, command line, packaging, components | none between calls | | | not modelled: rendering, pure functions or start-up |
| Task runner, session adapter (`langstage_core`) | | | | a dependency outside the repository, modelled only as the code here uses it |

How they interact: the lifespan starts the runner and then the scheduler and
stops them in the reverse order. The scheduler calls `runner.enqueue` and reads a
task's state through `runner.store`; the runner claims tasks from the task store
and runs the agent in a session of its own. The agent's tools change the canvas
and the notebook from worker threads and call the scheduler's `add_job` and
`remove_job`; the panel changes the canvas from the event loop. A turn's
events go through the session's queue to the SSE stream and to the client's
reducer.

## Plan

1. `CronScheduler`, its invariant and its proofs. Done.
2. `CanvasItems`, `Canvas`, and `CanvasAtomic`, which it is proved to implement. Done.
3. `Notebook`: overlapping cell runs, the table of the last used notebooks. Done.
4. `TaskStore` and the abstract `TaskQueue`, which it is proved to implement. Done.
5. `ChatSession` with the reaper, reconnects and `complete_turn`; `Lifespan`. Done.
6. `VirtualFS`; `HttpGuards` and `FileManager`, composed in `FileRoutes`. Done.
7. `Transcript` and `AgentStream`, the page against the server. Done.
8. Proofs of every safety property of 1 to 7. Done.

| Module | Extends or instantiates | Proofs in |
|---|---|---|
| `CronScheduler` | | `CronSchedulerInv`, `TaskBoardProofs` |
| `Canvas` | `CanvasItems`; implements `CanvasAtomic` | `CanvasProofs` |
| `Notebook` | | `NotebookProofs` |
| `TaskStore` | implements `TaskQueue` | `TaskStoreInv`, `TaskBoardProofs` |
| `Lifespan` | | `LifespanProofs` |
| `ChatSession` | | `ChatSessionProofs` |
| `VirtualFS` | | `VirtualFSProofs` |
| `FileRoutes` | `HttpGuards`, `FileManager` | `FileRoutesProofs` |
| `AgentStream` | `Transcript` | `AgentStreamProofs` |

Each has an `MC` module with the definitions its configurations need. A definition
whose comment begins with "Mutant:" is a plausible mistake in the one that follows it,
for checking that a property would notice.

## CronScheduler

`CronScheduler.tla` is the scheduler of `langstage/scheduler.py` with its store.
A step is what one thread does between two points where another can act.

| Variable | In the code |
|---|---|
| `phase` | process down, constructed, started (`_started`), shut down, or "broken": its shutdown raised |
| `jobs`, `tasks` | keys of `_jobs` and `_tasks` |
| `lastTask`, `row` | `CronJob.last_task_id` in memory, and in the row of `cron_jobs` |
| `add`, `rm` | how far `add_job` and `remove_job` of a schedule are, in their worker thread |
| `spawnQ`, `cancelQ`, `spawning` | callbacks handed over with `call_soon_threadsafe`; the one caught inside `_spawn_run_loop` |
| `fire`, `got`, `save` | each `_fire`, by run-loop or by `run_now`, the task id in its hands, and its `_save_if_present` |
| `board` | the schedule's tasks: free, open (queued, ongoing, review_needed) or closed |
| `lost`, `unseen`, `byHand` | history: runs whose id never reached the row, unresolved runs whose state a fire failed to read, schedules run or retried by hand |
| `removed`, `early`, `stray`, `exits` | history: deletions, those that overtook the add, run-loops spawned behind a removal or a shutdown; the bound on restarts |

`Load`, `Start`, `Shutdown` and `Exit` (crash or end) are the process, `ShutdownRaises` a
shutdown that a removal disturbs half way; `Add...`, `Remove...` the two mutations;
`SpawnCheck`, `Spawn`, `Cancel` the callbacks; `Wake` to `FireEnds` a fire, in which
`ReadFails` is a board read that raises and is taken for a task that is gone; `Resolve` and
`Retry` the board, which is external.
Schedules are added and removed only in a started or stopped process: the routes
and tools are reachable once the lifespan has started the scheduler. A schedule
id is a fresh uuid, so it is added once.

Run `cron_schedule` (244 887 states): one schedule, two tasks, one restart, under
`FairSpec`. One schedule is enough because two schedules share only `_store_lock` and the
loop thread; two tasks let a run be open while another is created; one restart shows what a
start finds in the store after a crash at any point. The proofs cover any number of each.

Fairness (`FairSpec`): each begun operation of a live thread and each callback on
the loop goes on (weak); a thread waiting for `_store_lock` gets it (strong): its
holder is in one database call, and the next fire of a schedule is a cron period
away. Nothing obliges a user, the board, or the clock to act.

What the properties leave out is what the code does otherwise: `OverlapProtection` runs
whose id never reached the row (`lost`), runs whose state a later fire failed to read
(`unseen`), and schedules a user has run or whose runs a user has retried by hand (`byHand`;
`run_now` does not look at the previous run): what it shows of a lost id and a failed read is
that each costs an overlap with that run and no other. `NoLostLoop` leaves out the run-loops
spawned after the removal or the shutdown that should have found them (`stray`): `remove_job`
returns for a schedule that is not registered before it looks at `_tasks`. It also leaves out
what a shutdown that raised leaves behind. `DeletedStaysDeleted` leaves out removals that
overtook the add (`early`), and `NoZombie` the expressions that are valid but have no next
date (`BadCron`, `0 0 30 2 *`): `add_job` computes the date outside every `try`, and the job
stays registered, unsaved and without a run-loop.

### Proofs

`CronSchedulerInv` holds the inductive invariant `IInv`, `TaskBoardProofs` the
theorems, from `CronAssumption` alone. None of the properties is inductive:
`OverlapProtection` needs to know where the id of each open run is recorded at
each point of a fire and across a restart (`Recorded`); `NoZombie` that a spawn
still to come has no run-loop yet and that a loop in `_tasks` is alive or about to be
cancelled (`SpawnOnce`, `Tracked`, `Quiet`), and so does `NoLostLoop`; `DeletedStaysDeleted` that no save is past its check while a
row is deleted (`StoreLocked`, `Deleted`, `Fresh`, `Leaving`). `InvInit` and
`InvStep` show that they hold together; each theorem follows from `Invariance`.
Liveness stays with TLC: it is out of reach of the prover.


## Canvas

Three modules: `CanvasItems` has what one call makes of a list and what the file
keeps of it, `Canvas` the threads and the file, `CanvasAtomic` what they promise
together. The tools of `langstage/tools.py` load `.canvas/canvas.md`, change the
list and write it back under `_CANVAS_LOCK`; `CanvasManager.remove_item` and
`clear` do so on the event loop without the lock.

| Variable | In the code |
|---|---|
| `file` | `canvas.md`: without text, whole, or cut because a write has truncated it and is not done |
| `pc`, `op`, `got` | each tool call: where its thread stands, its arguments, the `items` it loaded |
| `batches` | `_CANVAS_BATCHES`, and per message the id each of its calls placed |
| `panel` | the one `remove_item` on the loop |
| `loose`, `raced`, `used`, `faults` | history for the properties, and the bounds |

`Load`, `NoMatch`, `Truncate`, `WriteEnd` and `Fails` are a tool call, whichever of
the five it is; `CanvasItems!Result` tells them apart (`add_canvas_section` is an
add). `PanelLoad` to `PanelClear` are the routes, `Crash` the end of the process at
any point. An item is its id, the call that made it, and whether its text is read
back as an item: blank markdown is not. A message of `Size` = 1 calls is one whose
calls have no position; for larger sizes its calls have the indices of the message.

Run `canvas` (1 173 625 states): two messages of three calls each, of which any three are
made (`MaxCalls`), calls of every kind, one operation of the panel, one failed write or
crash, and a table that remembers one message. A lost item takes two calls; an order takes
three, so that one is placed between two others, finished in every order; a table smaller
than the number of messages forgets one. Nothing is claimed about liveness, so no fairness
is assumed; deadlock is not checked because calls end and none may be left.

`Serialized` is `CanvasAtomic!Spec` under a mapping: the list is what the last
finished operation left (`Shown`: during a write, what its writer had loaded). Two
things are left out of it. Once the panel has loaded or cleared beside a tool at work
(`raced`) nothing is promised. And a tool whose file is unlinked while it writes reports
success for an item that is gone (`Overtaken`), as if the clear had come after it. A failed
write or a crash leaves the first items of the new list, or none: the file is written in
place.

`BatchOrder` leaves out messages whose order was given up on purpose or forgotten (`loose`):
a reorder, an item replaced or updated in place, an id that the message or another one
places a second time, a batch that fell out of the table. `UniqueIds` holds when no reorder
names an id twice: `reorder_canvas` lists an item as often as it is named.

### Proofs

`CanvasProofs` proves `FreshRead`, `Serialized`, `UniqueIds` and `BatchOrder` for any number of
messages, calls, ids, panel operations and faults, from `CanvasUseAssumption`.

`FreshRead` (a tool at work holds the list the file says) and `Serialized` rest on
`CInv`: one tool is at work at most (`Exclusive`), and unless raced the file is what the
one at work has loaded or is writing (`Undisturbed`); a list can be written back as if
read in the same step only because of the second. `StepServes` takes each step to a step or
a stutter: a call is its `WriteEnd`, or its `NoMatch` or `Fails`, a removal its
`PanelWriteEnd`; loads and truncations are stutters. What the operators of `CanvasItems` do
with a list never matters there, so `CanvasAtomic` takes them as parameters.

For `UniqueIds` and `BatchOrder` it is all that matters, and a file is only as good as the
lists on their way to it. `ItemsInv` therefore speaks of the file, of what each tool at work
has loaded and of what the panel has: whose items they hold (`Theirs`), that ids are apart
(`Apart`, when no reorder names an id twice, `NoRepeats`) and, as long as nothing failed,
that the items of each message are in order and known to the table of batches (`InTable`),
which names no id twice in a message (`Once`). An item is put before the next of its message
that is shown, after the last one, or at the end; that this keeps an ordered list ordered
needs that the table knows every item shown, so the two are one invariant. The first attempt
at this proof showed `BatchOrder` false as it stood: once the panel has removed an item and
another message has placed its id, `later` (`tools.py:914`) takes the other message's item
for its own and puts the next call before it, in front of earlier ones of its own. The model
now counts such messages as `loose`.


## Notebook

`Notebook.tla` is `NotebookState` of `langstage/tools.py`, the table that keeps one for
each session, and the cell runs of several sessions at once. Agents run in one process:
a tool call is a worker thread, so two sessions, or two parallel calls of one, can be
anywhere in `execute_cell` at the same time.

| Variable | In the code |
|---|---|
| `table`, `owner` | `_session_notebook_states`, in order of last use; `_session_id` |
| `cells`, `counter`, `hasShell` | `_cells`, `_execution_count`, whether `_ipython_shell` is set |
| `count` | `execution_count` of each cell |
| `run` | each thread in `execute_cell`: where it stands, the cell's place, what `memory_limit` and `redirect_stdout` will put back |
| `userNs`, `stdout`, `capped` | of the process: the notebook whose `_namespace` is `user_ns` of the one `InteractiveShell` (None: no notebook's), `sys.stdout`, whether the soft limit is that of `memory_limit` |
| `since`, `taken`, `cleared`, `runs` | history: who used a notebook since, running cells from which a first run took the shell, running cells whose notebook was reset; the bound on executions |

`Begin` takes the notebook and counts the cell; `AskLimit` reads the limit in force; `Enter`
sets the cells' limit and looks whether the notebook has the shell; on its first run `Bind`
gives the shell its namespace, without the lock; `Run` takes `_ipython_lock`, redirects the
output and binds the namespace; `Ran` gives the output and the lock back; `Finish` sets the
limit that was read; `Continue` is the next cell of `execute_all`. `AddCell`, `DeleteCell`,
`Reset` and `Look` (which stands for `modify_cell` too) are the other tools and `Release` the
end of a session. These take one notebook and wait for nothing, so each is one step. A reset
makes a new namespace: a cell that runs keeps the old one, which is no notebook's any more.
The cell's own count is written in the step that raises the counter, as no other thread gets
in between in CPython; the second reading of the counter goes only into the text of the
answer (`tools.py:445`). IPython is imported if installed and is no declared dependency:
`HasIPython` says which, and without it there is neither shell nor lock.

| Run | Question | Instance |
|---|---|---|
| `notebook_runs` | do output and variables stay with their run, does a notebook in use stay, do counts differ | 3 sessions, table of 2, 2 cells, 2 threads, 2 executions; 431 179 states |
| `notebook_own_variables` | a claim of a comment, refuted | 2 sessions |

Two threads are what it takes to overlap, two executions what it takes to run a cell
again or another one, and a third session what it takes to be evicted from a table
of two. Nothing is claimed about liveness; deadlock is not checked because sessions, cells
and executions are used up.

`OwnOutput` and `OwnVariablesOnceBound` are what the lock gives. `notebook_own_variables`
shows what it does not: `_get_ipython` assigns `user_ns` on a notebook's first run
before the lock is taken, and a cell of another session that is running at that
moment goes on with the newcomer's variables. `OwnVariablesOnceBound` leaves out exactly those
cells (`taken`, until they end); a cell whose notebook is reset as it runs goes on with the
variables it had. `RecentStays` states "least-recently-used is
evicted" from a session's side. `CountsDiffer` relates two cells of a notebook through
runs, insertions, deletions and resets.

Left out: texts, outputs, statuses and variables; the last executed cell, which canvas
items name as their origin; markdown cells, which are skipped; the notebook
of callers without a session; systems other than Linux, where `memory_limit` does nothing.

### Proofs

`NotebookProofs` proves the types, `OwnOutput`, `OwnVariablesOnceBound`, `CountsDiffer` and
`RecentStays` for any number of sessions, notebooks, cells, threads and executions, from
`NotebookAssumption`. `NInv` adds to the first two that one cell runs at most and that it
will give back the process's own output (`Captured`): without it the end of a run could
restore another run's buffer. `CountInv` adds to the third that a cell is in one place of
one notebook (`Placed`) and that no count is beyond its notebook's counter (`Counted`), so
that the next one is new; `Inserted` and `Removed` say what an insertion and a deletion do
to the places. `TableInv` is for `RecentStays`: whoever stands behind a session in the table
has used its notebook since (`Behind`), and a session that has lost its place was passed by
`Limit` others (`Recent`): the one evicted stands first, with all others behind it.


## Task store

`TaskStore.tla` is `SqliteTaskStore` of `langstage/tasks/sqlite_store.py` with the calls of
`langstage/server/routes_tasks.py` and the runner's workers. All coroutines share one
connection, and with it one open transaction: the commit of one publishes the statements
of all, and only `claim_next` takes the lock. Its specification is `StoreSpec`: the names are
such that `TaskBoardProofs` can extend it beside `CronScheduler`.

| Variable | In the code |
|---|---|
| `work`, `disk` | the rows as the connection sees them, and as committed last |
| `stage` | closed, `setup` done, `requeue_orphans` begun, serving |
| `lock` | `_lock` |
| `pc`, `task` | between which awaits each worker or request is, and its task |
| `dropped`, `again` | history: abandoned operations; tasks a request queued while a worker had them |

`Setup`, `Requeue`, `RequeueEnds` and `Stop` (close or crash) are the process; `Insert`,
`Decide`, `Write`, `Commit`, `Return` the requests; `Select`, `Mark`, `ClaimCommit`, `Take`,
`RunEnds` a worker; `BreakOff` a cancellation or an error at any await. A request reads the
task, decides, and updates later, unconditionally.

Run `tasks` (338 307 states): two tasks, two workers, two requests making three calls, one fault, under
`FairStore`. Two workers are what a double claim takes, two tasks an order. Fairness:
coroutines that can go on do (weak), and some worker takes what is queued; nothing obliges
a request to be made or the process to stop.

`ClaimsOnceInOrder` is `TaskQueue!Spec`, the promise to the workers: tasks as the board shows
them (`state`), as the next process will find them (`kept`), and the one a claim has chosen
(`picked`). A SELECT is `Pick` and an UPDATE is `Claim`, of the oldest queued task; a commit
is `Save`; the end of the process falls back on `kept`, and `Recover` queues the tasks that
were ongoing and changes no other. The UPDATE of `claim_next` does not look at the state
again: a cancel or an update between the two statements is lost, and the queue says so with an
action of its own, `Overwrite`, instead of hiding it. `ReturnedIsDurable` looks at the shared
transaction: what an operation that returned has written is on disk, although another
one's rollback or commit came in between. An operation that was abandoned between its
statement and its commit leaves a row that the next commit publishes (`dropped`).

The first half of `TaskBoardProofs` proves the types, `NoDoubleClaim`, `ReturnedIsDurable`,
`NoOrphan` and the refinement for any number of tasks, workers, requests and faults, from
`StoreAssumption`. `SInv`, in `TaskStoreInv`, needs that a claim
holds the lock all through (`Locked`), that nobody works before the orphans are back
(`Booting`), and what a task between SELECT and UPDATE may be (`NotYet`). `QueuedIsServed`
is model-checked.

Left out: `append_events`, `get_events`, `list`, which change no task; texts and results.

## Chat sessions

`ChatSession.tla` has the SSE endpoint with its reaper and the chat routes of
`langstage/server/routes_chat.py` and `routes_session.py`, `complete_turn` of
`langstage/oneturn.py`, and `until_shutdown` of `langstage/server/shutdown.py`. They share one
event loop: a step is what happens between two awaits. The adapter of `langstage_core` is
external: it keeps a queue of frames, a current task and the last outcome for each session.

| Variable | In the code |
|---|---|
| `made`, `named`, `connected` | session objects, the adapter's table, `sse_connected` |
| `queue`, `current`, `outcome`, `turn`, `on` | `event_queue`, `current_task`, the recorded outcome, each turn's task |
| `pc`, `got`, `waits` | each `complete_turn`: where it is, whose text it has, the task it waits for |
| `stream`, `reaper` | each connection's generator, and the reaper it scheduled |
| `stopping`, `event` | the server shuts down; the application's shutdown event, made by the first generator that starts |
| `begun`, `shared`, `foreign`, `robbed` | history for the properties |

| Run | Question | Instance |
|---|---|---|
| `chat_streams` | does the reaper drop nothing in use and everything left; do streams end at shutdown | 2 streams, 1 turn, 1 id whose session is made twice; 142 948 states |
| `chat_turns` | does a one-shot return its own turn's text and outcome, and is it answered | 1 stream, 2 turns; 744 686 states |

Two streams are what a reconnect beside a reaper takes; a session made twice is what it
takes to reap a successor; two turns let one cancel or answer into the other. Fairness
(weak): a generator that was made begins or its client is gone, a stream told to end
closes, a reaper that can go on does, frames that are there are collected, the adapter
settles a turn that has ended. Agent turns are not assumed to end, and clients are not
assumed to leave.

`OnlyIdleGo` leaves out sessions that two streams read at once (`shared`): the first to leave
marks the session disconnected under the other. `OwnReply` leaves out one-shots whose session
something else used (`foreign`): leftover frames and other readers do mix in.
`OneShotsAreAnswered` says of all the others too that they are answered once no turn of their
session works, whoever cancelled, deleted or talked to it: unless another reader took a
terminal frame while they waited (`robbed`), which may be the last there is. It also leaves
out a server that shuts down, where uvicorn's timeout cancels requests.

`StreamsEnd` speaks of the shutdown event once it is set. `Server.shutdown` sets it only if it
exists: a stream whose generator is the server's first and begins after that has an event of
its own that nobody sets.

Left out: the usage frame that follows a terminal one, completions without text, turns that
fail after they have spoken.

`ChatSessionProofs` proves the types and `OnlyIdleGo` for any number of sessions, streams and
requests. `CInv` adds that a session read by one stream is connected (`Read1`) and that a
turn nobody cancelled is the current task (`Current`), which is what the reaper looks at.
`OwnReply` is proved with `OInv`: a one-shot that nothing has disturbed is alone on its
session (`Alone`), the frames it took and those still in the queue are together what its turn
has emitted so far, in that order, and the task it waits for is its own (`Faithful`). The
liveness is model-checked.

## Server lifespan

`Lifespan.tla` is `CoworkApp.run` and `BackgroundServer` of `langstage/app.py` on the caller's
thread, and on each server's thread the lifespan of `langstage/server/main.py`, uvicorn as far
as they rely on it included.

| Variable | In the code |
|---|---|
| `stage`, `exit`, `caller` | where each server's thread and its owner are; `should_exit` |
| `streams`, `requests` | open connections |
| `store`, `runner`, `scheduler` | the parts that are up |
| `saver`, `cm`, `prior`, `checkpointer` | the SQLite checkpointer, `_ckpt_cm`, `_ckpt_prior`, the agent's own attribute |
| `theRunner`, `theScheduler` | `set_runner`, `set_scheduler` |
| `overlapped`, `raises` | history: a server was made before another's thread had ended; steps that raised |

Each await of the lifespan is a step that may raise (`Raise`). Run `lifespan` (48 540
states): two servers over one agent, one raising step. Two servers are what sharing an
agent takes; the proofs cover any number and any number of raising steps. Fairness (weak):
the threads of the lifespan go on, and uvicorn cuts off connections after its timeout.

`NoClosedSaver` and `ServesWithItsOwn` leave out overlapped servers, `NothingLeft` also runs
in which a step raised.

`LifespanProofs` proves the types, `BackendWhileServing`, `NoClosedSaver`, `ServesWithItsOwn`
and `NothingLeft`. `LInv` says what is up at each stage (`PartsUp`), that without overlap
one thread is alive (`OneActive`), and that what a server will put back is open and not its
own (`Swapped`, `Saved`, `Fresh`): without it a restore could hand the agent a closed saver.
For `NothingLeft` it says what each stage leaves behind when nothing raised: parts and savers
closed (`Closed`), the agent's checkpointer put back (`GivenBack`), the registrations cleared
(`Unregistered`). `StopEnds` is model-checked.

## Virtual file system

`VirtualFS.tla` is `langstage/virtual_fs.py`: the files and directories of each file system,
and the session table that hands them out.

| Variable | In the code |
|---|---|
| `dirs`, `files`, `made` | `_directories`, the keys of `_files`; file systems created |
| `manager`, `via` | the one manager, named for the thread that made it; the one each request was given |
| `session`, `idle`, `due` | each manager's table; its sessions beyond the timeout; the managers whose cleanup interval is over |
| `pc`, `who`, `held` | each request in the table's functions, its session, its file system |
| `ops`, `ended`, `asked` | the bound on operations; history |

An operation of a file system is one step and a block under a table's lock is one step;
`get_or_create_session` is three, and `get_session_manager` three without any lock, as in the
code: two requests that find no manager make one each, with a table each, and all later ones
get the last. Run `virtual_fs` (81 515 states): two requests, two sessions, two file systems,
six operations on eight path strings with ".", ".." and both kinds of start. Six operations
make, fill and remove directories and "/" itself; two requests are what creating at once
takes, of managers and of sessions. The operations are explored for one request at a time, on
the first file system (`OneOperates`, a constraint of the run): with what the tables do at the
same time they would multiply, and neither looks at the other. Nothing is claimed about
liveness.

`OneWorkspace` says that a request which has the manager everybody gets, and whose file system
has not ended, has its session's, and that requests of different sessions never share one,
whatever has ended and whichever manager they have. The first half is false of a request that
is left with the other manager: what it writes is not found again.

`NamesAgree` compares `VirtualPath.resolve` with `_normalize_path`, and walking with
`listdir` with `glob`. The first leaves out relative paths that end where they start, which
are "/" to `resolve`, or go above it, where `resolve` forgets the ".." (`Strays`). The second
holds of a file "/" too: `glob` finds it, and `listdir("/")` has it as the name "", which below
"/" is "/" again. `TreeShaped` leaves "/" out.

`VirtualFSProofs` proves the types and the four properties for any names, depth, sessions
and requests. `VInv` adds to the tree and the workspaces that a file system not made yet is
empty (`Unborn`), that a request holds one only during its operations (`Holding`), that no two
entries of the tables have the same (`Once`), and that one which is held and has not ended is
still its session's with the manager it came from (`Held`). `LiveSessionsStay` needs that a
session asked for since time last passed is not idle (`Awake`). `NamesAgree` is an induction:
the first component at which the two normal forms differ, or the first round of the walk that
differs from the tree, has one before it at which they agree.

## Files and guards

`HttpGuards.tla` is the decision of the four layers of `langstage/server/middleware.py` in
the order `add_middleware` gives them, with what browsers put on the requests of a page
(external). `FileManager.tla` is `langstage/workspace/file_manager.py` behind
`routes_files.py`: a tree of directories, files and links (`tree`), and uploads whose body is
being read (`uploads`). `FileRoutes.tla` composes them: a sender's request changes the tree
if one of the requests it can send passes all layers.

Run `files` (9 724 states, the two contents being interchangeable): four settings, nine
senders (programs, pages of the server's own name, of a listed origin, of strangers, of a
sandbox), six paths up, down and out, three places where the agent makes links to four
targets, one upload. A path longer than `Hops` steps is a loop and refused; a folder is made
only down to `MaxDepth`.

`FileRoutesProofs` proves the guards for all origins, settings and senders: no request of a
page the user has not let in reaches a route (`StrangersStayOut`), hence none changes a file
(`StrangersDoNothing`); everybody else gets through under a name the server answers to
(`KnownGetThrough`). It proves the file manager for all trees, links, paths, depths and
contents: `ChangesOnlyTheNamed`, `UploadRoundTrips` and `ListingAgrees`, from `FileAssumption`.
`FInv` says that "/" and the workspace are directories and links lie in the workspace, and
that where an upload goes was settled when the request came in, as the panel would have:
what `upload` takes for a directory is what can be listed, and saving and reading resolve the
same path, links made meanwhile included, so that neither has to know when. The lemmas are
about `Hop` and `Walked`, resolution one component at a time: a path that is not refused
resolves to one without links or ".." (`RealIsPlain`), its last component leads one name
beyond the path above it (`OneNameOn`), and a change that leaves the links alone leaves every
resolution alone (`SameLinks`, `ResolvedStays`).

Left out: the watcher, the kinds of a preview, names that begin with a dot, permissions, a
full disk; schemes, letter case, the spelling of lists and their entries `*.suffix`. A call of `FileManager` does not
await and is one step.

## The page

`Transcript.tla` has what each frame makes of the list of messages
(`frontend/src/hooks/useAgentStream.ts`, `frontend/src/extraction.ts`); `AgentStream.tla` the
hook's callbacks against one session of the server and its agent, which is external.

| Variable | In the code |
|---|---|
| `messages`, `streaming`, `interrupt` | `messages`, `isStreaming`, `interrupt` |
| `content`, `reasoning`, `raf` | `contentBufferRef`, `reasoningBufferRef`, `rafRef` |
| `lastEnded`, `session` | `lastEndedToolRef`, `sessionIdRef` |
| `url`, `conn` | the address and the state of the `EventSource` |
| `posting` | the requests on their way |
| `dirty`, `saved` | the persistence timer, what `localStorage` holds |
| `made`, `served`, `wire` | sessions of the server, the one streamed, its queue |
| `agent`, `calls`, `ending` | the agent's turn, its tool calls, cancelled turns not over yet |
| `told`, `ended`, `given`, `torn`, `failed` | history: what the page was told; whether frames or unsaved state were lost; whether an answer failed on the way |

`OnContent` to `OnUserMessage` are the frames, `Animate` the animation frame; `Send`,
`Respond`, `CancelStream`, `ResetSession`, `Reload` the user; `ChatTaken` to `CancelTaken` what
becomes of the requests; `Connect`, `Drop` the connection; the rest the agent. The route of an
answer does not ask whether a turn waits: one that finds none waiting starts a turn (`Resume`). While a page
streams the input and "New" are disabled, except that a slash command chosen from the menu
is sent at once; the dialog of an interrupt covers the page.

| Run | Question | Instance |
|---|---|---|
| `agent_stream` | is the timeline what the page was told, do cards show their own call, can an approval be given | 2 calls of one tool, 2 pieces or announcements, 1 frame waiting before the next is emitted, 2 requests, 1 lost connection, reset or reload; 2 778 174 states |
| `stream_retry` | a comment's claim about reconnects, refuted | 1 call, 1 request, 1 lost connection |

Two calls of one tool are what it takes to mistake one for the other; two pieces are what
an order takes; two requests are a message and its answer or cancel. No fairness: the
properties are invariants, and a page may be left at any point.

That a call has one card holds always; that its card shows the end and the extraction of its
own call (the rest of `CardsAgree`) leaves out lost frames (`torn`). `ApprovalShown` leaves out
those too, and answers that failed on the network.

`AgentStreamProofs` proves the types and the three properties for any number of calls,
sessions, frames, requests and lost connections, from `StreamAssumption`.

`TranscriptInOrder` is proved with `TimelineInv`, which adds the types of what is shown and of
what waits (`Typed`), that the page knows no session the server has not made (`Numbered`), and that a
call has one card on the page and in what was saved (`OneEach`): a second card would show a
call twice. Its lemmas say what each operator of `Transcript` adds to what is shown
(`TextShows`, `ThoughtShows`, `AnnounceShows`, ...): text goes to the last message only if
nothing was shown after it, so adding it there is adding it at the end.

`CardsAgree` is not inductive: the page pairs an end with the card of its id and an extraction
with the last call that ended, so it is right only if the frames still to come are in order.
`CardInv` says so of the frames that wait and of those the server may still emit (`LinedUp`): no
call ends, and none runs, without a card that is there or announced earlier (`Carded`), and an
extraction waits right behind the end of its call (`EndedLast`). It says it of the frames that
will reach this page (`Attached`), since a page that was reset or reloaded gets another
session's, and until some are lost. `Known` is what the cards already show, and `Asks` that a
turn that waits has its dialog on the page, its frame on the way, or its answer on the way.

The first attempt at these proofs found the definitions of `Transcript` with overlapping
cases, of which TLC takes the first: they are conditionals in the code's order now.

`stream_retry`: `routes_chat.py:225` keeps a session for a client that reconnects by
"EventSource retry, page reload". A page that was opened for the first time, or reset, has
`/api/stream` without an id as its EventSource's address; the browser's own retry repeats it
and gets a new session. A reload finds the old one.

Left out: todos, usage, file changes and texts; several tabs; a server that forgets the
session.

## What the code does otherwise

Each of these is in the model; where a property would contradict it, the property says so.

* Scheduler: the enqueued task is committed before its id is saved (`scheduler.py:348`); a
  crash in between lets a schedule overlap itself after the restart. A failed read of the
  board is taken for a task that is gone (`scheduler.py:380`) and lets it overlap too. A
  removal that overtakes its `add_job` has its row written again (`scheduler.py:170`); one that
  falls between the guard of `_spawn_run_loop` and its assignment (`scheduler.py:307`) leaves a
  run-loop firing that `remove_job` does not find, and so does a spawn after a shutdown; one
  that changes `_tasks` while `shutdown` goes through it (`scheduler.py:225`) makes that raise
  with loops left running.
* Task store: `claim_next` overwrites what was written between its two statements
  (`sqlite_store.py:184`): a cancel in that moment is lost.
* Canvas: the panel's remove and clear take no lock (`canvas_manager.py:35`) and can bring back
  or lose items beside a tool. After the last item is removed the file is two header lines,
  which are read as an item nobody added (`canvas.py:471`). A message that places one id twice,
  or an id another message places again, may lose the order of its calls (`tools.py:914`);
  `reorder_canvas` given an id twice writes the item twice (`tools.py:1110`).
* Notebook: a cell that runs while its notebook is reset keeps the variables it had
  (`tools.py:564`), and the count in an answer is read again (`tools.py:445`), so of two runs at
  once it may be the other's. `memory_limit` reads the limit to put back before the lock
  (`tools.py:97`): runs that overlap leave the process capped. `_get_ipython` takes the shared shell from a running
  cell (run `notebook_own_variables`).
* Chat: a one-shot on a session with leftover frames or another reader may return mixed text
  (`oneturn.py:75`), or wait for ever because the other reader took its terminal frame
  (`oneturn.py:94`), although the route promises the whole reply; a first stream that begins
  when the shutdown has begun is not told to end (`shutdown.py:80`) and holds the server until
  uvicorn's timeout; sessions made by one-shots are never reaped; a client that is gone before
  the generator starts leaves its session behind.
* Lifespan: the shutdown of an older, overlapped server clears the newer one's registrations
  and puts an older checkpointer back; a startup step that raises is outside the `try`, so
  what was started before it stays.
* Virtual file system: two first calls of `get_session_manager` at once get a manager each
  (`virtual_fs.py:461`), and what is made with the first is not found again; after `mkdir("/")`
  a file "/" can be written, which lists itself; `write_bytes` over a directory is allowed;
  `rmdir("/")` removes it with
  its contents left; operations update an access time nothing reads, so a file system in use
  expires; `get_or_create_session` may return the id of a session that has ended.
* Page: an answer that is accepted while no turn waits starts a turn (`routes_chat.py:211`); one that
  fails on the network does not bring its dialog back, nor does a reload;
  the status of `/api/chat` is not looked at, so a page whose session is gone stays streaming
  (neither the 404 nor a session dropped by the reaper is in `AgentStream`).

## Not modelled

* `display_inline` and the tool wrappers, the shell tool, the canvas middleware, the sums of
  the usage report: no state between calls, or one subprocess.
* Configuration, command line, default agent: read once at start, sequential.
* `langstage_core` (runner, session adapter, agent): not in this repository; external.
* The polling hooks and the components: each poll replaces what is shown.
* Canvas items' index of the cell they came from: nothing says what it should name once
  cells have been inserted or deleted.

Liveness under fairness is out of the prover's reach and checked by TLC only: `FireCompletes`,
`CancelledLoopEnds`, `QueuedIsServed`, `StopEnds`, `LeftOnesGo`, `StreamsEnd`,
`OneShotsAreAnswered`. Every other property of a passing run is a theorem. Recursive functions
are reasoned about through their existence and through least counterexamples, both from the theorems on well-founded recursion that need no operator as a
parameter.

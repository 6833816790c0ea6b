----------------------------- MODULE ChatSession -----------------------------
(***************************************************************************)
(* The chat sessions: SSE streams with their reaper and the chat endpoints *)
(* of langstage/server/routes_chat.py and routes_session.py, the buffered  *)
(* one-shot turn of langstage/oneturn.py and the stream's end of           *)
(* server/shutdown.py.  They run on one event loop; a step here is what    *)
(* happens between two awaits.  The adapter of langstage_core is external: *)
(* a session has a queue of frames, a current task and an outcome.         *)
(***************************************************************************)
EXTENDS Naturals, Sequences, FiniteSets

CONSTANTS
    Id,         \* session ids
    MaxMade,    \* bound: session objects that get made
    Stream,     \* SSE connections, each used once
    Request,    \* requests that start a turn, each used once
    None

Session == 1..MaxMade
Outcome == {"complete", "error", "interrupted", "cancelled"}

ASSUME ChatAssumption ==
    MaxMade \in Nat \ {0} /\ None \notin Request \cup Nat \cup Request \X Outcome

\* Mutant: an error does not end the one-shot.
TerminalUnlessError == {"complete", "interrupted", "cancelled"}
\* The last frame of a turn.  The one after an interrupt is told apart by its outcome.
Terminal == {"complete", "error", "interrupted", "cancelled"}

VARIABLES
    made, named,    \* sessions made so far; the adapter's session of each id
    connected,      \* sessions with sse_connected
    queue,          \* event_queue: <<request, kind>> frames of each session
    current,        \* current_task: the request whose turn was started last
    outcome,        \* <<request, kind>> of the turn that ended last
    turn,           \* how far the turn of each request has come
    on,             \* the session of each request
    pc, got, waits, \* complete_turn: where it is, whose text it has, the task it waits for
    stream,         \* [at, id, of] of each connection
    reaper,         \* [at, turn] of the reaper that a closed stream scheduled
    stopping, event,        \* the server shuts down; the app's shutdown event, made on first use
    begun, shared,          \* history: sessions that a stream began to read, that two read at once
    foreign, robbed         \* history: one-shots whose session something else used too; that
                            \* wait for a terminal frame and another reader took one

sessions == <<made, named, connected>>
turns == <<queue, current, outcome, turn, on>>
calls == <<pc, got, waits>>
app == <<stopping, event>>
history == <<begun, shared, foreign, robbed>>
vars == <<sessions, turns, calls, stream, reaper, app, history>>

Init ==
    /\ made = 0 /\ named = [i \in Id |-> None] /\ connected = {}
    /\ queue = [s \in Session |-> <<>>]
    /\ current = [s \in Session |-> None] /\ outcome = [s \in Session |-> None]
    /\ turn = [r \in Request |-> "none"] /\ on = [r \in Request |-> None]
    /\ pc = [r \in Request |-> "none"] /\ got = [r \in Request |-> {}]
    /\ waits = [r \in Request |-> None]
    /\ stream = [c \in Stream |-> [at |-> "none", id |-> None, of |-> None]]
    /\ reaper = [c \in Stream |-> [at |-> "none", turn |-> None]]
    /\ stopping = FALSE /\ event = "none"
    /\ begun = {} /\ shared = {} /\ foreign = {} /\ robbed = {}

\* get_or_create: the id's session s, made if there is none.
GetOrCreate(i, s) ==
    IF named[i] # None
    THEN s = named[i] /\ UNCHANGED <<made, named>>
    ELSE /\ s = made + 1 /\ s \in Session
         /\ made' = s /\ named' = [named EXCEPT ![i] = s]

Reads(c, s) == stream[c].at \in {"reading", "leaving"} /\ stream[c].of = s
Live(r) == turn[r] \notin {"none", "done"}
OneShots(s) == {r \in Request : pc[r] \in {"reading", "waiting"} /\ on[r] = s}

Untouched(s) ==
    /\ queue[s] = <<>> /\ OneShots(s) = {} /\ \A c \in Stream : ~Reads(c, s)
    /\ \A r \in Request : on[r] = s => ~Live(r)

----------------------------------------------------------------------------
\* Turns.

\* A turn of s that still works is told to end.
CancelCurrent(s) ==
    [r \in Request |-> IF r = current[s] /\ turn[r] \in {"running", "spoken"}
                       THEN "cancelling" ELSE turn[r]]

\* submit_message and submit_decisions: the turn in flight is cancelled, the queue kept.
Submit(r, s) ==
    /\ turn' = [CancelCurrent(s) EXCEPT ![r] = "running"]
    /\ on' = [on EXCEPT ![r] = s]
    /\ current' = [current EXCEPT ![s] = r]
    /\ UNCHANGED <<queue, outcome>>

\* POST /api/chat.  Without a session it is answered 404.
Chat(r, i) ==
    /\ ~stopping /\ turn[r] = "none" /\ named[i] # None
    /\ Submit(r, named[i])
    /\ foreign' = foreign \cup OneShots(named[i])
    /\ UNCHANGED <<sessions, calls, stream, reaper, app, begun, shared, robbed>>

\* POST /api/session/{id}/inject: 409 without a browser.  The bubble it pushes first is no
\* frame of a turn and left out.
Inject(r, i) == named[i] \in connected /\ Chat(r, i)

\* POST /api/chat/interrupt: 400 unless the answer fits what is pending.
Respond(r, i) ==
    /\ named[i] # None /\ outcome[named[i]] # None /\ outcome[named[i]][2] = "interrupted"
    /\ Chat(r, i)

\* POST /api/chat/complete: a missing id stands for one that nobody uses.
Complete(r, i) ==
    /\ ~stopping /\ turn[r] = "none"
    /\ \E s \in Session :
          /\ GetOrCreate(i, s) /\ Submit(r, s)
          /\ foreign' = foreign \cup OneShots(s)
                \cup (IF Untouched(s) THEN {} ELSE {r})
    /\ pc' = [pc EXCEPT ![r] = "reading"]
    /\ UNCHANGED <<connected, got, waits, stream, reaper, app, begun, shared, robbed>>

\* POST /api/chat/cancel.
Cancel(i) ==
    /\ ~stopping /\ named[i] # None
    /\ turn' = CancelCurrent(named[i])
    /\ foreign' = foreign \cup OneShots(named[i])
    /\ UNCHANGED <<sessions, queue, current, outcome, on, calls, stream, reaper, app,
                   begun, shared, robbed>>

\* DELETE /api/session/{id}.  Whether the adapter cancels the turn is its affair.
Delete(i) ==
    /\ ~stopping /\ named[i] # None
    /\ named' = [named EXCEPT ![i] = None]
    /\ turn' \in {turn, CancelCurrent(named[i])}
    /\ foreign' = foreign \cup OneShots(named[i])
    /\ UNCHANGED <<made, connected, queue, current, outcome, on, calls, stream, reaper,
                   app, begun, shared, robbed>>

Push(r, kind) == queue' = [queue EXCEPT ![on[r]] = Append(@, <<r, kind>>)]

Speak(r) ==
    /\ turn[r] = "running" /\ turn' = [turn EXCEPT ![r] = "spoken"]
    /\ Push(r, "text")
    /\ UNCHANGED <<sessions, current, outcome, on, calls, stream, reaper, app, history>>

\* Every turn ends with one terminal frame,
Ending(r) == CASE turn[r] = "running" -> {"error"}
               [] turn[r] = "spoken" -> {"complete", "interrupted"}
               [] turn[r] = "cancelling" -> {"cancelled"}
               [] OTHER -> {}
PushTerminal(r) ==
    /\ \E kind \in Ending(r) : Push(r, kind) /\ turn' = [turn EXCEPT ![r] = kind]
    /\ UNCHANGED <<sessions, current, outcome, on, calls, stream, reaper, app, history>>

\* after which the session has its outcome and the task is done.
Settle(r) ==
    /\ turn[r] \in Outcome /\ turn' = [turn EXCEPT ![r] = "done"]
    /\ outcome' = [outcome EXCEPT ![on[r]] = <<r, turn[r]>>]
    /\ UNCHANGED <<sessions, queue, current, on, calls, stream, reaper, app, history>>

----------------------------------------------------------------------------
\* complete_turn.

\* The one-shots that read s, if its next frame is one they wait for.
Missed(s) ==
    {q \in Request : pc[q] = "reading" /\ on[q] = s /\ Head(queue[s])[2] \in Terminal}

\* It takes frames off the queue up to the first terminal one.
Collect(r) ==
    /\ pc[r] = "reading" /\ queue[on[r]] # <<>>
    /\ LET s == on[r]  f == Head(queue[s])
       IN /\ queue' = [queue EXCEPT ![s] = Tail(@)]
          /\ IF f[2] \in Terminal
             THEN /\ pc' = [pc EXCEPT ![r] = "waiting"]
                  /\ waits' = [waits EXCEPT ![r] = current[s]] /\ UNCHANGED got
                  /\ robbed' = (robbed \cup Missed(s)) \ {r}
             ELSE /\ got' = [got EXCEPT ![r] = @ \cup {f[1]}]
                  /\ UNCHANGED <<pc, waits, robbed>>
    /\ UNCHANGED <<sessions, current, outcome, turn, on, stream, reaper, app,
                   begun, shared, foreign>>

\* Mutant: the outcome is read as soon as the terminal frame is there.
DoneAnyway(r) == TRUE
Done(r) == ~Live(r)

Answer(r) ==
    /\ pc[r] = "waiting" /\ Done(waits[r])
    /\ pc' = [pc EXCEPT ![r] = "answered"]
    /\ got' = [got EXCEPT ![r] = {}] /\ waits' = [waits EXCEPT ![r] = None]
    /\ foreign' = foreign \ {r}
    /\ UNCHANGED <<sessions, turns, stream, reaper, app, begun, shared, robbed>>

----------------------------------------------------------------------------
\* Streams.

Move(c, at) == stream' = [stream EXCEPT ![c].at = at]

\* GET /api/stream makes the session.
Open(c, i) ==
    /\ ~stopping /\ stream[c].at = "none"
    /\ \E s \in Session : GetOrCreate(i, s)
    /\ stream' = [stream EXCEPT ![c] = [at |-> "opening", id |-> i, of |-> None]]
    /\ UNCHANGED <<connected, turns, calls, reaper, app, history>>

\* The response starts to run event_generator: adapter.sse marks the id's session connected,
\* and the app has a shutdown event from now on.
Begin(c) ==
    /\ stream[c].at = "opening"
    /\ \E s \in Session :
          /\ GetOrCreate(stream[c].id, s)
          /\ stream' = [stream EXCEPT ![c].at = "reading", ![c].of = s]
          /\ connected' = connected \cup {s} /\ begun' = begun \cup {s}
          /\ shared' = shared \cup {t \in {s} : \E d \in Stream : Reads(d, t)}
          /\ foreign' = foreign \cup OneShots(s)
    /\ event' = IF event = "none" THEN "clear" ELSE event
    /\ UNCHANGED <<turns, calls, reaper, stopping, robbed>>

\* The client is gone before that: the generator never runs, nothing is cleaned up.
Vanish(c) ==
    /\ stream[c].at = "opening" /\ Move(c, "gone")
    /\ UNCHANGED <<sessions, turns, calls, reaper, app, history>>

Read(c) ==
    /\ stream[c].at = "reading" /\ queue[stream[c].of] # <<>>
    /\ queue' = [queue EXCEPT ![stream[c].of] = Tail(@)]
    /\ robbed' = robbed \cup Missed(stream[c].of)
    /\ UNCHANGED <<sessions, current, outcome, turn, on, calls, stream, reaper, app,
                   begun, shared, foreign>>

\* The client disconnects, or uvicorn cancels the request some seconds after the shutdown.
Leave(c) ==
    /\ stream[c].at = "reading" /\ Move(c, "leaving")
    /\ UNCHANGED <<sessions, turns, calls, reaper, app, history>>

\* Mutant: an open stream is not told of the shutdown.
NotTold(c) == FALSE /\ UNCHANGED vars

\* until_shutdown ends the stream when the event is set.
Told(c) == event = "set" /\ Leave(c)

\* Mutant: the pending read is not waited for, so closing raises "already running".
CloseFails(c) ==
    /\ stream[c].at = "leaving" /\ Move(c, "gone")
    /\ reaper' = [reaper EXCEPT ![c].at = "sleeping"]
    /\ UNCHANGED <<sessions, turns, calls, app, history>>

\* The pending read is cancelled and waited for, aclose marks the session disconnected (the
\* adapter may look at its other streams) and the reaper is scheduled.
Close(c) ==
    /\ stream[c].at = "leaving" /\ Move(c, "gone")
    /\ LET s == stream[c].of
       IN \/ connected' = connected \ {s}
          \/ UNCHANGED connected /\ \E d \in Stream \ {c} : Reads(d, s)
    /\ reaper' = [reaper EXCEPT ![c].at = "sleeping"]
    /\ UNCHANGED <<made, named, turns, calls, app, history>>

----------------------------------------------------------------------------
\* _reap_when_idle, after the grace period.

AtRest(c, s) ==
    reaper[c].at = "sleeping" /\ named[stream[c].id] = s /\ s # None /\ s \notin connected
Works(s) == current[s] # None /\ Live(current[s])
Awake(c, at, r) ==
    /\ reaper' = [reaper EXCEPT ![c] = [at |-> at, turn |-> r]]
    /\ UNCHANGED <<made, connected, turns, calls, stream, app, history>>

\* No session, or one that is read again.
StandDown(c) ==
    /\ reaper[c].at = "sleeping" /\ ~\E s \in Session : AtRest(c, s)
    /\ Awake(c, "over", None) /\ UNCHANGED named

AwaitTurn(c) ==
    /\ \E s \in Session :
          AtRest(c, s) /\ Works(s) /\ Awake(c, "waiting", current[s])
    /\ UNCHANGED named

\* Mutant: the client gets no second grace period.
ReapAtOnce(c) ==
    /\ reaper[c].at = "waiting" /\ ~Live(reaper[c].turn)
    /\ named' = [named EXCEPT ![stream[c].id] = None]
    /\ Awake(c, "over", None)

\* Then the grace period again.
SleepAgain(c) ==
    /\ reaper[c].at = "waiting" /\ ~Live(reaper[c].turn)
    /\ Awake(c, "sleeping", None) /\ UNCHANGED named

\* The session and its notebook are dropped.
Reap(c) ==
    /\ \E s \in Session : AtRest(c, s) /\ ~Works(s)
    /\ named' = [named EXCEPT ![stream[c].id] = None]
    /\ Awake(c, "over", None)

\* Server.shutdown sets the event if there is one.
Stop ==
    /\ ~stopping /\ stopping' = TRUE
    /\ event' = IF event = "none" THEN "none" ELSE "set"
    /\ UNCHANGED <<sessions, turns, calls, stream, reaper, history>>

Next ==
    \/ Stop
    \/ \E i \in Id :
          \/ Cancel(i) \/ Delete(i)
          \/ \E r \in Request : Chat(r, i) \/ Inject(r, i) \/ Respond(r, i) \/ Complete(r, i)
          \/ \E c \in Stream : Open(c, i)
    \/ \E r \in Request : Speak(r) \/ PushTerminal(r) \/ Settle(r) \/ Collect(r) \/ Answer(r)
    \/ \E c \in Stream :
          \/ Begin(c) \/ Vanish(c) \/ Read(c) \/ Leave(c) \/ Told(c) \/ Close(c)
          \/ StandDown(c) \/ AwaitTurn(c) \/ SleepAgain(c) \/ Reap(c)

Spec == Init /\ [][Next]_vars

\* The event loop goes on with what is ready.  Nothing is assumed of the agent, of the
\* clients or of the order of frames and connections.
Fairness ==
    /\ \A c \in Stream :
          /\ WF_vars(Begin(c) \/ Vanish(c)) /\ WF_vars(Told(c)) /\ WF_vars(Close(c))
          /\ WF_vars(StandDown(c) \/ AwaitTurn(c) \/ SleepAgain(c) \/ Reap(c))
    /\ \A r \in Request : WF_vars(Settle(r)) /\ WF_vars(Collect(r)) /\ WF_vars(Answer(r))
FairSpec == Spec /\ Fairness

----------------------------------------------------------------------------
\* Properties.

Turns == Request \cup {None}
TypeOK ==
    /\ made \in 0..MaxMade /\ named \in [Id -> 1..made \cup {None}]
    /\ connected \subseteq Session
    /\ queue \in [Session -> Seq(Request \X ({"text"} \cup Outcome))]
    /\ current \in [Session -> Turns]
    /\ outcome \in [Session -> Request \X Outcome \cup {None}]
    /\ turn \in [Request -> {"none", "running", "spoken", "cancelling", "done"} \cup Outcome]
    /\ on \in [Request -> Session \cup {None}]
    /\ pc \in [Request -> {"none", "reading", "waiting", "answered"}]
    /\ got \in [Request -> SUBSET Request] /\ waits \in [Request -> Turns]
    /\ stream \in [Stream -> [at : {"none", "opening", "reading", "leaving", "gone"},
                              id : Id \cup {None}, of : Session \cup {None}]]
    /\ reaper \in [Stream -> [at : {"none", "sleeping", "waiting", "over"}, turn : Turns]]
    /\ stopping \in BOOLEAN /\ event \in {"none", "clear", "set"}
    /\ begun \subseteq Session /\ shared \subseteq Session
    /\ foreign \subseteq Request /\ robbed \subseteq Request

\* "Drop a session once it has no stream and no running turn": except by a delete, no
\* session that is read or works on a turn goes, unless two streams read it at once.
InUse(s) ==
    \/ \E c \in Stream : Reads(c, s)
    \/ \E r \in Request : on[r] = s /\ turn[r] \in {"running", "spoken"}
OnlyIdleGo ==
    [][\A i \in Id : named[i] # None /\ named'[i] = None /\ InUse(named[i])
                     => named[i] \in shared \/ Delete(i)]_vars

\* gh #164: a session that was streamed and has no stream and no turn is not kept for ever.
Left(i) ==
    /\ named[i] # None /\ named[i] \in begun
    /\ \A c \in Stream : stream[c].id = i => stream[c].at \in {"none", "gone"}
    /\ \A r \in Request : on[r] = named[i] => ~Live(r)
LeftOnesGo == \A i \in Id : Left(i) ~> ~Left(i)

\* A one-shot that nothing else interfered with returns the outcome of its own turn and
\* what its own turn said, all of it.
OwnReply ==
    [][\A r \in Request \ foreign : pc[r] = "waiting" /\ pc'[r] = "answered" =>
          LET result == outcome[on[r]]
          IN /\ result # None /\ result[1] = r
             /\ got[r] = (IF result[2] \in {"complete", "interrupted"} THEN {r} ELSE {})]_vars

\* Once no turn of its session works any more a one-shot is answered, whoever cancelled,
\* deleted or talked to the session meanwhile, unless another reader of the session, a stream or
\* a one-shot, took a terminal frame: then nothing may be left for it to wait for.  (A server
\* that shuts down may have uvicorn cancel the request.)
Working(s) == \E q \in Request : on[q] = s /\ Live(q)
Unanswered(r) == pc[r] \in {"reading", "waiting"} /\ ~Working(on[r]) /\ ~stopping
OneShotsAreAnswered == \A r \in Request : Unanswered(r) ~> ~Unanswered(r) \/ r \in robbed

\* gh #211: once the shutdown event is set every stream ends, those that open just then as well.
\* The first generator of a server makes its event: one that starts when the shutdown has begun
\* makes an event that nobody sets, and its stream may go on, so this says nothing of it.
StreamsEnd ==
    \A c \in Stream : event = "set" ~> stream[c].at \in {"none", "gone"}
=============================================================================

----------------------------- MODULE AgentStream -----------------------------
(***************************************************************************)
(* The page's end of the chat, frontend/src/hooks/useAgentStream.ts: the   *)
(* EventSource with its buffered text, the requests it posts and the state *)
(* it keeps across a reload, against the session of the server it streams  *)
(* (server/routes_chat.py) and the frames of its agent, which is external. *)
(* A step is one callback of the page or one step of the server.           *)
(***************************************************************************)
EXTENDS Transcript

CONSTANTS
    Call,       \* ids of tool calls
    MaxMade,    \* bound: sessions the server makes
    MaxSaid,    \* bound: pieces of text and reasoning, and calls announced
    MaxWire,    \* bound: frames waiting
    MaxAsked,   \* bound: messages, answers and cancels of the user
    MaxBreaks   \* bound: lost connections, reloads and resets

ASSUME StreamAssumption ==
    /\ None \notin Call /\ None \notin Nat
    /\ {MaxMade, MaxSaid, MaxWire, MaxAsked, MaxBreaks} \subseteq Nat

VARIABLES
    messages, streaming, interrupt, \* state of the hook; interrupt: a dialog is open
    content, reasoning, raf,        \* contentBufferRef, reasoningBufferRef, rafRef is set
    lastEnded, session,             \* lastEndedToolRef, sessionIdRef
    url, conn,                      \* the EventSource: the session in its address, its state
    posting,                        \* requests on their way: "chat", "answer", "cancel",
                                    \* "late_chat" and "late_answer" to a deleted session
    dirty, saved,                   \* the timer that saves is set; what localStorage holds
    made, served, wire,             \* sessions made, the one the page reads, its event_queue
    agent, calls, ending,           \* its turn, the tool calls, cancelled turns not yet over
    said, asked, breaks,            \* counters (bounded)
    told, ended, given,             \* history: what the page was told, calls it was told the
                                    \* end and the extraction of
    torn, failed                    \* history: frames or state were lost; an answer failed

view    == <<messages, streaming, interrupt>>
buffers == <<content, reasoning, raf>>
link    == <<session, url, conn>>
store   == <<dirty, saved>>
turns   == <<agent, calls, ending>>
server  == <<made, served, turns, said>>
history == <<told, ended, given, torn, failed>>
bounds  == <<asked, breaks>>
vars == <<view, buffers, lastEnded, link, posting, store, server, wire, history, bounds>>

Nothing == [session |-> None, messages |-> <<>>]

Init ==
    /\ messages = <<>> /\ streaming = FALSE /\ interrupt = FALSE
    /\ content = <<>> /\ reasoning = <<>> /\ raf = FALSE
    /\ lastEnded = None /\ session = None /\ url = None /\ conn = "connecting"
    /\ posting = {} /\ dirty = TRUE /\ saved = Nothing
    /\ made = 0 /\ served = None /\ wire = <<>>
    /\ agent = "idle" /\ calls = [i \in Call |-> "new"] /\ ending = 0
    /\ said = 0 /\ asked = 0 /\ breaks = 0
    /\ told = <<>> /\ ended = {} /\ given = {} /\ torn = FALSE /\ failed = FALSE

Frame(type, n) == [type |-> type, of |-> n]

\* The effect that saves: its timer is cleared while the page streams, and set by any
\* other change of what is saved.
Effect == dirty' = (~streaming' /\ (dirty \/ streaming \/ messages' # messages))

----------------------------------------------------------------------------
\* Frames.

\* flushReasoningBuffer, flushContentBuffer.
Flush == AddText(AddThought(messages, reasoning), content)
Emptied == content' = <<>> /\ reasoning' = <<>>

Take(type) == conn = "open" /\ wire # <<>> /\ Head(wire).type = type /\ wire' = Tail(wire)
Tells(p) == told' = told \o p

\* onmessage of a piece of text: what waits of the other kind is flushed first.
OnContent ==
    /\ Take("content")
    /\ messages' = AddThought(messages, reasoning) /\ reasoning' = <<>>
    /\ content' = Append(content, Head(wire).of) /\ raf' = TRUE
    /\ Tells(<<Head(wire).of>>)
    /\ UNCHANGED <<streaming, interrupt, lastEnded, link, posting, saved, server,
                   ended, given, torn, failed, bounds>>
    /\ Effect

\* Mutant: text that waits is not flushed first.
OnReasoningUnflushed ==
    /\ Take("reasoning")
    /\ reasoning' = Append(reasoning, Head(wire).of) /\ raf' = TRUE
    /\ Tells(<<Head(wire).of>>)
    /\ UNCHANGED <<view, content, lastEnded, link, posting, store, server,
                   ended, given, torn, failed, bounds>>

OnReasoning ==
    /\ Take("reasoning")
    /\ messages' = AddText(messages, content) /\ content' = <<>>
    /\ reasoning' = Append(reasoning, Head(wire).of) /\ raf' = TRUE
    /\ Tells(<<Head(wire).of>>)
    /\ UNCHANGED <<streaming, interrupt, lastEnded, link, posting, saved, server,
                   ended, given, torn, failed, bounds>>
    /\ Effect

\* requestAnimationFrame calls back.
Animate ==
    /\ raf /\ raf' = FALSE
    /\ messages' = Flush /\ Emptied
    /\ UNCHANGED <<streaming, interrupt, lastEnded, link, posting, saved, server, wire,
                   history, bounds>>
    /\ Effect

\* Any other frame flushes both buffers and is dispatched.
Dispatch(type) == Take(type) /\ Emptied
Steady == Effect /\ UNCHANGED <<raf, url, conn, posting, saved, server, torn, failed, bounds>>

OnSessionInit ==
    /\ Dispatch("session_init")
    /\ messages' = Flush /\ session' = Head(wire).of
    /\ UNCHANGED <<streaming, interrupt, lastEnded, told, ended, given>>
    /\ Steady

OnToolStart ==
    /\ Dispatch("tool_start")
    /\ LET i == Head(wire).of
       IN /\ messages' = Announce(Flush, i)
          /\ Tells(IF <<"call", i>> \in ToSet(told) THEN <<>> ELSE <<<<"call", i>>>>)
    /\ UNCHANGED <<streaming, interrupt, lastEnded, session, ended, given>>
    /\ Steady

OnToolEnd ==
    /\ Dispatch("tool_end")
    /\ messages' = MarkDone(Flush, Head(wire).of) /\ lastEnded' = Head(wire).of
    /\ ended' = ended \cup {Head(wire).of}
    /\ UNCHANGED <<streaming, interrupt, session, told, given>>
    /\ Steady

\* The frame carries the name of the tool, and the call's id or none.
OnExtraction ==
    /\ Dispatch("extraction")
    /\ LET i == Head(wire).of[1]  id == Head(wire).of[2]
       IN /\ messages' = Extract(Flush, NameOf[i], TargetId(id, NameOf[i], lastEnded), i)
          /\ given' = given \cup {i}
    /\ UNCHANGED <<streaming, interrupt, lastEnded, session, told, ended>>
    /\ Steady

OnInterrupt ==
    /\ Dispatch("interrupt")
    /\ messages' = Flush /\ streaming' = FALSE /\ interrupt' = TRUE
    /\ UNCHANGED <<lastEnded, session, told, ended, given>>
    /\ Steady

OnComplete ==
    /\ Dispatch("complete")
    /\ messages' = Quiet(Flush) /\ streaming' = FALSE
    /\ UNCHANGED <<interrupt, lastEnded, session, told, ended, given>>
    /\ Steady

OnError ==
    /\ Dispatch("error")
    /\ messages' = Append(Flush, Bubble("assistant", <<Head(wire).of>>)) /\ streaming' = FALSE
    /\ Tells(<<Head(wire).of>>)
    /\ UNCHANGED <<interrupt, lastEnded, session, ended, given>>
    /\ Steady

OnCancelled ==
    /\ Dispatch("cancelled")
    /\ messages' = Append(Quiet(Flush), Bubble("system", <<Head(wire).of>>)) /\ streaming' = FALSE
    /\ Tells(<<Head(wire).of>>)
    /\ UNCHANGED <<interrupt, lastEnded, session, ended, given>>
    /\ Steady

\* A message injected over REST.
OnUserMessage ==
    /\ Dispatch("user_message")
    /\ messages' = Append(Flush, Bubble("user", <<Head(wire).of>>)) /\ streaming' = TRUE
    /\ Tells(<<Head(wire).of>>)
    /\ UNCHANGED <<interrupt, lastEnded, session, ended, given>>
    /\ Steady

Frames ==
    \/ OnContent \/ OnReasoning \/ Animate \/ OnSessionInit \/ OnToolStart \/ OnToolEnd
    \/ OnExtraction \/ OnInterrupt \/ OnComplete \/ OnError \/ OnCancelled \/ OnUserMessage

----------------------------------------------------------------------------
\* The user.

\* sendMessage: the bubble is there at once.  A slash command is sent while the page
\* streams, too; the dialog of an interrupt covers the page.
Send ==
    /\ session # None /\ ~interrupt /\ "chat" \notin posting /\ asked < MaxAsked
    /\ messages' = Append(messages, Bubble("user", <<Own>>)) /\ streaming' = TRUE
    /\ posting' = posting \cup {"chat"} /\ asked' = asked + 1
    /\ UNCHANGED <<interrupt, buffers, lastEnded, link, saved, server, wire, history, breaks>>
    /\ Effect

\* respondToInterrupt
Respond ==
    /\ session # None /\ interrupt /\ "answer" \notin posting /\ asked < MaxAsked
    /\ interrupt' = FALSE /\ streaming' = TRUE
    /\ posting' = posting \cup {"answer"} /\ asked' = asked + 1
    /\ UNCHANGED <<messages, buffers, lastEnded, link, saved, server, wire, history, breaks>>
    /\ Effect

\* cancelStream: the page goes on streaming until it is told.
CancelStream ==
    /\ session # None /\ streaming /\ ~interrupt /\ asked < MaxAsked /\ asked' = asked + 1
    /\ messages' = Flush /\ Emptied
    /\ posting' = posting \cup {"cancel"}
    /\ UNCHANGED <<streaming, interrupt, raf, lastEnded, link, saved, server, wire, history, breaks>>
    /\ Effect

Break == breaks < MaxBreaks /\ breaks' = breaks + 1
Busy == agent # "idle" \/ wire # <<>> \/ ending > 0

\* What is on its way to a deleted session.
Late == [chat |-> "late_chat", answer |-> "late_answer", late_chat |-> "late_chat",
         late_answer |-> "late_answer"]

\* resetSession
ResetSession ==
    /\ ~streaming /\ ~interrupt /\ Break
    /\ messages' = <<>> /\ UNCHANGED <<streaming, interrupt>>
    /\ content' = <<>> /\ reasoning' = <<>> /\ raf' = FALSE
    /\ session' = None /\ url' = None /\ conn' = "connecting"
    /\ posting' = {Late[r] : r \in posting \cap DOMAIN Late} /\ dirty' = TRUE /\ saved' = Nothing
    /\ told' = <<>> /\ ended' = {} /\ given' = {}
    /\ UNCHANGED <<lastEnded, server, wire, torn, failed, asked>>

\* The page is reloaded: what is not saved is gone.
Reload ==
    /\ Break
    /\ messages' = saved.messages /\ streaming' = FALSE /\ interrupt' = FALSE
    /\ content' = <<>> /\ reasoning' = <<>> /\ raf' = FALSE /\ lastEnded' = None
    /\ session' = saved.session /\ url' = saved.session /\ conn' = "connecting"
    /\ posting' = {} /\ dirty' = TRUE /\ UNCHANGED saved
    /\ told' = Shown(saved.messages)
    /\ torn' = (torn \/ Busy \/ posting # {} \/ messages # saved.messages)
    /\ UNCHANGED <<server, wire, ended, given, failed, asked>>

\* savePersistedState, half a second later.  Nothing reads it after the last break.
Persist ==
    /\ dirty /\ ~streaming /\ breaks < MaxBreaks
    /\ dirty' = FALSE /\ saved' = [session |-> session, messages |-> messages]
    /\ UNCHANGED <<view, buffers, lastEnded, link, posting, server, wire, history, bounds>>

----------------------------------------------------------------------------
\* What becomes of the requests.

Answered(request) == request \in posting /\ posting' = posting \ {request}

\* Calls of a turn that is given up never end.
GivenUp == [i \in Call |-> IF calls[i] \in {"running", "paused"} THEN "over" ELSE calls[i]]

\* The server starts a turn; the one in flight is cancelled.
StartTurn ==
    /\ agent' = "working" /\ calls' = GivenUp
    /\ ending' = IF agent = "working" THEN ending + 1 ELSE ending

Unanswered == UNCHANGED <<interrupt, buffers, lastEnded, link, saved, made, served, said, wire,
                          told, ended, given, torn, bounds>>

ChatTaken ==
    /\ Answered("chat") /\ StartTurn
    /\ Unanswered /\ UNCHANGED <<messages, streaming, dirty, failed>>

\* The request fails, before or after the server took it.
ChatFails ==
    /\ \/ Answered("chat") /\ (StartTurn \/ UNCHANGED turns)
       \/ Answered("late_chat") /\ UNCHANGED turns
    /\ streaming' = FALSE
    /\ Unanswered /\ UNCHANGED <<messages, failed>>
    /\ Effect

\* submit_decisions: a turn that waits is resumed.  The route does not ask whether one does:
\* an answer that meets a turn at work, or none, starts another as a message would.
Resume ==
    IF agent = "waiting" THEN agent' = "working" /\ UNCHANGED <<calls, ending>> ELSE StartTurn

AnswerTaken ==
    /\ Answered("answer") /\ Resume
    /\ Unanswered /\ UNCHANGED <<messages, streaming, dirty, failed>>

\* Mutant: the dialog does not come back.
AnswerRefusedForgotten ==
    /\ Answered("answer")
    /\ streaming' = FALSE
    /\ messages' = Append(messages, Bubble("assistant", <<Own>>))
    /\ UNCHANGED <<interrupt, buffers, lastEnded, link, saved, server, wire, history, bounds>>
    /\ Effect

\* 400 or 404: the dialog is back with the reason, whatever came since.
AnswerRefused ==
    /\ Answered("answer") \/ Answered("late_answer")
    /\ streaming' = FALSE /\ interrupt' = TRUE
    /\ messages' = Append(messages, Bubble("assistant", <<Own>>))
    /\ UNCHANGED <<buffers, lastEnded, link, saved, server, wire, history, bounds>>
    /\ Effect

\* The request fails, before or after the server took it: the dialog is not brought back.
AnswerFails ==
    /\ \/ Answered("answer") /\ (Resume \/ UNCHANGED turns)
       \/ Answered("late_answer") /\ UNCHANGED turns
    /\ streaming' = FALSE /\ failed' = TRUE
    /\ Unanswered /\ UNCHANGED messages
    /\ Effect

CancelTaken ==
    /\ Answered("cancel")
    /\ IF agent = "working"
       THEN agent' = "idle" /\ ending' = ending + 1 /\ calls' = GivenUp
       ELSE UNCHANGED turns
    /\ Unanswered /\ UNCHANGED <<messages, streaming, dirty, failed>>

Requests == ChatTaken \/ ChatFails \/ AnswerTaken \/ AnswerRefused \/ AnswerFails \/ CancelTaken

----------------------------------------------------------------------------
\* The stream and the agent.

Serverside == UNCHANGED <<view, buffers, lastEnded, session, url, posting, store,
                          told, ended, given, failed, asked>>

\* GET /api/stream: get_or_create, and the session's id first.  A session that the page
\* comes back to still has its frames.
Connect ==
    /\ conn # "open" /\ conn' = "open"
    /\ IF url = None
       THEN made < MaxMade /\ made' = made + 1 /\ served' = made + 1
       ELSE served' = url /\ UNCHANGED made
    /\ LET init == Frame("session_init", served')
       IN IF served' = served
          THEN wire' = <<init>> \o wire /\ UNCHANGED <<turns, torn>>
          ELSE /\ wire' = <<init>> /\ agent' = "idle" /\ calls' = GivenUp /\ ending' = 0
               /\ torn' = (torn \/ (served # None /\ messages # <<>>))
    /\ Serverside /\ UNCHANGED <<said, breaks>>

\* The connection is lost, and with it frames that were on their way; EventSource will retry.
Drop ==
    /\ conn = "open" /\ Break /\ conn' = "retry"
    /\ \E n \in 1..(Len(wire) + 1) :
          wire' = SubSeq(wire, n, Len(wire)) /\ torn' = (torn \/ n > 1)
    /\ Serverside /\ UNCHANGED server

Emit(frames) ==
    /\ Len(wire) < MaxWire /\ wire' = wire \o frames
    /\ Serverside /\ UNCHANGED <<conn, made, served, torn, breaks>>

Speak(type) ==
    /\ agent = "working" /\ said < MaxSaid /\ said' = said + 1
    /\ Emit(<<Frame(type, <<"text", said'>>)>>)
    /\ UNCHANGED turns

\* A resumed turn announces the calls it paused in again.
StartCall(i) ==
    /\ agent = "working" /\ calls[i] \in {"new", "paused"}
    /\ said < MaxSaid /\ said' = said + 1
    /\ calls' = [calls EXCEPT ![i] = "running"]
    /\ Emit(<<Frame("tool_start", i)>>)
    /\ UNCHANGED <<agent, ending>>

\* An extraction follows the end of its call, with the id of the call or without.
EndCall(i) ==
    /\ agent = "working" /\ calls[i] = "running"
    /\ calls' = [calls EXCEPT ![i] = "over"]
    /\ \E more \in {<<>>} \cup {<<Frame("extraction", <<i, id>>)>> : id \in {i, None}} :
          Emit(<<Frame("tool_end", i)>> \o more)
    /\ UNCHANGED <<agent, ending, said>>

\* The turn pauses for approval.
Interrupt ==
    /\ agent = "working" /\ agent' = "waiting"
    /\ calls' = [i \in Call |-> IF calls[i] = "running" THEN "paused" ELSE calls[i]]
    /\ Emit(<<Frame("interrupt", None), Frame("complete", None)>>)
    /\ UNCHANGED <<ending, said>>

EndTurn ==
    /\ agent = "working" /\ agent' = "idle" /\ calls' = GivenUp
    /\ \/ Emit(<<Frame("complete", None)>>)
       \/ Emit(<<Frame("error", <<"error", 0>>)>>)
    /\ UNCHANGED <<ending, said>>

EndCancelled ==
    /\ ending > 0 /\ ending' = ending - 1
    /\ Emit(<<Frame("cancelled", <<"cancelled", 0>>)>>)
    /\ UNCHANGED <<agent, calls, said>>

\* POST /api/session/{id}/inject
Inject ==
    /\ conn = "open" /\ asked < MaxAsked /\ asked' = asked + 1 /\ Len(wire) < MaxWire
    /\ wire' = Append(wire, Frame("user_message", <<"injected", asked'>>)) /\ StartTurn
    /\ UNCHANGED <<view, buffers, lastEnded, link, posting, store, made, served, said, history, breaks>>

Next ==
    \/ Frames \/ Requests
    \/ Send \/ Respond \/ CancelStream \/ ResetSession \/ Reload \/ Persist
    \/ Connect \/ Drop \/ Inject
    \/ Speak("content") \/ Speak("reasoning") \/ Interrupt \/ EndTurn \/ EndCancelled
    \/ \E i \in Call : StartCall(i) \/ EndCall(i)

Spec == Init /\ [][Next]_vars

----------------------------------------------------------------------------
\* Properties.

\* gh #196: the timeline and what waits for the next animation frame are what the page was
\* told, in that order, all of it and once; only one buffer is ever non-empty; and what
\* waits will be shown.
TranscriptInOrder ==
    /\ content = <<>> \/ reasoning = <<>>
    /\ told = Shown(messages) \o reasoning \o content
    /\ reasoning \o content # <<>> => raf

\* A call has one card.  The card shows its end and its own extraction, whichever of several
\* calls of a tool ended first, frames lost on the way aside.
CardsAgree ==
    /\ \A a, b \in CardsIn(messages) :
          CardAt(messages, a).id = CardAt(messages, b).id => a = b
    /\ ~torn => \A at \in CardsIn(messages) :
          LET c == CardAt(messages, at)
          IN /\ c.done <=> c.id \in ended
             /\ c.extraction = IF c.id \in given THEN c.id ELSE None

\* core #227: a turn that waits for approval can be answered, once its frames are there
\* and unless an answer is on its way.  Answers that failed and lost frames aside.
ApprovalShown ==
    agent = "waiting" /\ conn = "open" /\ wire = <<>> /\ "answer" \notin posting
        => interrupt \/ torn \/ failed

\* gh #164: a client that reconnects by EventSource's retry finds its session again.
RetryFindsSession == [][conn = "retry" /\ conn' = "open" => served' = served]_vars
=============================================================================

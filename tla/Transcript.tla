----------------------------- MODULE Transcript -----------------------------
(***************************************************************************)
(* The chat's timeline of frontend/src/hooks/useAgentStream.ts: the list   *)
(* of messages, and what each frame of the agent makes of it.  A piece of  *)
(* text is opaque; it is told apart from the others by its number.         *)
(***************************************************************************)
EXTENDS Naturals, FiniteSetsExt, SequencesExt

CONSTANTS
    NameOf,     \* the tool that each tool call calls
    None

Own == <<"own", 0>>     \* what the page itself puts in, not the agent

Bubble(role, text) == [role |-> role, think |-> <<>>, text |-> text, calls |-> <<>>, live |-> FALSE]
Reply(think, text, calls) ==
    [role |-> "assistant", think |-> think, text |-> text, calls |-> calls, live |-> TRUE]
Card(i) == [id |-> i, done |-> FALSE, extraction |-> None]

CardsIn(ms) == UNION {{<<m, n>> : n \in DOMAIN ms[m].calls} : m \in DOMAIN ms}
CardAt(ms, at) == ms[at[1]].calls[at[2]]

\* The card that is last in the timeline.
Latest(S) == CHOOSE at \in S : \A o \in S : o[1] < at[1] \/ (o[1] = at[1] /\ o[2] <= at[2])

\* A reply that still runs and has called no tool takes more text ...
TakesText(ms) == ms # <<>> /\ LET m == Last(ms) IN m.role = "assistant" /\ m.live /\ m.calls = <<>>

\* ... and more reasoning, as long as it has no text.
TakesThought(ms) == TakesText(ms) /\ Last(ms).text = <<>>

AddText(ms, t) ==
    IF t = <<>> THEN ms
    ELSE IF TakesText(ms) THEN [ms EXCEPT ![Len(ms)].text = @ \o t]
    ELSE Append(ms, Reply(<<>>, t, <<>>))

AddThought(ms, t) ==
    IF t = <<>> THEN ms
    ELSE IF TakesThought(ms) THEN [ms EXCEPT ![Len(ms)].think = @ \o t]
    ELSE Append(ms, Reply(t, <<>>, <<>>))

\* A call that a resumed turn announces again keeps its card.
Announce(ms, i) ==
    IF \E at \in CardsIn(ms) : CardAt(ms, at).id = i THEN ms
    ELSE IF ms # <<>> /\ Last(ms).role = "assistant"
         THEN [ms EXCEPT ![Len(ms)].calls = Append(@, Card(i))]
    ELSE Append(ms, Reply(<<>>, <<>>, <<Card(i)>>))

MarkDone(ms, i) ==
    LET S == {at \in CardsIn(ms) : CardAt(ms, at).id = i}
    IN IF S = {} THEN ms ELSE [ms EXCEPT ![Latest(S)[1]].calls[Latest(S)[2]].done = TRUE]

\* extractionTargetId
TargetId(id, name, lastEnded) ==
    IF id # None THEN id
    ELSE IF lastEnded # None /\ NameOf[lastEnded] = name THEN lastEnded
    ELSE None

\* Mutant: the card must still be running.
RunningTarget(ms, name, id) ==
    {at \in CardsIn(ms) : /\ NameOf[CardAt(ms, at).id] = name
                          /\ ~CardAt(ms, at).done}

\* findExtractionTarget: the cards to choose the last one from.
Target(ms, name, id) ==
    LET hits == {at \in CardsIn(ms) : CardAt(ms, at).id = id /\ NameOf[id] = name}
    IN IF id # None /\ hits # {} THEN hits
       ELSE {at \in CardsIn(ms) : /\ NameOf[CardAt(ms, at).id] = name
                                  /\ CardAt(ms, at).extraction = None}

Extract(ms, name, id, data) ==
    LET S == Target(ms, name, id)
    IN IF S = {} THEN ms
       ELSE [ms EXCEPT ![Latest(S)[1]].calls[Latest(S)[2]].extraction = data]

Quiet(ms) == [m \in DOMAIN ms |-> [ms[m] EXCEPT !.live = FALSE]]

\* The pieces and the calls a reader sees, from top to bottom, without what the page itself
\* put in: that is always a bubble of its own.
ShownIn(m) ==
    m.think \o (IF m.text = <<Own>> THEN <<>> ELSE m.text)
            \o [n \in DOMAIN m.calls |-> <<"call", m.calls[n].id>>]
ShownTo(ms) ==
    LET shown[n \in 0..Len(ms)] == IF n = 0 THEN <<>> ELSE shown[n - 1] \o ShownIn(ms[n])
    IN shown
Shown(ms) == ShownTo(ms)[Len(ms)]
=============================================================================

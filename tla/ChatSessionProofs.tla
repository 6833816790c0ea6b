--------------------------- MODULE ChatSessionProofs ---------------------------
(***************************************************************************)
(* For any number of sessions, streams and requests: the types, that the   *)
(* reaper drops no session that is read or works on a turn, and that a     *)
(* one-shot returns what its own turn said.                                *)
(***************************************************************************)
EXTENDS ChatSession, SequenceTheorems, TLAPS

\* A session that one stream reads is connected, and only where streams overlapped is it
\* read by two.
Read1 ==
    \A c, d \in Stream : \A s \in Session :
        Reads(c, s) /\ s \notin shared =>
            s \in connected /\ (Reads(d, s) => c = d)

\* A turn that nobody cancelled is its session's current task.
Current == \A r \in Request : turn[r] \in {"running", "spoken"} => current[on[r]] = r

\* What has a turn has a session.
Placed == \A r \in Request : (turn[r] # "none" \/ pc[r] # "none") => on[r] \in Session

CInv == TypeOK /\ Placed /\ Read1 /\ Current

LEMMA CInvInit == Init => CInv
<1> SUFFICES ASSUME Init PROVE CInv
  OBVIOUS
<1> USE ChatAssumption DEF Init
<1>1. made \in 0..MaxMade /\ named \in [Id -> 1..made \cup {None}] /\ connected \subseteq Session
  OBVIOUS
<1>2. queue \in [Session -> Seq(Request \X ({"text"} \cup Outcome))]
  <2>1. <<>> \in Seq(Request \X ({"text"} \cup Outcome))
    OBVIOUS
  <2> QED BY <2>1
<1>3. TypeOK
  BY <1>1, <1>2 DEF TypeOK, Turns
<1> QED BY <1>3 DEF CInv, Placed, Read1, Current, Reads

\* The conjuncts of the type, each with what it depends on.
SessionsOK ==
    /\ made \in 0..MaxMade /\ named \in [Id -> 1..made \cup {None}] /\ connected \subseteq Session
    /\ begun \subseteq Session /\ shared \subseteq Session
QueuesOK == queue \in [Session -> Seq(Request \X ({"text"} \cup Outcome))]
TurnsOK ==
    /\ current \in [Session -> Turns] /\ on \in [Request -> Session \cup {None}]
    /\ turn \in [Request -> {"none", "running", "spoken", "cancelling", "done"} \cup Outcome]
OutcomesOK == outcome \in [Session -> Request \X Outcome \cup {None}]
CallsOK ==
    /\ pc \in [Request -> {"none", "reading", "waiting", "answered"}]
    /\ got \in [Request -> SUBSET Request] /\ waits \in [Request -> Turns]
StreamsOK ==
    /\ stream \in [Stream -> [at : {"none", "opening", "reading", "leaving", "gone"},
                              id : Id \cup {None}, of : Session \cup {None}]]
    /\ reaper \in [Stream -> [at : {"none", "sleeping", "waiting", "over"}, turn : Turns]]
RestOK ==
    /\ stopping \in BOOLEAN /\ event \in {"none", "clear", "set"}
    /\ foreign \subseteq Request /\ robbed \subseteq Request

LEMMA TypeParts ==
    TypeOK <=> /\ SessionsOK /\ QueuesOK /\ TurnsOK /\ OutcomesOK /\ CallsOK /\ StreamsOK /\ RestOK
BY DEF TypeOK, SessionsOK, QueuesOK, TurnsOK, OutcomesOK, CallsOK, StreamsOK, RestOK

LEMMA NamedIsSession == ASSUME TypeOK, NEW i \in Id, named[i] # None PROVE named[i] \in Session
<1> USE ChatAssumption
<1>1. made \in 0..MaxMade /\ named[i] \in 1..made
  BY DEF TypeOK
<1> QED BY <1>1 DEF Session

LEMMA Gets ==
    ASSUME SessionsOK, NEW i, NEW s \in Session, GetOrCreate(i, s)
    PROVE  made' \in 0..MaxMade /\ named' \in [Id -> 1..made' \cup {None}]
<1> USE ChatAssumption DEF SessionsOK
<1>1. CASE named[i] # None
  BY <1>1 DEF GetOrCreate
<1>2. CASE named[i] = None
  <2>1. made' = made + 1 /\ made' \in 1..MaxMade /\ named' = [named EXCEPT ![i] = made']
    BY <1>2 DEF GetOrCreate, Session
  <2>2. 1..made \subseteq 1..made' /\ made' \in 1..made'
    BY <2>1
  <2>3. ASSUME NEW j \in Id PROVE named'[j] \in 1..made' \cup {None}
    <3>1. named'[j] = named[j] \/ named'[j] = made'
      BY <2>1
    <3>2. named[j] \in 1..made \cup {None}
      OBVIOUS
    <3> QED BY <2>2, <3>1, <3>2
  <2>4. made' \in 0..MaxMade
    BY <2>1
  <2>5. named' = [j \in Id |-> named'[j]]
    BY <2>1
  <2> QED BY ONLY <2>3, <2>4, <2>5
<1> QED BY <1>1, <1>2

LEMMA Moved ==
    ASSUME StreamsOK, NEW c \in Stream, NEW at \in {"none", "opening", "reading", "leaving", "gone"},
           Move(c, at)
    PROVE  /\ stream' \in [Stream -> [at : {"none", "opening", "reading", "leaving", "gone"},
                                     id : Id \cup {None}, of : Session \cup {None}]]
           /\ \A d \in Stream : /\ stream'[d].at = IF d = c THEN at ELSE stream[d].at
                               /\ stream'[d].of = stream[d].of /\ stream'[d].id = stream[d].id
<1> DEFINE new == [stream[c] EXCEPT !.at = at]
<1>1. stream[c] \in [at : {"none", "opening", "reading", "leaving", "gone"},
                    id : Id \cup {None}, of : Session \cup {None}]
  BY DEF StreamsOK
<1>2. /\ new.at = at /\ new.of = stream[c].of /\ new.id = stream[c].id
      /\ new \in [at : {"none", "opening", "reading", "leaving", "gone"},
                   id : Id \cup {None}, of : Session \cup {None}]
  BY <1>1
<1>3. stream' = [stream EXCEPT ![c] = new]
  BY DEF Move
<1> HIDE DEF new
<1> QED BY <1>2, <1>3 DEF StreamsOK

LEMMA Began ==
    ASSUME StreamsOK, NEW c \in Stream, NEW s \in Session,
           stream' = [stream EXCEPT ![c].at = "reading", ![c].of = s]
    PROVE  /\ stream' \in [Stream -> [at : {"none", "opening", "reading", "leaving", "gone"},
                                     id : Id \cup {None}, of : Session \cup {None}]]
           /\ stream'[c].at = "reading" /\ stream'[c].of = s /\ stream'[c].id = stream[c].id
           /\ \A d \in Stream \ {c} : stream'[d] = stream[d]
<1> DEFINE new == [[stream[c] EXCEPT !.at = "reading"] EXCEPT !.of = s]
<1>1. stream[c] \in [at : {"none", "opening", "reading", "leaving", "gone"},
                    id : Id \cup {None}, of : Session \cup {None}]
  BY DEF StreamsOK
<1>2. /\ new.at = "reading" /\ new.of = s /\ new.id = stream[c].id
      /\ new \in [at : {"none", "opening", "reading", "leaving", "gone"},
                   id : Id \cup {None}, of : Session \cup {None}]
  BY <1>1
<1>3. stream' = [stream EXCEPT ![c] = new]
  BY <1>1 DEF StreamsOK
<1>4. stream \in [Stream -> [at : {"none", "opening", "reading", "leaving", "gone"},
                           id : Id \cup {None}, of : Session \cup {None}]]
  BY DEF StreamsOK
<1> HIDE DEF new
<1>5. stream'[c] = new /\ \A d \in Stream \ {c} : stream'[d] = stream[d]
  BY <1>3, <1>4
<1>6. stream' \in [Stream -> [at : {"none", "opening", "reading", "leaving", "gone"},
                            id : Id \cup {None}, of : Session \cup {None}]]
  BY <1>2, <1>3, <1>4
<1> QED BY <1>2, <1>5, <1>6

LEMMA SessionsStep == CInv /\ [Next]_vars => (SessionsOK)'
<1> SUFFICES ASSUME CInv, [Next]_vars PROVE (SessionsOK)'
  OBVIOUS
<1> USE ChatAssumption DEF CInv, SessionsOK, TypeOK
<1>1. CASE Stop
  BY <1>1 DEF Stop, sessions, turns, calls, history
<1>2. ASSUME NEW i \in Id, Cancel(i) PROVE (SessionsOK)'
  BY <1>2 DEF Cancel, CancelCurrent, sessions, turns, calls, history
<1>3. ASSUME NEW i \in Id, Delete(i) PROVE (SessionsOK)'
  BY <1>3 DEF Delete, CancelCurrent, sessions, turns, calls, history
<1>4. ASSUME NEW r \in Request, NEW i \in Id, Chat(r, i) PROVE (SessionsOK)'
  BY <1>4 DEF Chat, Submit, CancelCurrent, sessions, turns, calls, history
<1>5. ASSUME NEW r \in Request, NEW i \in Id, Inject(r, i) PROVE (SessionsOK)'
  BY <1>5 DEF Inject, Chat, Submit, CancelCurrent, sessions, turns, calls, history
<1>6. ASSUME NEW r \in Request, NEW i \in Id, Respond(r, i) PROVE (SessionsOK)'
  BY <1>6 DEF Respond, Chat, Submit, CancelCurrent, sessions, turns, calls, history
<1>7. ASSUME NEW r \in Request, NEW i \in Id, Complete(r, i) PROVE (SessionsOK)'
  <2>1. PICK s \in Session : GetOrCreate(i, s)
    BY <1>7 DEF Complete
  <2>2. made' \in 0..MaxMade /\ named' \in [Id -> 1..made' \cup {None}]
    BY <2>1, Gets, TypeParts
  <2> QED BY <1>7, <2>2 DEF Complete, GetOrCreate, Submit, CancelCurrent, sessions, turns, calls, history
<1>8. ASSUME NEW c \in Stream, NEW i \in Id, Open(c, i) PROVE (SessionsOK)'
  <2>1. PICK s \in Session : GetOrCreate(i, s)
    BY <1>8 DEF Open
  <2>2. made' \in 0..MaxMade /\ named' \in [Id -> 1..made' \cup {None}]
    BY <2>1, Gets, TypeParts
  <2> QED BY <1>8, <2>2 DEF Open, GetOrCreate, sessions, turns, calls, history
<1>9. ASSUME NEW r \in Request, Speak(r) PROVE (SessionsOK)'
  BY <1>9 DEF Speak, Push, sessions, turns, calls, history
<1>10. ASSUME NEW r \in Request, PushTerminal(r) PROVE (SessionsOK)'
  BY <1>10 DEF PushTerminal, Push, Ending, sessions, turns, calls, history
<1>11. ASSUME NEW r \in Request, Settle(r) PROVE (SessionsOK)'
  BY <1>11 DEF Settle, sessions, turns, calls, history
<1>12. ASSUME NEW r \in Request, Collect(r) PROVE (SessionsOK)'
  BY <1>12 DEF Collect, sessions, turns, calls, history
<1>13. ASSUME NEW r \in Request, Answer(r) PROVE (SessionsOK)'
  BY <1>13 DEF Answer, sessions, turns, calls, history
<1>14. ASSUME NEW c \in Stream, Begin(c) PROVE (SessionsOK)'
  <2>1. PICK s \in Session : GetOrCreate(stream[c].id, s)
    BY <1>14 DEF Begin
  <2>2. made' \in 0..MaxMade /\ named' \in [Id -> 1..made' \cup {None}]
    BY <2>1, Gets, TypeParts
  <2> QED BY <1>14, <2>2 DEF Begin, GetOrCreate, sessions, turns, calls, history
<1>15. ASSUME NEW c \in Stream, Vanish(c) PROVE (SessionsOK)'
  BY <1>15 DEF Vanish, Move, sessions, turns, calls, history
<1>16. ASSUME NEW c \in Stream, Read(c) PROVE (SessionsOK)'
  BY <1>16 DEF Read, sessions, turns, calls, history
<1>17. ASSUME NEW c \in Stream, Leave(c) PROVE (SessionsOK)'
  BY <1>17 DEF Leave, Move, sessions, turns, calls, history
<1>18. ASSUME NEW c \in Stream, Told(c) PROVE (SessionsOK)'
  BY <1>18 DEF Told, Leave, Move, sessions, turns, calls, history
<1>19. ASSUME NEW c \in Stream, Close(c) PROVE (SessionsOK)'
  BY <1>19 DEF Close, Move, sessions, turns, calls, history
<1>20. ASSUME NEW c \in Stream, StandDown(c) PROVE (SessionsOK)'
  BY <1>20 DEF StandDown, Awake, sessions, turns, calls, history
<1>21. ASSUME NEW c \in Stream, AwaitTurn(c) PROVE (SessionsOK)'
  BY <1>21 DEF AwaitTurn, Awake, AtRest, Works, Live, sessions, turns, calls, history
<1>22. ASSUME NEW c \in Stream, SleepAgain(c) PROVE (SessionsOK)'
  BY <1>22 DEF SleepAgain, Awake, sessions, turns, calls, history
<1>23. ASSUME NEW c \in Stream, Reap(c) PROVE (SessionsOK)'
  BY <1>23 DEF Reap, Awake, AtRest, Works, Live, sessions, turns, calls, history
<1>24. CASE UNCHANGED vars
  BY <1>24 DEF vars, sessions, turns, calls, history
<1> QED
  BY <1>1, <1>2, <1>3, <1>4, <1>5, <1>6, <1>7, <1>8, <1>9, <1>10, <1>11, <1>12, <1>13,
     <1>14, <1>15, <1>16, <1>17, <1>18, <1>19, <1>20, <1>21, <1>22, <1>23, <1>24
  DEF Next

LEMMA QueuesStep == CInv /\ [Next]_vars => (QueuesOK)'
<1> SUFFICES ASSUME CInv, [Next]_vars PROVE (QueuesOK)'
  OBVIOUS
<1> USE ChatAssumption DEF CInv, QueuesOK, TypeOK, Placed
<1>1. CASE Stop
  BY <1>1 DEF Stop, sessions, turns, calls, history
<1>2. ASSUME NEW i \in Id, Cancel(i) PROVE (QueuesOK)'
  BY <1>2 DEF Cancel, CancelCurrent, sessions, turns, calls, history
<1>3. ASSUME NEW i \in Id, Delete(i) PROVE (QueuesOK)'
  BY <1>3 DEF Delete, CancelCurrent, sessions, turns, calls, history
<1>4. ASSUME NEW r \in Request, NEW i \in Id, Chat(r, i) PROVE (QueuesOK)'
  BY <1>4 DEF Chat, Submit, CancelCurrent, sessions, turns, calls, history
<1>5. ASSUME NEW r \in Request, NEW i \in Id, Inject(r, i) PROVE (QueuesOK)'
  BY <1>5 DEF Inject, Chat, Submit, CancelCurrent, sessions, turns, calls, history
<1>6. ASSUME NEW r \in Request, NEW i \in Id, Respond(r, i) PROVE (QueuesOK)'
  BY <1>6 DEF Respond, Chat, Submit, CancelCurrent, sessions, turns, calls, history
<1>7. ASSUME NEW r \in Request, NEW i \in Id, Complete(r, i) PROVE (QueuesOK)'
  BY <1>7 DEF Complete, GetOrCreate, Submit, CancelCurrent, sessions, turns, calls, history
<1>8. ASSUME NEW c \in Stream, NEW i \in Id, Open(c, i) PROVE (QueuesOK)'
  BY <1>8 DEF Open, GetOrCreate, sessions, turns, calls, history
<1>9. ASSUME NEW r \in Request, Speak(r) PROVE (QueuesOK)'
  <2>1. Push(r, "text")
    BY <1>9 DEF Speak
  <2>2. on[r] \in Session => Append(queue[on[r]], <<r, "text">>) \in Seq(Request \X ({"text"} \cup Outcome))
    BY <2>1
  <2> QED BY <2>1, <2>2 DEF Push
<1>10. ASSUME NEW r \in Request, PushTerminal(r) PROVE (QueuesOK)'
  <2>1. PICK kind \in Outcome : Push(r, kind)
    BY <1>10 DEF PushTerminal, Ending, Outcome
  <2>2. on[r] \in Session => Append(queue[on[r]], <<r, kind>>) \in Seq(Request \X ({"text"} \cup Outcome))
    BY <2>1
  <2> QED BY <2>1, <2>2 DEF Push
<1>11. ASSUME NEW r \in Request, Settle(r) PROVE (QueuesOK)'
  BY <1>11 DEF Settle, sessions, turns, calls, history
<1>12. ASSUME NEW r \in Request, Collect(r) PROVE (QueuesOK)'
  <2> DEFINE s == on[r]
  <2>1. s \in Session /\ queue[s] # <<>> /\ queue' = [queue EXCEPT ![s] = Tail(@)]
    BY <1>12 DEF Collect
  <2>2. Tail(queue[s]) \in Seq(Request \X ({"text"} \cup Outcome))
    BY <2>1
  <2> QED BY <2>1, <2>2
<1>13. ASSUME NEW r \in Request, Answer(r) PROVE (QueuesOK)'
  BY <1>13 DEF Answer, sessions, turns, calls, history
<1>14. ASSUME NEW c \in Stream, Begin(c) PROVE (QueuesOK)'
  BY <1>14 DEF Begin, GetOrCreate, sessions, turns, calls, history
<1>15. ASSUME NEW c \in Stream, Vanish(c) PROVE (QueuesOK)'
  BY <1>15 DEF Vanish, Move, sessions, turns, calls, history
<1>16. ASSUME NEW c \in Stream, Read(c) PROVE (QueuesOK)'
  <2> DEFINE s == stream[c].of
  <2>1. queue[s] # <<>> /\ queue' = [queue EXCEPT ![s] = Tail(@)]
    BY <1>16 DEF Read
  <2>2. s \in Session => Tail(queue[s]) \in Seq(Request \X ({"text"} \cup Outcome))
    BY <2>1
  <2> QED BY <2>1, <2>2
<1>17. ASSUME NEW c \in Stream, Leave(c) PROVE (QueuesOK)'
  BY <1>17 DEF Leave, Move, sessions, turns, calls, history
<1>18. ASSUME NEW c \in Stream, Told(c) PROVE (QueuesOK)'
  BY <1>18 DEF Told, Leave, Move, sessions, turns, calls, history
<1>19. ASSUME NEW c \in Stream, Close(c) PROVE (QueuesOK)'
  BY <1>19 DEF Close, Move, sessions, turns, calls, history
<1>20. ASSUME NEW c \in Stream, StandDown(c) PROVE (QueuesOK)'
  BY <1>20 DEF StandDown, Awake, sessions, turns, calls, history
<1>21. ASSUME NEW c \in Stream, AwaitTurn(c) PROVE (QueuesOK)'
  BY <1>21 DEF AwaitTurn, Awake, AtRest, Works, Live, sessions, turns, calls, history
<1>22. ASSUME NEW c \in Stream, SleepAgain(c) PROVE (QueuesOK)'
  BY <1>22 DEF SleepAgain, Awake, sessions, turns, calls, history
<1>23. ASSUME NEW c \in Stream, Reap(c) PROVE (QueuesOK)'
  BY <1>23 DEF Reap, Awake, AtRest, Works, Live, sessions, turns, calls, history
<1>24. CASE UNCHANGED vars
  BY <1>24 DEF vars, sessions, turns, calls, history
<1> QED
  BY <1>1, <1>2, <1>3, <1>4, <1>5, <1>6, <1>7, <1>8, <1>9, <1>10, <1>11, <1>12, <1>13,
     <1>14, <1>15, <1>16, <1>17, <1>18, <1>19, <1>20, <1>21, <1>22, <1>23, <1>24
  DEF Next

LEMMA TurnsStep == CInv /\ [Next]_vars => (TurnsOK)'
<1> SUFFICES ASSUME CInv, [Next]_vars PROVE (TurnsOK)'
  OBVIOUS
<1> USE ChatAssumption DEF CInv, TurnsOK, TypeOK, Turns, Outcome
<1>1. CASE Stop
  BY <1>1 DEF Stop, sessions, turns, calls, history
<1>2. ASSUME NEW i \in Id, Cancel(i) PROVE (TurnsOK)'
  BY <1>2 DEF Cancel, CancelCurrent, sessions, turns, calls, history
<1>3. ASSUME NEW i \in Id, Delete(i) PROVE (TurnsOK)'
  BY <1>3 DEF Delete, CancelCurrent, sessions, turns, calls, history
<1>4. ASSUME NEW r \in Request, NEW i \in Id, Chat(r, i) PROVE (TurnsOK)'
  <2>1. named[i] \in Session
    BY <1>4, NamedIsSession DEF Chat
  <2> QED BY <1>4, <2>1 DEF Chat, Submit, CancelCurrent, sessions, turns, calls, history
<1>5. ASSUME NEW r \in Request, NEW i \in Id, Inject(r, i) PROVE (TurnsOK)'
  BY <1>5 DEF Inject, Chat, Submit, CancelCurrent, sessions, turns, calls, history
<1>6. ASSUME NEW r \in Request, NEW i \in Id, Respond(r, i) PROVE (TurnsOK)'
  <2>1. named[i] \in Session
    BY <1>6, NamedIsSession DEF Respond, Chat
  <2> QED BY <1>6, <2>1 DEF Respond, Chat, Submit, CancelCurrent, sessions, turns, calls, history
<1>7. ASSUME NEW r \in Request, NEW i \in Id, Complete(r, i) PROVE (TurnsOK)'
  BY <1>7 DEF Complete, GetOrCreate, Submit, CancelCurrent, sessions, turns, calls, history
<1>8. ASSUME NEW c \in Stream, NEW i \in Id, Open(c, i) PROVE (TurnsOK)'
  BY <1>8 DEF Open, GetOrCreate, sessions, turns, calls, history
<1>9. ASSUME NEW r \in Request, Speak(r) PROVE (TurnsOK)'
  BY <1>9 DEF Speak, Push, sessions, turns, calls, history
<1>10. ASSUME NEW r \in Request, PushTerminal(r) PROVE (TurnsOK)'
  BY <1>10 DEF PushTerminal, Push, Ending, sessions, turns, calls, history
<1>11. ASSUME NEW r \in Request, Settle(r) PROVE (TurnsOK)'
  BY <1>11 DEF Settle, sessions, turns, calls, history
<1>12. ASSUME NEW r \in Request, Collect(r) PROVE (TurnsOK)'
  BY <1>12 DEF Collect, sessions, turns, calls, history
<1>13. ASSUME NEW r \in Request, Answer(r) PROVE (TurnsOK)'
  BY <1>13 DEF Answer, sessions, turns, calls, history
<1>14. ASSUME NEW c \in Stream, Begin(c) PROVE (TurnsOK)'
  BY <1>14 DEF Begin, GetOrCreate, sessions, turns, calls, history
<1>15. ASSUME NEW c \in Stream, Vanish(c) PROVE (TurnsOK)'
  BY <1>15 DEF Vanish, Move, sessions, turns, calls, history
<1>16. ASSUME NEW c \in Stream, Read(c) PROVE (TurnsOK)'
  BY <1>16 DEF Read, sessions, turns, calls, history
<1>17. ASSUME NEW c \in Stream, Leave(c) PROVE (TurnsOK)'
  BY <1>17 DEF Leave, Move, sessions, turns, calls, history
<1>18. ASSUME NEW c \in Stream, Told(c) PROVE (TurnsOK)'
  BY <1>18 DEF Told, Leave, Move, sessions, turns, calls, history
<1>19. ASSUME NEW c \in Stream, Close(c) PROVE (TurnsOK)'
  BY <1>19 DEF Close, Move, sessions, turns, calls, history
<1>20. ASSUME NEW c \in Stream, StandDown(c) PROVE (TurnsOK)'
  BY <1>20 DEF StandDown, Awake, sessions, turns, calls, history
<1>21. ASSUME NEW c \in Stream, AwaitTurn(c) PROVE (TurnsOK)'
  BY <1>21 DEF AwaitTurn, Awake, AtRest, Works, Live, sessions, turns, calls, history
<1>22. ASSUME NEW c \in Stream, SleepAgain(c) PROVE (TurnsOK)'
  BY <1>22 DEF SleepAgain, Awake, sessions, turns, calls, history
<1>23. ASSUME NEW c \in Stream, Reap(c) PROVE (TurnsOK)'
  BY <1>23 DEF Reap, Awake, AtRest, Works, Live, sessions, turns, calls, history
<1>24. CASE UNCHANGED vars
  BY <1>24 DEF vars, sessions, turns, calls, history
<1> QED
  BY <1>1, <1>2, <1>3, <1>4, <1>5, <1>6, <1>7, <1>8, <1>9, <1>10, <1>11, <1>12, <1>13,
     <1>14, <1>15, <1>16, <1>17, <1>18, <1>19, <1>20, <1>21, <1>22, <1>23, <1>24
  DEF Next

LEMMA OutcomesStep == CInv /\ [Next]_vars => (OutcomesOK)'
<1> SUFFICES ASSUME CInv, [Next]_vars PROVE (OutcomesOK)'
  OBVIOUS
<1> USE ChatAssumption DEF CInv, OutcomesOK, TypeOK
<1>1. CASE Stop
  BY <1>1 DEF Stop, sessions, turns, calls, history
<1>2. ASSUME NEW i \in Id, Cancel(i) PROVE (OutcomesOK)'
  BY <1>2 DEF Cancel, CancelCurrent, sessions, turns, calls, history
<1>3. ASSUME NEW i \in Id, Delete(i) PROVE (OutcomesOK)'
  BY <1>3 DEF Delete, CancelCurrent, sessions, turns, calls, history
<1>4. ASSUME NEW r \in Request, NEW i \in Id, Chat(r, i) PROVE (OutcomesOK)'
  BY <1>4 DEF Chat, Submit, CancelCurrent, sessions, turns, calls, history
<1>5. ASSUME NEW r \in Request, NEW i \in Id, Inject(r, i) PROVE (OutcomesOK)'
  BY <1>5 DEF Inject, Chat, Submit, CancelCurrent, sessions, turns, calls, history
<1>6. ASSUME NEW r \in Request, NEW i \in Id, Respond(r, i) PROVE (OutcomesOK)'
  BY <1>6 DEF Respond, Chat, Submit, CancelCurrent, sessions, turns, calls, history
<1>7. ASSUME NEW r \in Request, NEW i \in Id, Complete(r, i) PROVE (OutcomesOK)'
  BY <1>7 DEF Complete, GetOrCreate, Submit, CancelCurrent, sessions, turns, calls, history
<1>8. ASSUME NEW c \in Stream, NEW i \in Id, Open(c, i) PROVE (OutcomesOK)'
  BY <1>8 DEF Open, GetOrCreate, sessions, turns, calls, history
<1>9. ASSUME NEW r \in Request, Speak(r) PROVE (OutcomesOK)'
  BY <1>9 DEF Speak, Push, sessions, turns, calls, history
<1>10. ASSUME NEW r \in Request, PushTerminal(r) PROVE (OutcomesOK)'
  BY <1>10 DEF PushTerminal, Push, Ending, sessions, turns, calls, history
<1>11. ASSUME NEW r \in Request, Settle(r) PROVE (OutcomesOK)'
  BY <1>11 DEF Settle, sessions, turns, calls, history
<1>12. ASSUME NEW r \in Request, Collect(r) PROVE (OutcomesOK)'
  BY <1>12 DEF Collect, sessions, turns, calls, history
<1>13. ASSUME NEW r \in Request, Answer(r) PROVE (OutcomesOK)'
  BY <1>13 DEF Answer, sessions, turns, calls, history
<1>14. ASSUME NEW c \in Stream, Begin(c) PROVE (OutcomesOK)'
  BY <1>14 DEF Begin, GetOrCreate, sessions, turns, calls, history
<1>15. ASSUME NEW c \in Stream, Vanish(c) PROVE (OutcomesOK)'
  BY <1>15 DEF Vanish, Move, sessions, turns, calls, history
<1>16. ASSUME NEW c \in Stream, Read(c) PROVE (OutcomesOK)'
  BY <1>16 DEF Read, sessions, turns, calls, history
<1>17. ASSUME NEW c \in Stream, Leave(c) PROVE (OutcomesOK)'
  BY <1>17 DEF Leave, Move, sessions, turns, calls, history
<1>18. ASSUME NEW c \in Stream, Told(c) PROVE (OutcomesOK)'
  BY <1>18 DEF Told, Leave, Move, sessions, turns, calls, history
<1>19. ASSUME NEW c \in Stream, Close(c) PROVE (OutcomesOK)'
  BY <1>19 DEF Close, Move, sessions, turns, calls, history
<1>20. ASSUME NEW c \in Stream, StandDown(c) PROVE (OutcomesOK)'
  BY <1>20 DEF StandDown, Awake, sessions, turns, calls, history
<1>21. ASSUME NEW c \in Stream, AwaitTurn(c) PROVE (OutcomesOK)'
  BY <1>21 DEF AwaitTurn, Awake, AtRest, Works, Live, sessions, turns, calls, history
<1>22. ASSUME NEW c \in Stream, SleepAgain(c) PROVE (OutcomesOK)'
  BY <1>22 DEF SleepAgain, Awake, sessions, turns, calls, history
<1>23. ASSUME NEW c \in Stream, Reap(c) PROVE (OutcomesOK)'
  BY <1>23 DEF Reap, Awake, AtRest, Works, Live, sessions, turns, calls, history
<1>24. CASE UNCHANGED vars
  BY <1>24 DEF vars, sessions, turns, calls, history
<1> QED
  BY <1>1, <1>2, <1>3, <1>4, <1>5, <1>6, <1>7, <1>8, <1>9, <1>10, <1>11, <1>12, <1>13,
     <1>14, <1>15, <1>16, <1>17, <1>18, <1>19, <1>20, <1>21, <1>22, <1>23, <1>24
  DEF Next

LEMMA CallsStep == CInv /\ [Next]_vars => (CallsOK)'
<1> SUFFICES ASSUME CInv, [Next]_vars PROVE (CallsOK)'
  OBVIOUS
<1> USE ChatAssumption DEF CInv, CallsOK, TypeOK, Turns, Placed
<1>1. CASE Stop
  BY <1>1 DEF Stop, sessions, turns, calls, history
<1>2. ASSUME NEW i \in Id, Cancel(i) PROVE (CallsOK)'
  BY <1>2 DEF Cancel, CancelCurrent, sessions, turns, calls, history
<1>3. ASSUME NEW i \in Id, Delete(i) PROVE (CallsOK)'
  BY <1>3 DEF Delete, CancelCurrent, sessions, turns, calls, history
<1>4. ASSUME NEW r \in Request, NEW i \in Id, Chat(r, i) PROVE (CallsOK)'
  BY <1>4 DEF Chat, Submit, CancelCurrent, sessions, turns, calls, history
<1>5. ASSUME NEW r \in Request, NEW i \in Id, Inject(r, i) PROVE (CallsOK)'
  BY <1>5 DEF Inject, Chat, Submit, CancelCurrent, sessions, turns, calls, history
<1>6. ASSUME NEW r \in Request, NEW i \in Id, Respond(r, i) PROVE (CallsOK)'
  BY <1>6 DEF Respond, Chat, Submit, CancelCurrent, sessions, turns, calls, history
<1>7. ASSUME NEW r \in Request, NEW i \in Id, Complete(r, i) PROVE (CallsOK)'
  BY <1>7 DEF Complete, GetOrCreate, Submit, CancelCurrent, sessions, turns, calls, history
<1>8. ASSUME NEW c \in Stream, NEW i \in Id, Open(c, i) PROVE (CallsOK)'
  BY <1>8 DEF Open, GetOrCreate, sessions, turns, calls, history
<1>9. ASSUME NEW r \in Request, Speak(r) PROVE (CallsOK)'
  BY <1>9 DEF Speak, Push, sessions, turns, calls, history
<1>10. ASSUME NEW r \in Request, PushTerminal(r) PROVE (CallsOK)'
  BY <1>10 DEF PushTerminal, Push, Ending, sessions, turns, calls, history
<1>11. ASSUME NEW r \in Request, Settle(r) PROVE (CallsOK)'
  BY <1>11 DEF Settle, sessions, turns, calls, history
<1>12. ASSUME NEW r \in Request, Collect(r) PROVE (CallsOK)'
  <2> DEFINE s == on[r]
             f == Head(queue[s])
  <2>1. s \in Session /\ queue[s] \in Seq(Request \X ({"text"} \cup Outcome)) /\ queue[s] # <<>>
    BY <1>12 DEF Collect
  <2>2. f \in Request \X ({"text"} \cup Outcome)
    BY <2>1
  <2>3. f[1] \in Request /\ current[s] \in Turns
    BY <2>1, <2>2
  <2>4. CASE f[2] \in Terminal
    <3>1. /\ pc' = [pc EXCEPT ![r] = "waiting"] /\ waits' = [waits EXCEPT ![r] = current[s]]
          /\ got' = got
      BY <1>12, <2>4 DEF Collect
    <3> QED BY <2>3, <3>1
  <2>5. CASE f[2] \notin Terminal
    <3>1. got' = [got EXCEPT ![r] = got[r] \cup {f[1]}] /\ UNCHANGED <<pc, waits>>
      BY <1>12, <2>5 DEF Collect
    <3>2. got[r] \cup {f[1]} \in SUBSET Request
      BY <2>3
    <3> HIDE DEF f
    <3> QED BY <3>1, <3>2
  <2> QED BY <2>4, <2>5
<1>13. ASSUME NEW r \in Request, Answer(r) PROVE (CallsOK)'
  BY <1>13 DEF Answer, sessions, turns, calls, history
<1>14. ASSUME NEW c \in Stream, Begin(c) PROVE (CallsOK)'
  BY <1>14 DEF Begin, GetOrCreate, sessions, turns, calls, history
<1>15. ASSUME NEW c \in Stream, Vanish(c) PROVE (CallsOK)'
  BY <1>15 DEF Vanish, Move, sessions, turns, calls, history
<1>16. ASSUME NEW c \in Stream, Read(c) PROVE (CallsOK)'
  BY <1>16 DEF Read, sessions, turns, calls, history
<1>17. ASSUME NEW c \in Stream, Leave(c) PROVE (CallsOK)'
  BY <1>17 DEF Leave, Move, sessions, turns, calls, history
<1>18. ASSUME NEW c \in Stream, Told(c) PROVE (CallsOK)'
  BY <1>18 DEF Told, Leave, Move, sessions, turns, calls, history
<1>19. ASSUME NEW c \in Stream, Close(c) PROVE (CallsOK)'
  BY <1>19 DEF Close, Move, sessions, turns, calls, history
<1>20. ASSUME NEW c \in Stream, StandDown(c) PROVE (CallsOK)'
  BY <1>20 DEF StandDown, Awake, sessions, turns, calls, history
<1>21. ASSUME NEW c \in Stream, AwaitTurn(c) PROVE (CallsOK)'
  BY <1>21 DEF AwaitTurn, Awake, AtRest, Works, Live, sessions, turns, calls, history
<1>22. ASSUME NEW c \in Stream, SleepAgain(c) PROVE (CallsOK)'
  BY <1>22 DEF SleepAgain, Awake, sessions, turns, calls, history
<1>23. ASSUME NEW c \in Stream, Reap(c) PROVE (CallsOK)'
  BY <1>23 DEF Reap, Awake, AtRest, Works, Live, sessions, turns, calls, history
<1>24. CASE UNCHANGED vars
  BY <1>24 DEF vars, sessions, turns, calls, history
<1> QED
  BY <1>1, <1>2, <1>3, <1>4, <1>5, <1>6, <1>7, <1>8, <1>9, <1>10, <1>11, <1>12, <1>13,
     <1>14, <1>15, <1>16, <1>17, <1>18, <1>19, <1>20, <1>21, <1>22, <1>23, <1>24
  DEF Next

LEMMA StreamsStep == CInv /\ [Next]_vars => (StreamsOK)'
<1> SUFFICES ASSUME CInv, [Next]_vars PROVE (StreamsOK)'
  OBVIOUS
<1> USE ChatAssumption DEF CInv, StreamsOK, TypeOK, Turns
<1>1. CASE Stop
  BY <1>1 DEF Stop, sessions, turns, calls, history
<1>2. ASSUME NEW i \in Id, Cancel(i) PROVE (StreamsOK)'
  BY <1>2 DEF Cancel, CancelCurrent, sessions, turns, calls, history
<1>3. ASSUME NEW i \in Id, Delete(i) PROVE (StreamsOK)'
  BY <1>3 DEF Delete, CancelCurrent, sessions, turns, calls, history
<1>4. ASSUME NEW r \in Request, NEW i \in Id, Chat(r, i) PROVE (StreamsOK)'
  BY <1>4 DEF Chat, Submit, CancelCurrent, sessions, turns, calls, history
<1>5. ASSUME NEW r \in Request, NEW i \in Id, Inject(r, i) PROVE (StreamsOK)'
  BY <1>5 DEF Inject, Chat, Submit, CancelCurrent, sessions, turns, calls, history
<1>6. ASSUME NEW r \in Request, NEW i \in Id, Respond(r, i) PROVE (StreamsOK)'
  BY <1>6 DEF Respond, Chat, Submit, CancelCurrent, sessions, turns, calls, history
<1>7. ASSUME NEW r \in Request, NEW i \in Id, Complete(r, i) PROVE (StreamsOK)'
  BY <1>7 DEF Complete, GetOrCreate, Submit, CancelCurrent, sessions, turns, calls, history
<1>8. ASSUME NEW c \in Stream, NEW i \in Id, Open(c, i) PROVE (StreamsOK)'
  BY <1>8 DEF Open, GetOrCreate, sessions, turns, calls, history
<1>9. ASSUME NEW r \in Request, Speak(r) PROVE (StreamsOK)'
  BY <1>9 DEF Speak, Push, sessions, turns, calls, history
<1>10. ASSUME NEW r \in Request, PushTerminal(r) PROVE (StreamsOK)'
  BY <1>10 DEF PushTerminal, Push, Ending, sessions, turns, calls, history
<1>11. ASSUME NEW r \in Request, Settle(r) PROVE (StreamsOK)'
  BY <1>11 DEF Settle, sessions, turns, calls, history
<1>12. ASSUME NEW r \in Request, Collect(r) PROVE (StreamsOK)'
  BY <1>12 DEF Collect, sessions, turns, calls, history
<1>13. ASSUME NEW r \in Request, Answer(r) PROVE (StreamsOK)'
  BY <1>13 DEF Answer, sessions, turns, calls, history
<1>14. ASSUME NEW c \in Stream, Begin(c) PROVE (StreamsOK)'
  <2>1. PICK s \in Session : stream' = [stream EXCEPT ![c].at = "reading", ![c].of = s]
    BY <1>14 DEF Begin
  <2>2. stream' \in [Stream -> [at : {"none", "opening", "reading", "leaving", "gone"},
                              id : Id \cup {None}, of : Session \cup {None}]]
    BY <2>1, Began
  <2> QED BY <1>14, <2>2 DEF Begin
<1>15. ASSUME NEW c \in Stream, Vanish(c) PROVE (StreamsOK)'
  <2>1. Move(c, "gone")
    BY <1>15 DEF Vanish
  <2>2. stream' \in [Stream -> [at : {"none", "opening", "reading", "leaving", "gone"},
                              id : Id \cup {None}, of : Session \cup {None}]]
    BY <2>1, Moved
  <2>3. reaper' \in [Stream -> [at : {"none", "sleeping", "waiting", "over"}, turn : Turns]]
    BY <1>15 DEF Vanish
  <2> QED BY <2>2, <2>3
<1>16. ASSUME NEW c \in Stream, Read(c) PROVE (StreamsOK)'
  BY <1>16 DEF Read, sessions, turns, calls, history
<1>17. ASSUME NEW c \in Stream, Leave(c) PROVE (StreamsOK)'
  <2>1. Move(c, "leaving")
    BY <1>17 DEF Leave
  <2>2. stream' \in [Stream -> [at : {"none", "opening", "reading", "leaving", "gone"},
                              id : Id \cup {None}, of : Session \cup {None}]]
    BY <2>1, Moved
  <2>3. reaper' \in [Stream -> [at : {"none", "sleeping", "waiting", "over"}, turn : Turns]]
    BY <1>17 DEF Leave
  <2> QED BY <2>2, <2>3
<1>18. ASSUME NEW c \in Stream, Told(c) PROVE (StreamsOK)'
  <2>1. Move(c, "leaving")
    BY <1>18 DEF Told, Leave
  <2>2. stream' \in [Stream -> [at : {"none", "opening", "reading", "leaving", "gone"},
                              id : Id \cup {None}, of : Session \cup {None}]]
    BY <2>1, Moved
  <2>3. reaper' \in [Stream -> [at : {"none", "sleeping", "waiting", "over"}, turn : Turns]]
    BY <1>18 DEF Told, Leave
  <2> QED BY <2>2, <2>3
<1>19. ASSUME NEW c \in Stream, Close(c) PROVE (StreamsOK)'
  <2>1. Move(c, "gone")
    BY <1>19 DEF Close
  <2>2. stream' \in [Stream -> [at : {"none", "opening", "reading", "leaving", "gone"},
                              id : Id \cup {None}, of : Session \cup {None}]]
    BY <2>1, Moved
  <2>3. reaper' \in [Stream -> [at : {"none", "sleeping", "waiting", "over"}, turn : Turns]]
    <3>1. reaper' = [reaper EXCEPT ![c].at = "sleeping"]
      BY <1>19 DEF Close
    <3>2. reaper \in [Stream -> [at : {"none", "sleeping", "waiting", "over"}, turn : Turns]]
      OBVIOUS
    <3> QED BY ONLY <3>1, <3>2
  <2> QED BY <2>2, <2>3
<1>20. ASSUME NEW c \in Stream, StandDown(c) PROVE (StreamsOK)'
  BY <1>20 DEF StandDown, Awake, sessions, turns, calls, history
<1>21. ASSUME NEW c \in Stream, AwaitTurn(c) PROVE (StreamsOK)'
  BY <1>21 DEF AwaitTurn, Awake, AtRest, Works, Live, sessions, turns, calls, history
<1>22. ASSUME NEW c \in Stream, SleepAgain(c) PROVE (StreamsOK)'
  BY <1>22 DEF SleepAgain, Awake, sessions, turns, calls, history
<1>23. ASSUME NEW c \in Stream, Reap(c) PROVE (StreamsOK)'
  BY <1>23 DEF Reap, Awake, AtRest, Works, Live, sessions, turns, calls, history
<1>24. CASE UNCHANGED vars
  BY <1>24 DEF vars, sessions, turns, calls, history
<1> QED
  BY <1>1, <1>2, <1>3, <1>4, <1>5, <1>6, <1>7, <1>8, <1>9, <1>10, <1>11, <1>12, <1>13,
     <1>14, <1>15, <1>16, <1>17, <1>18, <1>19, <1>20, <1>21, <1>22, <1>23, <1>24
  DEF Next

LEMMA RestStep == CInv /\ [Next]_vars => (RestOK)'
<1> SUFFICES ASSUME CInv, [Next]_vars PROVE (RestOK)'
  OBVIOUS
<1> USE ChatAssumption DEF CInv, RestOK, TypeOK, OneShots, Missed
<1>1. CASE Stop
  BY <1>1 DEF Stop, sessions, turns, calls, app, history
<1>2. ASSUME NEW i \in Id, Cancel(i) PROVE (RestOK)'
  BY <1>2 DEF Cancel, CancelCurrent, sessions, turns, calls, app, history
<1>3. ASSUME NEW i \in Id, Delete(i) PROVE (RestOK)'
  BY <1>3 DEF Delete, CancelCurrent, sessions, turns, calls, app, history
<1>4. ASSUME NEW r \in Request, NEW i \in Id, Chat(r, i) PROVE (RestOK)'
  BY <1>4 DEF Chat, Submit, CancelCurrent, sessions, turns, calls, app, history
<1>5. ASSUME NEW r \in Request, NEW i \in Id, Inject(r, i) PROVE (RestOK)'
  BY <1>5 DEF Inject, Chat, Submit, CancelCurrent, sessions, turns, calls, app, history
<1>6. ASSUME NEW r \in Request, NEW i \in Id, Respond(r, i) PROVE (RestOK)'
  BY <1>6 DEF Respond, Chat, Submit, CancelCurrent, sessions, turns, calls, app, history
<1>7. ASSUME NEW r \in Request, NEW i \in Id, Complete(r, i) PROVE (RestOK)'
  BY <1>7 DEF Complete, GetOrCreate, Submit, CancelCurrent, sessions, turns, calls, app, history
<1>8. ASSUME NEW c \in Stream, NEW i \in Id, Open(c, i) PROVE (RestOK)'
  BY <1>8 DEF Open, GetOrCreate, sessions, turns, calls, app, history
<1>9. ASSUME NEW r \in Request, Speak(r) PROVE (RestOK)'
  BY <1>9 DEF Speak, Push, sessions, turns, calls, app, history
<1>10. ASSUME NEW r \in Request, PushTerminal(r) PROVE (RestOK)'
  BY <1>10 DEF PushTerminal, Push, Ending, sessions, turns, calls, app, history
<1>11. ASSUME NEW r \in Request, Settle(r) PROVE (RestOK)'
  BY <1>11 DEF Settle, sessions, turns, calls, app, history
<1>12. ASSUME NEW r \in Request, Collect(r) PROVE (RestOK)'
  BY <1>12 DEF Collect, sessions, turns, calls, app, history
<1>13. ASSUME NEW r \in Request, Answer(r) PROVE (RestOK)'
  BY <1>13 DEF Answer, sessions, turns, calls, app, history
<1>14. ASSUME NEW c \in Stream, Begin(c) PROVE (RestOK)'
  BY <1>14 DEF Begin, GetOrCreate, sessions, turns, calls, app, history
<1>15. ASSUME NEW c \in Stream, Vanish(c) PROVE (RestOK)'
  BY <1>15 DEF Vanish, Move, sessions, turns, calls, app, history
<1>16. ASSUME NEW c \in Stream, Read(c) PROVE (RestOK)'
  BY <1>16 DEF Read, sessions, turns, calls, app, history
<1>17. ASSUME NEW c \in Stream, Leave(c) PROVE (RestOK)'
  BY <1>17 DEF Leave, Move, sessions, turns, calls, app, history
<1>18. ASSUME NEW c \in Stream, Told(c) PROVE (RestOK)'
  BY <1>18 DEF Told, Leave, Move, sessions, turns, calls, app, history
<1>19. ASSUME NEW c \in Stream, Close(c) PROVE (RestOK)'
  BY <1>19 DEF Close, Move, sessions, turns, calls, app, history
<1>20. ASSUME NEW c \in Stream, StandDown(c) PROVE (RestOK)'
  BY <1>20 DEF StandDown, Awake, sessions, turns, calls, app, history
<1>21. ASSUME NEW c \in Stream, AwaitTurn(c) PROVE (RestOK)'
  BY <1>21 DEF AwaitTurn, Awake, AtRest, Works, Live, sessions, turns, calls, app, history
<1>22. ASSUME NEW c \in Stream, SleepAgain(c) PROVE (RestOK)'
  BY <1>22 DEF SleepAgain, Awake, sessions, turns, calls, app, history
<1>23. ASSUME NEW c \in Stream, Reap(c) PROVE (RestOK)'
  BY <1>23 DEF Reap, Awake, AtRest, Works, Live, sessions, turns, calls, app, history
<1>24. CASE UNCHANGED vars
  BY <1>24 DEF vars, sessions, turns, calls, app, history
<1> QED
  BY <1>1, <1>2, <1>3, <1>4, <1>5, <1>6, <1>7, <1>8, <1>9, <1>10, <1>11, <1>12, <1>13,
     <1>14, <1>15, <1>16, <1>17, <1>18, <1>19, <1>20, <1>21, <1>22, <1>23, <1>24
  DEF Next

LEMMA PlacedStep == CInv /\ [Next]_vars => (Placed)'
<1> SUFFICES ASSUME CInv, [Next]_vars PROVE (Placed)'
  OBVIOUS
<1> USE ChatAssumption DEF CInv, Placed, TypeOK, Outcome
<1>1. CASE Stop
  BY <1>1 DEF Stop, sessions, turns, calls, history
<1>2. ASSUME NEW i \in Id, Cancel(i) PROVE (Placed)'
  BY <1>2 DEF Cancel, CancelCurrent, sessions, turns, calls, history
<1>3. ASSUME NEW i \in Id, Delete(i) PROVE (Placed)'
  <2>1. turn' \in {turn, CancelCurrent(named[i])} /\ on' = on /\ pc' = pc
    BY ONLY <1>3 DEF Delete, calls
  <2>2. \A r \in Request : turn'[r] # "none" => turn[r] # "none"
    BY ONLY <2>1 DEF CancelCurrent
  <2> QED BY ONLY <2>1, <2>2, CInv DEF CInv, Placed
<1>4. ASSUME NEW r \in Request, NEW i \in Id, Chat(r, i) PROVE (Placed)'
  <2>1. named[i] \in Session
    BY <1>4, NamedIsSession DEF Chat
  <2> QED BY <1>4, <2>1 DEF Chat, Submit, CancelCurrent, sessions, turns, calls, history
<1>5. ASSUME NEW r \in Request, NEW i \in Id, Inject(r, i) PROVE (Placed)'
  BY <1>5 DEF Inject, Chat, Submit, CancelCurrent, sessions, turns, calls, history
<1>6. ASSUME NEW r \in Request, NEW i \in Id, Respond(r, i) PROVE (Placed)'
  <2>1. named[i] \in Session
    BY <1>6, NamedIsSession DEF Respond, Chat
  <2> QED BY <1>6, <2>1 DEF Respond, Chat, Submit, CancelCurrent, sessions, turns, calls, history
<1>7. ASSUME NEW r \in Request, NEW i \in Id, Complete(r, i) PROVE (Placed)'
  <2>1. PICK s \in Session : Submit(r, s)
    BY ONLY <1>7 DEF Complete
  <2>2. /\ turn' = [CancelCurrent(s) EXCEPT ![r] = "running"]
        /\ on' = [on EXCEPT ![r] = s] /\ pc' = [pc EXCEPT ![r] = "reading"]
    BY ONLY <1>7, <2>1 DEF Complete, Submit
  <2>3. TurnsOK /\ CallsOK
    BY ONLY CInv, TypeParts DEF CInv
  <2>4. on'[r] = s /\ \A q \in Request \ {r} : on'[q] = on[q] /\ pc'[q] = pc[q] /\ turn'[q] = (CancelCurrent(s))[q]
    BY ONLY <2>2, <2>3 DEF TurnsOK, CallsOK, CancelCurrent
  <2>5. \A q \in Request \ {r} : turn'[q] # "none" => turn[q] # "none"
    BY ONLY <2>4 DEF CancelCurrent
  <2> QED BY ONLY <2>1, <2>4, <2>5, CInv DEF CInv, Placed
<1>8. ASSUME NEW c \in Stream, NEW i \in Id, Open(c, i) PROVE (Placed)'
  BY <1>8 DEF Open, GetOrCreate, sessions, turns, calls, history
<1>9. ASSUME NEW r \in Request, Speak(r) PROVE (Placed)'
  BY <1>9 DEF Speak, Push, sessions, turns, calls, history
<1>10. ASSUME NEW r \in Request, PushTerminal(r) PROVE (Placed)'
  BY <1>10 DEF PushTerminal, Push, Ending, sessions, turns, calls, history
<1>11. ASSUME NEW r \in Request, Settle(r) PROVE (Placed)'
  BY <1>11 DEF Settle, sessions, turns, calls, history
<1>12. ASSUME NEW r \in Request, Collect(r) PROVE (Placed)'
  BY <1>12 DEF Collect, sessions, turns, calls, history
<1>13. ASSUME NEW r \in Request, Answer(r) PROVE (Placed)'
  BY <1>13 DEF Answer, sessions, turns, calls, history
<1>14. ASSUME NEW c \in Stream, Begin(c) PROVE (Placed)'
  BY <1>14 DEF Begin, GetOrCreate, sessions, turns, calls, history
<1>15. ASSUME NEW c \in Stream, Vanish(c) PROVE (Placed)'
  BY <1>15 DEF Vanish, Move, sessions, turns, calls, history
<1>16. ASSUME NEW c \in Stream, Read(c) PROVE (Placed)'
  BY <1>16 DEF Read, sessions, turns, calls, history
<1>17. ASSUME NEW c \in Stream, Leave(c) PROVE (Placed)'
  BY <1>17 DEF Leave, Move, sessions, turns, calls, history
<1>18. ASSUME NEW c \in Stream, Told(c) PROVE (Placed)'
  BY <1>18 DEF Told, Leave, Move, sessions, turns, calls, history
<1>19. ASSUME NEW c \in Stream, Close(c) PROVE (Placed)'
  BY <1>19 DEF Close, Move, sessions, turns, calls, history
<1>20. ASSUME NEW c \in Stream, StandDown(c) PROVE (Placed)'
  BY <1>20 DEF StandDown, Awake, sessions, turns, calls, history
<1>21. ASSUME NEW c \in Stream, AwaitTurn(c) PROVE (Placed)'
  BY <1>21 DEF AwaitTurn, Awake, AtRest, Works, Live, sessions, turns, calls, history
<1>22. ASSUME NEW c \in Stream, SleepAgain(c) PROVE (Placed)'
  BY <1>22 DEF SleepAgain, Awake, sessions, turns, calls, history
<1>23. ASSUME NEW c \in Stream, Reap(c) PROVE (Placed)'
  BY <1>23 DEF Reap, Awake, AtRest, Works, Live, sessions, turns, calls, history
<1>24. CASE UNCHANGED vars
  BY <1>24 DEF vars, sessions, turns, calls, history
<1> QED
  BY <1>1, <1>2, <1>3, <1>4, <1>5, <1>6, <1>7, <1>8, <1>9, <1>10, <1>11, <1>12, <1>13,
     <1>14, <1>15, <1>16, <1>17, <1>18, <1>19, <1>20, <1>21, <1>22, <1>23, <1>24
  DEF Next

LEMMA Read1Step == CInv /\ [Next]_vars => (Read1)'
<1> SUFFICES ASSUME CInv, [Next]_vars PROVE (Read1)'
  OBVIOUS
<1>a. UNCHANGED <<stream, connected, shared>> => Read1'
  BY DEF CInv, Read1, Reads
<1> USE ChatAssumption DEF CInv, Read1, TypeOK, Reads
<1>1. CASE Stop
  <2>1. UNCHANGED <<stream, connected, shared>>
    BY ONLY <1>1 DEF Stop, sessions, turns, calls, history
  <2> QED BY <1>a, <2>1
<1>2. ASSUME NEW i \in Id, Cancel(i) PROVE (Read1)'
  <2>1. UNCHANGED <<stream, connected, shared>>
    BY ONLY <1>2 DEF Cancel, CancelCurrent, sessions, turns, calls, history
  <2> QED BY <1>a, <2>1
<1>3. ASSUME NEW i \in Id, Delete(i) PROVE (Read1)'
  <2>1. UNCHANGED <<stream, connected, shared>>
    BY ONLY <1>3 DEF Delete, CancelCurrent, sessions, turns, calls, history
  <2> QED BY <1>a, <2>1
<1>4. ASSUME NEW r \in Request, NEW i \in Id, Chat(r, i) PROVE (Read1)'
  <2>1. UNCHANGED <<stream, connected, shared>>
    BY ONLY <1>4 DEF Chat, Submit, CancelCurrent, sessions, turns, calls, history
  <2> QED BY <1>a, <2>1
<1>5. ASSUME NEW r \in Request, NEW i \in Id, Inject(r, i) PROVE (Read1)'
  <2>1. UNCHANGED <<stream, connected, shared>>
    BY ONLY <1>5 DEF Inject, Chat, Submit, CancelCurrent, sessions, turns, calls, history
  <2> QED BY <1>a, <2>1
<1>6. ASSUME NEW r \in Request, NEW i \in Id, Respond(r, i) PROVE (Read1)'
  <2>1. UNCHANGED <<stream, connected, shared>>
    BY ONLY <1>6 DEF Respond, Chat, Submit, CancelCurrent, sessions, turns, calls, history
  <2> QED BY <1>a, <2>1
<1>7. ASSUME NEW r \in Request, NEW i \in Id, Complete(r, i) PROVE (Read1)'
  <2>1. UNCHANGED <<stream, connected, shared>>
    BY <1>7 DEF Complete, GetOrCreate, Submit, CancelCurrent, sessions, turns, calls, history
  <2> QED BY <2>1
<1>8. ASSUME NEW c \in Stream, NEW i \in Id, Open(c, i) PROVE (Read1)'
  <2>1. /\ stream' = [stream EXCEPT ![c] = [at |-> "opening", id |-> i, of |-> None]]
        /\ stream[c].at = "none" /\ UNCHANGED <<connected, shared>>
    BY ONLY <1>8 DEF Open, history
  <2>2. \A d \in Stream, t \in Session : Reads(d, t)' <=> Reads(d, t)
    BY <2>1
  <2> HIDE DEF Reads
  <2> QED BY <2>1, <2>2
<1>9. ASSUME NEW r \in Request, Speak(r) PROVE (Read1)'
  <2>1. UNCHANGED <<stream, connected, shared>>
    BY ONLY <1>9 DEF Speak, Push, sessions, turns, calls, history
  <2> QED BY <1>a, <2>1
<1>10. ASSUME NEW r \in Request, PushTerminal(r) PROVE (Read1)'
  <2>1. UNCHANGED <<stream, connected, shared>>
    BY ONLY <1>10 DEF PushTerminal, Push, Ending, sessions, turns, calls, history
  <2> QED BY <1>a, <2>1
<1>11. ASSUME NEW r \in Request, Settle(r) PROVE (Read1)'
  BY <1>11 DEF Settle, sessions, turns, calls, history
<1>12. ASSUME NEW r \in Request, Collect(r) PROVE (Read1)'
  <2>1. UNCHANGED <<stream, connected, shared>>
    BY ONLY <1>12 DEF Collect, sessions, turns, calls, history
  <2> QED BY <1>a, <2>1
<1>13. ASSUME NEW r \in Request, Answer(r) PROVE (Read1)'
  <2>1. UNCHANGED <<stream, connected, shared>>
    BY ONLY <1>13 DEF Answer, sessions, turns, calls, history
  <2> QED BY <1>a, <2>1
<1>14. ASSUME NEW c \in Stream, Begin(c) PROVE (Read1)'
  <2>1. PICK s \in Session :
           /\ stream' = [stream EXCEPT ![c].at = "reading", ![c].of = s]
           /\ connected' = connected \cup {s}
           /\ shared' = shared \cup {t \in {s} : \E d \in Stream : Reads(d, t)}
    BY <1>14 DEF Begin
  <2>2. /\ stream'[c].at = "reading" /\ stream'[c].of = s
        /\ \A d \in Stream \ {c} : stream'[d] = stream[d]
    BY <2>1, Began, TypeParts
  <2>3. s \in shared' \/ \A d \in Stream : ~Reads(d, s)
    BY <2>1
  <2>4. \A d \in Stream \ {c}, t \in Session : Reads(d, t)' <=> Reads(d, t)
    BY <2>2
  <2>5. \A t \in Session : Reads(c, t)' <=> t = s
    BY <2>2
  <2>6. ASSUME NEW a \in Stream, NEW d \in Stream, NEW t \in Session, Reads(a, t)', t \notin shared'
        PROVE  t \in connected' /\ (Reads(d, t)' => a = d)
    <3> HIDE DEF Reads
    <3>1. CASE t = s
      BY <2>1, <2>3, <2>4, <2>5, <2>6, <3>1
    <3>2. CASE t # s
      <4>1. a # c /\ Reads(a, t)
        BY ONLY <2>4, <2>5, <2>6, <3>2
      <4>2. t \in connected' /\ t \notin shared /\ \A e \in Stream : Reads(e, t) => a = e
        BY <2>1, <2>6, <4>1
      <4> QED BY ONLY <2>4, <2>5, <2>6, <3>2, <4>1, <4>2
    <3> QED BY <3>1, <3>2
  <2> QED BY <2>6
<1>15. ASSUME NEW c \in Stream, Vanish(c) PROVE (Read1)'
  <2>1. Move(c, "gone") /\ shared' = shared
    BY <1>15 DEF Vanish, history
  <2>2. \A e \in Stream : stream'[e].of = stream[e].of
    BY <2>1, Moved, TypeParts
  <2>5. ASSUME NEW e \in Stream, stream'[e].at \in {"reading", "leaving"}
        PROVE  stream[e].at \in {"reading", "leaving"}
    <3>1. CASE e = c
      BY <1>15, <2>1, <2>5, <3>1, Moved, TypeParts DEF Vanish
    <3>2. CASE e # c
      BY <2>1, <2>5, <3>2, Moved, TypeParts
    <3> QED BY <3>1, <3>2
  <2>3. connected' = connected
    BY <1>15 DEF Vanish, sessions
  <2>4. ASSUME NEW e \in Stream, NEW t \in Session, Reads(e, t)' PROVE Reads(e, t)
    <3>1. stream'[e].at \in {"reading", "leaving"} /\ stream'[e].of = t
      BY <2>4
    <3>2. stream[e].at \in {"reading", "leaving"} /\ stream[e].of = t
      BY <2>2, <2>5, <3>1
    <3> QED BY <3>2
  <2> HIDE DEF Reads
  <2> QED BY <2>1, <2>3, <2>4
<1>16. ASSUME NEW c \in Stream, Read(c) PROVE (Read1)'
  <2>1. UNCHANGED <<stream, connected, shared>>
    BY ONLY <1>16 DEF Read, sessions, turns, calls, history
  <2> QED BY <1>a, <2>1
<1>17. ASSUME NEW c \in Stream, Leave(c) PROVE (Read1)'
  <2>1. Move(c, "leaving") /\ shared' = shared
    BY <1>17 DEF Leave, history
  <2>2. \A e \in Stream : stream'[e].of = stream[e].of
    BY <2>1, Moved, TypeParts
  <2>5. ASSUME NEW e \in Stream, stream'[e].at \in {"reading", "leaving"}
        PROVE  stream[e].at \in {"reading", "leaving"}
    <3>1. CASE e = c
      BY <1>17, <2>1, <2>5, <3>1, Moved, TypeParts DEF Leave
    <3>2. CASE e # c
      BY <2>1, <2>5, <3>2, Moved, TypeParts
    <3> QED BY <3>1, <3>2
  <2>3. connected' = connected
    BY <1>17 DEF Leave, sessions
  <2>4. ASSUME NEW e \in Stream, NEW t \in Session, Reads(e, t)' PROVE Reads(e, t)
    <3>1. stream'[e].at \in {"reading", "leaving"} /\ stream'[e].of = t
      BY <2>4
    <3>2. stream[e].at \in {"reading", "leaving"} /\ stream[e].of = t
      BY <2>2, <2>5, <3>1
    <3> QED BY <3>2
  <2> HIDE DEF Reads
  <2> QED BY <2>1, <2>3, <2>4
<1>18. ASSUME NEW c \in Stream, Told(c) PROVE (Read1)'
  <2>1. Move(c, "leaving") /\ shared' = shared
    BY <1>18 DEF Told, Leave, history
  <2>2. \A e \in Stream : stream'[e].of = stream[e].of
    BY <2>1, Moved, TypeParts
  <2>5. ASSUME NEW e \in Stream, stream'[e].at \in {"reading", "leaving"}
        PROVE  stream[e].at \in {"reading", "leaving"}
    <3>1. CASE e = c
      BY <1>18, <2>1, <2>5, <3>1, Moved, TypeParts DEF Told, Leave
    <3>2. CASE e # c
      BY <2>1, <2>5, <3>2, Moved, TypeParts
    <3> QED BY <3>1, <3>2
  <2>3. connected' = connected
    BY <1>18 DEF Told, Leave, sessions
  <2>4. ASSUME NEW e \in Stream, NEW t \in Session, Reads(e, t)' PROVE Reads(e, t)
    <3>1. stream'[e].at \in {"reading", "leaving"} /\ stream'[e].of = t
      BY <2>4
    <3>2. stream[e].at \in {"reading", "leaving"} /\ stream[e].of = t
      BY <2>2, <2>5, <3>1
    <3> QED BY <3>2
  <2> HIDE DEF Reads
  <2> QED BY <2>1, <2>3, <2>4
<1>19. ASSUME NEW c \in Stream, Close(c) PROVE (Read1)'
  <2>1. Move(c, "gone") /\ shared' = shared
    BY <1>19 DEF Close, history
  <2>2. /\ ~(stream'[c].at \in {"reading", "leaving"})
        /\ \A e \in Stream \ {c} : stream'[e].of = stream[e].of /\ stream'[e].at = stream[e].at
    BY <2>1, Moved, TypeParts
  <2>3. \A s \in Session : s \in connected /\ s # stream[c].of => s \in connected'
    BY <1>19 DEF Close
  <2>4. Reads(c, stream[c].of)
    BY <1>19 DEF Close
  <2>5. \A e \in Stream, t \in Session : Reads(e, t)' => e # c /\ Reads(e, t)
    BY <2>2
  <2> HIDE DEF Reads
  <2> QED BY <2>1, <2>3, <2>4, <2>5
<1>20. ASSUME NEW c \in Stream, StandDown(c) PROVE (Read1)'
  <2>1. UNCHANGED <<stream, connected, shared>>
    BY <1>20 DEF StandDown, Awake, sessions, turns, calls, history
  <2> QED BY <2>1
<1>21. ASSUME NEW c \in Stream, AwaitTurn(c) PROVE (Read1)'
  <2>1. UNCHANGED <<stream, connected, shared>>
    BY <1>21 DEF AwaitTurn, Awake, AtRest, Works, Live, sessions, turns, calls, history
  <2> QED BY <2>1
<1>22. ASSUME NEW c \in Stream, SleepAgain(c) PROVE (Read1)'
  <2>1. UNCHANGED <<stream, connected, shared>>
    BY <1>22 DEF SleepAgain, Awake, sessions, turns, calls, history
  <2> QED BY <2>1
<1>23. ASSUME NEW c \in Stream, Reap(c) PROVE (Read1)'
  <2>1. UNCHANGED <<stream, connected, shared>>
    BY <1>23 DEF Reap, Awake, AtRest, Works, Live, sessions, turns, calls, history
  <2> QED BY <2>1
<1>24. CASE UNCHANGED vars
  BY <1>24 DEF vars, sessions, turns, calls, history
<1> QED
  BY <1>1, <1>2, <1>3, <1>4, <1>5, <1>6, <1>7, <1>8, <1>9, <1>10, <1>11, <1>12, <1>13,
     <1>14, <1>15, <1>16, <1>17, <1>18, <1>19, <1>20, <1>21, <1>22, <1>23, <1>24
  DEF Next

LEMMA CurrentStep == CInv /\ [Next]_vars => (Current)'
<1> SUFFICES ASSUME CInv, [Next]_vars PROVE (Current)'
  OBVIOUS
<1> USE ChatAssumption DEF CInv, Current, TypeOK, Placed
<1>1. CASE Stop
  BY <1>1 DEF Stop, sessions, turns, calls, history
<1>2. ASSUME NEW i \in Id, Cancel(i) PROVE (Current)'
  BY <1>2 DEF Cancel, CancelCurrent, sessions, turns, calls, history
<1>3. ASSUME NEW i \in Id, Delete(i) PROVE (Current)'
  BY <1>3 DEF Delete, CancelCurrent, sessions, turns, calls, history
<1>4. ASSUME NEW r \in Request, NEW i \in Id, Chat(r, i) PROVE (Current)'
  <2>1. named[i] \in Session
    BY <1>4, NamedIsSession DEF Chat
  <2> QED BY <1>4, <2>1 DEF Chat, Submit, CancelCurrent, sessions, turns, calls, history
<1>5. ASSUME NEW r \in Request, NEW i \in Id, Inject(r, i) PROVE (Current)'
  BY <1>5 DEF Inject, Chat, Submit, CancelCurrent, sessions, turns, calls, history
<1>6. ASSUME NEW r \in Request, NEW i \in Id, Respond(r, i) PROVE (Current)'
  <2>1. named[i] \in Session
    BY <1>6, NamedIsSession DEF Respond, Chat
  <2> QED BY <1>6, <2>1 DEF Respond, Chat, Submit, CancelCurrent, sessions, turns, calls, history
<1>7. ASSUME NEW r \in Request, NEW i \in Id, Complete(r, i) PROVE (Current)'
  BY <1>7 DEF Complete, GetOrCreate, Submit, CancelCurrent, sessions, turns, calls, history
<1>8. ASSUME NEW c \in Stream, NEW i \in Id, Open(c, i) PROVE (Current)'
  BY <1>8 DEF Open, GetOrCreate, sessions, turns, calls, history
<1>9. ASSUME NEW r \in Request, Speak(r) PROVE (Current)'
  BY <1>9 DEF Speak, Push, sessions, turns, calls, history
<1>10. ASSUME NEW r \in Request, PushTerminal(r) PROVE (Current)'
  BY <1>10 DEF PushTerminal, Push, Ending, sessions, turns, calls, history
<1>11. ASSUME NEW r \in Request, Settle(r) PROVE (Current)'
  BY <1>11 DEF Settle, sessions, turns, calls, history
<1>12. ASSUME NEW r \in Request, Collect(r) PROVE (Current)'
  BY <1>12 DEF Collect, sessions, turns, calls, history
<1>13. ASSUME NEW r \in Request, Answer(r) PROVE (Current)'
  BY <1>13 DEF Answer, sessions, turns, calls, history
<1>14. ASSUME NEW c \in Stream, Begin(c) PROVE (Current)'
  BY <1>14 DEF Begin, GetOrCreate, sessions, turns, calls, history
<1>15. ASSUME NEW c \in Stream, Vanish(c) PROVE (Current)'
  BY <1>15 DEF Vanish, Move, sessions, turns, calls, history
<1>16. ASSUME NEW c \in Stream, Read(c) PROVE (Current)'
  BY <1>16 DEF Read, sessions, turns, calls, history
<1>17. ASSUME NEW c \in Stream, Leave(c) PROVE (Current)'
  BY <1>17 DEF Leave, Move, sessions, turns, calls, history
<1>18. ASSUME NEW c \in Stream, Told(c) PROVE (Current)'
  BY <1>18 DEF Told, Leave, Move, sessions, turns, calls, history
<1>19. ASSUME NEW c \in Stream, Close(c) PROVE (Current)'
  BY <1>19 DEF Close, Move, sessions, turns, calls, history
<1>20. ASSUME NEW c \in Stream, StandDown(c) PROVE (Current)'
  BY <1>20 DEF StandDown, Awake, sessions, turns, calls, history
<1>21. ASSUME NEW c \in Stream, AwaitTurn(c) PROVE (Current)'
  BY <1>21 DEF AwaitTurn, Awake, AtRest, Works, Live, sessions, turns, calls, history
<1>22. ASSUME NEW c \in Stream, SleepAgain(c) PROVE (Current)'
  BY <1>22 DEF SleepAgain, Awake, sessions, turns, calls, history
<1>23. ASSUME NEW c \in Stream, Reap(c) PROVE (Current)'
  BY <1>23 DEF Reap, Awake, AtRest, Works, Live, sessions, turns, calls, history
<1>24. CASE UNCHANGED vars
  BY <1>24 DEF vars, sessions, turns, calls, history
<1> QED
  BY <1>1, <1>2, <1>3, <1>4, <1>5, <1>6, <1>7, <1>8, <1>9, <1>10, <1>11, <1>12, <1>13,
     <1>14, <1>15, <1>16, <1>17, <1>18, <1>19, <1>20, <1>21, <1>22, <1>23, <1>24
  DEF Next

THEOREM Invariance == Spec => []CInv
<1>1. Init => CInv
  BY CInvInit
<1>2. CInv /\ [Next]_vars => CInv'
  <2>1. CInv /\ [Next]_vars => TypeOK'
    BY TypeParts, SessionsStep, QueuesStep, TurnsStep, OutcomesStep, CallsStep, StreamsStep, RestStep, PTL
  <2> QED BY <2>1, PlacedStep, Read1Step, CurrentStep DEF CInv
<1> QED BY <1>1, <1>2, PTL DEF Spec

\* Every variable keeps its type, for any number of sessions, streams and requests.
THEOREM TypesHold == Spec => []TypeOK
<1>1. CInv => TypeOK
  BY DEF CInv
<1> QED BY <1>1, Invariance, PTL

LEMMA OnlyIdleStep ==
    CInv /\ [Next]_vars =>
        \A i \in Id : named[i] # None /\ named'[i] = None /\ InUse(named[i])
                     => named[i] \in shared \/ Delete(i)
<1> SUFFICES ASSUME CInv, [Next]_vars, NEW i \in Id, named[i] # None, named'[i] = None,
                    InUse(named[i]), named[i] \notin shared
             PROVE  Delete(i)
  OBVIOUS
<1> USE ChatAssumption DEF CInv, TypeOK
<1>1. \A c \in Stream : ~Reap(c)
  <2> SUFFICES ASSUME NEW c \in Stream, Reap(c) PROVE FALSE
    OBVIOUS
  <2>1. PICK s \in Session : AtRest(c, s) /\ ~Works(s)
    BY DEF Reap
  <2>2. stream[c].id = i /\ named[i] = s /\ s \notin connected
    BY <2>1 DEF Reap, AtRest
  <2>3. \A d \in Stream : ~Reads(d, s)
    BY <2>2 DEF Read1
  <2>4. \A r \in Request : ~(on[r] = s /\ turn[r] \in {"running", "spoken"})
    BY <2>1 DEF Works, Live, Current
  <2> QED BY <2>2, <2>3, <2>4 DEF InUse
<1>2. \A j \in Id : Delete(j) => j = i
  BY DEF Delete
<1>4. UNCHANGED named => FALSE
  OBVIOUS
<1>5. \A j, s : GetOrCreate(j, s) /\ s \in Session => FALSE
  BY DEF GetOrCreate, Session
<1>6. (\A j \in Id, r \in Request : ~Complete(r, j)) /\ \A c \in Stream : ~Begin(c)
  BY <1>5 DEF Complete, Begin
<1>7. \A j \in Id, c \in Stream : ~Open(c, j)
  BY <1>5 DEF Open
<1>8. \A j \in Id, r \in Request : ~Chat(r, j) /\ ~Inject(r, j) /\ ~Respond(r, j)
  BY <1>4 DEF Chat, Inject, Respond, sessions
<1>9. \A j \in Id : ~Cancel(j)
  BY <1>4 DEF Cancel, sessions
<1>10. \A r \in Request : ~Speak(r) /\ ~PushTerminal(r) /\ ~Settle(r) /\ ~Collect(r) /\ ~Answer(r)
  BY <1>4 DEF Speak, PushTerminal, Settle, Collect, Answer, sessions
<1>11. \A c \in Stream : /\ ~Vanish(c) /\ ~Read(c) /\ ~Leave(c) /\ ~Told(c) /\ ~Close(c)
                         /\ ~StandDown(c) /\ ~AwaitTurn(c) /\ ~SleepAgain(c)
  BY <1>4 DEF Vanish, Read, Leave, Told, Close, StandDown, AwaitTurn, SleepAgain, sessions
<1>12. ~Stop /\ ~UNCHANGED vars
  BY <1>4 DEF Stop, vars, sessions
<1>13. \E j \in Id : Delete(j)
  BY <1>1, <1>6, <1>7, <1>8, <1>9, <1>10, <1>11, <1>12 DEF Next
<1> QED BY <1>2, <1>13

\* The reaper drops no session that is read or works on a turn, unless two streams of it
\* overlapped.
THEOREM ReaperSparesTheBusy == Spec => OnlyIdleGo
<1>1. CInv /\ [Next]_vars => [\A i \in Id : named[i] # None /\ named'[i] = None /\ InUse(named[i])
                     => named[i] \in shared \/ Delete(i)]_vars
  BY OnlyIdleStep
<1> QED BY <1>1, Invariance, PTL DEF Spec, OnlyIdleGo

----------------------------------------------------------------------------
\* What a one-shot returns.

OneShot(r) == pc[r] \in {"reading", "waiting"}
Mine(r) == OneShot(r) /\ r \notin foreign

\* A session's current task was started on it, and a one-shot has started its turn.
Owners ==
    /\ \A s \in Session : current[s] # None => on[current[s]] = s /\ turn[current[s]] # "none"
    /\ \A r \in Request : pc[r] # "none" => turn[r] # "none"

\* A request that is no one-shot yet has no text.
Blank == \A r \in Request : pc[r] = "none" => got[r] = {}

\* Nothing else works on the session of the one-shot, and nobody else reads its queue.
Alone(r) ==
    /\ current[on[r]] = r
    /\ \A q \in Request \ {r} : on[q] = on[r] => ~Live(q) /\ ~OneShot(q)
    /\ \A c \in Stream : ~Reads(c, on[r])

\* How far the turn has come, or how it ended.
Kind(r) == IF turn[r] = "done" THEN outcome[on[r]][2] ELSE turn[r]

\* What can be in the queue by then, with what was taken from it.
Frames(r, kind) ==
    LET text == <<r, "text">>  last == <<r, kind>>
    IN CASE kind = "running" -> {<< <<>>, {} >>}
         [] kind = "spoken" -> {<< <<text>>, {} >>, << <<>>, {r} >>}
         [] kind = "error" -> {<< <<last>>, {} >>}
         [] OTHER -> {<< <<text, last>>, {} >>, << <<last>>, {r} >>}

\* The one-shot has what its turn said and nothing else, and waits for that turn.
Faithful(r) ==
    /\ turn[r] = "done" => outcome[on[r]] # None /\ outcome[on[r]][1] = r
    /\ Kind(r) \in {"running", "spoken", "error", "complete", "interrupted"}
    /\ pc[r] = "reading" => <<queue[on[r]], got[r]>> \in Frames(r, Kind(r))
    /\ pc[r] = "waiting" => /\ waits[r] = r /\ Kind(r) \notin {"running", "spoken"}
                            /\ got[r] = IF Kind(r) = "error" THEN {} ELSE {r}

Own(r) == Mine(r) => Alone(r) /\ Faithful(r)
OInv == Owners /\ Blank /\ \A r \in Request : Own(r)

LEMMA OInvInit == Init => OInv
<1> SUFFICES ASSUME Init PROVE OInv
  OBVIOUS
<1>1. /\ \A s \in Session : current[s] = None
      /\ \A r \in Request : pc[r] = "none"
  BY DEF Init
<1>2. \A r \in Request : ~OneShot(r)
  BY <1>1 DEF OneShot
<1>3. Blank
  BY DEF Init, Blank
<1> QED BY <1>1, <1>2, <1>3 DEF OInv, Owners, Own, Mine

LEMMA SubmitKeepsOwners ==
    ASSUME CInv, Owners, NEW q \in Request, NEW s \in Session, Submit(q, s), turn[q] = "none",
           \A r \in Request : pc'[r] = pc[r] \/ r = q
    PROVE  Owners'
<1>a. TurnsOK
  BY TypeParts DEF CInv
<1>1. /\ turn' = [CancelCurrent(s) EXCEPT ![q] = "running"]
      /\ on' = [on EXCEPT ![q] = s] /\ current' = [current EXCEPT ![s] = q]
  BY DEF Submit
<1>2. \A p \in Request : /\ p # q => on'[p] = on[p]
                         /\ on'[q] = s /\ turn'[q] = "running"
                         /\ turn[p] # "none" => turn'[p] # "none"
  BY ONLY <1>a, <1>1 DEF CancelCurrent, TurnsOK
<1>3. \A t \in Session : current'[t] = IF t = s THEN q ELSE current[t]
  BY ONLY <1>a, <1>1 DEF TurnsOK
<1>4. \A t \in Session : current[t] \in Request \cup {None}
  BY ONLY <1>a DEF TurnsOK, Turns
<1>5. ASSUME NEW t \in Session, current'[t] # None
      PROVE  on'[current'[t]] = t /\ turn'[current'[t]] # "none"
  <2>1. CASE t = s
    <3>1. current'[t] = q
      BY ONLY <1>3, <2>1
    <3> QED BY ONLY <1>2, <2>1, <3>1, q \in Request
  <2>2. CASE t # s
    <3>1. current'[t] = current[t] /\ current[t] \in Request /\ current[t] # None
      BY ONLY <1>3, <1>4, <1>5, <2>2
    <3>2. on[current[t]] = t /\ turn[current[t]] # "none"
      BY ONLY <3>1, Owners, t \in Session DEF Owners
    <3>3. current[t] # q
      BY ONLY <3>2, turn[q] = "none"
    <3> QED BY ONLY <1>2, <3>1, <3>2, <3>3
  <2> QED BY <2>1, <2>2
<1>6. ASSUME NEW r \in Request, pc'[r] # "none" PROVE turn'[r] # "none"
  <2>1. pc'[r] = pc[r] \/ r = q
    OBVIOUS
  <2>2. pc[r] # "none" => turn[r] # "none"
    BY DEF Owners
  <2> QED BY ONLY <1>2, <1>6, <2>1, <2>2
<1> QED BY ONLY <1>5, <1>6 DEF Owners

\* What else may happen without a one-shot noticing.
LEMMA Undisturbed ==
    ASSUME NEW r \in Request, Alone(r), Faithful(r),
           on'[r] = on[r], turn'[r] = turn[r], pc'[r] = pc[r], got'[r] = got[r],
           waits'[r] = waits[r], current'[on[r]] = current[on[r]],
           queue'[on[r]] = queue[on[r]], outcome'[on[r]] = outcome[on[r]],
           \A q \in Request \ {r} : on'[q] = on[r] => ~(Live(q)') /\ ~(OneShot(q)'),
           \A c \in Stream : ~(Reads(c, on[r])')
    PROVE  (Alone(r))' /\ (Faithful(r))'
<1>1. (Kind(r))' = Kind(r)
  BY DEF Kind
<1>2. (Alone(r))'
  <2>1. \A c \in Stream : (~Reads(c, on[r]))'
    BY DEF Reads
  <2> QED BY <2>1 DEF Alone
<1>3. (Faithful(r))'
  <2>1. (Frames(r, Kind(r)))' = Frames(r, Kind(r))
    BY <1>1 DEF Frames
  <2> HIDE DEF Frames, Kind
  <2> QED BY <1>1, <2>1 DEF Faithful
<1> QED BY <1>2, <1>3

\* A turn that is started, cancelled or dropped on another session.
LEMMA Elsewhere ==
    ASSUME CInv, Owners, NEW r \in Request, Mine(r), Alone(r),
           NEW s \in Session, s # on[r]
    PROVE  /\ current[s] # r
           /\ (CancelCurrent(s))[r] = turn[r]
           /\ \A q \in Request \ {r} : on[q] = on[r] => (CancelCurrent(s))[q] = turn[q]
<1>a. TurnsOK /\ ChatAssumption
  BY TypeParts, ChatAssumption DEF CInv
<1>1. current[s] # r
  <2>1. r # None
    BY ONLY <1>a, r \in Request DEF ChatAssumption
  <2> QED BY <2>1 DEF Owners
<1>2. \A q \in Request \ {r} : on[q] = on[r] => turn[q] \notin {"running", "spoken"}
  BY DEF Alone, Live
<1> QED BY ONLY <1>1, <1>2, r \in Request DEF CancelCurrent

LEMMA OwnersStep == CInv /\ Owners /\ [Next]_vars => Owners'
<1> SUFFICES ASSUME CInv, Owners, [Next]_vars PROVE Owners'
  OBVIOUS
<1>a. TurnsOK /\ CallsOK
  BY TypeParts DEF CInv
<1>b. ASSUME UNCHANGED <<current, on>>, \A r \in Request : turn[r] # "none" => turn'[r] # "none",
             \A r \in Request : pc'[r] # "none" => pc[r] # "none"
      PROVE  Owners'
  <2>1. \A s \in Session : current[s] \in Request \cup {None}
    BY <1>a DEF TurnsOK, Turns
  <2> QED BY <1>b, <2>1 DEF Owners
<1>c. ASSUME UNCHANGED <<turns, pc>> PROVE Owners'
  <2>1. UNCHANGED <<current, on, turn, pc>>
    BY <1>c DEF turns
  <2> QED BY ONLY <1>b, <2>1
<1>1. ASSUME NEW q \in Request, NEW i \in Id, Chat(q, i) \/ Inject(q, i) \/ Respond(q, i) PROVE Owners'
  <2>1. Chat(q, i)
    BY <1>1 DEF Inject, Respond
  <2>2. turn[q] = "none" /\ named[i] # None /\ Submit(q, named[i]) /\ pc' = pc
    BY <2>1 DEF Chat, calls
  <2>3. named[i] \in Session
    BY <2>2, NamedIsSession DEF CInv
  <2> QED BY <2>2, <2>3, SubmitKeepsOwners
<1>2. ASSUME NEW q \in Request, NEW i \in Id, Complete(q, i) PROVE Owners'
  <2>1. PICK s \in Session : Submit(q, s)
    BY <1>2 DEF Complete
  <2>2. turn[q] = "none" /\ pc' = [pc EXCEPT ![q] = "reading"]
    BY <1>2 DEF Complete
  <2> QED BY <2>1, <2>2, SubmitKeepsOwners
<1>3. ASSUME NEW i \in Id, Cancel(i) \/ Delete(i) PROVE Owners'
  <2>1. turn' = turn \/ turn' = CancelCurrent(named[i])
    BY <1>3 DEF Cancel, Delete
  <2>2. \A r \in Request : turn[r] # "none" => turn'[r] # "none"
    BY ONLY <2>1 DEF CancelCurrent
  <2>3. UNCHANGED <<current, on, pc>>
    BY <1>3 DEF Cancel, Delete, calls
  <2> QED BY <1>b, <2>2, <2>3
<1>4. ASSUME NEW q \in Request, Speak(q) \/ PushTerminal(q) \/ Settle(q) PROVE Owners'
  <2>1. UNCHANGED <<current, on, pc>>
    BY <1>4 DEF Speak, PushTerminal, Settle, calls
  <2>2. PICK new \in {"spoken", "done"} \cup Outcome : turn' = [turn EXCEPT ![q] = new]
    BY <1>4 DEF Speak, PushTerminal, Settle, Ending, Outcome
  <2>3. \A r \in Request : turn[r] # "none" => turn'[r] # "none"
    BY ONLY <1>a, <2>2 DEF TurnsOK, Outcome
  <2> QED BY <1>b, <2>1, <2>3
<1>5. ASSUME NEW q \in Request, Collect(q) \/ Answer(q) PROVE Owners'
  <2>1. UNCHANGED <<current, on, turn>> /\ pc[q] # "none"
    BY <1>5 DEF Collect, Answer, turns
  <2>2. \A r \in Request : r # q => pc'[r] = pc[r]
    BY ONLY <1>5, <1>a DEF Collect, Answer, CallsOK
  <2>3. \A r \in Request : pc'[r] # "none" => pc[r] # "none"
    BY ONLY <2>1, <2>2
  <2> QED BY <1>b, <2>1, <2>3
<1>6. ASSUME NEW c \in Stream, Read(c) PROVE Owners'
  <2>1. UNCHANGED <<current, on, turn, pc>>
    BY <1>6 DEF Read, calls
  <2> QED BY ONLY <1>b, <2>1
<1>7. ASSUME NEW c \in Stream, (\E i \in Id : Open(c, i)) \/ Begin(c) \/ Vanish(c) \/ Leave(c) \/ Told(c) \/ Close(c)
      PROVE  UNCHANGED <<turns, pc>>
  BY <1>7 DEF Open, Begin, Vanish, Leave, Told, Close, calls
<1>8. ASSUME NEW c \in Stream, StandDown(c) \/ AwaitTurn(c) \/ SleepAgain(c) \/ Reap(c)
      PROVE  UNCHANGED <<turns, pc>>
  BY <1>8 DEF StandDown, AwaitTurn, SleepAgain, Reap, Awake, calls
<1>9. CASE Stop \/ UNCHANGED vars
  <2>1. UNCHANGED <<turns, pc>>
    BY <1>9 DEF Stop, vars, calls
  <2> QED BY <1>c, <2>1
<1> QED BY ONLY [Next]_vars, <1>c, <1>1, <1>2, <1>3, <1>4, <1>5, <1>6, <1>7, <1>8, <1>9 DEF Next

LEMMA HeadTailOf ==
    ASSUME NEW x, NEW y
    PROVE  /\ Head(<<x>>) = x /\ Tail(<<x>>) = <<>>
           /\ Head(<<x, y>>) = x /\ Tail(<<x, y>>) = <<y>>
OBVIOUS

\* A queue can hold nothing but these frames.
LEMMA Heads ==
    ASSUME NEW r \in Request, NEW kind \in {"running", "spoken", "error", "complete", "interrupted"},
           NEW q, NEW g, <<q, g>> \in Frames(r, kind), q # <<>>
    PROVE  \/ /\ kind \notin {"running", "error"} /\ Head(q) = <<r, "text">>
              /\ g = {} /\ <<Tail(q), {r}>> \in Frames(r, kind)
           \/ /\ kind \notin {"running", "spoken"} /\ Head(q) = <<r, kind>>
              /\ g = IF kind = "error" THEN {} ELSE {r}
<1> DEFINE text == <<r, "text">>  last == <<r, kind>>
<1>1. /\ Head(<<text>>) = text /\ Tail(<<text>>) = <<>>
      /\ Head(<<last>>) = last
      /\ Head(<<text, last>>) = text /\ Tail(<<text, last>>) = <<last>>
  BY HeadTailOf
<1> HIDE DEF text, last
<1>2. CASE kind = "running"
  <2>1. <<q, g>> = << <<>>, {} >>
    BY ONLY <1>2, <<q, g>> \in Frames(r, kind) DEF Frames
  <2> QED BY <2>1
<1>3. CASE kind = "spoken"
  <2>1. <<q, g>> \in {<< <<text>>, {} >>, << <<>>, {r} >>} /\ Frames(r, kind) = {<< <<text>>, {} >>, << <<>>, {r} >>}
    BY <1>3 DEF Frames, text
  <2>2. q = <<text>> /\ g = {}
    BY <2>1
  <2> QED BY <1>1, <1>3, <2>1, <2>2 DEF text
<1>4. CASE kind = "error"
  <2>1. <<q, g>> = << <<last>>, {} >>
    BY <1>4 DEF Frames, last
  <2> QED BY <1>1, <1>4, <2>1 DEF last
<1>5. CASE kind \in {"complete", "interrupted"}
  <2>1. /\ <<q, g>> \in {<< <<text, last>>, {} >>, << <<last>>, {r} >>}
        /\ Frames(r, kind) = {<< <<text, last>>, {} >>, << <<last>>, {r} >>}
    BY <1>5 DEF Frames, text, last
  <2>2. CASE q = <<text, last>> /\ g = {}
    BY <1>1, <1>5, <2>1, <2>2 DEF text
  <2>3. CASE q = <<last>> /\ g = {r}
    BY <1>1, <1>5, <2>3 DEF last
  <2> QED BY <2>1, <2>2, <2>3
<1> QED BY <1>2, <1>3, <1>4, <1>5

\* What appending one element to a sequence of one yields.
LEMMA Longer ==
    ASSUME NEW S, NEW x \in S, NEW s \in Seq(S)
    PROVE  Len(Append(s, x)) = Len(s) + 1
OBVIOUS

LEMMA Newest ==
    ASSUME NEW S, NEW x \in S, NEW s \in Seq(S)
    PROVE  Append(s, x)[Len(s) + 1] = x
OBVIOUS

LEMMA Oldest ==
    ASSUME NEW S, NEW x \in S, NEW s \in Seq(S), Len(s) = 1
    PROVE  Append(s, x)[1] = s[1]
OBVIOUS

LEMMA AppendTo ==
    ASSUME NEW S, NEW x \in S, NEW y \in S
    PROVE  Append(<<>>, x) = <<x>> /\ Append(<<y>>, x) = <<y, x>>
<1> DEFINE s == <<y>>  t == <<y, x>>
<1>1. /\ s \in Seq(S) /\ Len(s) = 1 /\ s[1] = y
      /\ t \in Seq(S) /\ Len(t) = 2 /\ t[1] = y /\ t[2] = x
  OBVIOUS
<1> HIDE DEF s, t
<1>2. /\ Append(s, x) \in Seq(S) /\ Len(Append(s, x)) = 2
      /\ Append(s, x)[1] = y /\ Append(s, x)[2] = x
  <2>1. Append(s, x) \in Seq(S)
    BY <1>1
  <2>2. Len(Append(s, x)) = Len(s) + 1
    BY ONLY <1>1, x \in S, Longer, Zenon
  <2>3. Append(s, x)[Len(s) + 1] = x
    BY ONLY <1>1, x \in S, Newest, Zenon
  <2>4. Append(s, x)[1] = s[1]
    BY ONLY <1>1, x \in S, Oldest, Zenon
  <2>5. Len(s) + 1 = 2
    BY ONLY <1>1
  <2> QED BY ONLY <1>1, <2>1, <2>2, <2>3, <2>4, <2>5, Zenon
<1>3. \A i \in 1..2 : Append(s, x)[i] = t[i]
  <2>1. \A i \in 1..2 : i = 1 \/ i = 2
    OBVIOUS
  <2> QED BY <1>1, <1>2, <2>1
<1>4. Append(s, x) = t
  BY <1>1, <1>2, <1>3, SeqEqual
<1>5. Append(<<>>, x) = <<x>>
  OBVIOUS
<1> QED BY <1>4, <1>5 DEF s, t

\* Its own turn: each step of it puts its frame in the queue.
LEMMA OwnTurn ==
    ASSUME CInv, NEW r \in Request, Mine(r), Alone(r), Faithful(r),
           Speak(r) \/ PushTerminal(r) \/ Settle(r)
    PROVE  (Alone(r))' /\ (Faithful(r))'
<1>a. TurnsOK /\ OutcomesOK /\ QueuesOK /\ on[r] \in Session
  BY TypeParts DEF CInv, Placed, Mine, OneShot
<1>b. /\ UNCHANGED <<current, on, pc, got, waits, stream, connected>>
      /\ \E new \in {"spoken", "done"} \cup Outcome : turn' = [turn EXCEPT ![r] = new]
  BY DEF Speak, PushTerminal, Settle, calls, sessions, Ending, Outcome
<1>c. \A q \in Request \ {r} : turn'[q] = turn[q]
  BY ONLY <1>a, <1>b DEF TurnsOK
<1>1. (Alone(r))'
  <2>1. \A q \in Request \ {r} : on'[q] = on'[r] => ~(Live(q)') /\ ~(OneShot(q)')
    BY ONLY <1>b, <1>c, Alone(r) DEF Alone, Live, OneShot
  <2>2. \A c \in Stream : ~(Reads(c, on[r])')
    BY ONLY <1>b, Alone(r) DEF Alone, Reads
  <2> QED BY ONLY <1>b, <2>1, <2>2, Alone(r) DEF Alone, Reads
<1>2. ASSUME Speak(r) PROVE (Faithful(r))'
  <2>1. /\ turn[r] = "running" /\ turn'[r] = "spoken" /\ queue'[on[r]] = Append(queue[on[r]], <<r, "text">>)
    BY ONLY <1>2, <1>a DEF Speak, Push, TurnsOK, QueuesOK
  <2>2. Kind(r) = "running" /\ (Kind(r))' = "spoken" /\ pc[r] = "reading"
    BY ONLY <2>1, Faithful(r), Mine(r) DEF Kind, Faithful, Mine, OneShot
  <2>3. queue[on[r]] = <<>> /\ got[r] = {}
    <3>1. <<queue[on[r]], got[r]>> \in Frames(r, "running")
      BY ONLY <2>2, Faithful(r) DEF Faithful
    <3>2. <<queue[on[r]], got[r]>> = << <<>>, {} >>
      BY ONLY <3>1 DEF Frames
    <3> QED BY ONLY <3>2
  <2>4. queue'[on[r]] = << <<r, "text">> >>
    BY ONLY <2>1, <2>3
  <2>5. << << <<r, "text">> >>, {} >> \in Frames(r, "spoken")
    BY ONLY DEF Frames
  <2>6. <<queue'[on'[r]], got'[r]>> \in Frames(r, "spoken")
    BY ONLY <1>b, <2>3, <2>4, <2>5
  <2> HIDE DEF Frames, Kind
  <2>7. turn'[r] # "done" /\ pc'[r] = "reading"
    BY ONLY <1>b, <2>1, <2>2
  <2> QED BY ONLY <2>2, <2>6, <2>7 DEF Faithful
<1>3. ASSUME PushTerminal(r) PROVE (Faithful(r))'
  <2>1. PICK kind \in Ending(r) : Push(r, kind) /\ turn' = [turn EXCEPT ![r] = kind]
    BY <1>3 DEF PushTerminal
  <2>2. turn[r] \in {"running", "spoken"}
    <3>1. turn[r] \in {"running", "spoken", "cancelling"}
      BY ONLY <2>1 DEF Ending
    <3> QED BY ONLY <3>1, Faithful(r) DEF Faithful, Kind
  <2>3. /\ (kind = "error" /\ turn[r] = "running") \/ (kind \in {"complete", "interrupted"} /\ turn[r] = "spoken")
        /\ turn'[r] = kind /\ turn'[r] # "done" /\ Kind(r) = turn[r] /\ (Kind(r))' = kind
        /\ queue'[on[r]] = Append(queue[on[r]], <<r, kind>>)
    <3>1. (kind = "error" /\ turn[r] = "running") \/ (kind \in {"complete", "interrupted"} /\ turn[r] = "spoken")
      <4>1. CASE turn[r] = "running"
        BY ONLY <2>1, <4>1 DEF Ending
      <4>2. CASE turn[r] = "spoken"
        BY ONLY <2>1, <4>2 DEF Ending
      <4> QED BY ONLY <2>2, <4>1, <4>2
    <3>2. turn'[r] = kind
      BY ONLY <1>a, <2>1, r \in Request DEF TurnsOK
    <3>3. queue'[on[r]] = Append(queue[on[r]], <<r, kind>>)
      BY ONLY <1>a, <2>1 DEF Push, QueuesOK
    <3>4. Kind(r) = turn[r] /\ (Kind(r))' = kind
      BY ONLY <2>2, <3>1, <3>2 DEF Kind
    <3> QED BY ONLY <3>1, <3>2, <3>3, <3>4
  <2>4. pc[r] = "reading"
    BY ONLY <2>3, Faithful(r), Mine(r) DEF Faithful, Mine, OneShot
  <2>5. <<queue[on[r]], got[r]>> \in Frames(r, turn[r])
    BY ONLY <2>3, <2>4, Faithful(r) DEF Faithful
  <2>6. <<queue'[on[r]], got[r]>> \in Frames(r, kind)
    <3> DEFINE text == <<r, "text">>  last == <<r, kind>>
    <3>1. Append(<<>>, last) = <<last>> /\ Append(<<text>>, last) = <<text, last>>
      <4>1. text \in {text, last} /\ last \in {text, last}
        OBVIOUS
      <4> HIDE DEF text, last
      <4> QED BY ONLY <4>1, AppendTo, Zenon
    <3>2. CASE kind = "error"
      <4>1. Frames(r, turn[r]) = {<< <<>>, {} >>} /\ Frames(r, kind) = {<< <<last>>, {} >>}
        BY ONLY <2>3, <3>2 DEF Frames
      <4>2. queue[on[r]] = <<>> /\ got[r] = {}
        BY ONLY <2>5, <4>1
      <4> QED BY ONLY <2>3, <3>1, <4>1, <4>2
    <3>3. CASE kind \in {"complete", "interrupted"}
      <4>1. /\ Frames(r, turn[r]) = {<< <<text>>, {} >>, << <<>>, {r} >>}
            /\ Frames(r, kind) = {<< <<text, last>>, {} >>, << <<last>>, {r} >>}
        BY ONLY <2>3, <3>3 DEF Frames
      <4>2. \/ queue[on[r]] = <<text>> /\ got[r] = {}
            \/ queue[on[r]] = <<>> /\ got[r] = {r}
        BY ONLY <2>5, <4>1
      <4> HIDE DEF text
      <4> QED BY ONLY <2>3, <3>1, <4>1, <4>2
    <3> QED BY ONLY <2>3, <3>2, <3>3
  <2> HIDE DEF Frames, Kind
  <2> QED BY ONLY <1>b, <2>3, <2>4, <2>6 DEF Faithful
<1>4. ASSUME Settle(r) PROVE (Faithful(r))'
  <2>1. /\ turn[r] \in Outcome /\ turn'[r] = "done" /\ outcome'[on[r]] = <<r, turn[r]>> /\ queue' = queue
    BY ONLY <1>4, <1>a DEF Settle, TurnsOK, OutcomesOK
  <2>2. Kind(r) = turn[r] /\ (Kind(r))' = turn[r] /\ r # None
    BY ONLY <1>b, <2>1, ChatAssumption, r \in Request DEF Kind, Outcome, ChatAssumption
  <2>3. outcome'[on'[r]] # None /\ outcome'[on'[r]][1] = r
    <3>1. <<r, turn[r]>> \in Request \X Outcome
      BY ONLY <2>1, r \in Request
    <3>2. <<r, turn[r]>> # None
      BY ONLY <3>1, ChatAssumption DEF ChatAssumption
    <3> QED BY ONLY <1>b, <2>1, <3>2
  <2> HIDE DEF Frames, Kind
  <2> QED BY ONLY <1>b, <2>1, <2>2, <2>3, Faithful(r) DEF Faithful
<1> QED BY <1>1, <1>2, <1>3, <1>4

\* Its own reading: each frame is its turn's, and the terminal one is the last.
LEMMA OwnCollect ==
    ASSUME CInv, NEW r \in Request, Mine(r), Alone(r), Faithful(r), Collect(r)
    PROVE  (Alone(r))' /\ (Faithful(r))'
<1>a. CallsOK /\ QueuesOK /\ on[r] \in Session
  BY TypeParts DEF CInv, Placed, Mine, OneShot
<1>b. UNCHANGED <<current, on, turn, outcome, stream>>
  BY DEF Collect
<1>c. /\ pc[r] = "reading" /\ queue[on[r]] # <<>> /\ queue'[on[r]] = Tail(queue[on[r]])
      /\ \A q \in Request \ {r} : pc'[q] = pc[q]
      /\ IF Head(queue[on[r]])[2] \in Terminal
         THEN pc'[r] = "waiting" /\ waits'[r] = current[on[r]] /\ got' = got
         ELSE pc' = pc /\ got'[r] = got[r] \cup {Head(queue[on[r]])[1]}
  BY ONLY <1>a, Collect(r) DEF Collect, CallsOK, QueuesOK
<1>1. (Alone(r))'
  BY ONLY <1>b, <1>c, Alone(r) DEF Alone, Live, OneShot, Reads
<1>2. (Kind(r))' = Kind(r)
  BY ONLY <1>b DEF Kind
<1>3. <<queue[on[r]], got[r]>> \in Frames(r, Kind(r))
      /\ Kind(r) \in {"running", "spoken", "error", "complete", "interrupted"}
  BY ONLY <1>c, Faithful(r) DEF Faithful
<1> HIDE DEF Kind, Frames
<1>4. \/ /\ Kind(r) \notin {"running", "error"} /\ Head(queue[on[r]]) = <<r, "text">>
         /\ got[r] = {} /\ <<Tail(queue[on[r]]), {r}>> \in Frames(r, Kind(r))
      \/ /\ Kind(r) \notin {"running", "spoken"} /\ Head(queue[on[r]]) = <<r, Kind(r)>>
         /\ got[r] = IF Kind(r) = "error" THEN {} ELSE {r}
  <2> DEFINE q == queue[on[r]]  g == got[r]  k == Kind(r)
  <2>1. k \in {"running", "spoken", "error", "complete", "interrupted"} /\ <<q, g>> \in Frames(r, k) /\ q # <<>>
    BY ONLY <1>c, <1>3
  <2> HIDE DEF q, g, k
  <2>2. \/ /\ k \notin {"running", "error"} /\ Head(q) = <<r, "text">>
           /\ g = {} /\ <<Tail(q), {r}>> \in Frames(r, k)
        \/ /\ k \notin {"running", "spoken"} /\ Head(q) = <<r, k>>
           /\ g = IF k = "error" THEN {} ELSE {r}
    BY <2>1, Heads
  <2> QED BY <2>2 DEF q, g, k
<1>5. ASSUME Kind(r) \notin {"running", "error"}, Head(queue[on[r]]) = <<r, "text">>, got[r] = {},
             <<Tail(queue[on[r]]), {r}>> \in Frames(r, Kind(r))
      PROVE  (Faithful(r))'
  <2>1. pc' = pc /\ got'[r] = {r}
    BY ONLY <1>c, <1>5 DEF Terminal
  <2> QED BY ONLY <1>b, <1>c, <1>2, <1>5, <2>1, Faithful(r) DEF Faithful
<1>6. ASSUME Kind(r) \notin {"running", "spoken"}, Head(queue[on[r]]) = <<r, Kind(r)>>,
             got[r] = IF Kind(r) = "error" THEN {} ELSE {r}
      PROVE  (Faithful(r))'
  <2>1. pc'[r] = "waiting" /\ waits'[r] = r /\ got' = got
    BY ONLY <1>c, <1>3, <1>6, Alone(r) DEF Terminal, Alone
  <2> QED BY ONLY <1>b, <1>2, <1>6, <2>1, Faithful(r) DEF Faithful
<1> QED BY <1>1, <1>4, <1>5, <1>6

\* A one-shot that begins where nothing else is at work.
LEMMA OwnBegins ==
    ASSUME CInv, Owners, Blank, NEW r \in Request, NEW i \in Id, Complete(r, i), (Mine(r))'
    PROVE  (Alone(r))' /\ (Faithful(r))'
<1>a. TurnsOK /\ CallsOK
  BY TypeParts DEF CInv
<1>1. PICK s \in Session : /\ Submit(r, s)
                           /\ foreign' = foreign \cup OneShots(s) \cup (IF Untouched(s) THEN {} ELSE {r})
  BY DEF Complete
<1>2. Untouched(s)
  BY <1>1 DEF Mine
<1>3. /\ turn[r] = "none" /\ pc' = [pc EXCEPT ![r] = "reading"]
      /\ UNCHANGED <<connected, got, waits, stream, queue, outcome>>
      /\ turn' = [CancelCurrent(s) EXCEPT ![r] = "running"]
      /\ on' = [on EXCEPT ![r] = s] /\ current' = [current EXCEPT ![s] = r]
  BY <1>1 DEF Complete, Submit
<1>4. /\ on'[r] = s /\ turn'[r] = "running" /\ pc'[r] = "reading" /\ current'[s] = r
      /\ \A q \in Request \ {r} : /\ on'[q] = on[q] /\ pc'[q] = pc[q]
                                  /\ turn'[q] = (CancelCurrent(s))[q]
  BY ONLY <1>a, <1>3, r \in Request, s \in Session DEF CancelCurrent, TurnsOK, CallsOK
<1>5. (Alone(r))'
  <2>1. ASSUME NEW q \in Request \ {r}, on'[q] = s PROVE ~(Live(q)') /\ ~(OneShot(q)')
    <3>1. ~Live(q) /\ q \notin OneShots(s)
      BY ONLY <1>2, <1>4, <2>1 DEF Untouched
    <3>2. turn'[q] = turn[q]
      BY ONLY <1>4, <2>1, <3>1 DEF CancelCurrent, Live
    <3> QED BY ONLY <1>4, <2>1, <3>1, <3>2 DEF Live, OneShot, OneShots
  <2>2. \A c \in Stream : ~(Reads(c, s)')
    BY ONLY <1>2, <1>3 DEF Untouched, Reads
  <2>3. \A c \in Stream : (~Reads(c, on[r]))'
    BY ONLY <1>4, <2>2 DEF Reads
  <2> QED BY ONLY <1>4, <2>1, <2>3 DEF Alone
<1>6. got[r] = {} /\ queue[s] = <<>>
  <2>1. pc[r] = "none"
    BY ONLY <1>a, <1>3, Owners, r \in Request DEF Owners
  <2> QED BY ONLY <2>1, <1>2, Blank, r \in Request DEF Untouched, Blank
<1>7. (Kind(r))' = "running"
  BY ONLY <1>4 DEF Kind
<1>8. <<queue'[on'[r]], got'[r]>> \in Frames(r, "running")
  <2>1. << <<>>, {} >> \in Frames(r, "running")
    BY ONLY DEF Frames
  <2> QED BY ONLY <1>3, <1>4, <1>6, <2>1
<1> HIDE DEF Kind, Frames
<1>9. (Faithful(r))'
  BY ONLY <1>4, <1>7, <1>8 DEF Faithful
<1> QED BY <1>5, <1>9

LEMMA BlankStep == CInv /\ Blank /\ [Next]_vars => Blank'
<1> SUFFICES ASSUME CInv, Blank, [Next]_vars PROVE Blank'
  OBVIOUS
<1>a. CallsOK
  BY TypeParts DEF CInv
<1>b. ASSUME \A r \in Request : pc'[r] = "none" => pc[r] = "none" /\ got'[r] = got[r] PROVE Blank'
  BY ONLY <1>b, Blank DEF Blank
<1>c. ASSUME UNCHANGED calls PROVE Blank'
  BY ONLY <1>b, <1>c DEF calls
<1>1. ASSUME NEW q \in Request, NEW i \in Id, Chat(q, i) \/ Inject(q, i) \/ Respond(q, i) PROVE UNCHANGED calls
  BY ONLY <1>1 DEF Chat, Inject, Respond
<1>2. ASSUME NEW q \in Request, NEW i \in Id, Complete(q, i) PROVE Blank'
  <2>1. pc' = [pc EXCEPT ![q] = "reading"] /\ got' = got
    BY ONLY <1>2 DEF Complete
  <2> QED BY ONLY <1>a, <1>b, <2>1 DEF CallsOK
<1>3. ASSUME NEW i \in Id, Cancel(i) \/ Delete(i) PROVE UNCHANGED calls
  BY ONLY <1>3 DEF Cancel, Delete
<1>4. ASSUME NEW q \in Request, Speak(q) \/ PushTerminal(q) \/ Settle(q) PROVE UNCHANGED calls
  BY ONLY <1>4 DEF Speak, PushTerminal, Settle
<1>5. ASSUME NEW q \in Request, Collect(q) \/ Answer(q) PROVE Blank'
  <2>1. \A r \in Request : r # q => pc'[r] = pc[r] /\ got'[r] = got[r]
    BY ONLY <1>5, <1>a DEF Collect, Answer, CallsOK
  <2>2. pc'[q] # "none"
    BY ONLY <1>5, <1>a, q \in Request DEF Collect, Answer, CallsOK
  <2> QED BY ONLY <1>b, <2>1, <2>2
<1>6. ASSUME NEW c \in Stream,
             \/ \E i \in Id : Open(c, i)
             \/ Begin(c) \/ Vanish(c) \/ Read(c) \/ Leave(c) \/ Told(c) \/ Close(c)
      PROVE  UNCHANGED calls
  BY ONLY <1>6 DEF Open, Begin, Vanish, Read, Leave, Told, Close
<1>7. ASSUME NEW c \in Stream, StandDown(c) \/ AwaitTurn(c) \/ SleepAgain(c) \/ Reap(c)
      PROVE  UNCHANGED calls
  BY ONLY <1>7 DEF StandDown, AwaitTurn, SleepAgain, Reap, Awake
<1>8. CASE Stop \/ UNCHANGED vars
  BY ONLY <1>8, <1>c DEF Stop, vars
<1> QED BY ONLY [Next]_vars, <1>c, <1>1, <1>2, <1>3, <1>4, <1>5, <1>6, <1>7, <1>8 DEF Next

\* A turn started, cancelled or dropped elsewhere.
LEMMA OwnElsewhere ==
    ASSUME CInv, Owners, NEW r \in Request, Mine(r), Alone(r), Faithful(r),
           NEW s \in Session, s # on[r],
           \/ \E q \in Request \ {r} : /\ Submit(q, s) /\ turn[q] = "none"
                                       /\ \A p \in Request \ {q} : pc'[p] = pc[p]
           \/ /\ turn' \in {turn, CancelCurrent(s)} /\ pc' = pc
              /\ UNCHANGED <<queue, current, outcome, on>>,
           UNCHANGED <<got, waits, stream>>
    PROVE  (Alone(r))' /\ (Faithful(r))'
<1>a. TurnsOK /\ on[r] \in Session
  BY TypeParts DEF CInv, Placed, Mine, OneShot
<1>b. \A c \in Stream : on'[r] = on[r] => ~(Reads(c, on[r])')
  BY DEF Alone, Reads
<1>c. /\ (CancelCurrent(s))[r] = turn[r]
      /\ \A p \in Request \ {r} : on[p] = on[r] => (CancelCurrent(s))[p] = turn[p]
  BY Elsewhere
<1>d. \A p \in Request \ {r} : on[p] = on[r] => ~Live(p) /\ ~OneShot(p)
  BY DEF Alone
<1>1. ASSUME NEW q \in Request \ {r}, Submit(q, s), turn[q] = "none",
             \A p \in Request \ {q} : pc'[p] = pc[p]
      PROVE  (Alone(r))' /\ (Faithful(r))'
  <2>1. /\ turn' = [CancelCurrent(s) EXCEPT ![q] = "running"]
        /\ on' = [on EXCEPT ![q] = s] /\ current' = [current EXCEPT ![s] = q]
        /\ UNCHANGED <<queue, outcome>>
    BY <1>1 DEF Submit
  <2>2. \A p \in Request \ {q} : turn'[p] = (CancelCurrent(s))[p] /\ on'[p] = on[p]
    BY ONLY <2>1, <1>a DEF CancelCurrent, TurnsOK
  <2>3. on'[q] = s /\ current'[on[r]] = current[on[r]]
    BY ONLY <2>1, <1>a, s # on[r], s \in Session, q \in Request DEF TurnsOK
  <2>4. \A p \in Request \ {r} : on'[p] = on[r] => ~(Live(p)') /\ ~(OneShot(p)')
    <3> SUFFICES ASSUME NEW p \in Request \ {r}, on'[p] = on[r] PROVE ~(Live(p)') /\ ~(OneShot(p)')
      OBVIOUS
    <3>1. p # q /\ on[p] = on[r]
      BY ONLY <2>2, <2>3, s # on[r], on'[p] = on[r], p \in Request
    <3>2. turn'[p] = turn[p] /\ pc'[p] = pc[p]
      BY ONLY <1>1, <1>c, <2>2, <3>1, p \in Request \ {r}
    <3> QED BY ONLY <1>d, <3>1, <3>2, p \in Request \ {r} DEF Live, OneShot
  <2>5. turn'[r] = turn[r] /\ on'[r] = on[r] /\ pc'[r] = pc[r]
    BY ONLY <1>1, <1>c, <2>2, r \in Request
  <2> QED BY <1>b, <2>1, <2>3, <2>4, <2>5, Undisturbed
<1>2. ASSUME turn' \in {turn, CancelCurrent(s)}, pc' = pc, UNCHANGED <<queue, current, outcome, on>>
      PROVE  (Alone(r))' /\ (Faithful(r))'
  <2>1. turn'[r] = turn[r] /\ \A p \in Request \ {r} : on[p] = on[r] => turn'[p] = turn[p]
    BY ONLY <1>2, <1>c
  <2>2. \A p \in Request \ {r} : on'[p] = on[r] => ~(Live(p)') /\ ~(OneShot(p)')
    BY ONLY <1>2, <1>d, <2>1 DEF Live, OneShot
  <2> QED BY <1>b, <1>2, <2>1, <2>2, Undisturbed
<1> QED BY <1>1, <1>2

\* What others do at the same time.
LEMMA OwnOthers ==
    ASSUME CInv, Owners, NEW r \in Request, Mine(r), Alone(r), Faithful(r), NEW q \in Request \ {r},
           Speak(q) \/ PushTerminal(q) \/ Settle(q) \/ Collect(q) \/ Answer(q)
    PROVE  (Alone(r))' /\ (Faithful(r))'
<1>a. TurnsOK /\ CallsOK /\ QueuesOK /\ OutcomesOK /\ on[r] \in Session
  BY TypeParts DEF CInv, Placed, Mine, OneShot
<1>b. UNCHANGED <<current, on, stream>>
  BY DEF Speak, PushTerminal, Settle, Collect, Answer, turns
<1>c. \A c \in Stream : ~(Reads(c, on[r])')
  BY ONLY <1>b, Alone(r) DEF Alone, Reads
<1>d. \A p \in Request \ {r} : on[p] = on[r] => ~Live(p) /\ ~OneShot(p)
  BY DEF Alone
<1>1. CASE Speak(q) \/ PushTerminal(q) \/ Settle(q)
  <2>1. Live(q) /\ on[q] # on[r]
    <3>1. Live(q)
      BY ONLY <1>1 DEF Speak, PushTerminal, Settle, Ending, Live, Outcome
    <3> QED BY ONLY <1>d, <3>1, q \in Request \ {r}
  <2>2. \A p \in Request \ {q} : turn'[p] = turn[p]
    BY ONLY <1>1, <1>a DEF Speak, PushTerminal, Settle, TurnsOK
  <2>3. /\ UNCHANGED <<pc, got, waits>>
        /\ queue'[on[r]] = queue[on[r]] /\ outcome'[on[r]] = outcome[on[r]]
    BY ONLY <1>1, <1>a, <2>1 DEF Speak, PushTerminal, Settle, Push, calls, QueuesOK, OutcomesOK
  <2>4. \A p \in Request \ {r} : on'[p] = on[r] => ~(Live(p)') /\ ~(OneShot(p)')
    BY ONLY <1>b, <1>d, <2>1, <2>2, <2>3 DEF Live, OneShot
  <2>5. turn'[r] = turn[r] /\ on'[r] = on[r] /\ pc'[r] = pc[r] /\ got'[r] = got[r] /\ waits'[r] = waits[r]
    BY ONLY <1>b, <2>2, <2>3, r \in Request, q \in Request \ {r}
  <2> QED BY <1>b, <1>c, <2>3, <2>4, <2>5, Undisturbed
<1>2. CASE Collect(q) \/ Answer(q)
  <2>1. OneShot(q) /\ on[q] # on[r]
    <3>1. OneShot(q)
      BY ONLY <1>2 DEF Collect, Answer, OneShot
    <3> QED BY ONLY <1>d, <3>1, q \in Request \ {r}
  <2>2. UNCHANGED <<turn, outcome>>
    BY ONLY <1>2 DEF Collect, Answer, turns
  <2>3. \A p \in Request \ {q} : pc'[p] = pc[p] /\ got'[p] = got[p] /\ waits'[p] = waits[p]
    BY ONLY <1>2, <1>a DEF Collect, Answer, CallsOK
  <2>4. queue'[on[r]] = queue[on[r]]
    BY ONLY <1>2, <1>a, <2>1 DEF Collect, Answer, turns, QueuesOK
  <2>5. \A p \in Request \ {r} : on'[p] = on[r] => ~(Live(p)') /\ ~(OneShot(p)')
    BY ONLY <1>b, <1>d, <2>1, <2>2, <2>3 DEF Live, OneShot
  <2>6. turn'[r] = turn[r] /\ on'[r] = on[r] /\ pc'[r] = pc[r] /\ got'[r] = got[r] /\ waits'[r] = waits[r]
    BY ONLY <1>b, <2>2, <2>3, r \in Request, q \in Request \ {r}
  <2> QED BY <1>b, <1>c, <2>2, <2>4, <2>5, <2>6, Undisturbed
<1> QED BY <1>1, <1>2

\* The streams of other sessions, and the reapers.
LEMMA OwnStreams ==
    ASSUME CInv, NEW r \in Request, Mine(r), (Mine(r))', Alone(r), Faithful(r), NEW c \in Stream,
           \/ \E i \in Id : Open(c, i)
           \/ Begin(c) \/ Vanish(c) \/ Read(c) \/ Leave(c) \/ Told(c) \/ Close(c)
           \/ StandDown(c) \/ AwaitTurn(c) \/ SleepAgain(c) \/ Reap(c)
    PROVE  (Alone(r))' /\ (Faithful(r))'
<1>a. QueuesOK /\ StreamsOK /\ on[r] \in Session
  BY TypeParts DEF CInv, Placed, Mine, OneShot
<1>b. UNCHANGED <<current, on, turn, outcome, pc, got, waits>>
  BY DEF Open, Begin, Vanish, Read, Leave, Told, Close, StandDown, AwaitTurn, SleepAgain, Reap, Awake,
         turns, calls
<1>d. \A p \in Request \ {r} : on'[p] = on[r] => ~(Live(p)') /\ ~(OneShot(p)')
  BY ONLY <1>b, Alone(r) DEF Alone, Live, OneShot
<1>e. \A d \in Stream : ~Reads(d, on[r])
  BY DEF Alone
<1>1. queue'[on[r]] = queue[on[r]]
  <2>1. CASE Read(c)
    <3>1. stream[c].of # on[r]
      BY ONLY <1>e, <2>1, c \in Stream DEF Read, Reads
    <3> QED BY ONLY <1>a, <2>1, <3>1 DEF Read, QueuesOK
  <2>2. CASE ~Read(c)
    BY <2>2 DEF Open, Begin, Vanish, Leave, Told, Close, StandDown, AwaitTurn, SleepAgain, Reap, Awake,
                turns
  <2> QED BY <2>1, <2>2
<1>f. \A d \in Stream : stream[d].at \in {"reading", "leaving"} => stream[d].of # on[r]
  BY ONLY <1>e DEF Reads
<1>2. \A d \in Stream : stream'[d].at \in {"reading", "leaving"} => stream'[d].of # on[r]
  <2>1. CASE Begin(c)
    <3>1. PICK s \in Session : /\ stream' = [stream EXCEPT ![c].at = "reading", ![c].of = s]
                               /\ foreign' = foreign \cup OneShots(s)
      BY ONLY <2>1 DEF Begin
    <3>2. s # on[r]
      BY ONLY <3>1, Mine(r), (Mine(r))', r \in Request DEF Mine, OneShot, OneShots
    <3>3. stream'[c].of = s /\ \A d \in Stream \ {c} : stream'[d] = stream[d]
      BY ONLY <1>a, <3>1, Began, c \in Stream
    <3> QED BY ONLY <1>f, <3>2, <3>3
  <2>2. ASSUME NEW i \in Id, Open(c, i)
        PROVE  \A d \in Stream : stream'[d].at \in {"reading", "leaving"} => stream'[d].of # on[r]
    <3>1. stream' = [stream EXCEPT ![c] = [at |-> "opening", id |-> i, of |-> None]]
      BY ONLY <2>2 DEF Open
    <3>2. stream'[c].at = "opening" /\ \A d \in Stream \ {c} : stream'[d] = stream[d]
      BY ONLY <1>a, <3>1, c \in Stream DEF StreamsOK
    <3> QED BY ONLY <1>f, <3>2
  <2>3. CASE Vanish(c) \/ Leave(c) \/ Told(c) \/ Close(c)
    <3>1. \/ Move(c, "gone")
          \/ Move(c, "leaving") /\ stream[c].at = "reading"
      BY ONLY <2>3 DEF Vanish, Leave, Told, Close
    <3>2. \A d \in Stream : /\ stream'[d].of = stream[d].of
                            /\ stream'[d].at \in {"reading", "leaving"} => stream[d].at \in {"reading", "leaving"}
      <4>1. CASE Move(c, "gone")
        BY ONLY <1>a, <4>1, Moved, c \in Stream
      <4>2. CASE Move(c, "leaving") /\ stream[c].at = "reading"
        BY ONLY <1>a, <4>2, Moved, c \in Stream
      <4> QED BY ONLY <3>1, <4>1, <4>2
    <3> QED BY ONLY <1>f, <3>2
  <2>4. CASE Read(c) \/ StandDown(c) \/ AwaitTurn(c) \/ SleepAgain(c) \/ Reap(c)
    <3>1. stream' = stream
      BY ONLY <2>4 DEF Read, StandDown, AwaitTurn, SleepAgain, Reap, Awake
    <3> QED BY ONLY <1>f, <3>1
  <2> QED BY <2>1, <2>2, <2>3, <2>4
<1>3. \A d \in Stream : ~(Reads(d, on[r])')
  BY ONLY <1>b, <1>2 DEF Reads
<1> QED BY <1>b, <1>d, <1>1, <1>3, Undisturbed

\* Only an answer takes a one-shot from those that something else interfered with.
LEMMA NoLongerForeign ==
    ASSUME [Next]_vars PROVE foreign \subseteq foreign' \cup {q \in Request : Answer(q)}
<1>1. ASSUME NEW q \in Request, NEW i \in Id, Chat(q, i) \/ Inject(q, i) \/ Respond(q, i) \/ Complete(q, i)
      PROVE  foreign \subseteq foreign'
  <2>1. Chat(q, i) \/ Complete(q, i)
    BY ONLY <1>1 DEF Inject, Respond
  <2>2. CASE Chat(q, i)
    BY ONLY <2>2 DEF Chat
  <2>3. CASE Complete(q, i)
    BY ONLY <2>3 DEF Complete
  <2> QED BY ONLY <2>1, <2>2, <2>3
<1>2. ASSUME NEW i \in Id, Cancel(i) \/ Delete(i) PROVE foreign \subseteq foreign'
  BY ONLY <1>2 DEF Cancel, Delete
<1>3. ASSUME NEW q \in Request, Speak(q) \/ PushTerminal(q) \/ Settle(q) \/ Collect(q)
      PROVE  foreign' = foreign
  BY ONLY <1>3 DEF Speak, PushTerminal, Settle, Collect, history
<1>4. ASSUME NEW q \in Request, Answer(q) PROVE foreign \subseteq foreign' \cup {q}
  BY ONLY <1>4 DEF Answer
<1>5. ASSUME NEW c \in Stream, Begin(c) PROVE foreign \subseteq foreign'
  BY ONLY <1>5 DEF Begin
<1>6. ASSUME NEW c \in Stream,
             \/ \E i \in Id : Open(c, i)
             \/ Vanish(c) \/ Read(c) \/ Leave(c) \/ Told(c) \/ Close(c)
      PROVE  foreign' = foreign
  BY ONLY <1>6 DEF Open, Vanish, Read, Leave, Told, Close, history
<1>7. ASSUME NEW c \in Stream, StandDown(c) \/ AwaitTurn(c) \/ SleepAgain(c) \/ Reap(c)
      PROVE  foreign' = foreign
  BY ONLY <1>7 DEF StandDown, AwaitTurn, SleepAgain, Reap, Awake, history
<1>8. ASSUME Stop \/ UNCHANGED vars PROVE foreign' = foreign
  BY ONLY <1>8 DEF Stop, vars, history
<1> QED BY ONLY [Next]_vars, <1>1, <1>2, <1>3, <1>4, <1>5, <1>6, <1>7, <1>8 DEF Next

\* Only a one-shot's own calls move it.
LEMMA CallsUnmoved ==
    ASSUME [Next]_vars, ~(\E q \in Request, i \in Id : Complete(q, i)),
           ~(\E q \in Request : Collect(q) \/ Answer(q))
    PROVE  pc' = pc
<1>1. ASSUME NEW q \in Request, NEW i \in Id, Chat(q, i) \/ Inject(q, i) \/ Respond(q, i) PROVE pc' = pc
  BY ONLY <1>1 DEF Chat, Inject, Respond, calls
<1>2. ASSUME NEW i \in Id, Cancel(i) \/ Delete(i) PROVE pc' = pc
  BY ONLY <1>2 DEF Cancel, Delete, calls
<1>3. ASSUME NEW q \in Request, Speak(q) \/ PushTerminal(q) \/ Settle(q) PROVE pc' = pc
  BY ONLY <1>3 DEF Speak, PushTerminal, Settle, calls
<1>4. ASSUME NEW c \in Stream,
             \/ \E i \in Id : Open(c, i)
             \/ Begin(c) \/ Vanish(c) \/ Read(c) \/ Leave(c) \/ Told(c) \/ Close(c)
      PROVE  pc' = pc
  BY ONLY <1>4 DEF Open, Begin, Vanish, Read, Leave, Told, Close, calls
<1>5. ASSUME NEW c \in Stream, StandDown(c) \/ AwaitTurn(c) \/ SleepAgain(c) \/ Reap(c) PROVE pc' = pc
  BY ONLY <1>5 DEF StandDown, AwaitTurn, SleepAgain, Reap, Awake, calls
<1>6. ASSUME Stop \/ UNCHANGED vars PROVE pc' = pc
  BY ONLY <1>6 DEF Stop, vars, calls
<1> QED
  BY ONLY [Next]_vars, ~(\E q \in Request, i \in Id : Complete(q, i)),
          ~(\E q \in Request : Collect(q) \/ Answer(q)), <1>1, <1>2, <1>3, <1>4, <1>5, <1>6
     DEF Next

LEMMA OwnStep == CInv /\ OInv /\ [Next]_vars => \A r \in Request : (Own(r))'
<1> SUFFICES ASSUME CInv, OInv, [Next]_vars, NEW r \in Request, (Mine(r))'
             PROVE  (Alone(r))' /\ (Faithful(r))'
  BY DEF Own
<1>a. Owners /\ Blank /\ (Mine(r) => Alone(r) /\ Faithful(r))
  BY DEF OInv, Own
<1>b. CallsOK
  BY TypeParts DEF CInv
\* A one-shot that was not one before has just begun.
<1>c. ASSUME ~(\E i \in Id : Complete(r, i)) PROVE Mine(r)
  <2>1. r \notin foreign
    <3>1. foreign \subseteq foreign' \cup {q \in Request : Answer(q)}
      BY NoLongerForeign
    <3>2. ~Answer(r)
      BY ONLY <1>b, (Mine(r))', r \in Request DEF Answer, Mine, OneShot, CallsOK
    <3> QED BY ONLY <3>1, <3>2, (Mine(r))' DEF Mine
  <2>2. OneShot(r)
    <3>1. CASE \E q \in Request, i \in Id : Complete(q, i)
      BY ONLY <1>b, <1>c, <3>1, (Mine(r))', r \in Request DEF Complete, Mine, OneShot, CallsOK
    <3>2. CASE \E q \in Request : Collect(q) \/ Answer(q)
      BY ONLY <1>b, <3>2, (Mine(r))', r \in Request DEF Collect, Answer, Mine, OneShot, CallsOK
    <3>3. CASE ~(\E q \in Request, i \in Id : Complete(q, i)) /\ ~(\E q \in Request : Collect(q) \/ Answer(q))
      <4>1. pc' = pc
        BY <3>3, CallsUnmoved
      <4> QED BY ONLY <4>1, (Mine(r))' DEF Mine, OneShot
    <3> QED BY ONLY <3>1, <3>2, <3>3
  <2> QED BY ONLY <2>1, <2>2 DEF Mine
<1>d. Mine(r) => turn[r] # "none" /\ OneShot(r)
  BY ONLY <1>a, r \in Request DEF Owners, Mine, OneShot
<1>e. ASSUME NEW s, OneShots(s) \subseteq foreign', Mine(r) PROVE s # on[r]
  BY ONLY <1>e, (Mine(r))', r \in Request DEF OneShots, Mine, OneShot
<1>1. ASSUME NEW i \in Id, Complete(r, i) PROVE (Alone(r))' /\ (Faithful(r))'
  BY <1>1, <1>a, OwnBegins
<1>2. ASSUME NEW q \in Request, NEW i \in Id, Chat(q, i) \/ Complete(q, i), Mine(r)
      PROVE  (Alone(r))' /\ (Faithful(r))'
  <2>1. turn[q] = "none" /\ q # r /\ UNCHANGED <<got, waits, stream>>
    BY ONLY <1>2, <1>d DEF Chat, Complete, calls
  <2>2. PICK s \in Session : Submit(q, s) /\ OneShots(s) \subseteq foreign'
    <3>1. CASE Chat(q, i)
      <4>1. named[i] \in Session
        BY <3>1, NamedIsSession DEF Chat, CInv
      <4> QED BY ONLY <3>1, <4>1 DEF Chat
    <3>2. CASE Complete(q, i)
      BY ONLY <3>2 DEF Complete
    <3> QED BY ONLY <1>2, <3>1, <3>2
  <2>3. \A p \in Request \ {q} : pc'[p] = pc[p]
    BY ONLY <1>2, <1>b DEF Chat, Complete, calls, CallsOK
  <2>4. s # on[r]
    BY ONLY <1>2, <1>e, <2>2
  <2> QED BY <1>2, <1>a, <2>1, <2>2, <2>3, <2>4, OwnElsewhere
<1>3. ASSUME NEW i \in Id, Cancel(i) \/ Delete(i), Mine(r) PROVE (Alone(r))' /\ (Faithful(r))'
  <2>1. named[i] \in Session
    BY <1>3, NamedIsSession DEF Cancel, Delete, CInv
  <2>2. /\ turn' \in {turn, CancelCurrent(named[i])} /\ pc' = pc
        /\ UNCHANGED <<queue, current, outcome, on>> /\ UNCHANGED <<got, waits, stream>>
        /\ OneShots(named[i]) \subseteq foreign'
    BY ONLY <1>3 DEF Cancel, Delete, calls
  <2>3. named[i] # on[r]
    BY ONLY <1>3, <1>e, <2>2
  <2> QED BY <1>3, <1>a, <2>1, <2>2, <2>3, OwnElsewhere
<1>4. ASSUME NEW q \in Request, Speak(q) \/ PushTerminal(q) \/ Settle(q) \/ Collect(q) \/ Answer(q), Mine(r)
      PROVE  (Alone(r))' /\ (Faithful(r))'
  <2>1. ~Answer(r)
    BY ONLY <1>b, (Mine(r))', r \in Request DEF Answer, Mine, OneShot, CallsOK
  <2>2. CASE q = r /\ Collect(q)
    BY <1>4, <1>a, <2>2, OwnCollect
  <2>3. CASE q = r /\ ~Collect(q)
    BY <1>4, <1>a, <2>1, <2>3, OwnTurn
  <2>4. CASE q # r
    BY <1>4, <1>a, <2>4, OwnOthers
  <2> QED BY <2>2, <2>3, <2>4
<1>5. ASSUME NEW c \in Stream, Mine(r),
             \/ \E i \in Id : Open(c, i)
             \/ Begin(c) \/ Vanish(c) \/ Read(c) \/ Leave(c) \/ Told(c) \/ Close(c)
             \/ StandDown(c) \/ AwaitTurn(c) \/ SleepAgain(c) \/ Reap(c)
      PROVE  (Alone(r))' /\ (Faithful(r))'
  BY <1>5, <1>a, OwnStreams
<1>6. ASSUME Stop \/ UNCHANGED vars, Mine(r) PROVE (Alone(r))' /\ (Faithful(r))'
  <2>1. UNCHANGED <<current, on, turn, outcome, queue, pc, got, waits, stream>>
    BY ONLY <1>6 DEF Stop, vars, turns, calls
  <2>2. Alone(r) /\ Faithful(r)
    BY ONLY <1>6, <1>a
  <2>3. \A p \in Request \ {r} : on'[p] = on[r] => ~(Live(p)') /\ ~(OneShot(p)')
    BY ONLY <2>1, <2>2 DEF Alone, Live, OneShot
  <2>4. \A d \in Stream : ~(Reads(d, on[r])')
    BY ONLY <2>1, <2>2 DEF Alone, Reads
  <2> QED BY <2>1, <2>2, <2>3, <2>4, Undisturbed
<1>7. CASE \E i \in Id : Complete(r, i)
  BY <1>1, <1>7
<1>8. CASE ~(\E i \in Id : Complete(r, i))
  <2>1. Mine(r)
    BY <1>8, <1>c
  <2> QED BY ONLY [Next]_vars, <2>1, <1>2, <1>3, <1>4, <1>5, <1>6 DEF Next, Inject, Respond
<1> QED BY <1>7, <1>8

THEOREM OneShotInvariance == Spec => []OInv
<1>1. CInv /\ OInv /\ [Next]_vars => OInv'
  <2> SUFFICES ASSUME CInv, OInv, [Next]_vars PROVE OInv'
    OBVIOUS
  <2>1. Owners /\ Blank
    BY DEF OInv
  <2>2. Owners'
    BY <2>1, OwnersStep
  <2>3. Blank'
    BY <2>1, BlankStep
  <2> QED BY <2>2, <2>3, OwnStep DEF OInv
<1> QED BY <1>1, OInvInit, Invariance, PTL DEF Spec

\* A one-shot that nothing interfered with answers with the outcome and the whole text of its
\* own turn, for any number of sessions, streams and requests at once.
THEOREM OneShotsReturnTheirOwn == Spec => OwnReply
<1>1. CInv /\ OInv /\ [Next]_vars =>
        [\A r \in Request \ foreign : pc[r] = "waiting" /\ pc'[r] = "answered" =>
            LET result == outcome[on[r]]
            IN /\ result # None /\ result[1] = r
               /\ got[r] = (IF result[2] \in {"complete", "interrupted"} THEN {r} ELSE {})]_vars
  <2> SUFFICES ASSUME CInv, OInv, Next, NEW r \in Request \ foreign, pc[r] = "waiting", pc'[r] = "answered"
               PROVE  /\ outcome[on[r]] # None /\ outcome[on[r]][1] = r
                      /\ got[r] = (IF outcome[on[r]][2] \in {"complete", "interrupted"} THEN {r} ELSE {})
    OBVIOUS
  <2>a. CallsOK /\ turn[r] # "none"
    BY TypeParts DEF CInv, OInv, Owners
  <2>1. Faithful(r)
    BY DEF OInv, Own, Mine, OneShot
  <2>2. Answer(r)
    <3>1. CASE \E q \in Request, i \in Id : Complete(q, i)
      BY ONLY <2>a, <3>1, pc[r] = "waiting", pc'[r] = "answered", r \in Request DEF Complete, CallsOK
    <3>2. CASE \E q \in Request : Collect(q) \/ Answer(q)
      BY ONLY <2>a, <3>2, pc[r] = "waiting", pc'[r] = "answered", r \in Request
         DEF Collect, Answer, CallsOK
    <3>3. CASE ~(\E q \in Request, i \in Id : Complete(q, i)) /\ ~(\E q \in Request : Collect(q) \/ Answer(q))
      <4>1. pc' = pc
        BY <3>3, CallsUnmoved
      <4> QED BY <4>1
    <3> QED BY ONLY <3>1, <3>2, <3>3
  <2>3. waits[r] = r /\ turn[r] = "done"
    BY ONLY <2>a, <2>1, <2>2, pc[r] = "waiting" DEF Faithful, Answer, Done, Live
  <2>4. Kind(r) = outcome[on[r]][2]
    BY ONLY <2>3 DEF Kind
  <2> HIDE DEF Kind, Frames
  <2> QED BY ONLY <2>1, <2>3, <2>4, pc[r] = "waiting" DEF Faithful
<1> QED BY <1>1, OneShotInvariance, Invariance, PTL DEF Spec, OwnReply
=============================================================================

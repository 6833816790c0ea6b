-------------------------- MODULE AgentStreamProofs --------------------------
(***************************************************************************)
(* For any number of tool calls, sessions, frames, requests and lost       *)
(* connections: the timeline is what the page was told, each card shows    *)
(* its own call, and a turn that waits for approval can be answered.       *)
(***************************************************************************)
EXTENDS AgentStream, SequenceTheorems, WellFoundedInduction, TLAPS

----------------------------------------------------------------------------
\* Induction up to a bound, over a set instead of a predicate.

LEMMA LessIsWellFounded == IsWellFoundedOn({ss \in Nat \X Nat : ss[1] < ss[2]}, Nat)
BY Zenon, NatLessThanWellFounded DEF OpToRel

LEMMA Least == ASSUME NEW S \in SUBSET Nat, S # {} PROVE \E m \in S : \A k \in S : m <= k
<1> DEFINE R == {ss \in Nat \X Nat : ss[1] < ss[2]}
<1>1. IsWellFoundedOn(R, Nat)
  BY LessIsWellFounded
<1>2. PICK m \in S : \A k \in S : ~(<<k, m>> \in R)
  <2> HIDE DEF R
  <2> QED BY <1>1, WFMin
<1>3. \A k \in S : ~(k < m)
  BY <1>2
<1> QED BY <1>3

LEMMA UpTo ==
    ASSUME NEW N \in Nat, NEW S, 0 \in S, \A n \in 1..N : n - 1 \in S => n \in S
    PROVE  \A n \in 0..N : n \in S
<1> SUFFICES ASSUME {n \in 0..N : n \notin S} # {} PROVE FALSE
  OBVIOUS
<1>1. {n \in 0..N : n \notin S} \in SUBSET Nat
  OBVIOUS
<1>2. PICK m \in {n \in 0..N : n \notin S} : \A k \in {n \in 0..N : n \notin S} : m <= k
  BY <1>1, Least
<1>3. m \in 1..N
  BY <1>2
<1>4. m - 1 \in S
  BY <1>2, <1>3
<1> QED BY <1>2, <1>3, <1>4

----------------------------------------------------------------------------
\* What a timeline is made of.

\* The pieces that frames bring, and with the announced calls what a reader sees.
Spoken == {"text", "error", "cancelled", "injected"} \X Nat
Point  == Spoken \cup {"call"} \X Call

CardType == [id : Call, done : BOOLEAN, extraction : Call \cup {None}]
Message ==
    {m \in [role : {"user", "assistant", "system"}, think : Seq(Spoken),
            text : Seq(Spoken) \cup {<<Own>>}, calls : Seq(CardType), live : BOOLEAN] :
        m.live => m.text # <<Own>>}

\* The page's own piece comes from no frame.
LEMMA SpokenIsNotOwn == ASSUME NEW s \in Seq(Spoken) PROVE s # <<Own>>
<1> SUFFICES ASSUME s = <<Own>> PROVE FALSE
  OBVIOUS
<1>1. Own \in Spoken
  <2>1. s[1] \in Spoken /\ s[1] = Own
    OBVIOUS
  <2> QED BY <2>1
<1> QED BY <1>1 DEF Own, Spoken

LEMMA OwnIsNotSpoken == Own \notin Spoken /\ Spoken \cap ({"call"} \X Call) = {}
BY DEF Own, Spoken

LEMMA Regroup ==
    ASSUME NEW p \in Seq(Point), NEW q \in Seq(Point), NEW r \in Seq(Point)
    PROVE  p \o (q \o r) = (p \o q) \o r
<1> DEFINE S == Point
<1>1. p \in Seq(S) /\ q \in Seq(S) /\ r \in Seq(S)
  OBVIOUS
<1> HIDE DEF S
<1> QED BY ONLY <1>1, ConcatAssociative, SMTT(20)

LEMMA RegroupSpoken ==
    ASSUME NEW p \in Seq(Spoken), NEW q \in Seq(Spoken), NEW r \in Seq(Spoken)
    PROVE  p \o (q \o r) = (p \o q) \o r
<1> DEFINE S == Spoken
<1>1. p \in Seq(S) /\ q \in Seq(S) /\ r \in Seq(S)
  OBVIOUS
<1> HIDE DEF S
<1> QED BY ONLY <1>1, ConcatAssociative, SMTT(20)

LEMMA ShownInIsASeq == ASSUME NEW m \in Message PROVE ShownIn(m) \in Seq(Point)
<1>1. m.think \in Seq(Point)
  BY DEF Message, Point
<1>2. (IF m.text = <<Own>> THEN <<>> ELSE m.text) \in Seq(Point)
  BY DEF Message, Point
<1>3. [n \in DOMAIN m.calls |-> <<"call", m.calls[n].id>>] \in Seq(Point)
  <2>1. m.calls \in Seq(CardType)
    BY DEF Message
  <2>2. \A n \in 1..Len(m.calls) : <<"call", m.calls[n].id>> \in Point
    <3> SUFFICES ASSUME NEW n \in 1..Len(m.calls)
                 PROVE  <<"call", m.calls[n].id>> \in Point
      OBVIOUS
    <3>1. m.calls[n] \in CardType
      BY <2>1
    <3>2. m.calls[n].id \in Call
      BY ONLY <3>1 DEF CardType
    <3> QED BY ONLY <3>2 DEF Point
  <2> QED BY <2>1, <2>2
<1> QED BY <1>1, <1>2, <1>3, ConcatProperties DEF ShownIn

\* ShownTo is the function its recursive definition describes.
LEMMA ShownSteps ==
    ASSUME NEW ms, Len(ms) \in Nat
    PROVE  /\ ShownTo(ms)[0] = <<>>
           /\ \A n \in 1..Len(ms) : ShownTo(ms)[n] = ShownTo(ms)[n - 1] \o ShownIn(ms[n])
<1> DEFINE A(p, n) == p \o ShownIn(ms[n])
           E(g, k) == g = [n \in 0..k |-> IF n = 0 THEN <<>> ELSE A(g[n - 1], n)]
           S == {k \in 0..Len(ms) : \E g : E(g, k)}
<1> HIDE DEF A
<1>1. 0 \in S
  <2>1. E([n \in 0..0 |-> <<>>], 0)
    OBVIOUS
  <2> HIDE DEF E
  <2>2. \E g : E(g, 0)
    BY ONLY <2>1, Zenon
  <2> QED BY <2>2
<1>2. ASSUME NEW k \in 1..Len(ms), k - 1 \in S PROVE k \in S
  <2>1. PICK g0 : E(g0, k - 1)
    BY <1>2
  <2> DEFINE h == [n \in 0..k |-> IF n = k THEN A(g0[k - 1], k) ELSE g0[n]]
  <2>2. \A n \in 0..k : h[n] = IF n = 0 THEN <<>> ELSE A(h[n - 1], n)
    <3> SUFFICES ASSUME NEW n \in 0..k
                 PROVE  h[n] = IF n = 0 THEN <<>> ELSE A(h[n - 1], n)
      OBVIOUS
    <3>1. CASE n = k
      BY <3>1
    <3>2. CASE n # k
      <4>1. n \in 0..(k - 1) /\ h[n] = g0[n]
        BY <3>2
      <4>2. n # 0 => h[n - 1] = g0[n - 1]
        BY <4>1
      <4>3. g0[n] = IF n = 0 THEN <<>> ELSE A(g0[n - 1], n)
        BY <2>1, <4>1
      <4> QED BY <4>1, <4>2, <4>3
    <3> QED BY <3>1, <3>2
  <2>3. E(h, k)
    BY <2>2
  <2> HIDE DEF E, h
  <2>4. \E g : E(g, k)
    BY ONLY <2>3, Zenon
  <2> QED BY <2>4
<1> HIDE DEF S
<1>3. Len(ms) \in S
  <2>1. \A k \in 0..Len(ms) : k \in S
    BY <1>1, <1>2, UpTo, Zenon
  <2> QED BY <2>1
<1>4. \E g : E(g, Len(ms))
  BY <1>3 DEF S
<1>5. E(ShownTo(ms), Len(ms))
  BY <1>4, Zenon DEF ShownTo, A
<1>6. /\ ShownTo(ms)[0] = <<>>
      /\ \A n \in 1..Len(ms) : ShownTo(ms)[n] = A(ShownTo(ms)[n - 1], n)
  BY <1>5
<1> QED BY <1>6 DEF A

LEMMA ShownIsASeq ==
    ASSUME NEW ms \in Seq(Message) PROVE \A n \in 0..Len(ms) : ShownTo(ms)[n] \in Seq(Point)
<1> DEFINE S == {n \in 0..Len(ms) : ShownTo(ms)[n] \in Seq(Point)}
<1>l. Len(ms) \in Nat
  OBVIOUS
<1>1. 0 \in S
  <2>1. ShownTo(ms)[0] = <<>>
    BY <1>l, ShownSteps
  <2>2. <<>> \in Seq(Point) /\ 0 \in 0..Len(ms)
    BY <1>l
  <2> QED BY <2>1, <2>2
<1>2. ASSUME NEW n \in 1..Len(ms), n - 1 \in S PROVE n \in S
  <2>1. ShownTo(ms)[n] = ShownTo(ms)[n - 1] \o ShownIn(ms[n])
    BY <1>l, ShownSteps
  <2>2. ShownTo(ms)[n - 1] \in Seq(Point) /\ ShownIn(ms[n]) \in Seq(Point)
    BY <1>2, ShownInIsASeq
  <2>3. ShownTo(ms)[n] \in Seq(Point)
    BY ONLY <2>1, <2>2, ConcatProperties
  <2> QED BY <2>3
<1> HIDE DEF S
<1>3. \A n \in 0..Len(ms) : n \in S
  BY <1>l, <1>1, <1>2, UpTo, Zenon
<1> QED BY <1>3 DEF S

LEMMA ShownPoints == ASSUME NEW ms \in Seq(Message) PROVE Shown(ms) \in Seq(Point)
<1>1. Len(ms) \in 0..Len(ms)
  OBVIOUS
<1> QED BY <1>1, ShownIsASeq DEF Shown

LEMMA Appended ==
    ASSUME NEW p \in Seq(Spoken), NEW x \in Spoken
    PROVE  /\ Append(p, x) = p \o <<x>> /\ Append(p, x) \in Seq(Spoken)
           /\ <<x>> \in Seq(Spoken) /\ <<x>> \in Seq(Point) /\ p \in Seq(Point)
<1>1. <<x>> \in Seq(Spoken) /\ Append(p, x) = p \o <<x>> /\ Append(p, x) \in Seq(Spoken)
  OBVIOUS
<1>2. <<x>> \in Seq(Point) /\ p \in Seq(Point)
  BY <1>1 DEF Point
<1> QED BY <1>1, <1>2

\* Messages that show the same make timelines that show the same.
LEMMA ShownAlike ==
    ASSUME NEW a \in Seq(Message), NEW b \in Seq(Message), NEW N \in Nat,
           N <= Len(a), N <= Len(b), \A n \in 1..N : ShownIn(a[n]) = ShownIn(b[n])
    PROVE  ShownTo(a)[N] = ShownTo(b)[N]
<1> DEFINE S == {n \in 0..N : ShownTo(a)[n] = ShownTo(b)[n]}
<1>l. Len(a) \in Nat /\ Len(b) \in Nat
  OBVIOUS
<1>1. 0 \in S
  <2>1. ShownTo(a)[0] = <<>> /\ ShownTo(b)[0] = <<>>
    BY <1>l, ShownSteps
  <2> QED BY <2>1
<1>2. ASSUME NEW n \in 1..N, n - 1 \in S PROVE n \in S
  <2>1. n \in 1..Len(a) /\ n \in 1..Len(b) /\ Len(a) \in Nat /\ Len(b) \in Nat
    OBVIOUS
  <2>2. /\ ShownTo(a)[n] = ShownTo(a)[n - 1] \o ShownIn(a[n])
        /\ ShownTo(b)[n] = ShownTo(b)[n - 1] \o ShownIn(b[n])
    BY <2>1, ShownSteps
  <2>3. ShownIn(a[n]) = ShownIn(b[n]) /\ ShownTo(a)[n - 1] = ShownTo(b)[n - 1]
    BY <1>2
  <2>4. ShownTo(a)[n] = ShownTo(b)[n]
    BY ONLY <2>2, <2>3
  <2> QED BY <2>4
<1> HIDE DEF S
<1>3. \A n \in 0..N : n \in S
  BY <1>1, <1>2, UpTo, Zenon
<1> QED BY <1>3 DEF S

LEMMA ShownSame ==
    ASSUME NEW a \in Seq(Message), NEW b \in Seq(Message), Len(b) = Len(a),
           \A n \in 1..Len(a) : ShownIn(b[n]) = ShownIn(a[n])
    PROVE  Shown(b) = Shown(a)
<1>1. ShownTo(b)[Len(a)] = ShownTo(a)[Len(a)]
  BY ShownAlike
<1> QED BY <1>1 DEF Shown

\* A message at the end is shown at the end.
LEMMA ShownAppend ==
    ASSUME NEW ms \in Seq(Message), NEW m \in Message
    PROVE  Shown(Append(ms, m)) = Shown(ms) \o ShownIn(m)
<1> DEFINE b == Append(ms, m)
<1>1. /\ b \in Seq(Message) /\ Len(b) = Len(ms) + 1 /\ b[Len(ms) + 1] = m
      /\ \A n \in 1..Len(ms) : b[n] = ms[n]
  BY AppendProperties
<1>2. Len(ms) \in Nat
  OBVIOUS
<1> HIDE DEF b
<1>3. ShownTo(b)[Len(ms)] = ShownTo(ms)[Len(ms)]
  BY <1>1, <1>2, ShownAlike
<1>4. ShownTo(b)[Len(ms) + 1] = ShownTo(b)[Len(ms)] \o ShownIn(m)
  <2>1. Len(ms) + 1 \in 1..Len(b) /\ Len(b) \in Nat /\ (Len(ms) + 1) - 1 = Len(ms)
    BY <1>1, <1>2
  <2>2. ShownTo(b)[Len(ms) + 1] = ShownTo(b)[(Len(ms) + 1) - 1] \o ShownIn(b[Len(ms) + 1])
    BY <2>1, ShownSteps
  <2> QED BY <2>1, <2>2, <1>1
<1> QED BY <1>1, <1>3, <1>4 DEF Shown, b

\* So is what is added to the last message.
LEMMA ShownGrows ==
    ASSUME NEW a \in Seq(Message), NEW b \in Seq(Message), a # <<>>, Len(b) = Len(a),
           \A n \in 1..(Len(a) - 1) : b[n] = a[n], NEW t \in Seq(Point),
           ShownIn(b[Len(a)]) = ShownIn(a[Len(a)]) \o t
    PROVE  Shown(b) = Shown(a) \o t
<1> DEFINE N == Len(a)
<1>1. N \in Nat /\ N - 1 \in Nat /\ N \in 1..N
  <2>1. N \in Nat /\ N # 0
    OBVIOUS
  <2> QED BY <2>1
<1>2. ShownTo(b)[N - 1] = ShownTo(a)[N - 1]
  <2>1. N - 1 <= Len(a) /\ N - 1 <= Len(b)
    BY <1>1
  <2>2. \A n \in 1..(N - 1) : ShownIn(b[n]) = ShownIn(a[n])
    OBVIOUS
  <2> HIDE DEF N
  <2> QED BY <1>1, <2>1, <2>2, ShownAlike
<1>3. /\ ShownTo(b)[N] = ShownTo(b)[N - 1] \o ShownIn(b[N])
      /\ ShownTo(a)[N] = ShownTo(a)[N - 1] \o ShownIn(a[N])
  BY <1>1, ShownSteps
<1>4. ShownTo(a)[N - 1] \in Seq(Point) /\ ShownIn(a[N]) \in Seq(Point)
  <2>1. a[N] \in Message /\ N - 1 \in 0..Len(a)
    BY <1>1
  <2> QED BY <2>1, ShownIsASeq, ShownInIsASeq
<1>5. ShownTo(a)[N - 1] \o (ShownIn(a[N]) \o t) = (ShownTo(a)[N - 1] \o ShownIn(a[N])) \o t
  <2> DEFINE p == ShownTo(a)[N - 1]
             q == ShownIn(a[N])
  <2>1. p \in Seq(Point) /\ q \in Seq(Point)
    BY <1>4
  <2> HIDE DEF p, q
  <2>2. p \o (q \o t) = (p \o q) \o t
    BY <2>1, Regroup
  <2> QED BY <2>2 DEF p, q
<1> QED BY <1>2, <1>3, <1>5 DEF Shown

----------------------------------------------------------------------------
\* What each frame makes of the timeline, as a reader sees it and as to the cards in it.

SameCards(b, a) == CardsIn(b) = CardsIn(a) /\ \A at \in CardsIn(a) : CardAt(b, at) = CardAt(a, at)

LEMMA CardsAppend ==
    ASSUME NEW ms \in Seq(Message), NEW m \in Message, m.calls = <<>>
    PROVE  SameCards(Append(ms, m), ms)
<1> DEFINE b == Append(ms, m)
<1>1. DOMAIN b = 1..(Len(ms) + 1) /\ DOMAIN ms = 1..Len(ms) /\ Len(ms) \in Nat
  BY AppendProperties
<1>2. b[Len(ms) + 1].calls = <<>> /\ \A n \in 1..Len(ms) : b[n] = ms[n]
  BY AppendProperties
<1> HIDE DEF b
<1>3. CardsIn(b) = CardsIn(ms)
  <2>1. DOMAIN b[Len(ms) + 1].calls = {}
    BY <1>2
  <2>2. \A at : at \in CardsIn(b) <=> at \in CardsIn(ms)
    BY <1>1, <1>2, <2>1 DEF CardsIn
  <2> QED BY <2>2
<1>4. \A at \in CardsIn(ms) : CardAt(b, at) = CardAt(ms, at)
  BY <1>1, <1>2 DEF CardsIn, CardAt
<1> QED BY <1>3, <1>4 DEF SameCards, b

LEMMA CardsKept ==
    ASSUME NEW a \in Seq(Message), NEW b \in Seq(Message), Len(b) = Len(a),
           \A n \in 1..Len(a) : b[n].calls = a[n].calls
    PROVE  SameCards(b, a)
<1>1. DOMAIN b = 1..Len(a) /\ DOMAIN a = 1..Len(a)
  OBVIOUS
<1>2. CardsIn(b) = CardsIn(a)
  BY <1>1 DEF CardsIn
<1>3. \A at \in CardsIn(a) : CardAt(b, at) = CardAt(a, at)
  BY <1>1 DEF CardsIn, CardAt
<1> QED BY <1>2, <1>3 DEF SameCards

LEMMA NoCallsShown ==
    ASSUME NEW m \in Message, m.calls = <<>>, m.text # <<Own>>
    PROVE  ShownIn(m) = m.think \o m.text
<1>1. [n \in DOMAIN m.calls |-> <<"call", m.calls[n].id>>] = <<>>
  BY DEF Message
<1>2. m.think \in Seq(Spoken) /\ m.text \in Seq(Spoken)
  BY DEF Message
<1>3. m.think \o m.text \in Seq(Spoken)
  BY <1>2, ConcatProperties
<1>4. (m.think \o m.text) \o <<>> = m.think \o m.text
  BY <1>3, ConcatEmptySeq
<1> QED BY <1>1, <1>4 DEF ShownIn

\* What a message with new contents shows.
LEMMA BubbleShows ==
    ASSUME NEW r \in {"user", "assistant", "system"}, NEW x \in Spoken
    PROVE  Bubble(r, <<x>>) \in Message /\ ShownIn(Bubble(r, <<x>>)) = <<x>>
<1>1. <<x>> # <<Own>>
  BY OwnIsNotSpoken
<1>2. Bubble(r, <<x>>) \in Message
  BY DEF Message, Bubble
<1>3. ShownIn(Bubble(r, <<x>>)) = <<>> \o <<x>>
  BY <1>1, <1>2, NoCallsShown DEF Bubble
<1>4. <<x>> \in Seq(Spoken)
  OBVIOUS
<1> QED BY <1>2, <1>3, <1>4, ConcatEmptySeq

LEMMA OwnShows ==
    ASSUME NEW r \in {"user", "assistant", "system"}
    PROVE  Bubble(r, <<Own>>) \in Message /\ ShownIn(Bubble(r, <<Own>>)) = <<>>
<1>1. Bubble(r, <<Own>>) \in Message
  BY DEF Message, Bubble
<1>2. [n \in DOMAIN Bubble(r, <<Own>>).calls |-> <<"call", Bubble(r, <<Own>>).calls[n].id>>] = <<>>
  BY DEF Bubble
<1>3. ShownIn(Bubble(r, <<Own>>)) = (<<>> \o <<>>) \o <<>>
  BY <1>2 DEF ShownIn, Bubble
<1> QED BY <1>1, <1>3

LEMMA ReplyShows ==
    ASSUME NEW h \in Seq(Spoken), NEW t \in Seq(Spoken)
    PROVE  Reply(h, t, <<>>) \in Message /\ ShownIn(Reply(h, t, <<>>)) = h \o t
<1> DEFINE m == Reply(h, t, <<>>)
<1>1. t # <<Own>>
  BY SpokenIsNotOwn
<1>2. m.think = h /\ m.text = t /\ m.calls = <<>>
  BY DEF Reply
<1>3. m \in Message
  <2>1. <<>> \in Seq(CardType)
    OBVIOUS
  <2>2. m \in [role : {"user", "assistant", "system"}, think : Seq(Spoken),
               text : Seq(Spoken) \cup {<<Own>>}, calls : Seq(CardType), live : BOOLEAN]
    BY <2>1 DEF Reply
  <2> HIDE DEF m
  <2> QED BY <1>1, <1>2, <2>2 DEF Message
<1> HIDE DEF m
<1>4. ShownIn(m) = h \o t
  BY <1>1, <1>2, <1>3, NoCallsShown
<1> QED BY <1>3, <1>4 DEF m

\* A reply that takes text is the last message; with more text it shows more.
LEMMA TextShows ==
    ASSUME NEW ms \in Seq(Message), NEW t \in Seq(Spoken)
    PROVE  /\ AddText(ms, t) \in Seq(Message) /\ SameCards(AddText(ms, t), ms)
           /\ Shown(AddText(ms, t)) = Shown(ms) \o t
<1>s. Shown(ms) \in Seq(Point)
  BY ShownPoints
<1>1. CASE t = <<>>
  <2>1. AddText(ms, t) = ms
    BY <1>1 DEF AddText
  <2>2. Shown(ms) \o t = Shown(ms)
    BY <1>1, <1>s, ConcatEmptySeq
  <2> QED BY <2>1, <2>2 DEF SameCards
<1>2. CASE t # <<>> /\ TakesText(ms)
  <2> DEFINE m == ms[Len(ms)]
             b == [ms EXCEPT ![Len(ms)] = [m EXCEPT !.text = m.text \o t]]
  <2>1. ms # <<>> /\ Len(ms) \in DOMAIN ms /\ m \in Message /\ m.live /\ m.calls = <<>>
    BY <1>2 DEF TakesText, Last
  <2>2. m.text \in Seq(Spoken) /\ m.think \in Seq(Spoken)
    BY <2>1 DEF Message
  <2>3. m.text \o t \in Seq(Spoken)
    BY <2>2, ConcatProperties
  <2>4. m.text # <<Own>> /\ m.text \o t # <<Own>>
    BY <2>2, <2>3, SpokenIsNotOwn
  <2>5. [m EXCEPT !.text = m.text \o t] \in Message
    BY <2>1, <2>3, <2>4 DEF Message
  <2>6. ShownIn([m EXCEPT !.text = m.text \o t]) = m.think \o (m.text \o t)
    BY <2>1, <2>4, <2>5, NoCallsShown DEF Message
  <2>7. ShownIn(m) = m.think \o m.text
    BY <2>1, <2>4, NoCallsShown
  <2>8. m.think \o (m.text \o t) = (m.think \o m.text) \o t
    BY <2>2, RegroupSpoken
  <2>9. AddText(ms, t) = b
    BY <1>2 DEF AddText
  <2>10. /\ b \in Seq(Message) /\ Len(b) = Len(ms)
         /\ b[Len(ms)] = [m EXCEPT !.text = m.text \o t]
         /\ \A n \in 1..(Len(ms) - 1) : b[n] = ms[n]
    BY <2>1, <2>5
  <2>11. t \in Seq(Point)
    BY DEF Point
  <2>12. \A n \in 1..Len(ms) : b[n].calls = ms[n].calls
    BY <2>1, <2>10 DEF Message
  <2> HIDE DEF b
  <2>13. SameCards(b, ms)
    BY <2>10, <2>12, CardsKept
  <2>14. Shown(b) = Shown(ms) \o t
    <3>1. ShownIn(b[Len(ms)]) = ShownIn(ms[Len(ms)]) \o t
      BY <2>6, <2>7, <2>8, <2>10
    <3> QED BY <2>1, <2>10, <2>11, <3>1, ShownGrows
  <2> QED BY <2>9, <2>10, <2>13, <2>14
<1>3. CASE t # <<>> /\ ~TakesText(ms)
  <2> DEFINE m == Reply(<<>>, t, <<>>)
  <2>1. AddText(ms, t) = Append(ms, m)
    BY <1>3 DEF AddText
  <2>2. m \in Message /\ ShownIn(m) = <<>> \o t /\ m.calls = <<>>
    <3>1. <<>> \in Seq(Spoken)
      OBVIOUS
    <3>2. m.calls = <<>>
      BY DEF Reply
    <3> QED BY <3>1, <3>2, ReplyShows
  <2>3. ShownIn(m) = t
    BY <2>2, ConcatEmptySeq
  <2> HIDE DEF m
  <2>4. Append(ms, m) \in Seq(Message)
    BY <2>2, AppendProperties
  <2>5. Shown(Append(ms, m)) = Shown(ms) \o t
    BY <2>2, <2>3, ShownAppend
  <2>6. SameCards(Append(ms, m), ms)
    BY <2>2, CardsAppend
  <2> QED BY <2>1, <2>4, <2>5, <2>6
<1> QED BY <1>1, <1>2, <1>3

\* Reasoning goes to a reply without text or calls.
LEMMA ThoughtShows ==
    ASSUME NEW ms \in Seq(Message), NEW t \in Seq(Spoken)
    PROVE  /\ AddThought(ms, t) \in Seq(Message) /\ SameCards(AddThought(ms, t), ms)
           /\ Shown(AddThought(ms, t)) = Shown(ms) \o t
<1>s. Shown(ms) \in Seq(Point)
  BY ShownPoints
<1>1. CASE t = <<>>
  <2>1. AddThought(ms, t) = ms
    BY <1>1 DEF AddThought
  <2>2. Shown(ms) \o t = Shown(ms)
    BY <1>1, <1>s, ConcatEmptySeq
  <2> QED BY <2>1, <2>2 DEF SameCards
<1>2. CASE t # <<>> /\ TakesThought(ms)
  <2> DEFINE m == ms[Len(ms)]
             x == [m EXCEPT !.think = m.think \o t]
             b == [ms EXCEPT ![Len(ms)] = x]
  <2>1. /\ ms # <<>> /\ Len(ms) \in DOMAIN ms /\ m \in Message /\ m.live
        /\ m.calls = <<>> /\ m.text = <<>>
    BY <1>2 DEF TakesThought, TakesText, Last
  <2>2. m.think \in Seq(Spoken)
    BY <2>1 DEF Message
  <2>3. m.think \o t \in Seq(Spoken)
    BY <2>2, ConcatProperties
  <2>4. m.text # <<Own>>
    BY <2>1
  <2>5. x \in Message /\ x.think = m.think \o t /\ x.text = m.text /\ x.calls = m.calls
    BY <2>1, <2>3, <2>4 DEF Message
  <2> HIDE DEF x
  <2>6. ShownIn(x) = (m.think \o t) \o <<>>
    BY <2>1, <2>4, <2>5, NoCallsShown
  <2>7. ShownIn(m) = m.think \o <<>>
    BY <2>1, <2>4, NoCallsShown
  <2>8. ShownIn(x) = ShownIn(m) \o t
    BY <2>2, <2>3, <2>6, <2>7, ConcatEmptySeq
  <2>9. AddThought(ms, t) = b
    BY <1>2 DEF AddThought, x
  <2>10. /\ b \in Seq(Message) /\ Len(b) = Len(ms) /\ b[Len(ms)] = x
         /\ \A n \in 1..(Len(ms) - 1) : b[n] = ms[n]
    BY <2>1, <2>5
  <2>11. t \in Seq(Point)
    BY DEF Point
  <2>12. ASSUME NEW n \in 1..Len(ms) PROVE b[n].calls = ms[n].calls
    <3>1. CASE n = Len(ms)
      BY <2>5, <2>10, <3>1
    <3>2. CASE n # Len(ms)
      <4>1. n \in 1..(Len(ms) - 1)
        BY <3>2
      <4> QED BY <2>10, <4>1
    <3> QED BY <3>1, <3>2
  <2> HIDE DEF b
  <2>13. SameCards(b, ms)
    BY <2>10, <2>12, CardsKept
  <2>14. Shown(b) = Shown(ms) \o t
    <3>1. ShownIn(b[Len(ms)]) = ShownIn(ms[Len(ms)]) \o t
      BY <2>8, <2>10
    <3> QED BY <2>1, <2>10, <2>11, <3>1, ShownGrows
  <2> QED BY <2>9, <2>10, <2>13, <2>14
<1>3. CASE t # <<>> /\ ~TakesThought(ms)
  <2> DEFINE m == Reply(t, <<>>, <<>>)
  <2>1. AddThought(ms, t) = Append(ms, m)
    BY <1>3 DEF AddThought
  <2>2. m \in Message /\ ShownIn(m) = t \o <<>> /\ m.calls = <<>>
    <3>1. <<>> \in Seq(Spoken)
      OBVIOUS
    <3>2. m.calls = <<>>
      BY DEF Reply
    <3> QED BY <3>1, <3>2, ReplyShows
  <2>3. ShownIn(m) = t
    BY <2>2, ConcatEmptySeq
  <2> HIDE DEF m
  <2>4. Append(ms, m) \in Seq(Message)
    BY <2>2, AppendProperties
  <2>5. Shown(Append(ms, m)) = Shown(ms) \o t
    BY <2>2, <2>3, ShownAppend
  <2>6. SameCards(Append(ms, m), ms)
    BY <2>2, CardsAppend
  <2> QED BY <2>1, <2>4, <2>5, <2>6
<1> QED BY <1>1, <1>2, <1>3

\* A reply that ends shows what it showed.
LEMMA QuietShows ==
    ASSUME NEW ms \in Seq(Message)
    PROVE  /\ Quiet(ms) \in Seq(Message) /\ SameCards(Quiet(ms), ms)
           /\ Shown(Quiet(ms)) = Shown(ms)
<1> DEFINE b == Quiet(ms)
<1>1. ASSUME NEW n \in 1..Len(ms)
      PROVE  /\ [ms[n] EXCEPT !.live = FALSE] \in Message
             /\ [ms[n] EXCEPT !.live = FALSE].calls = ms[n].calls
             /\ ShownIn([ms[n] EXCEPT !.live = FALSE]) = ShownIn(ms[n])
  <2> DEFINE m == ms[n]
             q == [m EXCEPT !.live = FALSE]
  <2>1. m \in Message
    OBVIOUS
  <2>2. q.think = m.think /\ q.text = m.text /\ q.calls = m.calls /\ q.live = FALSE
    BY <2>1 DEF Message
  <2>3. q \in Message
    BY <2>1 DEF Message
  <2> HIDE DEF m, q
  <2>4. ShownIn(q) = ShownIn(m)
    BY <2>2 DEF ShownIn
  <2> QED BY <2>2, <2>3, <2>4 DEF m, q
<1>2. /\ b \in Seq(Message) /\ Len(b) = Len(ms)
      /\ \A n \in 1..Len(ms) : b[n] = [ms[n] EXCEPT !.live = FALSE]
  <2>1. DOMAIN ms = 1..Len(ms) /\ Len(ms) \in Nat
    OBVIOUS
  <2>2. b = [n \in 1..Len(ms) |-> [ms[n] EXCEPT !.live = FALSE]]
    BY <2>1 DEF Quiet
  <2> HIDE DEF b
  <2> QED BY <1>1, <2>1, <2>2
<1> HIDE DEF b
<1>3. SameCards(b, ms)
  BY <1>1, <1>2, CardsKept
<1>4. Shown(b) = Shown(ms)
  BY <1>1, <1>2, ShownSame
<1> QED BY <1>2, <1>3, <1>4 DEF b

\* One card is changed, and keeps its call.
WithCard(ms, p, q, c) == [ms EXCEPT ![p] = [ms[p] EXCEPT !.calls = [ms[p].calls EXCEPT ![q] = c]]]

LEMMA CardChanges ==
    ASSUME NEW ms \in Seq(Message), NEW p, NEW q, NEW c,
           p \in DOMAIN ms /\ q \in DOMAIN ms[p].calls
              => c \in CardType /\ c.id = ms[p].calls[q].id,
           NEW b, b = WithCard(ms, p, q, c)
    PROVE  /\ b \in Seq(Message) /\ CardsIn(b) = CardsIn(ms)
           /\ Shown(b) = Shown(ms)
           /\ \A at \in CardsIn(ms) :
                CardAt(b, at) = IF at = <<p, q>> THEN c ELSE CardAt(ms, at)
<1> USE DEF WithCard
<1>1. DOMAIN ms = 1..Len(ms) /\ Len(ms) \in Nat
  OBVIOUS
<1>2. ASSUME NEW n \in 1..Len(ms)
      PROVE  /\ b[n] \in Message /\ DOMAIN b[n].calls = DOMAIN ms[n].calls
             /\ b[n].think = ms[n].think /\ b[n].text = ms[n].text
             /\ \A k \in DOMAIN ms[n].calls :
                  /\ b[n].calls[k] = IF <<n, k>> = <<p, q>> THEN c ELSE ms[n].calls[k]
                  /\ b[n].calls[k].id = ms[n].calls[k].id
  <2> DEFINE m == ms[n]
             cs == [m.calls EXCEPT ![q] = c]
             x == [m EXCEPT !.calls = cs]
  <2>1. CASE n # p
    BY <1>1, <2>1
  <2>2. CASE n = p
    <3>1. m \in Message /\ m.calls \in Seq(CardType)
      BY DEF Message
    <3>c. q \in DOMAIN m.calls => c \in CardType
      BY <1>1, <2>2
    <3>2. cs \in Seq(CardType) /\ DOMAIN cs = DOMAIN m.calls
      <4> DEFINE s == m.calls
      <4>0. s \in Seq(CardType)
        BY <3>1
      <4> HIDE DEF m
      <4>1. CASE q \in DOMAIN s
        <5> HIDE DEF s
        <5>1. [s EXCEPT ![q] = c] \in Seq(CardType)
          BY <3>c, <4>0, <4>1, ExceptSeq DEF s
        <5> QED BY <5>1 DEF s
      <4>2. CASE q \notin DOMAIN s
        <5> HIDE DEF s
        <5>1. [s EXCEPT ![q] = c] = s
          BY <4>0, <4>2
        <5> QED BY <4>0, <5>1 DEF s
      <4> QED BY <4>1, <4>2
    <3>3. \A k \in DOMAIN m.calls : cs[k] = IF k = q THEN c ELSE m.calls[k]
      BY <3>1
    <3>4. b[n] = x
      BY <1>1, <2>2
    <3>5. x.calls = cs /\ x.think = m.think /\ x.text = m.text
      BY <3>1 DEF Message
    <3>6. x \in Message
      BY <3>1, <3>2 DEF Message
    <3>7. m = ms[n]
      OBVIOUS
    <3>8. \A k \in DOMAIN m.calls : cs[k].id = m.calls[k].id
      BY <1>1, <2>2, <3>3
    <3>9. DOMAIN b[n].calls = DOMAIN m.calls /\ b[n].think = m.think /\ b[n].text = m.text
      BY ONLY <3>2, <3>4, <3>5
    <3> HIDE DEF x, cs, m
    <3>10. \A k \in DOMAIN m.calls :
             /\ b[n].calls[k] = IF <<n, k>> = <<p, q>> THEN c ELSE m.calls[k]
             /\ b[n].calls[k].id = m.calls[k].id
      BY <2>2, <3>3, <3>4, <3>5, <3>8
    <3>11. b[n] \in Message
      BY <3>4, <3>6
    <3> QED BY ONLY <3>7, <3>9, <3>10, <3>11
  <2> QED BY <2>1, <2>2
<1>3. b \in Seq(Message) /\ Len(b) = Len(ms) /\ DOMAIN b = DOMAIN ms
  <2>1. DOMAIN b = 1..Len(ms)
    BY <1>1
  <2>2. b = [n \in 1..Len(ms) |-> b[n]]
    BY <1>1
  <2>3. \A n \in 1..Len(ms) : b[n] \in Message
    BY <1>2
  <2> QED BY ONLY <1>1, <2>1, <2>2, <2>3
<1>4. CardsIn(b) = CardsIn(ms)
  BY <1>1, <1>2, <1>3 DEF CardsIn
<1>5. ASSUME NEW at \in CardsIn(ms)
      PROVE  CardAt(b, at) = IF at = <<p, q>> THEN c ELSE CardAt(ms, at)
  <2>1. PICK n \in DOMAIN ms : \E k \in DOMAIN ms[n].calls : at = <<n, k>>
    BY DEF CardsIn
  <2>2. PICK k \in DOMAIN ms[n].calls : at = <<n, k>>
    BY <2>1
  <2> QED BY <1>1, <1>2, <2>2 DEF CardAt
<1>6. \A n \in 1..Len(ms) : ShownIn(b[n]) = ShownIn(ms[n])
  <2> SUFFICES ASSUME NEW n \in 1..Len(ms) PROVE ShownIn(b[n]) = ShownIn(ms[n])
    OBVIOUS
  <2>1. [k \in DOMAIN b[n].calls |-> <<"call", b[n].calls[k].id>>]
          = [k \in DOMAIN ms[n].calls |-> <<"call", ms[n].calls[k].id>>]
    BY <1>2
  <2> QED BY <1>2, <2>1 DEF ShownIn
<1>7. Shown(b) = Shown(ms)
  BY <1>3, <1>6, ShownSame
<1> QED BY <1>3, <1>4, <1>5, <1>7

----------------------------------------------------------------------------
\* The cards.

Ids(ms) == {CardAt(ms, at).id : at \in CardsIn(ms)}
OneEach(ms) ==
    \A a, b \in CardsIn(ms) : CardAt(ms, a).id = CardAt(ms, b).id => a = b

\* The cards show that the calls in E have ended, and the extractions of those in G.
Agree(ms, E, G) ==
    \A at \in CardsIn(ms) :
        LET c == CardAt(ms, at)
        IN /\ c.done <=> c.id \in E
           /\ c.extraction = IF c.id \in G THEN c.id ELSE None

LEMMA CardIsTyped ==
    ASSUME NEW ms \in Seq(Message), NEW at \in CardsIn(ms)
    PROVE  /\ at = <<at[1], at[2]>> /\ at[1] \in DOMAIN ms /\ at[2] \in DOMAIN ms[at[1]].calls
           /\ CardAt(ms, at) = ms[at[1]].calls[at[2]] /\ CardAt(ms, at) \in CardType
           /\ CardAt(ms, at).id \in Call /\ at[1] \in Nat /\ at[2] \in Nat
<1>1. PICK n \in DOMAIN ms : \E k \in DOMAIN ms[n].calls : at = <<n, k>>
  BY DEF CardsIn
<1>2. PICK k \in DOMAIN ms[n].calls : at = <<n, k>>
  BY <1>1
<1>3. ms[n] \in Message
  OBVIOUS
<1>4. ms[n].calls \in Seq(CardType)
  BY <1>3 DEF Message
<1>5. ms[n].calls[k] \in CardType
  BY <1>4
<1>6. ms[n].calls[k].id \in Call
  BY ONLY <1>5 DEF CardType
<1>7. k \in Nat /\ n \in Nat
  BY <1>4
<1> QED BY <1>2, <1>5, <1>6, <1>7 DEF CardAt

LEMMA SameCardsAgree ==
    ASSUME NEW a, NEW b, SameCards(b, a)
    PROVE  /\ Ids(b) = Ids(a)
           /\ OneEach(a) => OneEach(b)
           /\ \A E, G : Agree(a, E, G) => Agree(b, E, G)
<1>1. Ids(b) = Ids(a)
  BY DEF SameCards, Ids
<1>2. OneEach(a) => OneEach(b)
  BY DEF SameCards, OneEach
<1>3. \A E, G : Agree(a, E, G) => Agree(b, E, G)
  BY DEF SameCards, Agree
<1> QED BY <1>1, <1>2, <1>3

\* A reader has seen a call announced if and only if it has a card.
LEMMA PartsOf ==
    ASSUME NEW p \in Seq(Point), NEW q \in Seq(Point), NEW x
    PROVE  x \in ToSet(p \o q) <=> x \in ToSet(p) \/ x \in ToSet(q)
<1>1. /\ Len(p \o q) = Len(p) + Len(q) /\ p \o q \in Seq(Point)
      /\ Len(p) \in Nat /\ Len(q) \in Nat
      /\ \A i \in 1..Len(p) : (p \o q)[i] = p[i]
      /\ \A i \in 1..Len(q) : (p \o q)[Len(p) + i] = q[i]
  OBVIOUS
<1> DEFINE r == p \o q
<1>2. DOMAIN r = 1..(Len(p) + Len(q)) /\ DOMAIN p = 1..Len(p) /\ DOMAIN q = 1..Len(q)
  BY <1>1
<1> HIDE DEF r
<1>3. ASSUME x \in ToSet(p) PROVE x \in ToSet(r)
  BY <1>1, <1>2, <1>3 DEF ToSet, r
<1>4. ASSUME x \in ToSet(q) PROVE x \in ToSet(r)
  <2>1. PICK i \in 1..Len(q) : q[i] = x
    BY <1>2, <1>4 DEF ToSet
  <2>2. Len(p) + i \in DOMAIN r /\ r[Len(p) + i] = x
    BY <1>1, <1>2, <2>1 DEF r
  <2> QED BY <2>2 DEF ToSet
<1>5. ASSUME x \in ToSet(r) PROVE x \in ToSet(p) \/ x \in ToSet(q)
  <2>1. PICK i \in DOMAIN r : r[i] = x
    BY <1>5 DEF ToSet
  <2>2. CASE i <= Len(p)
    <3>1. i \in DOMAIN p /\ p[i] = x
      BY <1>1, <1>2, <2>1, <2>2 DEF r
    <3> QED BY <3>1 DEF ToSet
  <2>3. CASE i > Len(p)
    <3>1. i - Len(p) \in 1..Len(q)
      BY <1>1, <1>2, <2>1, <2>3
    <3>2. r[Len(p) + (i - Len(p))] = q[i - Len(p)]
      BY <1>1, <3>1 DEF r
    <3>3. Len(p) + (i - Len(p)) = i
      BY <1>1, <1>2
    <3> QED BY <1>2, <2>1, <3>1, <3>2, <3>3 DEF ToSet
  <2> QED BY <1>1, <1>2, <2>2, <2>3
<1> QED BY <1>3, <1>4, <1>5 DEF r

LEMMA CallsIn ==
    ASSUME NEW m \in Message, NEW i \in Call
    PROVE  <<"call", i>> \in ToSet(ShownIn(m)) <=> \E k \in DOMAIN m.calls : m.calls[k].id = i
<1> DEFINE p == m.think
           q == IF m.text = <<Own>> THEN <<>> ELSE m.text
           r == [n \in DOMAIN m.calls |-> <<"call", m.calls[n].id>>]
           x == <<"call", i>>
<1>1. p \in Seq(Spoken) /\ q \in Seq(Spoken)
  BY DEF Message
<1>2. p \in Seq(Point) /\ q \in Seq(Point) /\ p \o q \in Seq(Point)
  BY <1>1, ConcatProperties DEF Point
<1>3. m.calls \in Seq(CardType)
  BY DEF Message
<1>4. r \in Seq(Point)
  <2> SUFFICES ASSUME NEW n \in 1..Len(m.calls) PROVE <<"call", m.calls[n].id>> \in Point
    BY <1>3
  <2>1. m.calls[n] \in CardType
    BY <1>3
  <2>2. m.calls[n].id \in Call
    BY ONLY <2>1 DEF CardType
  <2> QED BY ONLY <2>2 DEF Point
<1>5. x \notin Spoken
  BY DEF Spoken
<1> HIDE DEF x
<1>6. x \notin ToSet(p) /\ x \notin ToSet(q)
  BY <1>1, <1>5 DEF ToSet
<1>7. ShownIn(m) = (p \o q) \o r
  BY DEF ShownIn
<1> HIDE DEF p, q
<1>8. x \in ToSet(ShownIn(m)) <=> x \in ToSet(r)
  <2> HIDE DEF r
  <2> QED BY <1>2, <1>4, <1>6, <1>7, PartsOf
<1>9. x \in ToSet(r) <=> \E k \in DOMAIN m.calls : m.calls[k].id = i
  <2>1. DOMAIN r = DOMAIN m.calls /\ \A k \in DOMAIN m.calls : r[k] = <<"call", m.calls[k].id>>
    OBVIOUS
  <2> HIDE DEF r
  <2> QED BY <2>1 DEF ToSet, x
<1> QED BY <1>8, <1>9 DEF x

LEMMA CallsShown ==
    ASSUME NEW ms \in Seq(Message), NEW i \in Call
    PROVE  <<"call", i>> \in ToSet(Shown(ms)) <=> i \in Ids(ms)
<1> DEFINE has(k) == \E c \in DOMAIN ms[k].calls : ms[k].calls[c].id = i
           x == <<"call", i>>
           S == {n \in 0..Len(ms) : x \in ToSet(ShownTo(ms)[n]) <=> \E k \in 1..n : has(k)}
<1>l. Len(ms) \in Nat
  OBVIOUS
<1>1. 0 \in S
  <2>1. ShownTo(ms)[0] = <<>>
    BY <1>l, ShownSteps
  <2>2. ToSet(<<>>) = {}
    BY DEF ToSet
  <2> HIDE DEF has
  <2> QED BY <2>1, <2>2, <1>l
<1>2. ASSUME NEW n \in 1..Len(ms), n - 1 \in S PROVE n \in S
  <2>1. ShownTo(ms)[n] = ShownTo(ms)[n - 1] \o ShownIn(ms[n])
    BY <1>l, ShownSteps
  <2>2. ShownTo(ms)[n - 1] \in Seq(Point) /\ ShownIn(ms[n]) \in Seq(Point) /\ ms[n] \in Message
    BY ShownIsASeq, ShownInIsASeq
  <2>3. x \in ToSet(ShownIn(ms[n])) <=> has(n)
    BY <2>2, CallsIn
  <2> HIDE DEF has, x
  <2>4. x \in ToSet(ShownTo(ms)[n]) <=> x \in ToSet(ShownTo(ms)[n - 1]) \/ has(n)
    BY <2>1, <2>2, <2>3, PartsOf
  <2>5. (\E k \in 1..n : has(k)) <=> (\E k \in 1..(n - 1) : has(k)) \/ has(n)
    <3>1. \A k : k \in 1..n <=> k \in 1..(n - 1) \/ k = n
      OBVIOUS
    <3> QED BY <3>1
  <2> QED BY <1>2, <2>4, <2>5
<1> HIDE DEF S, has, x
<1>3. \A n \in 0..Len(ms) : n \in S
  BY <1>l, <1>1, <1>2, UpTo, Zenon
<1>4. Len(ms) \in S
  BY <1>3, <1>l
<1>5. x \in ToSet(Shown(ms)) <=> \E k \in 1..Len(ms) : has(k)
  BY <1>4 DEF S, Shown
<1>6. i \in Ids(ms) <=> \E k \in 1..Len(ms) : has(k)
  <2>1. DOMAIN ms = 1..Len(ms)
    OBVIOUS
  <2>2. ASSUME i \in Ids(ms) PROVE \E k \in 1..Len(ms) : has(k)
    <3>1. PICK at \in CardsIn(ms) : CardAt(ms, at).id = i
      BY <2>2 DEF Ids
    <3> QED BY <2>1, <3>1, CardIsTyped DEF has
  <2>3. ASSUME NEW k \in 1..Len(ms), has(k) PROVE i \in Ids(ms)
    <3>1. PICK c \in DOMAIN ms[k].calls : ms[k].calls[c].id = i
      BY <2>3 DEF has
    <3>2. <<k, c>> \in CardsIn(ms) /\ CardAt(ms, <<k, c>>).id = i
      BY <2>1, <3>1 DEF CardsIn, CardAt
    <3> QED BY <3>2 DEF Ids
  <2> QED BY <2>2, <2>3
<1> QED BY <1>5, <1>6 DEF x

\* The end of a call is marked on its card.
LEMMA MarkDoneShows ==
    ASSUME NEW ms \in Seq(Message), NEW i \in Call, OneEach(ms)
    PROVE  LET b == MarkDone(ms, i)
           IN /\ b \in Seq(Message) /\ Shown(b) = Shown(ms)
              /\ Ids(b) = Ids(ms) /\ OneEach(b)
              /\ \A E, G : Agree(ms, E, G) /\ i \in Ids(ms) => Agree(b, E \cup {i}, G)
<1> DEFINE S == {at \in CardsIn(ms) : CardAt(ms, at).id = i}
           b == MarkDone(ms, i)
<1>1. CASE S = {}
  <2>1. b = ms
    BY <1>1 DEF MarkDone
  <2>2. i \notin Ids(ms)
    BY <1>1 DEF Ids
  <2> QED BY <2>1, <2>2
<1>2. CASE S # {}
  <2>1. PICK at \in CardsIn(ms) : CardAt(ms, at).id = i
    BY <1>2
  <2>2. S = {at}
    BY <2>1 DEF OneEach
  <2>3. Latest(S) = at
    BY <2>1, <2>2, CardIsTyped DEF Latest
  <2> DEFINE p == at[1]
             q == at[2]
             c == [ms[p].calls[q] EXCEPT !.done = TRUE]
  <2>4. /\ at = <<p, q>> /\ p \in DOMAIN ms /\ q \in DOMAIN ms[p].calls
        /\ CardAt(ms, at) = ms[p].calls[q] /\ CardAt(ms, at) \in CardType
    BY CardIsTyped
  <2>5. b = WithCard(ms, p, q, c)
    <3>1. b = [ms EXCEPT ![Latest(S)[1]].calls[Latest(S)[2]].done = TRUE]
      BY <1>2 DEF MarkDone
    <3> HIDE DEF b, S
    <3> QED BY <2>3, <3>1 DEF WithCard
  <2>6. c \in CardType /\ c.id = ms[p].calls[q].id /\ c.done = TRUE
        /\ c.extraction = ms[p].calls[q].extraction
    BY <2>4 DEF CardType
  <2> HIDE DEF b, c, p, q, S
  <2>7. /\ b \in Seq(Message) /\ CardsIn(b) = CardsIn(ms) /\ Shown(b) = Shown(ms)
        /\ \A o \in CardsIn(ms) : CardAt(b, o) = IF o = <<p, q>> THEN c ELSE CardAt(ms, o)
    <3>1. p \in DOMAIN ms /\ q \in DOMAIN ms[p].calls => c \in CardType /\ c.id = ms[p].calls[q].id
      BY <2>6
    <3> QED BY <2>5, <3>1, CardChanges
  <2>8. \A o \in CardsIn(ms) : CardAt(b, o).id = CardAt(ms, o).id
    BY <2>4, <2>6, <2>7
  <2>9. Ids(b) = Ids(ms) /\ OneEach(b)
    BY <2>7, <2>8 DEF Ids, OneEach
  <2>10. ASSUME NEW E, NEW G, Agree(ms, E, G) PROVE Agree(b, E \cup {i}, G)
    <3> SUFFICES ASSUME NEW o \in CardsIn(ms)
                 PROVE  LET d == CardAt(b, o)
                        IN /\ d.done <=> d.id \in E \cup {i}
                           /\ d.extraction = IF d.id \in G THEN d.id ELSE None
      BY <2>7 DEF Agree
    <3>1. CASE o = at
      BY <2>1, <2>4, <2>6, <2>7, <2>10, <3>1 DEF Agree
    <3>2. CASE o # at
      <4>1. CardAt(ms, o).id # i /\ CardAt(b, o) = CardAt(ms, o)
        BY <2>1, <2>4, <2>7, <3>2 DEF OneEach
      <4> QED BY <2>10, <4>1 DEF Agree
    <3> QED BY <3>1, <3>2
  <2> QED BY <2>7, <2>9, <2>10 DEF b
<1> QED BY <1>1, <1>2

\* An extraction that is kept for a call of the timeline goes to its card.
LEMMA ExtractShows ==
    ASSUME NEW ms \in Seq(Message), NEW name, NEW id, NEW i \in Call, OneEach(ms)
    PROVE  LET b == Extract(ms, name, id, i)
           IN /\ b \in Seq(Message) /\ Shown(b) = Shown(ms)
              /\ Ids(b) = Ids(ms) /\ OneEach(b)
              /\ \A E, G : Agree(ms, E, G) /\ i \in Ids(ms) /\ id = i /\ name = NameOf[i] /\ id # None
                           => Agree(b, E, G \cup {i})
<1> DEFINE S == Target(ms, name, id)
           b == Extract(ms, name, id, i)
           hits == {at \in CardsIn(ms) : CardAt(ms, at).id = id /\ NameOf[id] = name}
<1>1. ASSUME id = i, name = NameOf[i], id # None, i \in Ids(ms)
      PROVE  S # {} /\ \E at \in CardsIn(ms) : CardAt(ms, at).id = i /\ Latest(S) = at
  <2>1. PICK at \in CardsIn(ms) : CardAt(ms, at).id = i
    BY <1>1 DEF Ids
  <2>2. hits = {at}
    BY <1>1, <2>1 DEF OneEach
  <2>3. S = {at}
    BY <1>1, <2>2 DEF Target
  <2> HIDE DEF S
  <2>4. Latest(S) = at
    BY <2>3, CardIsTyped DEF Latest
  <2> QED BY <2>1, <2>3, <2>4
<1>2. CASE S = {}
  <2>1. b = ms
    BY <1>2 DEF Extract
  <2> QED BY <1>1, <1>2, <2>1
<1>3. CASE S # {}
  <2> DEFINE p == Latest(S)[1]
             q == Latest(S)[2]
             c == [ms[p].calls[q] EXCEPT !.extraction = i]
  <2>1. b = WithCard(ms, p, q, c)
    BY <1>3 DEF Extract, WithCard
  <2>2. ASSUME p \in DOMAIN ms, q \in DOMAIN ms[p].calls
        PROVE  /\ c \in CardType /\ c.id = ms[p].calls[q].id /\ c.done = ms[p].calls[q].done
               /\ c.extraction = i
    <3>1. ms[p] \in Message
      BY <2>2
    <3>2. ms[p].calls \in Seq(CardType)
      BY <3>1 DEF Message
    <3>3. ms[p].calls[q] \in CardType
      BY <2>2, <3>2
    <3> HIDE DEF p, q
    <3> QED BY <3>3 DEF CardType
  <2> HIDE DEF b, c, p, q
  <2>3. /\ b \in Seq(Message) /\ CardsIn(b) = CardsIn(ms) /\ Shown(b) = Shown(ms)
        /\ \A o \in CardsIn(ms) : CardAt(b, o) = IF o = <<p, q>> THEN c ELSE CardAt(ms, o)
    <3>1. p \in DOMAIN ms /\ q \in DOMAIN ms[p].calls => c \in CardType /\ c.id = ms[p].calls[q].id
      BY <2>2
    <3> QED BY <2>1, <3>1, CardChanges
  <2>4. ASSUME NEW o \in CardsIn(ms)
        PROVE  CardAt(b, o).id = CardAt(ms, o).id /\ CardAt(b, o).done = CardAt(ms, o).done
    BY <2>2, <2>3, CardIsTyped
  <2>5. Ids(b) = Ids(ms) /\ OneEach(b)
    BY <2>3, <2>4 DEF Ids, OneEach
  <2>6. ASSUME NEW E, NEW G, Agree(ms, E, G), i \in Ids(ms), id = i, name = NameOf[i], id # None
        PROVE  Agree(b, E, G \cup {i})
    <3>1. PICK at \in CardsIn(ms) : CardAt(ms, at).id = i /\ Latest(S) = at
      BY <1>1, <2>6
    <3>2. at = <<p, q>> /\ p \in DOMAIN ms /\ q \in DOMAIN ms[p].calls
      BY <3>1, CardIsTyped DEF p, q
    <3> SUFFICES ASSUME NEW o \in CardsIn(ms)
                 PROVE  LET d == CardAt(b, o)
                        IN /\ d.done <=> d.id \in E
                           /\ d.extraction = IF d.id \in G \cup {i} THEN d.id ELSE None
      BY <2>3 DEF Agree
    <3>3. CASE o = at
      BY <2>2, <2>3, <2>4, <2>6, <3>1, <3>2, <3>3 DEF Agree
    <3>4. CASE o # at
      <4>1. CardAt(ms, o).id # i /\ CardAt(b, o) = CardAt(ms, o)
        BY <2>3, <3>1, <3>2, <3>4 DEF OneEach
      <4> QED BY <2>6, <4>1 DEF Agree
    <3> QED BY <3>3, <3>4
  <2> QED BY <2>3, <2>5, <2>6 DEF b
<1> QED BY <1>2, <1>3

\* A card is added for a call that had none.
LEMMA CardAdded ==
    ASSUME NEW ms \in Seq(Message), NEW b, NEW i \in Call, NEW new,
           i \notin Ids(ms), new \notin CardsIn(ms), CardsIn(b) = CardsIn(ms) \cup {new},
           CardAt(b, new) = Card(i), \A at \in CardsIn(ms) : CardAt(b, at) = CardAt(ms, at)
    PROVE  /\ Ids(b) = Ids(ms) \cup {i}
           /\ OneEach(ms) => OneEach(b)
           /\ \A E, G : Agree(ms, E, G) /\ E \cup G \subseteq Ids(ms) => Agree(b, E, G)
<1>1. Card(i).id = i /\ Card(i).done = FALSE /\ Card(i).extraction = None
  BY DEF Card
<1>2. \A at \in CardsIn(ms) : CardAt(b, at).id = CardAt(ms, at).id /\ CardAt(b, at).id # i
  BY DEF Ids
<1>3. Ids(b) = Ids(ms) \cup {i}
  BY <1>1 DEF Ids
<1>4. OneEach(ms) => OneEach(b)
  BY <1>1, <1>2 DEF OneEach
<1>5. ASSUME NEW E, NEW G, Agree(ms, E, G), E \cup G \subseteq Ids(ms) PROVE Agree(b, E, G)
  <2>1. i \notin E /\ i \notin G
    BY <1>5
  <2> QED BY <1>1, <1>5, <2>1 DEF Agree
<1> QED BY <1>3, <1>4, <1>5

\* A message shows a call that is added to it.
LEMMA CallShows ==
    ASSUME NEW m \in Message, NEW i \in Call
    PROVE  LET x == [m EXCEPT !.calls = Append(m.calls, Card(i))]
           IN /\ x \in Message /\ x.calls = Append(m.calls, Card(i))
              /\ ShownIn(x) = ShownIn(m) \o <<<<"call", i>>>>
<1> DEFINE x == [m EXCEPT !.calls = Append(m.calls, Card(i))]
           s == m.calls
           c == Card(i)
<1>1. s \in Seq(CardType)
  BY DEF Message
<1>2. c \in CardType /\ c.id = i
  BY DEF Card, CardType
<1> HIDE DEF c
<1>3. /\ Append(s, c) \in Seq(CardType) /\ Len(Append(s, c)) = Len(s) + 1 /\ Len(s) \in Nat
      /\ Append(s, c)[Len(s) + 1] = c /\ \A n \in 1..Len(s) : Append(s, c)[n] = s[n]
  <2> HIDE DEF s
  <2> QED BY <1>1, <1>2, AppendProperties
<1>4. x.calls = Append(s, c) /\ x.think = m.think /\ x.text = m.text /\ x.live = m.live
  BY DEF Message, c
<1>5. x \in Message
  BY <1>3 DEF Message, c
<1> DEFINE f == [n \in DOMAIN s |-> <<"call", s[n].id>>]
           g == [n \in DOMAIN x.calls |-> <<"call", x.calls[n].id>>]
           t == IF m.text = <<Own>> THEN <<>> ELSE m.text
<1> HIDE DEF s, x
<1>6. f \in Seq(Point) /\ Len(f) = Len(s) /\ DOMAIN f = 1..Len(s)
  <2>1. DOMAIN s = 1..Len(s)
    BY <1>1
  <2>2. ASSUME NEW n \in 1..Len(s) PROVE <<"call", s[n].id>> \in Point
    <3>1. s[n] \in CardType
      BY <1>1
    <3>2. s[n].id \in Call
      BY ONLY <3>1 DEF CardType
    <3> QED BY ONLY <3>2 DEF Point
  <2> QED BY <2>1, <2>2, <1>3
<1>7. g = f \o <<<<"call", i>>>>
  <2>1. DOMAIN x.calls = 1..(Len(s) + 1) /\ DOMAIN s = 1..Len(s)
    BY <1>1, <1>3, <1>4
  <2>2. DOMAIN g = 1..(Len(s) + 1)
    BY <2>1
  <2>3. \A n \in 1..Len(s) : g[n] = f[n]
    BY <1>3, <1>4, <2>1
  <2>4. g[Len(s) + 1] = <<"call", i>>
    BY <1>2, <1>3, <1>4, <2>1
  <2>5. g = [n \in 1..(Len(s) + 1) |-> g[n]]
    BY <2>2
  <2> HIDE DEF f, g
  <2>6. f \o <<<<"call", i>>>> = [n \in 1..(Len(s) + 1) |-> IF n <= Len(s) THEN f[n] ELSE <<"call", i>>]
    BY <1>3, <1>6
  <2>7. \A n \in 1..(Len(s) + 1) : g[n] = IF n <= Len(s) THEN f[n] ELSE <<"call", i>>
    BY <2>3, <2>4, <1>3
  <2> QED BY <2>5, <2>6, <2>7
<1>8. m.think \in Seq(Point) /\ t \in Seq(Point) /\ m.think \o t \in Seq(Point)
  <2>1. m.think \in Seq(Spoken) /\ t \in Seq(Spoken)
    BY DEF Message
  <2> QED BY <2>1, ConcatProperties DEF Point
<1>9. ShownIn(x) = (m.think \o t) \o g /\ ShownIn(m) = (m.think \o t) \o f
  BY <1>4 DEF ShownIn, s
<1>10. <<<<"call", i>>>> \in Seq(Point)
  BY DEF Point
<1> HIDE DEF f, g, t
<1>11. (m.think \o t) \o (f \o <<<<"call", i>>>>) = ((m.think \o t) \o f) \o <<<<"call", i>>>>
  <2> DEFINE p == m.think \o t
             r == <<<<"call", i>>>>
  <2>1. p \in Seq(Point) /\ f \in Seq(Point) /\ r \in Seq(Point)
    BY <1>6, <1>8, <1>10
  <2> HIDE DEF p, r
  <2>2. p \o (f \o r) = (p \o f) \o r
    BY ONLY <2>1, Regroup
  <2> QED BY <2>2 DEF p, r
<1> QED BY <1>4, <1>5, <1>7, <1>9, <1>11 DEF x, s, c

\* A call is announced once, by a card at the end of the timeline.
LEMMA AnnounceShows ==
    ASSUME NEW ms \in Seq(Message), NEW i \in Call
    PROVE  LET b == Announce(ms, i)
           IN /\ b \in Seq(Message) /\ Ids(b) = Ids(ms) \cup {i}
              /\ OneEach(ms) => OneEach(b)
              /\ Shown(b) = Shown(ms) \o (IF i \in Ids(ms) THEN <<>> ELSE <<<<"call", i>>>>)
              /\ \A E, G : Agree(ms, E, G) /\ E \cup G \subseteq Ids(ms) => Agree(b, E, G)
<1> DEFINE b == Announce(ms, i)
<1>s. Shown(ms) \in Seq(Point) /\ <<<<"call", i>>>> \in Seq(Point)
  BY ShownPoints DEF Point
<1>1. CASE i \in Ids(ms)
  <2>1. b = ms
    BY <1>1 DEF Announce, Ids
  <2>2. Shown(ms) \o <<>> = Shown(ms)
    BY <1>s, ConcatEmptySeq
  <2>3. Ids(ms) = Ids(ms) \cup {i}
    BY <1>1
  <2> HIDE DEF b
  <2> QED BY <1>1, <2>1, <2>2, <2>3 DEF b
<1>2. CASE i \notin Ids(ms) /\ ms # <<>> /\ Last(ms).role = "assistant"
  <2> DEFINE N == Len(ms)
             m == ms[N]
             x == [m EXCEPT !.calls = Append(m.calls, Card(i))]
             K == Len(m.calls) + 1
  <2>1. N \in DOMAIN ms /\ m \in Message /\ DOMAIN ms = 1..N /\ N \in Nat
    BY <1>2
  <2>2. x \in Message /\ x.calls = Append(m.calls, Card(i)) /\ ShownIn(x) = ShownIn(m) \o <<<<"call", i>>>>
    BY <2>1, CallShows
  <2>3. m.calls \in Seq(CardType) /\ Card(i) \in CardType
    BY <2>1 DEF Message, Card, CardType
  <2>4. b = [ms EXCEPT ![N] = x]
    <3>1. ~\E at \in CardsIn(ms) : CardAt(ms, at).id = i
      BY <1>2 DEF Ids
    <3> QED BY <1>2, <3>1 DEF Announce
  <2> HIDE DEF x, b
  <2>5. /\ b \in Seq(Message) /\ Len(b) = N /\ DOMAIN b = 1..N /\ b[N] = x
        /\ \A n \in 1..(N - 1) : b[n] = ms[n]
    <3>1. b \in Seq(Message) /\ Len(b) = Len(ms)
      <4> HIDE DEF N
      <4> QED BY <2>1, <2>2, <2>4, ExceptSeq
    <3> HIDE DEF N, m
    <3>2. DOMAIN b = DOMAIN ms /\ b[N] = x /\ \A n \in 1..(N - 1) : b[n] = ms[n]
      BY <2>1, <2>4
    <3> QED BY <2>1, <3>1, <3>2 DEF N
  <2>6. Shown(b) = Shown(ms) \o <<<<"call", i>>>>
    BY <1>2, <1>s, <2>2, <2>5, ShownGrows
  <2>7. /\ DOMAIN m.calls = 1..(K - 1) /\ K - 1 \in Nat /\ DOMAIN x.calls = 1..K
        /\ x.calls[K] = Card(i) /\ \A k \in 1..(K - 1) : x.calls[k] = m.calls[k]
    <3> DEFINE s == m.calls
               c == Card(i)
    <3>1. s \in Seq(CardType) /\ c \in CardType /\ x.calls = Append(s, c)
      BY <2>2, <2>3
    <3> HIDE DEF s, c
    <3>2. /\ Append(s, c) \in Seq(CardType) /\ Len(Append(s, c)) = Len(s) + 1 /\ Len(s) \in Nat
          /\ Append(s, c)[Len(s) + 1] = c /\ \A n \in 1..Len(s) : Append(s, c)[n] = s[n]
      BY <3>1, AppendProperties
    <3>3. DOMAIN s = 1..Len(s) /\ DOMAIN Append(s, c) = 1..Len(Append(s, c))
      BY <3>1, <3>2
    <3>4. (Len(s) + 1) - 1 = Len(s)
      BY <3>2
    <3> QED BY <3>1, <3>2, <3>3, <3>4 DEF s, c
  <2>8. <<N, K>> \notin CardsIn(ms)
    <3>1. K \notin DOMAIN m.calls
      BY <2>7
    <3> HIDE DEF K
    <3> QED BY <3>1 DEF CardsIn
  <2>9. \A n \in DOMAIN b : b[n] = IF n = N THEN x ELSE ms[n]
    <3> SUFFICES ASSUME NEW n \in 1..N, n # N PROVE n \in 1..(N - 1)
      BY <2>5
    <3>1. N \in Nat
      BY <2>1
    <3> HIDE DEF N
    <3> QED BY ONLY <3>1, n \in 1..N, n # N
  <2>10. \A k : k \in DOMAIN x.calls <=> k \in DOMAIN m.calls \/ k = K
    BY <2>7
  <2>11. CardsIn(b) = CardsIn(ms) \cup {<<N, K>>}
    <3> HIDE DEF K
    <3>1. ASSUME NEW at \in CardsIn(b) PROVE at \in CardsIn(ms) \/ at = <<N, K>>
      <4>1. PICK n \in DOMAIN b : \E k \in DOMAIN b[n].calls : at = <<n, k>>
        BY DEF CardsIn
      <4>2. PICK k \in DOMAIN b[n].calls : at = <<n, k>>
        BY <4>1
      <4>3. CASE n = N
        BY <2>1, <2>9, <2>10, <4>2, <4>3 DEF CardsIn
      <4>4. CASE n # N
        BY <2>1, <2>5, <2>9, <4>2, <4>4 DEF CardsIn
      <4> QED BY <4>3, <4>4
    <3>2. ASSUME NEW at \in CardsIn(ms) PROVE at \in CardsIn(b)
      <4>1. PICK n \in DOMAIN ms : \E k \in DOMAIN ms[n].calls : at = <<n, k>>
        BY DEF CardsIn
      <4>2. PICK k \in DOMAIN ms[n].calls : at = <<n, k>>
        BY <4>1
      <4>3. n \in DOMAIN b /\ k \in DOMAIN b[n].calls
        BY <2>1, <2>5, <2>9, <2>10, <4>2
      <4> QED BY <4>2, <4>3 DEF CardsIn
    <3>3. <<N, K>> \in CardsIn(b)
      BY <2>1, <2>5, <2>10 DEF CardsIn
    <3> QED BY <3>1, <3>2, <3>3
  <2>12. CardAt(b, <<N, K>>) = Card(i)
    BY <2>5, <2>7 DEF CardAt
  <2>13. ASSUME NEW at \in CardsIn(ms) PROVE CardAt(b, at) = CardAt(ms, at)
    <3>1. /\ at[1] \in 1..N /\ at[2] \in DOMAIN ms[at[1]].calls
          /\ CardAt(ms, at) = ms[at[1]].calls[at[2]]
      BY <2>1, CardIsTyped
    <3>2. CASE at[1] = N
      <4>1. at[2] \in 1..(K - 1)
        BY <2>7, <3>1, <3>2
      <4> HIDE DEF K
      <4> QED BY <2>5, <2>7, <3>1, <3>2, <4>1 DEF CardAt
    <3>3. CASE at[1] # N
      BY <2>5, <2>9, <3>1, <3>3 DEF CardAt
    <3> QED BY <3>2, <3>3
  <2> HIDE DEF N, m, K
  <2>14. /\ Ids(b) = Ids(ms) \cup {i}
         /\ OneEach(ms) => OneEach(b)
         /\ \A E, G : Agree(ms, E, G) /\ E \cup G \subseteq Ids(ms) => Agree(b, E, G)
    BY <1>2, <2>8, <2>11, <2>12, <2>13, CardAdded
  <2> QED BY <1>2, <2>5, <2>6, <2>14 DEF b
<1>3. CASE i \notin Ids(ms) /\ ~(ms # <<>> /\ Last(ms).role = "assistant")
  <2> DEFINE m == Reply(<<>>, <<>>, <<Card(i)>>)
             N == Len(ms) + 1
  <2>1. m.calls = <<Card(i)>> /\ m.think = <<>> /\ m.text = <<>>
    BY DEF Reply
  <2>2. m \in Message
    <3>1. Card(i) \in CardType
      BY DEF Card, CardType
    <3>2. <<Card(i)>> \in Seq(CardType) /\ <<>> \in Seq(Spoken) /\ <<>> # <<Own>>
      BY <3>1
    <3> QED BY <3>2 DEF Message, Reply
  <2>3. ShownIn(m) = <<<<"call", i>>>>
    <3>1. [n \in DOMAIN m.calls |-> <<"call", m.calls[n].id>>] = <<<<"call", i>>>>
      <4> DEFINE c == Card(i)
      <4>1. m.calls = <<c>> /\ c.id = i
        BY <2>1 DEF Card
      <4> HIDE DEF m, c
      <4>2. DOMAIN m.calls = {1} /\ m.calls[1].id = i
        BY <4>1
      <4> QED BY <4>2
    <3> HIDE DEF m
    <3>2. ShownIn(m) = (<<>> \o <<>>) \o <<<<"call", i>>>>
      BY <2>1, <3>1 DEF ShownIn
    <3>3. (<<>> \o <<>>) \o <<<<"call", i>>>> = <<<<"call", i>>>>
      BY <1>s, ConcatEmptySeq
    <3> QED BY <3>2, <3>3
  <2>4. b = Append(ms, m)
    <3>1. ~\E at \in CardsIn(ms) : CardAt(ms, at).id = i
      BY <1>3 DEF Ids
    <3> QED BY <1>3, <3>1 DEF Announce
  <2> HIDE DEF m, b
  <2>5. /\ b \in Seq(Message) /\ DOMAIN b = 1..N /\ DOMAIN ms = 1..(N - 1) /\ N - 1 \in Nat
        /\ b[N] = m /\ \A n \in 1..(N - 1) : b[n] = ms[n]
    BY <2>2, <2>4, AppendProperties
  <2>6. Shown(b) = Shown(ms) \o <<<<"call", i>>>>
    BY <2>2, <2>3, <2>4, ShownAppend
  <2>7. DOMAIN m.calls = {1} /\ m.calls[1] = Card(i)
    BY <2>1
  <2>8. \A n : n \in DOMAIN b <=> n \in DOMAIN ms \/ n = N
    BY <2>5
  <2>9. N \notin DOMAIN ms
    BY <2>5
  <2> HIDE DEF N
  <2>10. CardsIn(b) = CardsIn(ms) \cup {<<N, 1>>}
    <3>1. ASSUME NEW at \in CardsIn(b) PROVE at \in CardsIn(ms) \/ at = <<N, 1>>
      <4>1. PICK n \in DOMAIN b : \E k \in DOMAIN b[n].calls : at = <<n, k>>
        BY DEF CardsIn
      <4>2. PICK k \in DOMAIN b[n].calls : at = <<n, k>>
        BY <4>1
      <4> QED BY <2>5, <2>7, <2>8, <4>2 DEF CardsIn
    <3>2. ASSUME NEW at \in CardsIn(ms) PROVE at \in CardsIn(b)
      BY <2>5, <2>8 DEF CardsIn
    <3>3. <<N, 1>> \in CardsIn(b)
      BY <2>5, <2>7, <2>8 DEF CardsIn
    <3> QED BY <3>1, <3>2, <3>3
  <2>11. <<N, 1>> \notin CardsIn(ms)
    BY <2>9 DEF CardsIn
  <2>12. CardAt(b, <<N, 1>>) = Card(i)
    BY <2>5, <2>7 DEF CardAt
  <2>13. \A at \in CardsIn(ms) : CardAt(b, at) = CardAt(ms, at)
    BY <2>5, CardIsTyped DEF CardAt
  <2>14. /\ Ids(b) = Ids(ms) \cup {i}
         /\ OneEach(ms) => OneEach(b)
         /\ \A E, G : Agree(ms, E, G) /\ E \cup G \subseteq Ids(ms) => Agree(b, E, G)
    BY <1>3, <2>10, <2>11, <2>12, <2>13, CardAdded
  <2> QED BY <1>3, <2>5, <2>6, <2>14 DEF b
<1> QED BY <1>1, <1>2, <1>3

\* What waits is shown, reasoning first.
Flushed(ms, h, t) == AddText(AddThought(ms, h), t)

LEMMA FlushShows ==
    ASSUME NEW ms \in Seq(Message), NEW h \in Seq(Spoken), NEW t \in Seq(Spoken)
    PROVE  /\ Flushed(ms, h, t) \in Seq(Message) /\ SameCards(Flushed(ms, h, t), ms)
           /\ Shown(Flushed(ms, h, t)) = Shown(ms) \o h \o t
<1> DEFINE a == AddThought(ms, h)
<1>1. a \in Seq(Message) /\ SameCards(a, ms) /\ Shown(a) = Shown(ms) \o h
  BY ThoughtShows
<1> HIDE DEF a
<1>2. /\ AddText(a, t) \in Seq(Message) /\ SameCards(AddText(a, t), a)
      /\ Shown(AddText(a, t)) = Shown(a) \o t
  BY <1>1, TextShows
<1>3. SameCards(AddText(a, t), ms)
  BY <1>1, <1>2 DEF SameCards
<1> QED BY <1>1, <1>2, <1>3 DEF a, Flushed

----------------------------------------------------------------------------
\* The timeline.

\* The frames of a server that has made n sessions.
Sent(n) ==
    [type : {"content", "reasoning", "error", "cancelled", "user_message"}, of : Spoken]
      \cup [type : {"tool_start", "tool_end"}, of : Call]
      \cup {f \in [type : {"extraction"}, of : Call \X (Call \cup {None})] :
              f.of[2] \in {f.of[1], None}}
      \cup [type : {"session_init"}, of : 1..n]
      \cup [type : {"interrupt", "complete"}, of : {None}]

Typed ==
    /\ messages \in Seq(Message)
    /\ saved \in [session : Nat \cup {None}, messages : Seq(Message)]
    /\ content \in Seq(Spoken) /\ reasoning \in Seq(Spoken)
    /\ lastEnded \in Call \cup {None}
    /\ made \in Nat /\ said \in Nat /\ asked \in Nat
    /\ wire \in Seq(Sent(made))
    /\ calls \in [Call -> {"new", "running", "paused", "over"}]
    /\ agent \in {"idle", "working", "waiting"}

\* The page knows no session that the server has not made.
Numbered == {session, url, served, saved.session} \subseteq 1..made \cup {None}

TimelineInv ==
    /\ Typed /\ Numbered /\ TranscriptInOrder /\ OneEach(messages) /\ OneEach(saved.messages)

LEMMA SaidIn ==
    ASSUME NEW n \in Nat, NEW f \in Sent(n)
    PROVE  /\ f.type \in {"content", "reasoning", "error", "cancelled", "user_message"}
                 => f.of \in Spoken
           /\ f.type \in {"tool_start", "tool_end"} => f.of \in Call
           /\ f.type = "extraction" => f.of[1] \in Call /\ f.of[2] \in {f.of[1], None}
           /\ f.type = "session_init" => f.of \in 1..n
BY DEF Sent

\* The frames that are made.
LEMMA SaidFrame ==
    ASSUME NEW n \in Nat
    PROVE  /\ \A t \in {"content", "reasoning", "error", "cancelled", "user_message"} :
                \A x \in Spoken : Frame(t, x) \in Sent(n)
           /\ \A i \in Call : Frame("tool_start", i) \in Sent(n) /\ Frame("tool_end", i) \in Sent(n)
           /\ \A i \in Call : \A id \in {i, None} : Frame("extraction", <<i, id>>) \in Sent(n)
           /\ \A k \in 1..n : Frame("session_init", k) \in Sent(n)
           /\ Frame("interrupt", None) \in Sent(n) /\ Frame("complete", None) \in Sent(n)
BY DEF Sent, Frame

LEMMA Taken ==
    ASSUME TimelineInv, NEW t, Take(t)
    PROVE  Head(wire) \in Sent(made) /\ Head(wire).type = t /\ wire' \in Seq(Sent(made))
BY HeadTailProperties DEF TimelineInv, Typed, Take

LEMMA FlushIsTold ==
    ASSUME TimelineInv
    PROVE  /\ Flush \in Seq(Message) /\ SameCards(Flush, messages) /\ Shown(Flush) = told
           /\ OneEach(Flush) /\ told \in Seq(Point)
<1>1. messages \in Seq(Message) /\ reasoning \in Seq(Spoken) /\ content \in Seq(Spoken)
  BY DEF TimelineInv, Typed
<1>2. /\ Flush \in Seq(Message) /\ SameCards(Flush, messages)
      /\ Shown(Flush) = Shown(messages) \o reasoning \o content
  <2>1. Flush = Flushed(messages, reasoning, content)
    BY DEF Flush, Flushed
  <2> QED BY <1>1, <2>1, FlushShows
<1>3. Shown(Flush) = told
  BY <1>2 DEF TimelineInv, TranscriptInOrder
<1>4. OneEach(Flush)
  BY <1>2, SameCardsAgree DEF TimelineInv
<1>5. told \in Seq(Point)
  <2>1. Shown(Flush) \in Seq(Point)
    BY <1>2, ShownPoints
  <2> QED BY <1>3, <2>1
<1> QED BY <1>2, <1>3, <1>4, <1>5

\* A timeline that shows all that was told has nothing waiting.
LEMMA ShownInOrder ==
    ASSUME messages' \in Seq(Message), Shown(messages') = told', content' = <<>>, reasoning' = <<>>
    PROVE  TranscriptInOrder'
<1>1. Shown(messages') \in Seq(Point)
  BY ShownPoints
<1>2. told' = Shown(messages') \o reasoning' \o content'
  BY <1>1, ConcatEmptySeq
<1>3. reasoning' \o content' = <<>>
  OBVIOUS
<1>4. (Shown(messages))' = Shown(messages')
  OBVIOUS
<1> HIDE DEF Shown
<1> QED BY <1>2, <1>3, <1>4 DEF TranscriptInOrder

\* A frame that flushes first, and what it makes of the timeline.
LEMMA Dispatched ==
    ASSUME TimelineInv, NEW t, Dispatch(t), Steady,
           messages' \in Seq(Message), OneEach(messages'), Shown(messages') = told',
           lastEnded' \in Call \cup {None},
           session' = session \/ (t = "session_init" /\ session' = Head(wire).of)
    PROVE  TimelineInv'
<1>1. content' = <<>> /\ reasoning' = <<>> /\ wire' \in Seq(Sent(made)) /\ session' \in 1..made \cup {None}
  <2>1. session \in 1..made \cup {None} /\ made \in Nat
    BY DEF TimelineInv, Typed, Numbered
  <2>2. t = "session_init" => Head(wire).of \in 1..made
    BY <2>1, Taken, SaidIn DEF Dispatch
  <2> QED BY <2>1, <2>2, Taken DEF Dispatch, Emptied
<1>2. UNCHANGED <<url, saved, served, made, said, asked, calls, agent>>
  BY DEF Steady, server, turns, bounds
<1>3. TranscriptInOrder'
  BY <1>1, ShownInOrder
<1>4. Typed'
  BY <1>1, <1>2 DEF TimelineInv, Typed
<1>5. Numbered'
  BY <1>1, <1>2 DEF TimelineInv, Numbered
<1>6. OneEach(saved'.messages)
  BY <1>2 DEF TimelineInv
<1> QED BY <1>3, <1>4, <1>5, <1>6 DEF TimelineInv

LEMMA ToldMore ==
    ASSUME TimelineInv, NEW r \in {"user", "assistant", "system"}, NEW x \in Spoken,
           NEW ms \in Seq(Message), Shown(ms) = told, OneEach(ms)
    PROVE  LET b == Append(ms, Bubble(r, <<x>>))
           IN b \in Seq(Message) /\ Shown(b) = told \o <<x>> /\ SameCards(b, ms) /\ OneEach(b)
<1>1. Bubble(r, <<x>>) \in Message /\ ShownIn(Bubble(r, <<x>>)) = <<x>>
  BY BubbleShows
<1>2. Bubble(r, <<x>>).calls = <<>>
  BY DEF Bubble
<1> DEFINE m == Bubble(r, <<x>>)
<1> HIDE DEF m
<1>3. Append(ms, m) \in Seq(Message) /\ Shown(Append(ms, m)) = told \o <<x>>
  BY <1>1, ShownAppend, AppendProperties DEF m
<1>4. SameCards(Append(ms, m), ms)
  BY <1>1, <1>2, CardsAppend DEF m
<1>5. OneEach(Append(ms, m))
  BY <1>4, SameCardsAgree
<1> QED BY <1>3, <1>4, <1>5 DEF m

LEMMA ContentKeepsTimeline == ASSUME TimelineInv, OnContent PROVE TimelineInv'
<1> DEFINE x == Head(wire).of
           a == AddThought(messages, reasoning)
<1>1. messages \in Seq(Message) /\ reasoning \in Seq(Spoken) /\ content \in Seq(Spoken)
  BY DEF TimelineInv, Typed
<1>2. wire' \in Seq(Sent(made)) /\ x \in Spoken
  BY Taken, SaidIn DEF OnContent, TimelineInv, Typed
<1>3. a \in Seq(Message) /\ SameCards(a, messages) /\ Shown(a) = Shown(messages) \o reasoning
  BY <1>1, ThoughtShows
<1>4. /\ messages' = a /\ reasoning' = <<>> /\ content' = Append(content, x)
      /\ told' = told \o <<x>> /\ raf' = TRUE
  BY DEF OnContent, Tells
<1>5. UNCHANGED <<lastEnded, session, url, saved, served, made, said, asked, calls, agent>>
  BY DEF OnContent, link, server, turns, bounds
<1> HIDE DEF x, a
<1>6. content' \in Seq(Spoken) /\ content' = content \o <<x>> /\ reasoning' \in Seq(Spoken)
  BY <1>1, <1>2, <1>4, Appended
<1>7. TranscriptInOrder'
  <2> DEFINE s == Shown(a)
  <2>1. s \in Seq(Point) /\ content \in Seq(Point) /\ <<x>> \in Seq(Point)
    BY <1>1, <1>2, <1>3, ShownPoints, Appended
  <2>2. told = s \o content
    BY <1>3 DEF TimelineInv, TranscriptInOrder
  <2>3. (Shown(messages))' = s
    BY <1>4
  <2> HIDE DEF s
  <2>4. s \o <<>> = s
    BY <2>1, ConcatEmptySeq
  <2>5. (s \o content) \o <<x>> = s \o (content \o <<x>>)
    BY <2>1, Regroup
  <2>6. told' = (s \o <<>>) \o content'
    BY <1>4, <1>6, <2>2, <2>4, <2>5
  <2> QED BY <1>4, <2>3, <2>6 DEF TranscriptInOrder
<1>8. OneEach(a)
  BY <1>3, SameCardsAgree DEF TimelineInv
<1>9. Typed' /\ Numbered'
  BY <1>2, <1>3, <1>4, <1>5, <1>6 DEF TimelineInv, Typed, Numbered
<1>10. OneEach(messages') /\ OneEach(saved'.messages)
  BY <1>4, <1>5, <1>8 DEF TimelineInv
<1> QED BY <1>7, <1>9, <1>10 DEF TimelineInv

LEMMA ReasoningKeepsTimeline == ASSUME TimelineInv, OnReasoning PROVE TimelineInv'
<1> DEFINE x == Head(wire).of
           a == AddText(messages, content)
<1>1. messages \in Seq(Message) /\ reasoning \in Seq(Spoken) /\ content \in Seq(Spoken)
  BY DEF TimelineInv, Typed
<1>2. wire' \in Seq(Sent(made)) /\ x \in Spoken
  BY Taken, SaidIn DEF OnReasoning, TimelineInv, Typed
<1>3. a \in Seq(Message) /\ SameCards(a, messages) /\ Shown(a) = Shown(messages) \o content
  BY <1>1, TextShows
<1>4. /\ messages' = a /\ content' = <<>> /\ reasoning' = Append(reasoning, x)
      /\ told' = told \o <<x>> /\ raf' = TRUE
  BY DEF OnReasoning, Tells
<1>5. UNCHANGED <<lastEnded, session, url, saved, served, made, said, asked, calls, agent>>
  BY DEF OnReasoning, link, server, turns, bounds
<1> HIDE DEF x, a
<1>6. reasoning' \in Seq(Spoken) /\ reasoning' = reasoning \o <<x>> /\ content' \in Seq(Spoken)
  BY <1>1, <1>2, <1>4, Appended
<1>7. TranscriptInOrder'
  <2> DEFINE s == Shown(messages)
  <2>1. /\ s \in Seq(Point) /\ content \in Seq(Point) /\ reasoning \in Seq(Point)
        /\ <<x>> \in Seq(Point)
    BY <1>1, <1>2, ShownPoints, Appended
  <2>2. told = (s \o reasoning) \o content /\ (content = <<>> \/ reasoning = <<>>)
    BY DEF TimelineInv, TranscriptInOrder
  <2>3. (Shown(messages))' = s \o content
    BY <1>3, <1>4
  <2> HIDE DEF s
  <2>4. told = (s \o content) \o reasoning /\ s \o content \in Seq(Point)
    <3>1. s \o content \in Seq(Point) /\ s \o reasoning \in Seq(Point)
      BY <2>1, ConcatProperties
    <3>2. s \o <<>> = s /\ (s \o content) \o <<>> = s \o content
          /\ (s \o reasoning) \o <<>> = s \o reasoning
      BY <2>1, <3>1, ConcatEmptySeq
    <3> QED BY <2>2, <3>1, <3>2
  <2>5. ((s \o content) \o reasoning) \o <<x>> = (s \o content) \o (reasoning \o <<x>>)
    BY <2>1, <2>4, Regroup
  <2>6. told' = (s \o content) \o reasoning'
    BY <1>4, <1>6, <2>4, <2>5
  <2>7. told' \in Seq(Point)
    <3>1. told' = ((s \o content) \o reasoning) \o <<x>>
      BY <1>4, <2>4
    <3> QED BY <2>1, <2>4, <3>1, ConcatProperties
  <2>8. told' = ((s \o content) \o reasoning') \o content'
    BY <1>4, <2>6, <2>7, ConcatEmptySeq
  <2> QED BY <1>4, <2>3, <2>8 DEF TranscriptInOrder
<1>8. OneEach(a)
  BY <1>3, SameCardsAgree DEF TimelineInv
<1>9. Typed' /\ Numbered'
  BY <1>2, <1>3, <1>4, <1>5, <1>6 DEF TimelineInv, Typed, Numbered
<1>10. OneEach(messages') /\ OneEach(saved'.messages)
  BY <1>4, <1>5, <1>8 DEF TimelineInv
<1> QED BY <1>7, <1>9, <1>10 DEF TimelineInv

\* What waits is shown, and nothing else happens to the timeline.
LEMMA FlushKeepsTimeline ==
    ASSUME TimelineInv, messages' = Flush, Emptied,
           UNCHANGED <<lastEnded, link, saved, server, wire, told>>, asked' \in Nat
    PROVE  TimelineInv'
<1>1. /\ Flush \in Seq(Message) /\ Shown(Flush) = told /\ OneEach(Flush)
      /\ content' = <<>> /\ reasoning' = <<>>
  BY FlushIsTold DEF Emptied
<1>2. UNCHANGED <<lastEnded, session, url, saved, made, served, agent, calls, said, wire, told>>
  BY DEF link, server, turns
<1>3. messages' \in Seq(Message) /\ Shown(messages') = told' /\ OneEach(messages')
  BY <1>1, <1>2
<1>4. TranscriptInOrder'
  BY <1>1, <1>3, ShownInOrder
<1>5. Typed' /\ Numbered'
  BY <1>1, <1>2, <1>3 DEF TimelineInv, Typed, Numbered
<1>6. OneEach(saved'.messages)
  BY <1>2 DEF TimelineInv
<1> QED BY <1>3, <1>4, <1>5, <1>6 DEF TimelineInv

\* A reader sees no difference.
LEMMA SightKeepsTimeline ==
    ASSUME TimelineInv, messages' \in Seq(Message), Shown(messages') = Shown(messages),
           OneEach(messages'), UNCHANGED <<buffers, lastEnded, session, url, saved, told>>,
           made' \in Nat, made <= made', served' \in 1..made' \cup {None},
           said' \in Nat, asked' \in Nat, wire' \in Seq(Sent(made')),
           calls' \in [Call -> {"new", "running", "paused", "over"}],
           agent' \in {"idle", "working", "waiting"}
    PROVE  TimelineInv'
<1>1. UNCHANGED <<content, reasoning, raf, lastEnded, session, url, saved, told>>
  BY DEF buffers
<1>2. TranscriptInOrder'
  <2>1. (Shown(messages))' = Shown(messages)
    OBVIOUS
  <2> HIDE DEF Shown
  <2> QED BY <1>1, <2>1 DEF TimelineInv, TranscriptInOrder
<1>3. Typed'
  BY <1>1 DEF TimelineInv, Typed
<1>4. Numbered'
  BY <1>1 DEF TimelineInv, Typed, Numbered
<1>5. OneEach(saved'.messages)
  BY <1>1 DEF TimelineInv
<1> QED BY <1>2, <1>3, <1>4, <1>5 DEF TimelineInv

\* So it is when the server alone takes a step, ...
LEMMA ServerKeepsTimeline ==
    ASSUME TimelineInv, UNCHANGED <<messages, buffers, lastEnded, session, url, saved, told>>,
           made' \in Nat, made <= made', served' \in 1..made' \cup {None},
           said' \in Nat, asked' \in Nat, wire' \in Seq(Sent(made')),
           calls' \in [Call -> {"new", "running", "paused", "over"}],
           agent' \in {"idle", "working", "waiting"}
    PROVE  TimelineInv'
<1>1. messages' \in Seq(Message) /\ Shown(messages') = Shown(messages) /\ OneEach(messages')
  BY DEF TimelineInv, Typed
<1> QED BY <1>1, SightKeepsTimeline

\* ... and when the page puts in a bubble of its own.
LEMMA OwnKeepsCards ==
    ASSUME TimelineInv, NEW r \in {"user", "assistant", "system"}
    PROVE  LET b == Append(messages, Bubble(r, <<Own>>))
           IN /\ b \in Seq(Message) /\ Shown(b) = Shown(messages)
              /\ SameCards(b, messages) /\ OneEach(b)
<1> DEFINE m == Bubble(r, <<Own>>)
<1>1. m \in Message /\ ShownIn(m) = <<>> /\ m.calls = <<>>
  BY OwnShows DEF Bubble
<1>2. messages \in Seq(Message)
  BY DEF TimelineInv, Typed
<1> HIDE DEF m
<1>3. Append(messages, m) \in Seq(Message) /\ Shown(Append(messages, m)) = Shown(messages) \o <<>>
  BY <1>1, <1>2, ShownAppend, AppendProperties
<1>4. Shown(messages) \o <<>> = Shown(messages)
  BY <1>2, ShownPoints, ConcatEmptySeq
<1>5. SameCards(Append(messages, m), messages)
  BY <1>1, <1>2, CardsAppend
<1>6. OneEach(Append(messages, m))
  BY <1>5, SameCardsAgree DEF TimelineInv
<1> QED BY <1>3, <1>4, <1>5, <1>6 DEF m

LEMMA FramesKeepTimeline == ASSUME TimelineInv, Frames PROVE TimelineInv'
<1>f. /\ Flush \in Seq(Message) /\ Shown(Flush) = told /\ OneEach(Flush) /\ told \in Seq(Point)
  BY FlushIsTold
<1>t. lastEnded \in Call \cup {None} /\ made \in Nat /\ asked \in Nat
  BY DEF TimelineInv, Typed
<1>o. told \o <<>> = told
  BY <1>f, ConcatEmptySeq
<1>1. ASSUME OnContent PROVE TimelineInv'
  BY <1>1, ContentKeepsTimeline
<1>2. ASSUME OnReasoning PROVE TimelineInv'
  BY <1>2, ReasoningKeepsTimeline
<1>3. ASSUME Animate PROVE TimelineInv'
  BY <1>3, <1>t, FlushKeepsTimeline DEF Animate, history, bounds
<1>4. ASSUME OnSessionInit PROVE TimelineInv'
  <2>1. /\ Dispatch("session_init") /\ Steady /\ messages' = Flush /\ session' = Head(wire).of
        /\ UNCHANGED <<lastEnded, told>>
    BY <1>4 DEF OnSessionInit
  <2> QED BY <1>f, <1>t, <2>1, Dispatched
<1>5. ASSUME OnToolStart PROVE TimelineInv'
  <2> DEFINE i == Head(wire).of
             p == IF <<"call", i>> \in ToSet(told) THEN <<>> ELSE <<<<"call", i>>>>
  <2>1. /\ Dispatch("tool_start") /\ Steady /\ messages' = Announce(Flush, i) /\ told' = told \o p
        /\ UNCHANGED <<lastEnded, session>>
    BY <1>5 DEF OnToolStart, Tells
  <2>2. i \in Call
    BY <1>t, <2>1, Taken, SaidIn DEF Dispatch
  <2> HIDE DEF i
  <2>3. <<"call", i>> \in ToSet(told) <=> i \in Ids(Flush)
    BY <1>f, <2>2, CallsShown
  <2>4. /\ Announce(Flush, i) \in Seq(Message) /\ OneEach(Announce(Flush, i))
        /\ Shown(Announce(Flush, i))
             = Shown(Flush) \o (IF i \in Ids(Flush) THEN <<>> ELSE <<<<"call", i>>>>)
    BY <1>f, <2>2, AnnounceShows
  <2>5. p = IF i \in Ids(Flush) THEN <<>> ELSE <<<<"call", i>>>>
    BY <2>3
  <2> HIDE DEF p
  <2>6. Shown(Announce(Flush, i)) = told'
    BY <1>f, <2>1, <2>4, <2>5
  <2> QED BY <1>t, <2>1, <2>4, <2>6, Dispatched
<1>6. ASSUME OnToolEnd PROVE TimelineInv'
  <2> DEFINE i == Head(wire).of
  <2>1. /\ Dispatch("tool_end") /\ Steady /\ messages' = MarkDone(Flush, i) /\ lastEnded' = i
        /\ UNCHANGED <<session, told>>
    BY <1>6 DEF OnToolEnd
  <2>2. i \in Call
    BY <1>t, <2>1, Taken, SaidIn DEF Dispatch
  <2> HIDE DEF i
  <2>3. /\ MarkDone(Flush, i) \in Seq(Message) /\ OneEach(MarkDone(Flush, i))
        /\ Shown(MarkDone(Flush, i)) = Shown(Flush)
    BY <1>f, <2>2, MarkDoneShows
  <2> QED BY <1>f, <2>1, <2>2, <2>3, Dispatched
<1>7. ASSUME OnExtraction PROVE TimelineInv'
  <2> DEFINE i == Head(wire).of[1]
             g == TargetId(Head(wire).of[2], NameOf[i], lastEnded)
             b == Extract(Flush, NameOf[i], g, i)
  <2>1. /\ Dispatch("extraction") /\ Steady /\ messages' = b
        /\ UNCHANGED <<lastEnded, session, told>>
    BY <1>7 DEF OnExtraction
  <2>2. i \in Call
    BY <1>t, <2>1, Taken, SaidIn DEF Dispatch
  <2> HIDE DEF i, g
  <2>3. b \in Seq(Message) /\ OneEach(b) /\ Shown(b) = Shown(Flush)
    BY <1>f, <2>2, ExtractShows
  <2> HIDE DEF b
  <2> QED BY <1>f, <1>t, <2>1, <2>3, Dispatched
<1>8. ASSUME OnInterrupt PROVE TimelineInv'
  <2>1. /\ Dispatch("interrupt") /\ Steady /\ messages' = Flush
        /\ UNCHANGED <<lastEnded, session, told>>
    BY <1>8 DEF OnInterrupt
  <2> QED BY <1>f, <1>t, <2>1, Dispatched
<1>q. /\ Quiet(Flush) \in Seq(Message) /\ Shown(Quiet(Flush)) = told /\ OneEach(Quiet(Flush))
  BY <1>f, QuietShows, SameCardsAgree
<1>9. ASSUME OnComplete PROVE TimelineInv'
  <2>1. /\ Dispatch("complete") /\ Steady /\ messages' = Quiet(Flush)
        /\ UNCHANGED <<lastEnded, session, told>>
    BY <1>9 DEF OnComplete
  <2> QED BY <1>q, <1>t, <2>1, Dispatched
<1>10. ASSUME NEW t \in {"error", "cancelled", "user_message"}, Dispatch(t), Steady,
              NEW ms \in {Flush, Quiet(Flush)}, NEW r \in {"user", "assistant", "system"},
              messages' = Append(ms, Bubble(r, <<Head(wire).of>>)), Tells(<<Head(wire).of>>),
              UNCHANGED <<lastEnded, session>>
       PROVE  TimelineInv'
  <2> DEFINE x == Head(wire).of
             b == Append(ms, Bubble(r, <<x>>))
  <2>1. x \in Spoken
    BY <1>10, <1>t, Taken, SaidIn DEF Dispatch
  <2>2. messages' = b /\ told' = told \o <<x>>
    BY <1>10 DEF Tells
  <2>3. ms \in Seq(Message) /\ Shown(ms) = told /\ OneEach(ms)
    BY <1>f, <1>q
  <2> HIDE DEF x
  <2>4. b \in Seq(Message) /\ Shown(b) = told \o <<x>> /\ OneEach(b)
    BY <2>1, <2>3, ToldMore
  <2> HIDE DEF b
  <2> QED BY <1>10, <1>t, <2>2, <2>4, Dispatched
<1>11. ASSUME OnError PROVE TimelineInv'
  BY <1>11, <1>10 DEF OnError
<1>12. ASSUME OnCancelled PROVE TimelineInv'
  BY <1>12, <1>10 DEF OnCancelled
<1>13. ASSUME OnUserMessage PROVE TimelineInv'
  BY <1>13, <1>10 DEF OnUserMessage
<1> QED BY <1>1, <1>2, <1>3, <1>4, <1>5, <1>6, <1>7, <1>8, <1>9, <1>11, <1>12, <1>13 DEF Frames

LEMMA GivenUpIsTyped ==
    ASSUME TimelineInv
    PROVE  /\ GivenUp \in [Call -> {"new", "running", "paused", "over"}]
           /\ calls \in [Call -> {"new", "running", "paused", "over"}]
           /\ agent \in {"idle", "working", "waiting"}
           /\ \A i \in Call : GivenUp[i] # "running"
BY DEF TimelineInv, Typed, GivenUp

LEMMA RequestsKeepTimeline == ASSUME TimelineInv, Requests PROVE TimelineInv'
<1>t. /\ messages \in Seq(Message) /\ made \in Nat /\ said \in Nat /\ asked \in Nat
      /\ served \in 1..made \cup {None} /\ wire \in Seq(Sent(made)) /\ OneEach(messages)
  BY DEF TimelineInv, Typed, Numbered
<1>u. UNCHANGED <<buffers, lastEnded, session, url, saved, told, made, served, said, asked, wire>>
  <2>1. CASE ChatTaken \/ ChatFails \/ AnswerTaken \/ AnswerFails \/ CancelTaken
    BY <2>1 DEF ChatTaken, ChatFails, AnswerTaken, AnswerFails, CancelTaken, Unanswered, link, bounds
  <2>2. CASE AnswerRefused
    BY <2>2 DEF AnswerRefused, link, server, history, bounds
  <2> QED BY <2>1, <2>2 DEF Requests
<1>m. /\ messages' \in Seq(Message) /\ Shown(messages') = Shown(messages) /\ OneEach(messages')
  <2>1. CASE ChatTaken \/ ChatFails \/ AnswerTaken \/ AnswerFails \/ CancelTaken
    <3>1. messages' = messages
      BY <2>1 DEF ChatTaken, ChatFails, AnswerTaken, AnswerFails, CancelTaken
    <3> QED BY <1>t, <3>1
  <2>2. CASE AnswerRefused
    <3>1. messages' = Append(messages, Bubble("assistant", <<Own>>))
      BY <2>2 DEF AnswerRefused
    <3> QED BY <3>1, OwnKeepsCards
  <2> QED BY <2>1, <2>2 DEF Requests
<1>a. /\ calls' \in [Call -> {"new", "running", "paused", "over"}]
      /\ agent' \in {"idle", "working", "waiting"}
  <2>1. CASE ChatTaken
    BY <2>1, GivenUpIsTyped DEF ChatTaken, StartTurn
  <2>2. CASE ChatFails
    BY <2>2, GivenUpIsTyped DEF ChatFails, StartTurn, turns
  <2>3. CASE AnswerTaken
    BY <2>3, GivenUpIsTyped DEF AnswerTaken, Resume, StartTurn
  <2>4. CASE AnswerRefused
    BY <2>4, GivenUpIsTyped DEF AnswerRefused, server, turns
  <2>5. CASE AnswerFails
    BY <2>5, GivenUpIsTyped DEF AnswerFails, Resume, StartTurn, turns
  <2>6. CASE CancelTaken
    BY <2>6, GivenUpIsTyped DEF CancelTaken, turns
  <2> QED BY <2>1, <2>2, <2>3, <2>4, <2>5, <2>6 DEF Requests
<1>k. /\ made' = made /\ served' = served /\ said' = said /\ asked' = asked /\ wire' = wire
  BY <1>u
<1>n. /\ made' \in Nat /\ made <= made' /\ served' \in 1..made' \cup {None}
      /\ said' \in Nat /\ asked' \in Nat /\ wire' \in Seq(Sent(made'))
  BY <1>t, <1>k
<1> QED BY <1>u, <1>m, <1>a, <1>n, SightKeepsTimeline

LEMMA UserKeepsTimeline ==
    ASSUME TimelineInv, Send \/ Respond \/ CancelStream \/ ResetSession \/ Reload \/ Persist
    PROVE  TimelineInv'
<1>t. /\ messages \in Seq(Message) /\ made \in Nat /\ said \in Nat /\ asked \in Nat
      /\ served \in 1..made \cup {None} /\ wire \in Seq(Sent(made)) /\ OneEach(messages)
      /\ calls \in [Call -> {"new", "running", "paused", "over"}]
      /\ agent \in {"idle", "working", "waiting"}
  BY DEF TimelineInv, Typed, Numbered
<1>s. /\ saved \in [session : Nat \cup {None}, messages : Seq(Message)]
      /\ session \in 1..made \cup {None} /\ url \in 1..made \cup {None}
      /\ saved.session \in 1..made \cup {None} /\ OneEach(saved.messages)
  BY DEF TimelineInv, Typed, Numbered
<1>1. CASE Send \/ Respond
  <2>1. /\ UNCHANGED <<buffers, lastEnded, session, url, saved, told, made, served, said, wire,
                       calls, agent>>
        /\ asked' = asked + 1
    BY <1>1 DEF Send, Respond, link, server, turns, history
  <2>2. messages' = messages \/ messages' = Append(messages, Bubble("user", <<Own>>))
    BY <1>1 DEF Send, Respond
  <2>3. /\ messages' \in Seq(Message) /\ Shown(messages') = Shown(messages) /\ OneEach(messages')
    BY <1>t, <2>2, OwnKeepsCards
  <2>4. /\ made' = made /\ served' = served /\ said' = said /\ wire' = wire /\ calls' = calls
        /\ agent' = agent
    BY <2>1
  <2>5. /\ made' \in Nat /\ made <= made' /\ served' \in 1..made' \cup {None}
        /\ said' \in Nat /\ asked' \in Nat /\ wire' \in Seq(Sent(made'))
        /\ calls' \in [Call -> {"new", "running", "paused", "over"}]
        /\ agent' \in {"idle", "working", "waiting"}
    BY <1>t, <2>1, <2>4
  <2> QED BY <2>1, <2>3, <2>5, SightKeepsTimeline
<1>2. CASE CancelStream
  BY <1>2, <1>t, FlushKeepsTimeline DEF CancelStream, history
<1>3. CASE ResetSession
  <2>1. /\ messages' = <<>> /\ content' = <<>> /\ reasoning' = <<>> /\ told' = <<>>
        /\ session' = None /\ url' = None /\ saved' = Nothing
        /\ UNCHANGED <<lastEnded, made, served, calls, agent, said, wire, asked>>
    BY <1>3 DEF ResetSession, server, turns
  <2>2. Shown(<<>>) = <<>>
    <3>1. Len(<<>>) = 0 /\ Len(<<>>) \in Nat
      OBVIOUS
    <3> QED BY <3>1, ShownSteps DEF Shown
  <2>3. TranscriptInOrder'
    <3>1. messages' \in Seq(Message) /\ Shown(messages') = told'
      BY <2>1, <2>2
    <3> QED BY <2>1, <3>1, ShownInOrder
  <2>4. Nothing.messages = <<>> /\ Nothing.session = None
        /\ Nothing \in [session : Nat \cup {None}, messages : Seq(Message)]
    BY DEF Nothing
  <2>5. OneEach(<<>>)
    BY DEF OneEach, CardsIn
  <2>6. Typed' /\ Numbered'
    BY <2>1, <2>4 DEF TimelineInv, Typed, Numbered
  <2>7. OneEach(messages') /\ OneEach(saved'.messages)
    BY <2>1, <2>4, <2>5
  <2> QED BY <2>3, <2>6, <2>7 DEF TimelineInv
<1>4. CASE Reload
  <2>1. /\ messages' = saved.messages /\ content' = <<>> /\ reasoning' = <<>>
        /\ told' = Shown(saved.messages) /\ lastEnded' = None
        /\ session' = saved.session /\ url' = saved.session
        /\ UNCHANGED <<saved, made, served, calls, agent, said, wire, asked>>
    BY <1>4 DEF Reload, server, turns
  <2>2. saved.messages \in Seq(Message)
    BY <1>s
  <2>3. TranscriptInOrder'
    <3>1. messages' \in Seq(Message) /\ Shown(messages') = told'
      BY <2>1, <2>2
    <3> QED BY <2>1, <3>1, ShownInOrder
  <2>4. Typed' /\ Numbered'
    BY <1>s, <2>1, <2>2 DEF TimelineInv, Typed, Numbered
  <2>5. OneEach(messages') /\ OneEach(saved'.messages)
    BY <1>s, <2>1
  <2> QED BY <2>3, <2>4, <2>5 DEF TimelineInv
<1>5. CASE Persist
  <2>1. /\ saved' = [session |-> session, messages |-> messages]
        /\ UNCHANGED <<messages, content, reasoning, raf, told, lastEnded, session, url,
                       made, served, calls, agent, said, wire, asked>>
    BY <1>5 DEF Persist, view, buffers, link, server, turns, history, bounds
  <2>2. /\ saved'.session = session /\ saved'.messages = messages
        /\ saved' \in [session : Nat \cup {None}, messages : Seq(Message)]
    BY <1>t, <1>s, <2>1
  <2>3. TranscriptInOrder'
    <3>1. (Shown(messages))' = Shown(messages)
      BY <2>1
    <3> HIDE DEF Shown
    <3> QED BY <2>1, <3>1 DEF TimelineInv, TranscriptInOrder
  <2>4. Typed' /\ Numbered'
    BY <1>s, <2>1, <2>2 DEF TimelineInv, Typed, Numbered
  <2>5. OneEach(messages') /\ OneEach(saved'.messages)
    BY <1>t, <2>1, <2>2
  <2> QED BY <2>3, <2>4, <2>5 DEF TimelineInv
<1> QED BY <1>1, <1>2, <1>3, <1>4, <1>5

LEMMA EmitKeepsTimeline ==
    ASSUME TimelineInv, NEW fs \in Seq(Sent(made)), Emit(fs), said' \in Nat,
           calls' \in [Call -> {"new", "running", "paused", "over"}],
           agent' \in {"idle", "working", "waiting"}
    PROVE  TimelineInv'
<1>1. /\ UNCHANGED <<messages, buffers, lastEnded, session, url, saved, told, made, served, asked>>
      /\ wire' = wire \o fs
  BY DEF Emit, Serverside, view, store
<1>2. /\ made \in Nat /\ asked \in Nat /\ served \in 1..made \cup {None} /\ wire \in Seq(Sent(made))
  BY DEF TimelineInv, Typed, Numbered
<1>3. wire' \in Seq(Sent(made))
  BY <1>1, <1>2, ConcatProperties
<1>4. made' = made /\ served' = served /\ asked' = asked
  BY <1>1
<1>5. /\ made' \in Nat /\ made <= made' /\ served' \in 1..made' \cup {None} /\ asked' \in Nat
      /\ wire' \in Seq(Sent(made'))
  BY <1>2, <1>3, <1>4
<1> QED BY <1>1, <1>5, ServerKeepsTimeline

\* What a step of the agent sends.
Turn ==
    \/ Speak("content") \/ Speak("reasoning") \/ Interrupt \/ EndTurn \/ EndCancelled
    \/ \E i \in Call : StartCall(i) \/ EndCall(i)

LEMMA TurnKeepsTimeline == ASSUME TimelineInv, Turn PROVE TimelineInv'
<1>t. /\ made \in Nat /\ said \in Nat
      /\ calls \in [Call -> {"new", "running", "paused", "over"}]
      /\ agent \in {"idle", "working", "waiting"}
  BY DEF TimelineInv, Typed
<1>1. ASSUME NEW t \in {"content", "reasoning"}, Speak(t) PROVE TimelineInv'
  <2> DEFINE f == Frame(t, <<"text", said'>>)
  <2>1. said' \in Nat /\ Emit(<<f>>) /\ UNCHANGED <<agent, calls>>
    BY <1>1, <1>t DEF Speak, turns
  <2>2. <<"text", said'>> \in Spoken
    BY <2>1 DEF Spoken
  <2>3. f \in Sent(made)
    BY <1>t, <2>2, SaidFrame
  <2> HIDE DEF f
  <2>4. <<f>> \in Seq(Sent(made))
    BY <2>3
  <2> QED BY <1>t, <2>1, <2>4, EmitKeepsTimeline
<1>2. CASE Interrupt
  <2> DEFINE f == Frame("interrupt", None)
             g == Frame("complete", None)
  <2>1. Emit(<<f, g>>) /\ UNCHANGED said /\ agent' = "waiting"
        /\ calls' = [i \in Call |-> IF calls[i] = "running" THEN "paused" ELSE calls[i]]
    BY <1>2 DEF Interrupt
  <2>2. f \in Sent(made) /\ g \in Sent(made)
    BY <1>t, SaidFrame
  <2>3. calls' \in [Call -> {"new", "running", "paused", "over"}]
    BY <1>t, <2>1
  <2> HIDE DEF f, g
  <2>4. <<f, g>> \in Seq(Sent(made))
    BY <2>2
  <2> QED BY <1>t, <2>1, <2>3, <2>4, EmitKeepsTimeline
<1>3. CASE EndTurn
  <2> DEFINE f == Frame("complete", None)
             g == Frame("error", <<"error", 0>>)
  <2>1. (Emit(<<f>>) \/ Emit(<<g>>)) /\ UNCHANGED said /\ agent' = "idle" /\ calls' = GivenUp
    BY <1>3 DEF EndTurn
  <2>2. f \in Sent(made) /\ g \in Sent(made)
    <3>1. <<"error", 0>> \in Spoken
      BY DEF Spoken
    <3> QED BY <1>t, <3>1, SaidFrame
  <2> HIDE DEF f, g
  <2>3. <<f>> \in Seq(Sent(made)) /\ <<g>> \in Seq(Sent(made))
    BY <2>2
  <2> QED BY <1>t, <2>1, <2>3, GivenUpIsTyped, EmitKeepsTimeline
<1>4. CASE EndCancelled
  <2> DEFINE f == Frame("cancelled", <<"cancelled", 0>>)
  <2>1. Emit(<<f>>) /\ UNCHANGED <<said, agent, calls>>
    BY <1>4 DEF EndCancelled
  <2>2. f \in Sent(made)
    <3>1. <<"cancelled", 0>> \in Spoken
      BY DEF Spoken
    <3> QED BY <1>t, <3>1, SaidFrame
  <2> HIDE DEF f
  <2>3. <<f>> \in Seq(Sent(made))
    BY <2>2
  <2> QED BY <1>t, <2>1, <2>3, EmitKeepsTimeline
<1>5. ASSUME NEW i \in Call, StartCall(i) PROVE TimelineInv'
  <2> DEFINE f == Frame("tool_start", i)
  <2>1. /\ Emit(<<f>>) /\ UNCHANGED agent /\ said' = said + 1
        /\ calls' = [calls EXCEPT ![i] = "running"]
    BY <1>5 DEF StartCall
  <2>2. f \in Sent(made)
    BY <1>t, SaidFrame
  <2>3. /\ calls' \in [Call -> {"new", "running", "paused", "over"}] /\ said' \in Nat
        /\ agent' \in {"idle", "working", "waiting"}
    BY <1>t, <2>1
  <2> HIDE DEF f
  <2>4. <<f>> \in Seq(Sent(made))
    BY <2>2
  <2> QED BY <2>1, <2>3, <2>4, EmitKeepsTimeline
<1>6. ASSUME NEW i \in Call, EndCall(i) PROVE TimelineInv'
  <2> DEFINE f == Frame("tool_end", i)
             g(id) == Frame("extraction", <<i, id>>)
  <2>1. /\ UNCHANGED <<agent, said>> /\ calls' = [calls EXCEPT ![i] = "over"]
        /\ \E more \in {<<>>} \cup {<<g(id)>> : id \in {i, None}} : Emit(<<f>> \o more)
    BY <1>6 DEF EndCall
  <2>2. f \in Sent(made) /\ \A id \in {i, None} : g(id) \in Sent(made)
    BY <1>t, SaidFrame
  <2>3. calls' \in [Call -> {"new", "running", "paused", "over"}]
    BY <1>t, <2>1
  <2> HIDE DEF f, g
  <2>4. PICK more \in {<<>>} \cup {<<g(id)>> : id \in {i, None}} : Emit(<<f>> \o more)
    BY <2>1
  <2>5. more \in Seq(Sent(made)) /\ <<f>> \in Seq(Sent(made))
    <3>1. more = <<>> \/ \E id \in {i, None} : more = <<g(id)>>
      OBVIOUS
    <3>2. <<>> \in Seq(Sent(made)) /\ <<f>> \in Seq(Sent(made))
      BY <2>2
    <3>3. ASSUME NEW id \in {i, None}, more = <<g(id)>> PROVE more \in Seq(Sent(made))
      <4>1. g(id) \in Sent(made)
        BY <2>2
      <4> QED BY <4>1, <3>3
    <3> QED BY <3>1, <3>2, <3>3
  <2>6. <<f>> \o more \in Seq(Sent(made))
    BY <2>5, ConcatProperties
  <2> QED BY <1>t, <2>1, <2>3, <2>4, <2>6, EmitKeepsTimeline
<1> QED BY <1>1, <1>2, <1>3, <1>4, <1>5, <1>6 DEF Turn

LEMMA StreamKeepsTimeline == ASSUME TimelineInv, Connect \/ Drop \/ Inject PROVE TimelineInv'
<1>t. /\ made \in Nat /\ said \in Nat /\ asked \in Nat /\ wire \in Seq(Sent(made))
      /\ served \in 1..made \cup {None} /\ url \in 1..made \cup {None}
      /\ calls \in [Call -> {"new", "running", "paused", "over"}]
      /\ agent \in {"idle", "working", "waiting"}
  BY DEF TimelineInv, Typed, Numbered
<1>1. CASE Connect
  <2> DEFINE init == Frame("session_init", served')
  <2>1. UNCHANGED <<messages, buffers, lastEnded, session, url, saved, told, said, asked>>
    BY <1>1 DEF Connect, Serverside, view, store
  <2>2. \/ url = None /\ made' = made + 1 /\ served' = made + 1
        \/ url # None /\ made' = made /\ served' = url
    BY <1>1 DEF Connect
  <2>3. made' \in Nat /\ made <= made' /\ served' \in 1..made' /\ None \notin Nat
    BY <1>t, <2>2, StreamAssumption
  <2>4. \/ served' = served /\ wire' = <<init>> \o wire /\ UNCHANGED <<agent, calls>>
        \/ served' # served /\ wire' = <<init>> /\ agent' = "idle" /\ calls' = GivenUp
    BY <1>1 DEF Connect, turns
  <2>5. init \in Sent(made')
    BY <2>3, SaidFrame
  <2>6. made' = made \/ served' # served
    BY <1>t, <2>2, <2>3
  <2> HIDE DEF init
  <2>7. wire' \in Seq(Sent(made'))
    <3>1. <<init>> \in Seq(Sent(made'))
      BY <2>5
    <3>2. CASE served' = served
      <4>1. wire \in Seq(Sent(made')) /\ wire' = <<init>> \o wire
        BY <1>t, <2>4, <2>6, <3>2
      <4> QED BY <3>1, <4>1, ConcatProperties
    <3>3. CASE served' # served
      BY <2>4, <3>1, <3>3
    <3> QED BY <3>2, <3>3
  <2>8. said' \in Nat /\ asked' \in Nat
    BY <1>t, <2>1
  <2>9. calls' \in [Call -> {"new", "running", "paused", "over"}] /\ agent' \in {"idle", "working", "waiting"}
    BY <1>t, <2>4, GivenUpIsTyped
  <2> QED BY <2>1, <2>3, <2>7, <2>8, <2>9, ServerKeepsTimeline
<1>2. CASE Drop
  <2>1. /\ UNCHANGED <<messages, buffers, lastEnded, session, url, saved, told, made, served,
                       said, asked, calls, agent>>
        /\ \E n \in 1..(Len(wire) + 1) : wire' = SubSeq(wire, n, Len(wire))
    BY <1>2 DEF Drop, Serverside, view, store, server, turns
  <2>2. PICK n \in 1..(Len(wire) + 1) : wire' = SubSeq(wire, n, Len(wire))
    BY <2>1
  <2>3. wire' \in Seq(Sent(made))
    BY <1>t, <2>2, SubSeqProperties
  <2>4. /\ made' = made /\ served' = served /\ said' = said /\ asked' = asked
        /\ calls' = calls /\ agent' = agent
    BY <2>1
  <2>5. /\ made' \in Nat /\ made <= made' /\ served' \in 1..made' \cup {None}
        /\ said' \in Nat /\ asked' \in Nat /\ wire' \in Seq(Sent(made'))
        /\ calls' \in [Call -> {"new", "running", "paused", "over"}]
        /\ agent' \in {"idle", "working", "waiting"}
    BY <1>t, <2>3, <2>4
  <2> QED BY <2>1, <2>5, ServerKeepsTimeline
<1>3. CASE Inject
  <2> DEFINE f == Frame("user_message", <<"injected", asked'>>)
  <2>1. /\ UNCHANGED <<messages, buffers, lastEnded, session, url, saved, told, made, served, said>>
        /\ asked' = asked + 1 /\ wire' = Append(wire, f) /\ StartTurn
    BY <1>3 DEF Inject, view, link, store, history
  <2>2. asked' \in Nat /\ <<"injected", asked'>> \in Spoken
    BY <1>t, <2>1 DEF Spoken
  <2>3. f \in Sent(made)
    BY <1>t, <2>2, SaidFrame
  <2> HIDE DEF f
  <2>4. wire' \in Seq(Sent(made))
    BY <1>t, <2>1, <2>3, AppendProperties
  <2>5. /\ made' = made /\ served' = served /\ said' = said
    BY <2>1
  <2>6. /\ made' \in Nat /\ made <= made' /\ served' \in 1..made' \cup {None}
        /\ said' \in Nat /\ wire' \in Seq(Sent(made'))
    BY <1>t, <2>4, <2>5
  <2>7. calls' \in [Call -> {"new", "running", "paused", "over"}] /\ agent' \in {"idle", "working", "waiting"}
    BY <2>1, GivenUpIsTyped DEF StartTurn
  <2> QED BY <2>1, <2>2, <2>6, <2>7, ServerKeepsTimeline
<1> QED BY <1>1, <1>2, <1>3

LEMMA TimelineAtFirst == ASSUME Init PROVE TimelineInv
<1>1. /\ messages = <<>> /\ content = <<>> /\ reasoning = <<>> /\ told = <<>> /\ saved = Nothing
      /\ lastEnded = None /\ session = None /\ url = None /\ made = 0 /\ served = None
      /\ wire = <<>> /\ agent = "idle" /\ calls = [i \in Call |-> "new"] /\ said = 0 /\ asked = 0
  BY DEF Init
<1>2. /\ Nothing.messages = <<>> /\ Nothing.session = None
      /\ Nothing \in [session : Nat \cup {None}, messages : Seq(Message)]
  BY DEF Nothing
<1>3. TranscriptInOrder
  <2>1. Shown(<<>>) = <<>>
    <3>1. Len(<<>>) = 0 /\ Len(<<>>) \in Nat
      OBVIOUS
    <3> QED BY <3>1, ShownSteps DEF Shown
  <2>2. <<>> \o <<>> = <<>>
    OBVIOUS
  <2> QED BY <1>1, <2>1, <2>2 DEF TranscriptInOrder
<1>4. Typed /\ Numbered
  BY <1>1, <1>2 DEF Typed, Numbered
<1>5. OneEach(messages) /\ OneEach(saved.messages)
  BY <1>1, <1>2 DEF OneEach, CardsIn
<1> QED BY <1>3, <1>4, <1>5 DEF TimelineInv

LEMMA StutterKeepsTimeline == ASSUME TimelineInv, UNCHANGED vars PROVE TimelineInv'
<1>1. UNCHANGED <<messages, buffers, lastEnded, session, url, saved, told, made, served, said,
                  asked, wire, calls, agent>>
  BY DEF vars, view, link, store, server, turns, history, bounds
<1>2. /\ made \in Nat /\ said \in Nat /\ asked \in Nat /\ wire \in Seq(Sent(made))
      /\ served \in 1..made \cup {None}
      /\ calls \in [Call -> {"new", "running", "paused", "over"}]
      /\ agent \in {"idle", "working", "waiting"}
  BY DEF TimelineInv, Typed, Numbered
<1>3. /\ made' \in Nat /\ made <= made' /\ served' \in 1..made' \cup {None}
      /\ said' \in Nat /\ asked' \in Nat /\ wire' \in Seq(Sent(made'))
      /\ calls' \in [Call -> {"new", "running", "paused", "over"}]
      /\ agent' \in {"idle", "working", "waiting"}
  BY <1>1, <1>2
<1> QED BY <1>1, <1>3, ServerKeepsTimeline

LEMMA StepKeepsTimeline == ASSUME TimelineInv, [Next]_vars PROVE TimelineInv'
<1>1. CASE Frames
  BY <1>1, FramesKeepTimeline
<1>2. CASE Requests
  BY <1>2, RequestsKeepTimeline
<1>3. CASE Send \/ Respond \/ CancelStream \/ ResetSession \/ Reload \/ Persist
  BY <1>3, UserKeepsTimeline
<1>4. CASE Connect \/ Drop \/ Inject
  BY <1>4, StreamKeepsTimeline
<1>5. CASE Turn
  BY <1>5, TurnKeepsTimeline
<1>6. CASE UNCHANGED vars
  BY <1>6, StutterKeepsTimeline
<1> QED BY <1>1, <1>2, <1>3, <1>4, <1>5, <1>6 DEF Next, Turn

LEMMA TimelineAlways == Spec => []TimelineInv
<1>1. Init => TimelineInv
  BY TimelineAtFirst
<1>2. TimelineInv /\ [Next]_vars => TimelineInv'
  BY StepKeepsTimeline
<1> QED BY <1>1, <1>2, PTL DEF Spec

\* The timeline and what waits for the next animation frame are what the page was told: in
\* that order, all of it and once.
THEOREM TimelineIsWhatWasTold == Spec => []TranscriptInOrder
<1>1. TimelineInv => TranscriptInOrder
  BY DEF TimelineInv
<1> QED BY <1>1, TimelineAlways, PTL

----------------------------------------------------------------------------
\* What is left of the types.

Flags ==
    /\ streaming \in BOOLEAN /\ interrupt \in BOOLEAN /\ raf \in BOOLEAN
    /\ dirty \in BOOLEAN /\ torn \in BOOLEAN /\ failed \in BOOLEAN

Plain ==
    /\ conn \in {"connecting", "open", "retry"}
    /\ posting \subseteq {"chat", "answer", "cancel", "late_chat", "late_answer"}
    /\ ending \in Nat /\ breaks \in Nat /\ ended \subseteq Call /\ given \subseteq Call

TypeOK == Typed /\ Numbered /\ Flags /\ Plain /\ told \in Seq(Point)

LEMMA EffectIsTyped ==
    ASSUME Effect PROVE dirty' \in BOOLEAN
BY DEF Effect

\* The page takes a frame.
LEMMA FramesKeepFlags == ASSUME Flags, Frames PROVE Flags'
<1> USE Zenon DEF Flags
<1>1. CASE OnContent \/ OnReasoning
  BY <1>1, EffectIsTyped DEF OnContent, OnReasoning
<1>2. CASE Animate
  BY <1>2, EffectIsTyped DEF Animate, history
<1> USE DEF Steady
<1>3. CASE OnSessionInit \/ OnToolStart \/ OnToolEnd
  BY <1>3, EffectIsTyped DEF OnSessionInit, OnToolStart, OnToolEnd
<1>4. CASE OnExtraction
  BY <1>4, EffectIsTyped DEF OnExtraction
<1>5. CASE OnInterrupt \/ OnComplete
  BY <1>5, EffectIsTyped DEF OnInterrupt, OnComplete
<1>6. CASE OnError \/ OnCancelled \/ OnUserMessage
  BY <1>6, EffectIsTyped DEF OnError, OnCancelled, OnUserMessage
<1> QED BY <1>1, <1>2, <1>3, <1>4, <1>5, <1>6 DEF Frames

\* The user acts, or a request is answered.
LEMMA PageKeepsFlags ==
    ASSUME Flags, Requests \/ Send \/ Respond \/ CancelStream \/ ResetSession \/ Reload \/ Persist
    PROVE  Flags'
<1> USE Zenon DEF Flags, history, view, buffers, store
<1>1. CASE Send \/ Respond \/ CancelStream \/ Persist
  BY <1>1, EffectIsTyped DEF Send, Respond, CancelStream, Persist
<1>2. CASE ResetSession
  BY <1>2 DEF ResetSession
<1>3. CASE Reload
  <2>1. torn' \in BOOLEAN
    BY <1>3 DEF Reload
  <2> QED BY <1>3, <2>1 DEF Reload
<1>4. CASE AnswerRefused
  BY <1>4, EffectIsTyped DEF AnswerRefused
<1>5. CASE ChatTaken \/ AnswerTaken \/ CancelTaken
  BY <1>5 DEF ChatTaken, AnswerTaken, CancelTaken, Unanswered
<1>6. CASE ChatFails \/ AnswerFails
  BY <1>6, EffectIsTyped DEF ChatFails, AnswerFails, Unanswered
<1> QED BY <1>1, <1>2, <1>3, <1>4, <1>5, <1>6 DEF Requests

\* The stream and the agent.
LEMMA ServerKeepsFlags ==
    ASSUME Flags, Connect \/ Drop \/ Inject \/ Turn PROVE Flags'
<1> USE Zenon DEF Flags, Serverside, view, buffers, store
<1>1. CASE Connect
  <2>1. torn' \in BOOLEAN
    BY <1>1 DEF Connect
  <2> QED BY <1>1, <2>1 DEF Connect
<1>2. CASE Drop
  <2>1. torn' \in BOOLEAN
    BY <1>2 DEF Drop
  <2> QED BY <1>2, <2>1 DEF Drop
<1>3. CASE Inject
  BY <1>3 DEF Inject, history
<1>4. CASE Turn
  <2>1. ASSUME NEW fs, Emit(fs) PROVE Flags'
    BY <2>1 DEF Emit
  <2> QED BY <1>4, <2>1 DEF Turn, Speak, Interrupt, EndTurn, EndCancelled, StartCall, EndCall
<1> QED BY <1>1, <1>2, <1>3, <1>4

\* The page takes a frame.
LEMMA FramesKeepPlain == ASSUME TimelineInv, Plain, Frames PROVE Plain'
<1> USE DEF Plain
<1>1. CASE OnContent \/ OnReasoning
  BY <1>1 DEF OnContent, OnReasoning, Take, link, server, turns, bounds
<1>2. CASE Animate
  BY <1>2 DEF Animate, link, server, turns, history, bounds
<1> USE DEF Steady, Dispatch, Take, server, turns, bounds
<1>3. CASE OnSessionInit \/ OnToolStart
  BY <1>3 DEF OnSessionInit, OnToolStart
<1>4. CASE OnToolEnd
  <2>1. Head(wire).of \in Call
    BY <1>4, Taken, SaidIn DEF OnToolEnd, TimelineInv, Typed
  <2> QED BY <1>4, <2>1 DEF OnToolEnd
<1>5. CASE OnExtraction
  <2>1. Head(wire).of[1] \in Call
    BY <1>5, Taken, SaidIn DEF OnExtraction, TimelineInv, Typed
  <2> QED BY <1>5, <2>1 DEF OnExtraction
<1>6. CASE OnInterrupt \/ OnComplete \/ OnError \/ OnCancelled \/ OnUserMessage
  BY <1>6 DEF OnInterrupt, OnComplete, OnError, OnCancelled, OnUserMessage
<1> QED BY <1>1, <1>2, <1>3, <1>4, <1>5, <1>6 DEF Frames

\* The user acts, or a request is answered.
LEMMA PageKeepsPlain ==
    ASSUME TimelineInv, Plain,
           Requests \/ Send \/ Respond \/ CancelStream \/ ResetSession \/ Reload \/ Persist
    PROVE  Plain'
<1> USE DEF Plain, link, server, turns, history, bounds
<1>1. CASE Send \/ Respond \/ CancelStream \/ Persist
  BY <1>1 DEF Send, Respond, CancelStream, Persist
<1>2. CASE ResetSession
  <2>1. posting' \subseteq {"late_chat", "late_answer"}
    BY <1>2 DEF ResetSession, Late
  <2> QED BY <1>2, <2>1 DEF ResetSession, Break
<1>3. CASE Reload
  BY <1>3 DEF Reload, Break
<1>4. CASE AnswerRefused
  BY <1>4 DEF AnswerRefused, Answered
<1>5. CASE ChatTaken \/ AnswerTaken \/ CancelTaken \/ ChatFails \/ AnswerFails
  <2>1. posting' \subseteq posting /\ UNCHANGED <<conn, breaks, ended, given>>
    <3>1. Unanswered
      BY <1>5 DEF ChatTaken, AnswerTaken, CancelTaken, ChatFails, AnswerFails
    <3>2. \E r \in posting : posting' = posting \ {r}
      BY <1>5, Zenon DEF ChatTaken, AnswerTaken, CancelTaken, ChatFails, AnswerFails, Answered
    <3> QED BY <3>1, <3>2 DEF Unanswered
  <2>2. ending' \in {ending, ending + 1}
    BY <1>5, Zenon DEF ChatTaken, AnswerTaken, CancelTaken, ChatFails, AnswerFails, Resume, StartTurn,
                        turns
  <2> QED BY <2>1, <2>2
<1> QED BY <1>1, <1>2, <1>3, <1>4, <1>5 DEF Requests

\* The stream and the agent.
LEMMA ServerKeepsPlain ==
    ASSUME TimelineInv, Plain, Connect \/ Drop \/ Inject \/ Turn PROVE Plain'
<1> USE DEF Plain, Serverside, turns
<1>1. CASE Connect
  BY <1>1 DEF Connect
<1>2. CASE Drop
  BY <1>2 DEF Drop, Break, server
<1>3. CASE Inject
  BY <1>3 DEF Inject, StartTurn, link, history
<1>4. CASE Turn
  <2>1. ASSUME NEW fs, Emit(fs) PROVE UNCHANGED <<conn, posting, breaks, ended, given>>
    BY <2>1 DEF Emit
  <2>2. UNCHANGED <<conn, posting, breaks, ended, given>>
    BY <1>4, <2>1, Zenon DEF Turn, Speak, Interrupt, EndTurn, EndCancelled, StartCall, EndCall
  <2>3. ending' = ending \/ (ending > 0 /\ ending' = ending - 1)
    BY <1>4, Zenon DEF Turn, Speak, Interrupt, EndTurn, EndCancelled, StartCall, EndCall
  <2> QED BY <2>2, <2>3
<1> QED BY <1>1, <1>2, <1>3, <1>4

\* Every variable of the page, the link and the server keeps its type, and the page knows
\* no session the server has not made.
THEOREM TypesHold == Spec => []TypeOK
<1>1. Init => Flags /\ Plain
  <2>1. Init => Flags
    BY Zenon DEF Init, Flags
  <2>2. Init => Plain
    BY DEF Init, Plain
  <2> QED BY <2>1, <2>2
<1>2. ASSUME TimelineInv, Flags, Plain, [Next]_vars PROVE Flags' /\ Plain'
  <2>1. CASE UNCHANGED vars
    <3>1. Flags'
      BY <1>2, <2>1, Zenon DEF Flags, vars, view, buffers, store, history
    <3>2. Plain'
      BY <1>2, <2>1 DEF Plain, vars, link, server, turns, history, bounds
    <3> QED BY <3>1, <3>2
  <2>2. CASE Next
    <3>1. Flags'
      BY <1>2, <2>2, FramesKeepFlags, PageKeepsFlags, ServerKeepsFlags, Zenon DEF Next, Turn
    <3>2. Plain'
      BY <1>2, <2>2, FramesKeepPlain, PageKeepsPlain, ServerKeepsPlain, Zenon DEF Next, Turn
    <3> QED BY <3>1, <3>2
  <2> QED BY <1>2, <2>1, <2>2
<1>3. TimelineInv /\ (Flags /\ Plain) /\ [Next]_vars => (Flags /\ Plain)'
  BY <1>2
<1>4. ASSUME TimelineInv, Flags, Plain PROVE TypeOK
  BY <1>4, FlushIsTold DEF TimelineInv, TypeOK
<1>5. TimelineInv /\ (Flags /\ Plain) => TypeOK
  BY <1>4
<1> QED BY <1>1, <1>3, <1>5, TimelineAlways, PTL DEF Spec

----------------------------------------------------------------------------
\* The frames that wait, against the cards.

\* A card of the call is among I or will be by the n-th frame.
Carded(w, I, i, n) == i \in I \/ \E k \in 1..(n - 1) : w[k].type = "tool_start" /\ w[k].of = i

\* The call is the last to end before the n-th frame; l is the last to end so far, of those in E.
EndedLast(w, l, E, i, n) ==
    \/ l = i /\ i \in E /\ \A k \in 1..(n - 1) : w[k].type # "tool_end"
    \/ \E k \in 1..(n - 1) : /\ w[k].type = "tool_end" /\ w[k].of = i
                             /\ \A m \in (k + 1)..(n - 1) : w[m].type # "tool_end"

\* The frames come in order, also after those that wait: no call ends and none of R runs
\* without a card, and an extraction follows the end of its call.
LinedUp(w, I, l, E, R) ==
    /\ \A n \in 1..Len(w) : w[n].type = "tool_end" => Carded(w, I, w[n].of, n)
    /\ \A n \in 1..Len(w) : w[n].type = "extraction" => EndedLast(w, l, E, w[n].of[1], n)
    /\ \A i \in R : Carded(w, I, i, Len(w) + 1)

\* The page takes the first frame.
LEMMA LinedTake ==
    ASSUME NEW F, NEW w \in Seq(F), w # <<>>, NEW I, NEW l, NEW E, NEW R, LinedUp(w, I, l, E, R),
           NEW I2, I \subseteq I2, w[1].type = "tool_start" => w[1].of \in I2,
           NEW E2, E \subseteq E2, NEW l2,
           IF w[1].type = "tool_end" THEN l2 = w[1].of /\ w[1].of \in E2 ELSE l2 = l
    PROVE  LinedUp(Tail(w), I2, l2, E2, R)
<1> DEFINE t == Tail(w)
<1>1. /\ Len(t) = Len(w) - 1 /\ Len(w) \in Nat /\ Len(t) \in Nat
      /\ \A n \in 1..Len(t) : t[n] = w[n + 1]
  BY HeadTailProperties
<1> HIDE DEF t
<1>2. ASSUME NEW i, NEW n \in 1..Len(w), Carded(w, I, i, n + 1) PROVE Carded(t, I2, i, n)
  <2>1. CASE i \in I
    BY <2>1 DEF Carded
  <2>2. ASSUME NEW k \in 1..((n + 1) - 1), w[k].type = "tool_start", w[k].of = i
        PROVE  Carded(t, I2, i, n)
    <3>1. CASE k = 1
      BY <2>2, <3>1 DEF Carded
    <3>2. CASE k # 1
      <4>1. k - 1 \in 1..(n - 1) /\ k - 1 \in 1..Len(t) /\ (k - 1) + 1 = k
        BY <1>1, <3>2
      <4>2. t[k - 1] = w[k]
        BY <1>1, <4>1
      <4> QED BY <2>2, <4>1, <4>2 DEF Carded
    <3> QED BY <3>1, <3>2
  <2> QED BY <1>2, <2>1, <2>2 DEF Carded
<1>3. ASSUME NEW i, NEW n \in 1..Len(t), EndedLast(w, l, E, i, n + 1)
      PROVE  EndedLast(t, l2, E2, i, n)
  <2>0. \A m \in 1..(n - 1) : t[m] = w[m + 1] /\ m + 1 \in 1..n
    BY <1>1
  <2>1. CASE l = i /\ i \in E /\ \A k \in 1..((n + 1) - 1) : w[k].type # "tool_end"
    <3>1. w[1].type # "tool_end"
      BY <2>1
    <3>2. ASSUME NEW m \in 1..(n - 1) PROVE t[m].type # "tool_end"
      <4>1. m + 1 \in 1..((n + 1) - 1) /\ t[m] = w[m + 1]
        BY <2>0
      <4> QED BY <2>1, <4>1
    <3> QED BY <2>1, <3>1, <3>2 DEF EndedLast
  <2>2. ASSUME NEW k \in 1..((n + 1) - 1), w[k].type = "tool_end", w[k].of = i,
               \A m \in (k + 1)..((n + 1) - 1) : w[m].type # "tool_end"
        PROVE  EndedLast(t, l2, E2, i, n)
    <3>1. CASE k = 1
      <4>1. \A m \in 1..(n - 1) : t[m].type # "tool_end"
        BY <2>0, <2>2, <3>1
      <4> QED BY <2>2, <3>1, <4>1 DEF EndedLast
    <3>2. CASE k # 1
      <4>1. k - 1 \in 1..(n - 1) /\ t[k - 1] = w[k]
        <5>1. k - 1 \in 1..(n - 1) /\ (k - 1) + 1 = k
          BY <3>2
        <5> QED BY <2>0, <5>1
      <4>2. ASSUME NEW m \in ((k - 1) + 1)..(n - 1) PROVE t[m].type # "tool_end"
        <5>1. m \in 1..(n - 1) /\ m + 1 \in (k + 1)..((n + 1) - 1)
          OBVIOUS
        <5> QED BY <2>0, <2>2, <5>1
      <4> QED BY <2>2, <4>1, <4>2 DEF EndedLast
    <3> QED BY <3>1, <3>2
  <2> QED BY <1>3, <2>1, <2>2 DEF EndedLast
<1>4. ASSUME NEW n \in 1..Len(t), t[n].type = "tool_end" PROVE Carded(t, I2, t[n].of, n)
  <2>1. t[n] = w[n + 1] /\ n + 1 \in 1..Len(w) /\ n \in 1..Len(w)
    BY <1>1
  <2>2. Carded(w, I, w[n + 1].of, n + 1)
    BY <1>4, <2>1 DEF LinedUp
  <2> QED BY <1>2, <2>1, <2>2
<1>5. ASSUME NEW n \in 1..Len(t), t[n].type = "extraction" PROVE EndedLast(t, l2, E2, t[n].of[1], n)
  <2>1. t[n] = w[n + 1] /\ n + 1 \in 1..Len(w)
    BY <1>1
  <2>2. EndedLast(w, l, E, w[n + 1].of[1], n + 1)
    BY <1>5, <2>1 DEF LinedUp
  <2> QED BY <1>3, <2>1, <2>2
<1>6. ASSUME NEW i \in R PROVE Carded(t, I2, i, Len(t) + 1)
  <2>1. Carded(w, I, i, Len(w) + 1)
    BY DEF LinedUp
  <2>2. Len(w) \in 1..Len(w) /\ Len(t) + 1 = Len(w)
    <3>1. Len(w) # 0
      OBVIOUS
    <3> QED BY <1>1, <3>1
  <2> QED BY <1>2, <2>1, <2>2
<1> QED BY <1>4, <1>5, <1>6 DEF LinedUp, t

\* The server puts a frame at the end.
LEMMA LinedPut ==
    ASSUME NEW F, NEW w \in Seq(F), NEW f \in F, NEW I, NEW l, NEW E, NEW R,
           LinedUp(w, I, l, E, R), f.type = "tool_end" => f.of \in R,
           f.type = "extraction" => EndedLast(w, l, E, f.of[1], Len(w) + 1),
           NEW R2, \A i \in R2 : i \in R \/ (f.type = "tool_start" /\ f.of = i)
    PROVE  /\ LinedUp(Append(w, f), I, l, E, R2)
           /\ f.type = "tool_end" => EndedLast(Append(w, f), l, E, f.of, Len(w) + 2)
<1> DEFINE b == Append(w, f)
           N == Len(w)
<1>1. N \in Nat /\ Len(b) = N + 1 /\ b[N + 1] = f /\ \A n \in 1..N : b[n] = w[n]
  BY AppendProperties
<1>0. /\ \A n \in 1..N : w[n].type = "tool_end" => Carded(w, I, w[n].of, n)
      /\ \A n \in 1..N : w[n].type = "extraction" => EndedLast(w, l, E, w[n].of[1], n)
      /\ \A i \in R : Carded(w, I, i, N + 1)
  BY DEF LinedUp
<1> HIDE DEF b
<1>2. ASSUME NEW i, NEW n \in 1..(N + 1), Carded(w, I, i, n)
      PROVE  Carded(b, I, i, n) /\ Carded(b, I, i, N + 2)
  <2>1. \A k \in 1..(n - 1) : b[k] = w[k] /\ k \in 1..((N + 2) - 1)
    <3> HIDE DEF N
    <3> QED BY <1>1
  <2> HIDE DEF N
  <2> QED BY <1>2, <2>1 DEF Carded
<1>3. ASSUME NEW i, NEW n \in 1..(N + 1), EndedLast(w, l, E, i, n) PROVE EndedLast(b, l, E, i, n)
  <2>1. \A k \in 1..(n - 1) : b[k] = w[k]
    <3> HIDE DEF N
    <3> QED BY <1>1
  <2> HIDE DEF N
  <2>2. ASSUME NEW k \in 1..(n - 1), w[k].type = "tool_end", w[k].of = i,
               \A m \in (k + 1)..(n - 1) : w[m].type # "tool_end"
        PROVE  EndedLast(b, l, E, i, n)
    <3>1. \A m \in (k + 1)..(n - 1) : m \in 1..(n - 1)
      BY <1>1
    <3>2. \A m \in (k + 1)..(n - 1) : b[m].type # "tool_end"
      BY <2>1, <2>2, <3>1
    <3> QED BY <2>1, <2>2, <3>2 DEF EndedLast
  <2> QED BY <1>3, <2>1, <2>2 DEF EndedLast
<1> HIDE DEF N
<1>4. ASSUME NEW n \in 1..Len(b), b[n].type = "tool_end" PROVE Carded(b, I, b[n].of, n)
  <2>1. CASE n = N + 1
    <3>1. b[n] = f /\ n \in 1..(N + 1)
      BY <1>1, <2>1
    <3>2. Carded(w, I, f.of, n)
      BY <1>0, <1>4, <2>1, <3>1
    <3> QED BY <1>2, <3>1, <3>2
  <2>2. CASE n # N + 1
    <3>1. n \in 1..N /\ n \in 1..(N + 1)
      BY <1>1, <2>2
    <3>2. b[n] = w[n]
      BY <1>1, <3>1
    <3>3. Carded(w, I, w[n].of, n)
      BY <1>0, <1>4, <3>1, <3>2
    <3> QED BY <1>2, <3>1, <3>2, <3>3
  <2> QED BY <2>1, <2>2
<1>5. ASSUME NEW n \in 1..Len(b), b[n].type = "extraction" PROVE EndedLast(b, l, E, b[n].of[1], n)
  <2>1. CASE n = N + 1
    <3>1. b[n] = f /\ n \in 1..(N + 1)
      BY <1>1, <2>1
    <3>2. EndedLast(w, l, E, f.of[1], n)
      BY <1>5, <2>1, <3>1 DEF N
    <3> QED BY <1>3, <3>1, <3>2
  <2>2. CASE n # N + 1
    <3>1. n \in 1..N /\ n \in 1..(N + 1)
      BY <1>1, <2>2
    <3>2. b[n] = w[n]
      BY <1>1, <3>1
    <3>3. EndedLast(w, l, E, w[n].of[1], n)
      BY <1>0, <1>5, <3>1, <3>2
    <3> QED BY <1>3, <3>1, <3>2, <3>3
  <2> QED BY <2>1, <2>2
<1>6. ASSUME NEW i \in R2 PROVE Carded(b, I, i, Len(b) + 1)
  <2>1. Len(b) + 1 = N + 2 /\ N + 1 \in 1..(N + 1) /\ N + 1 \in 1..((N + 2) - 1)
    BY <1>1
  <2>2. CASE i \in R
    <3>1. Carded(w, I, i, N + 1)
      BY <1>0, <2>2
    <3> QED BY <1>2, <2>1, <3>1
  <2>3. CASE f.type = "tool_start" /\ f.of = i
    BY <1>1, <2>1, <2>3 DEF Carded
  <2> QED BY <2>2, <2>3
<1>7. ASSUME f.type = "tool_end" PROVE EndedLast(b, l, E, f.of, N + 2)
  <2>1. N + 1 \in 1..((N + 2) - 1) /\ ((N + 1) + 1)..((N + 2) - 1) = {}
    BY <1>1
  <2> QED BY <1>1, <1>7, <2>1 DEF EndedLast
<1>8. LinedUp(b, I, l, E, R2)
  BY <1>4, <1>5, <1>6 DEF LinedUp
<1> QED BY <1>7, <1>8 DEF b, N

\* A stream begins with the frame of its session.
LEMMA LinedBegin ==
    ASSUME NEW F, NEW w \in Seq(F), NEW f \in F, f.type = "session_init", NEW I, NEW l, NEW E,
           NEW R, LinedUp(w, I, l, E, R)
    PROVE  LinedUp(<<f>> \o w, I, l, E, R)
<1> DEFINE b == <<f>> \o w
           N == Len(w)
<1>1. N \in Nat /\ Len(b) = N + 1 /\ b[1] = f /\ \A n \in 1..N : b[n + 1] = w[n]
  <2>1. <<f>> \in Seq(F) /\ Len(<<f>>) = 1
    OBVIOUS
  <2>2. Len(b) = 1 + Len(w) /\ \A i \in 1..Len(b) : b[i] = IF i <= 1 THEN <<f>>[i] ELSE w[i - 1]
    BY <2>1, ConcatProperties
  <2>3. N \in Nat /\ Len(b) = N + 1
    BY <2>2
  <2> HIDE DEF b, N
  <2>4. b[1] = f
    BY <2>2, <2>3
  <2>5. ASSUME NEW n \in 1..N PROVE b[n + 1] = w[n]
    <3>1. n + 1 \in 1..Len(b) /\ ~(n + 1 <= 1) /\ (n + 1) - 1 = n
      BY <2>3
    <3> QED BY <2>2, <3>1
  <2> QED BY <2>3, <2>4, <2>5
<1>0. /\ \A n \in 1..N : w[n].type = "tool_end" => Carded(w, I, w[n].of, n)
      /\ \A n \in 1..N : w[n].type = "extraction" => EndedLast(w, l, E, w[n].of[1], n)
      /\ \A i \in R : Carded(w, I, i, N + 1)
  BY DEF LinedUp
<1> HIDE DEF b, N
<1>2. ASSUME NEW i, NEW n \in 1..(N + 1), Carded(w, I, i, n) PROVE Carded(b, I, i, n + 1)
  <2>1. ASSUME NEW k \in 1..(n - 1), w[k].type = "tool_start", w[k].of = i
        PROVE  Carded(b, I, i, n + 1)
    <3>1. k + 1 \in 1..((n + 1) - 1) /\ b[k + 1] = w[k]
      BY <1>1
    <3> QED BY <2>1, <3>1 DEF Carded
  <2> QED BY <1>2, <2>1 DEF Carded
<1>3. ASSUME NEW i, NEW n \in 1..N, EndedLast(w, l, E, i, n) PROVE EndedLast(b, l, E, i, n + 1)
  <2>0. ASSUME NEW m \in 2..((n + 1) - 1) PROVE m - 1 \in 1..(n - 1) /\ b[m] = w[m - 1]
    <3>1. m - 1 \in 1..(n - 1) /\ m - 1 \in 1..N /\ (m - 1) + 1 = m
      BY <1>1
    <3> QED BY <1>1, <3>1
  <2>1. CASE l = i /\ i \in E /\ \A k \in 1..(n - 1) : w[k].type # "tool_end"
    <3>1. ASSUME NEW m \in 1..((n + 1) - 1) PROVE b[m].type # "tool_end"
      <4>1. CASE m = 1
        BY <1>1, <4>1
      <4>2. CASE m # 1
        <5>1. m \in 2..((n + 1) - 1)
          BY <4>2
        <5> QED BY <2>0, <2>1, <5>1
      <4> QED BY <4>1, <4>2
    <3> QED BY <2>1, <3>1 DEF EndedLast
  <2>2. ASSUME NEW k \in 1..(n - 1), w[k].type = "tool_end", w[k].of = i,
               \A m \in (k + 1)..(n - 1) : w[m].type # "tool_end"
        PROVE  EndedLast(b, l, E, i, n + 1)
    <3>1. k + 1 \in 1..((n + 1) - 1) /\ b[k + 1] = w[k]
      BY <1>1
    <3>2. ASSUME NEW m \in ((k + 1) + 1)..((n + 1) - 1) PROVE b[m].type # "tool_end"
      <4>1. m \in 2..((n + 1) - 1) /\ m - 1 \in (k + 1)..(n - 1)
        OBVIOUS
      <4> QED BY <2>0, <2>2, <4>1
    <3> QED BY <2>2, <3>1, <3>2 DEF EndedLast
  <2> QED BY <1>3, <2>1, <2>2 DEF EndedLast
<1>4. ASSUME NEW n \in 1..Len(b), n # 1 PROVE n - 1 \in 1..N /\ b[n] = w[n - 1] /\ (n - 1) + 1 = n
  <2>1. n - 1 \in 1..N /\ (n - 1) + 1 = n
    BY <1>1, <1>4
  <2> QED BY <1>1, <2>1
<1>5. ASSUME NEW n \in 1..Len(b), b[n].type = "tool_end" PROVE Carded(b, I, b[n].of, n)
  <2>1. n # 1
    BY <1>1, <1>5
  <2>2. n - 1 \in 1..N /\ b[n] = w[n - 1] /\ (n - 1) + 1 = n /\ n - 1 \in 1..(N + 1)
    BY <1>1, <1>4, <2>1
  <2>3. Carded(w, I, b[n].of, n - 1)
    BY <1>0, <1>5, <2>2
  <2> QED BY <1>2, <2>2, <2>3
<1>6. ASSUME NEW n \in 1..Len(b), b[n].type = "extraction" PROVE EndedLast(b, l, E, b[n].of[1], n)
  <2>1. n # 1
    BY <1>1, <1>6
  <2>2. n - 1 \in 1..N /\ b[n] = w[n - 1] /\ (n - 1) + 1 = n
    BY <1>4, <2>1
  <2>3. EndedLast(w, l, E, b[n].of[1], n - 1)
    BY <1>0, <1>6, <2>2
  <2> QED BY <1>3, <2>2, <2>3
<1>7. ASSUME NEW i \in R PROVE Carded(b, I, i, Len(b) + 1)
  <2>1. Carded(w, I, i, N + 1) /\ N + 1 \in 1..(N + 1)
    BY <1>0, <1>1
  <2> QED BY <1>1, <1>2, <2>1
<1> QED BY <1>5, <1>6, <1>7 DEF LinedUp, b

\* More cards, or fewer calls that run.
LEMMA LinedStill ==
    ASSUME NEW w, NEW I, NEW l, NEW E, NEW R, LinedUp(w, I, l, E, R),
           NEW I2, I \subseteq I2, NEW R2, R2 \subseteq R
    PROVE  LinedUp(w, I2, l, E, R2)
<1>1. \A i, n : Carded(w, I, i, n) => Carded(w, I2, i, n)
  BY DEF Carded
<1> QED BY <1>1 DEF LinedUp

----------------------------------------------------------------------------
\* The cards and the approvals.

\* The frames that wait are for this page: they reach it unless the connection breaks.
Attached == conn = "open" \/ (url = served /\ served # None)

Live == {i \in Call : calls[i] = "running"}
Lined == LinedUp(wire, Ids(messages), lastEnded, ended, Live)

\* A turn that waits has asked, or is being answered.
Asks ==
    agent = "waiting" /\ ~failed =>
        interrupt \/ "answer" \in posting \/ \E n \in 1..Len(wire) : wire[n].type = "interrupt"

Known == Agree(messages, ended, given) /\ ended \cup given \subseteq Ids(messages)

CardInv ==
    /\ Live # {} => agent = "working"
    /\ ~torn => Known /\ (Attached => Lined /\ Asks)

\* The page takes a frame.
LEMMA CardsTake ==
    ASSUME TimelineInv, CardInv, NEW t, Take(t), UNCHANGED <<conn, posting, server, torn, failed>>,
           Ids(messages) \subseteq Ids(messages'), t = "tool_start" => Head(wire).of \in Ids(messages'),
           ended \subseteq ended',
           IF t = "tool_end" THEN lastEnded' = Head(wire).of /\ Head(wire).of \in ended'
                             ELSE lastEnded' = lastEnded,
           interrupt' = interrupt \/ interrupt' = TRUE, t = "interrupt" => interrupt' = TRUE,
           ~torn => Known'
    PROVE  CardInv'
<1>1. /\ wire # <<>> /\ wire \in Seq(Sent(made)) /\ conn = "open" /\ wire' = Tail(wire)
      /\ wire[1] = Head(wire) /\ wire[1].type = t
  BY DEF TimelineInv, Typed, Take
<1>2. UNCHANGED <<calls, agent, posting, torn, failed>>
  BY DEF server, turns
<1>3. Live' = Live
  BY <1>2 DEF Live
<1>4. ASSUME Lined PROVE Lined'
  <2> DEFINE I == Ids(messages)
             I2 == Ids(messages')
  <2>1. LinedUp(wire, I, lastEnded, ended, Live)
    BY <1>4 DEF Lined
  <2>2. /\ I \subseteq I2 /\ (wire[1].type = "tool_start" => wire[1].of \in I2)
        /\ IF wire[1].type = "tool_end" THEN lastEnded' = wire[1].of /\ wire[1].of \in ended'
                                        ELSE lastEnded' = lastEnded
    BY <1>1
  <2>3. (Ids(messages))' = I2
    OBVIOUS
  <2> HIDE DEF I, I2
  <2>4. LinedUp(Tail(wire), I2, lastEnded', ended', Live)
    BY <1>1, <2>1, <2>2, LinedTake
  <2> QED BY <1>1, <1>3, <2>3, <2>4 DEF Lined
<1>5. ASSUME Asks PROVE Asks'
  <2>1. /\ Len(Tail(wire)) = Len(wire) - 1 /\ Len(wire) \in Nat
        /\ \A n \in 1..Len(Tail(wire)) : Tail(wire)[n] = wire[n + 1]
    BY <1>1, HeadTailProperties
  <2>2. CASE t = "interrupt"
    BY <2>2 DEF Asks
  <2>3. ASSUME t # "interrupt", NEW n \in 1..Len(wire), wire[n].type = "interrupt"
        PROVE  \E k \in 1..Len(wire') : wire'[k].type = "interrupt"
    <3>1. n # 1
      BY <1>1, <2>3
    <3>2. n - 1 \in 1..Len(Tail(wire)) /\ (n - 1) + 1 = n
      BY <2>1, <3>1
    <3> QED BY <1>1, <2>1, <2>3, <3>2
  <2>4. CASE t # "interrupt" /\ agent = "waiting" /\ ~failed
    <3>1. interrupt \/ "answer" \in posting \/ \E n \in 1..Len(wire) : wire[n].type = "interrupt"
      BY <1>5, <2>4 DEF Asks
    <3>2. interrupt' \/ "answer" \in posting' \/ \E n \in 1..Len(wire') : wire'[n].type = "interrupt"
      BY <1>2, <2>3, <2>4, <3>1
    <3> QED BY <3>2 DEF Asks
  <2>5. CASE ~(agent = "waiting" /\ ~failed)
    BY <1>2, <2>5 DEF Asks
  <2> QED BY <2>2, <2>4, <2>5
<1>6. Live' # {} => agent' = "working"
  BY <1>2, <1>3 DEF CardInv
<1>7. ASSUME ~torn' PROVE Known' /\ Lined' /\ Asks'
  <2>1. ~torn
    BY <1>2, <1>7
  <2>2. Lined /\ Asks
    BY <1>1, <2>1 DEF CardInv, Attached
  <2> QED BY <1>4, <1>5, <2>1, <2>2
<1> QED BY <1>6, <1>7 DEF CardInv

\* The page or a request changes no card, and takes no frame.
LEMMA CardsStay ==
    ASSUME TimelineInv, CardInv, SameCards(messages', messages), UNCHANGED <<wire, lastEnded, ended, given, url, conn, served, torn>>,
           Live' \subseteq Live, Live' # {} => agent' = "working",
           agent' = "waiting" /\ ~failed' =>
             \/ interrupt' \/ "answer" \in posting'
             \/ /\ agent = "waiting" /\ ~failed
                /\ ~interrupt /\ "answer" \notin posting
    PROVE  CardInv'
<1>1. Ids(messages') = Ids(messages) /\ \A E, G : Agree(messages, E, G) => Agree(messages', E, G)
  BY SameCardsAgree
<1>2. (Ids(messages))' = Ids(messages')
  OBVIOUS
<1>3. ASSUME Lined PROVE Lined'
  <2> DEFINE I == Ids(messages)
  <2>1. LinedUp(wire, I, lastEnded, ended, Live)
    BY <1>3 DEF Lined
  <2>2. (Ids(messages))' = I
    BY <1>1, <1>2
  <2> HIDE DEF I
  <2>3. LinedUp(wire, I, lastEnded, ended, Live')
    BY <2>1, LinedStill
  <2> QED BY <2>2, <2>3 DEF Lined
<1>4. ASSUME Asks PROVE Asks'
  <2>1. CASE agent' = "waiting" /\ ~failed' /\ ~interrupt' /\ "answer" \notin posting'
    <3>1. agent = "waiting" /\ ~failed /\ ~interrupt /\ "answer" \notin posting
      BY <2>1
    <3>2. \E n \in 1..Len(wire) : wire[n].type = "interrupt"
      BY <1>4, <3>1 DEF Asks
    <3>3. \E n \in 1..Len(wire') : wire'[n].type = "interrupt"
      BY <3>2
    <3> QED BY <3>3 DEF Asks
  <2> QED BY <2>1 DEF Asks
<1>5. Known => Known'
  BY <1>1, <1>2 DEF Known
<1>6. Attached' => Attached
  BY DEF Attached
<1>7. torn' = torn
  OBVIOUS
<1> QED BY <1>3, <1>4, <1>5, <1>6, <1>7 DEF CardInv

\* The server takes a step, and the page none.
LEMMA CardsSent ==
    ASSUME CardInv, UNCHANGED <<messages, ended, given, url, conn, served, torn>>,
           Live' # {} => agent' = "working", Lined => Lined', Lined /\ Asks => Asks'
    PROVE  CardInv'
<1>1. Known => Known'
  BY DEF Known
<1>2. Attached' => Attached
  BY DEF Attached
<1>3. torn' = torn
  OBVIOUS
<1> QED BY <1>1, <1>2, <1>3 DEF CardInv

\* What waits first, when nothing was lost.
LEMMA LinedFirst ==
    ASSUME TimelineInv, CardInv, NEW t, Take(t), ~torn
    PROVE  /\ Known
           /\ t = "tool_end" => Head(wire).of \in Ids(messages)
           /\ t = "extraction" => lastEnded = Head(wire).of[1] /\ lastEnded \in ended
<1>1. Lined /\ Known
  BY DEF CardInv, Attached, Take
<1>2. /\ wire # <<>> /\ 1 \in 1..Len(wire) /\ wire[1] = Head(wire) /\ wire[1].type = t
      /\ 1..(1 - 1) = {}
  BY DEF TimelineInv, Typed, Take
<1>3. t = "tool_end" => Carded(wire, Ids(messages), wire[1].of, 1)
  BY <1>1, <1>2 DEF Lined, LinedUp
<1>4. t = "extraction" => EndedLast(wire, lastEnded, ended, wire[1].of[1], 1)
  BY <1>1, <1>2 DEF Lined, LinedUp
<1>5. t = "tool_end" => wire[1].of \in Ids(messages)
  BY <1>2, <1>3 DEF Carded
<1>6. t = "extraction" => lastEnded = wire[1].of[1] /\ wire[1].of[1] \in ended
  BY <1>2, <1>4 DEF EndedLast
<1> QED BY <1>1, <1>2, <1>5, <1>6

LEMMA FramesKeepCards == ASSUME TimelineInv, CardInv, Frames PROVE CardInv'
<1>f. /\ Flush \in Seq(Message) /\ SameCards(Flush, messages) /\ OneEach(Flush)
  BY FlushIsTold
<1>i. /\ Ids(Flush) = Ids(messages)
      /\ \A E, G : Agree(messages, E, G) => Agree(Flush, E, G)
  BY <1>f, SameCardsAgree
<1>m. made \in Nat /\ None \notin Call
  BY StreamAssumption DEF TimelineInv, Typed
<1>s. ASSUME NEW ms, SameCards(ms, messages), messages' = ms, UNCHANGED <<ended, given>>
      PROVE  (Ids(messages))' = Ids(messages) /\ Ids(messages') = Ids(messages) /\ (Known => Known')
  <2>1. Ids(ms) = Ids(messages) /\ \A E, G : Agree(messages, E, G) => Agree(ms, E, G)
    BY <1>s, SameCardsAgree
  <2>2. (Ids(messages))' = Ids(ms) /\ Ids(messages') = Ids(ms)
    BY <1>s
  <2> QED BY <1>s, <2>1, <2>2 DEF Known
<1>k. ASSUME NEW t, Take(t), ~torn PROVE Known
  BY <1>k, LinedFirst
<1>1. ASSUME OnContent PROVE CardInv'
  <2>1. /\ Take("content") /\ messages' = AddThought(messages, reasoning)
        /\ UNCHANGED <<conn, posting, server, torn, failed, ended, given, lastEnded, interrupt>>
    BY <1>1 DEF OnContent, link
  <2>2. SameCards(AddThought(messages, reasoning), messages)
    BY ThoughtShows DEF TimelineInv, Typed
  <2>3. Ids(messages') = Ids(messages) /\ (Known => Known')
    BY <1>s, <2>1, <2>2
  <2> QED BY <1>k, <2>1, <2>3, CardsTake
<1>2. ASSUME OnReasoning PROVE CardInv'
  <2>1. /\ Take("reasoning") /\ messages' = AddText(messages, content)
        /\ UNCHANGED <<conn, posting, server, torn, failed, ended, given, lastEnded, interrupt>>
    BY <1>2 DEF OnReasoning, link
  <2>2. SameCards(AddText(messages, content), messages)
    BY TextShows DEF TimelineInv, Typed
  <2>3. Ids(messages') = Ids(messages) /\ (Known => Known')
    BY <1>s, <2>1, <2>2
  <2> QED BY <1>k, <2>1, <2>3, CardsTake
<1>3. ASSUME Animate PROVE CardInv'
  <2>1. /\ messages' = Flush /\ SameCards(messages', messages)
        /\ UNCHANGED <<wire, lastEnded, ended, given, url, conn, served, torn, failed, interrupt,
                       posting, agent, calls>>
    BY <1>3, <1>f DEF Animate, link, server, turns, history
  <2>2. Live' = Live /\ (Live # {} => agent = "working")
    BY <2>1 DEF Live, CardInv
  <2> QED BY <2>1, <2>2, CardsStay
<1>4. ASSUME NEW t, t \notin {"tool_start", "tool_end"}, Dispatch(t), Steady,
             NEW ms, SameCards(ms, messages), messages' = ms,
             UNCHANGED <<ended, given, lastEnded>>,
             interrupt' = interrupt \/ interrupt' = TRUE, t = "interrupt" => interrupt' = TRUE
      PROVE  CardInv'
  <2>1. Take(t) /\ UNCHANGED <<conn, posting, server, torn, failed>>
    BY <1>4 DEF Dispatch, Steady
  <2>2. Ids(messages') = Ids(messages) /\ (Known => Known')
    BY <1>s, <1>4
  <2> QED BY <1>k, <1>4, <2>1, <2>2, CardsTake
<1>5. ASSUME OnSessionInit PROVE CardInv'
  <2>1. /\ Dispatch("session_init") /\ Steady /\ messages' = Flush
        /\ UNCHANGED <<ended, given, lastEnded, interrupt>>
    BY <1>5 DEF OnSessionInit
  <2> DEFINE t == "session_init"
  <2>2. Dispatch(t) /\ t \notin {"tool_start", "tool_end"} /\ t # "interrupt"
    BY <2>1
  <2> HIDE DEF t
  <2> QED BY <2>1, <2>2, <1>4, <1>f
<1>6. ASSUME OnInterrupt PROVE CardInv'
  BY <1>6, <1>4, <1>f DEF OnInterrupt
<1>q. SameCards(Quiet(Flush), messages) /\ Quiet(Flush) \in Seq(Message)
  BY <1>f, QuietShows DEF SameCards
<1>7. ASSUME OnComplete PROVE CardInv'
  <2>1. /\ Dispatch("complete") /\ Steady /\ messages' = Quiet(Flush)
        /\ UNCHANGED <<ended, given, lastEnded, interrupt>>
    BY <1>7 DEF OnComplete
  <2> DEFINE t == "complete"
  <2>2. Dispatch(t) /\ t \notin {"tool_start", "tool_end"} /\ t # "interrupt"
    BY <2>1
  <2> HIDE DEF t
  <2> QED BY <2>1, <2>2, <1>4, <1>q
<1>8. ASSUME NEW t \in {"error", "cancelled", "user_message"}, Dispatch(t), Steady,
             NEW ms \in {Flush, Quiet(Flush)}, NEW r \in {"user", "assistant", "system"},
             messages' = Append(ms, Bubble(r, <<Head(wire).of>>)),
             UNCHANGED <<ended, given, lastEnded, interrupt>>
      PROVE  CardInv'
  <2> DEFINE x == Head(wire).of
             b == Append(ms, Bubble(r, <<x>>))
  <2>1. x \in Spoken
    BY <1>8, <1>m, Taken, SaidIn DEF Dispatch
  <2>2. ms \in Seq(Message) /\ SameCards(ms, messages)
    BY <1>f, <1>q
  <2>3. messages' = b
    BY <1>8
  <2> HIDE DEF x
  <2>4. SameCards(b, ms)
    <3>1. Bubble(r, <<x>>) \in Message /\ Bubble(r, <<x>>).calls = <<>>
      BY <2>1, BubbleShows DEF Bubble
    <3> QED BY <2>2, <3>1, CardsAppend
  <2>5. SameCards(b, messages)
    BY <2>2, <2>4 DEF SameCards
  <2> HIDE DEF b
  <2> QED BY <1>4, <1>8, <2>3, <2>5
<1>9. ASSUME OnError PROVE CardInv'
  BY <1>9, <1>8 DEF OnError
<1>10. ASSUME OnCancelled PROVE CardInv'
  BY <1>10, <1>8 DEF OnCancelled
<1>11. ASSUME OnUserMessage PROVE CardInv'
  BY <1>11, <1>8 DEF OnUserMessage
<1>12. ASSUME OnToolStart PROVE CardInv'
  <2> DEFINE i == Head(wire).of
             b == Announce(Flush, i)
  <2>1. /\ Take("tool_start") /\ messages' = b
        /\ UNCHANGED <<conn, posting, server, torn, failed, ended, given, lastEnded, interrupt>>
    BY <1>12 DEF OnToolStart, Dispatch, Steady
  <2>2. i \in Call
    BY <1>m, <2>1, Taken, SaidIn
  <2> HIDE DEF i
  <2>3. /\ Ids(b) = Ids(messages) \cup {i}
        /\ \A E, G : Agree(messages, E, G) /\ E \cup G \subseteq Ids(messages) => Agree(b, E, G)
    BY <1>f, <1>i, <2>2, AnnounceShows
  <2> HIDE DEF b
  <2>4. Ids(messages') = Ids(b) /\ (Ids(messages))' = Ids(b)
    BY <2>1
  <2>5. Known => Known'
    BY <2>1, <2>3, <2>4 DEF Known
  <2>6. Ids(messages) \subseteq Ids(messages') /\ Head(wire).of \in Ids(messages')
    BY <2>3, <2>4 DEF i
  <2> QED BY <1>k, <2>1, <2>5, <2>6, CardsTake
<1>13. ASSUME OnToolEnd PROVE CardInv'
  <2> DEFINE i == Head(wire).of
             b == MarkDone(Flush, i)
  <2>1. /\ Take("tool_end") /\ messages' = b /\ lastEnded' = i /\ ended' = ended \cup {i}
        /\ UNCHANGED <<conn, posting, server, torn, failed, given, interrupt>>
    BY <1>13 DEF OnToolEnd, Dispatch, Steady
  <2>2. i \in Call
    BY <1>m, <2>1, Taken, SaidIn
  <2>3. ~torn => i \in Ids(messages) /\ Known
    BY <2>1, LinedFirst
  <2> HIDE DEF i
  <2>4. /\ Ids(b) = Ids(messages)
        /\ \A E, G : Agree(messages, E, G) /\ i \in Ids(messages) => Agree(b, E \cup {i}, G)
    BY <1>f, <1>i, <2>2, MarkDoneShows
  <2> HIDE DEF b
  <2>5. Ids(messages') = Ids(b) /\ (Ids(messages))' = Ids(b)
    BY <2>1
  <2>6. ~torn => Known'
    BY <2>1, <2>3, <2>4, <2>5 DEF Known
  <2>7. /\ Ids(messages) \subseteq Ids(messages') /\ ended \subseteq ended'
        /\ lastEnded' = Head(wire).of /\ Head(wire).of \in ended'
    BY <2>1, <2>4, <2>5 DEF i
  <2> QED BY <2>1, <2>6, <2>7, CardsTake
<1>14. ASSUME OnExtraction PROVE CardInv'
  <2> DEFINE i == Head(wire).of[1]
             g == TargetId(Head(wire).of[2], NameOf[i], lastEnded)
             b == Extract(Flush, NameOf[i], g, i)
  <2>1. /\ Take("extraction") /\ messages' = b /\ given' = given \cup {i}
        /\ UNCHANGED <<conn, posting, server, torn, failed, ended, lastEnded, interrupt>>
    BY <1>14 DEF OnExtraction, Dispatch, Steady
  <2>2. i \in Call /\ Head(wire).of[2] \in {i, None}
    BY <1>m, <2>1, Taken, SaidIn
  <2>3. ~torn => i \in Ids(messages) /\ Known /\ lastEnded = i
    BY <2>1, LinedFirst DEF Known
  <2>4. ~torn => g = i /\ g # None
    BY <1>m, <2>2, <2>3 DEF TargetId
  <2> HIDE DEF i, g
  <2>5. /\ Ids(b) = Ids(messages)
        /\ \A E, G : Agree(messages, E, G) /\ i \in Ids(messages) /\ g = i /\ g # None
                       => Agree(b, E, G \cup {i})
    BY <1>f, <1>i, <2>2, ExtractShows
  <2> HIDE DEF b
  <2>6. Ids(messages') = Ids(b) /\ (Ids(messages))' = Ids(b)
    BY <2>1
  <2>7. ~torn => Known'
    BY <2>1, <2>3, <2>4, <2>5, <2>6 DEF Known
  <2>8. Ids(messages) \subseteq Ids(messages')
    BY <2>5, <2>6
  <2> QED BY <2>1, <2>7, <2>8, CardsTake
<1> QED BY <1>1, <1>2, <1>3, <1>5, <1>6, <1>7, <1>9, <1>10, <1>11, <1>12, <1>13, <1>14 DEF Frames

\* A turn that is given up leaves no call running.
LEMMA GivenUpIsStill == ASSUME TimelineInv, calls' = GivenUp PROVE Live' = {}
BY GivenUpIsTyped DEF Live

LEMMA RequestsKeepCards == ASSUME TimelineInv, CardInv, Requests PROVE CardInv'
<1>r. Live # {} => agent = "working"
  BY DEF CardInv
<1>s. SameCards(messages, messages)
  BY DEF SameCards
<1>a. ASSUME messages' = messages PROVE SameCards(messages', messages)
  BY <1>s, <1>a
<1>u. ASSUME Unanswered, messages' = messages
      PROVE  /\ SameCards(messages', messages) /\ interrupt' = interrupt
             /\ UNCHANGED <<wire, lastEnded, ended, given, url, conn, served, torn>>
  BY <1>a, <1>u DEF Unanswered, link
<1>1. CASE ChatTaken
  <2>1. /\ Unanswered /\ messages' = messages /\ agent' = "working" /\ calls' = GivenUp
    BY <1>1 DEF ChatTaken, StartTurn
  <2>2. Live' = {}
    BY <2>1, GivenUpIsStill
  <2> QED BY <1>u, <2>1, <2>2, CardsStay
<1>2. CASE ChatFails
  <2>1. /\ Unanswered /\ messages' = messages /\ failed' = failed
        /\ \/ agent' = "working" /\ calls' = GivenUp
           \/ UNCHANGED <<agent, calls>>
        /\ "answer" \in posting => "answer" \in posting'
    BY <1>2 DEF ChatFails, Answered, StartTurn, turns
  <2>2. Live' \subseteq Live /\ (Live' # {} => agent' = "working")
    <3>1. CASE calls' = GivenUp
      BY <3>1, GivenUpIsStill
    <3>2. CASE UNCHANGED <<agent, calls>>
      BY <1>r, <3>2 DEF Live
    <3> QED BY <2>1, <3>1, <3>2
  <2> QED BY <1>u, <2>1, <2>2, CardsStay
<1>3. CASE AnswerTaken
  <2>1. /\ Unanswered /\ messages' = messages /\ agent' = "working"
        /\ calls' = GivenUp \/ (agent = "waiting" /\ calls' = calls)
    BY <1>3 DEF AnswerTaken, Resume, StartTurn
  <2>2. Live' = {}
    <3>1. CASE calls' = GivenUp
      BY <3>1, GivenUpIsStill
    <3>2. CASE agent = "waiting" /\ calls' = calls
      BY <1>r, <3>2 DEF Live
    <3> QED BY <2>1, <3>1, <3>2
  <2> QED BY <1>u, <2>1, <2>2, CardsStay
<1>4. CASE AnswerRefused
  <2>1. /\ messages' = Append(messages, Bubble("assistant", <<Own>>)) /\ interrupt' = TRUE
        /\ UNCHANGED <<wire, lastEnded, ended, given, url, conn, served, torn, agent, calls>>
    BY <1>4 DEF AnswerRefused, link, server, turns, history
  <2>2. SameCards(messages', messages)
    BY <2>1, OwnKeepsCards
  <2>3. Live' = Live
    BY <2>1 DEF Live
  <2> QED BY <1>r, <2>1, <2>2, <2>3, CardsStay
<1>5. CASE AnswerFails
  <2>1. /\ Unanswered /\ messages' = messages /\ failed' = TRUE
        /\ \/ agent' = "working" /\ (calls' = GivenUp \/ (agent = "waiting" /\ calls' = calls))
           \/ UNCHANGED <<agent, calls>>
    BY <1>5 DEF AnswerFails, Resume, StartTurn, turns
  <2>2. Live' \subseteq Live /\ (Live' # {} => agent' = "working")
    <3>1. CASE calls' = GivenUp
      BY <3>1, GivenUpIsStill
    <3>2. CASE calls' = calls /\ agent' \in {agent, "working"}
      BY <1>r, <3>2 DEF Live
    <3> QED BY <2>1, <3>1, <3>2
  <2> QED BY <1>u, <2>1, <2>2, CardsStay
<1>6. CASE CancelTaken
  <2>1. /\ Unanswered /\ messages' = messages /\ failed' = failed
        /\ \/ agent' = "idle" /\ calls' = GivenUp
           \/ UNCHANGED <<agent, calls>>
        /\ "answer" \in posting => "answer" \in posting'
    BY <1>6 DEF CancelTaken, Answered, turns
  <2>2. Live' \subseteq Live /\ (Live' # {} => agent' = "working")
    <3>1. CASE calls' = GivenUp
      BY <3>1, GivenUpIsStill
    <3>2. CASE UNCHANGED <<agent, calls>>
      BY <1>r, <3>2 DEF Live
    <3> QED BY <2>1, <3>1, <3>2
  <2> QED BY <1>u, <2>1, <2>2, CardsStay
<1> QED BY <1>1, <1>2, <1>3, <1>4, <1>5, <1>6 DEF Requests

LEMMA UserKeepsCards ==
    ASSUME TimelineInv, CardInv,
           Send \/ Respond \/ CancelStream \/ ResetSession \/ Reload \/ Persist
    PROVE  CardInv'
<1>r. Live # {} => agent = "working"
  BY DEF CardInv
<1>s. SameCards(messages, messages)
  BY DEF SameCards
<1>1. CASE Send \/ Respond \/ CancelStream \/ Persist
  <2>1. UNCHANGED <<wire, lastEnded, ended, given, url, conn, served, torn, failed, agent, calls>>
    BY <1>1 DEF Send, Respond, CancelStream, Persist, link, server, turns, history
  <2>2. SameCards(messages', messages)
    <3>1. CASE Send
      BY <3>1, OwnKeepsCards DEF Send
    <3>2. CASE Respond \/ Persist
      BY <1>s, <3>2 DEF Respond, Persist, view
    <3>3. CASE CancelStream
      BY <3>3, FlushIsTold DEF CancelStream
    <3> QED BY <1>1, <3>1, <3>2, <3>3
  <2>3. Live' = Live
    BY <2>1 DEF Live
  <2>4. \/ "answer" \in posting'
        \/ interrupt' = interrupt /\ ("answer" \in posting => "answer" \in posting')
    BY <1>1 DEF Send, Respond, CancelStream, Persist, view
  <2> QED BY <1>r, <2>1, <2>2, <2>3, <2>4, CardsStay
<1>2. CASE ResetSession
  <2>1. /\ messages' = <<>> /\ ended' = {} /\ given' = {} /\ url' = None /\ conn' = "connecting"
        /\ UNCHANGED <<agent, calls, served>>
    BY <1>2 DEF ResetSession, server, turns
  <2>2. ~Attached'
    BY <2>1 DEF Attached
  <2>3. Known'
    <3>1. CardsIn(<<>>) = {}
      BY DEF CardsIn
    <3>2. CardsIn(messages)' = {}
      BY <2>1, <3>1
    <3> QED BY <2>1, <3>2 DEF Known, Agree
  <2>4. Live' = Live
    BY <2>1 DEF Live
  <2> QED BY <1>r, <2>1, <2>2, <2>3, <2>4 DEF CardInv
<1>3. CASE Reload
  <2>1. /\ messages' = saved.messages
        /\ torn' = (torn \/ Busy \/ posting # {} \/ messages # saved.messages)
        /\ UNCHANGED <<wire, ended, given, agent, calls>>
    BY <1>3 DEF Reload, server, turns
  <2>2. Live' = Live
    BY <2>1 DEF Live
  <2>3. ASSUME ~torn' PROVE Known' /\ Lined' /\ Asks'
    <3>1. ~torn /\ ~Busy /\ messages' = messages
      BY <2>1, <2>3
    <3>2. agent = "idle" /\ wire = <<>>
      BY <3>1 DEF Busy
    <3>3. Known'
      BY <2>1, <3>1 DEF CardInv, Known
    <3>4. Live' = {} /\ wire' = <<>> /\ agent' = "idle"
      BY <1>r, <2>1, <2>2, <3>2
    <3>5. Lined'
      <4>1. 1..Len(wire') = {}
        BY <3>4
      <4> QED BY <3>4, <4>1 DEF Lined, LinedUp
    <3>6. Asks'
      BY <3>4 DEF Asks
    <3> QED BY <3>3, <3>5, <3>6
  <2> QED BY <1>r, <2>1, <2>2, <2>3 DEF CardInv
<1> QED BY <1>1, <1>2, <1>3

\* The frames of a step, one after the other.
LEMMA OneFrame == ASSUME NEW F, NEW w \in Seq(F), NEW f \in F PROVE w \o <<f>> = Append(w, f)
OBVIOUS

LEMMA TwoFrames ==
    ASSUME NEW F, NEW w \in Seq(F), NEW f \in F, NEW g \in F
    PROVE  /\ w \o <<f, g>> = Append(Append(w, f), g)
           /\ <<f>> \o <<g>> = <<f, g>> /\ <<f>> \o <<>> = <<f>>
<1>1. <<f>> \o <<g>> = <<f, g>> /\ <<f>> \o <<>> = <<f>>
  <2>1. <<f>> \in Seq(F)
    OBVIOUS
  <2>2. <<f>> \o <<g>> = Append(<<f>>, g) /\ <<f>> \o <<>> = <<f>>
    BY <2>1, OneFrame, ConcatEmptySeq
  <2>3. Append(<<f>>, g) = <<f, g>>
    <3> DEFINE b == Append(<<f>>, g)
               c == <<f, g>>
    <3>1. Len(<<f>>) = 1 /\ <<f>>[1] = f
      OBVIOUS
    <3>2. b \in Seq(F) /\ Len(b) = 2 /\ b[1] = f /\ b[2] = g
      BY <2>1, <3>1, AppendProperties
    <3>3. c \in Seq(F) /\ Len(c) = 2 /\ c[1] = f /\ c[2] = g
      OBVIOUS
    <3> HIDE DEF b, c
    <3>4. \A n \in 1..Len(b) : b[n] = c[n]
      BY <3>2, <3>3
    <3>5. b = c
      BY <3>2, <3>3, <3>4, SeqEqual
    <3> QED BY <3>5 DEF b, c
  <2> QED BY <2>2, <2>3
<1>2. w \o <<f, g>> = Append(Append(w, f), g)
  <2>1. <<f>> \in Seq(F) /\ <<g>> \in Seq(F) /\ w \o <<f>> \in Seq(F)
    OBVIOUS
  <2>2. w \o (<<f>> \o <<g>>) = (w \o <<f>>) \o <<g>>
    BY <2>1, ConcatAssociative
  <2>3. w \o <<f>> = Append(w, f) /\ (w \o <<f>>) \o <<g>> = Append(w \o <<f>>, g)
    BY <2>1, OneFrame
  <2> QED BY <1>1, <2>2, <2>3
<1> QED BY <1>1, <1>2

LEMMA SendsOn ==
    ASSUME TimelineInv, CardInv, NEW fs \in Seq(Sent(made)), Emit(fs),
           Live' # {} => agent' = "working", Lined => Lined',
           agent' = "waiting" => agent = "waiting" \/ \E n \in 1..Len(fs) : fs[n].type = "interrupt"
    PROVE  CardInv'
<1>1. /\ UNCHANGED <<messages, ended, given, url, conn, served, torn, failed, interrupt, posting>>
      /\ wire' = wire \o fs
  BY DEF Emit, Serverside, view
<1>2. /\ wire \in Seq(Sent(made)) /\ Len(wire') = Len(wire) + Len(fs)
      /\ Len(wire) \in Nat /\ Len(fs) \in Nat
      /\ \A n \in 1..Len(wire) : wire'[n] = wire[n]
      /\ \A n \in 1..Len(fs) : wire'[Len(wire) + n] = fs[n]
  <2>1. wire \in Seq(Sent(made))
    BY DEF TimelineInv, Typed
  <2>2. /\ Len(wire \o fs) = Len(wire) + Len(fs) /\ Len(wire) \in Nat /\ Len(fs) \in Nat
        /\ \A n \in 1..Len(wire) : (wire \o fs)[n] = wire[n]
        /\ \A n \in 1..Len(fs) : (wire \o fs)[Len(wire) + n] = fs[n]
    BY <2>1
  <2> QED BY <1>1, <2>1, <2>2
<1>3. ASSUME Asks PROVE Asks'
  <2>1. ASSUME NEW n \in 1..Len(wire), wire[n].type = "interrupt"
        PROVE  \E k \in 1..Len(wire') : wire'[k].type = "interrupt"
    <3>1. n \in 1..Len(wire') /\ wire'[n].type = "interrupt"
      BY <1>2, <2>1
    <3> QED BY <3>1
  <2>2. ASSUME NEW n \in 1..Len(fs), fs[n].type = "interrupt"
        PROVE  \E k \in 1..Len(wire') : wire'[k].type = "interrupt"
    <3>1. Len(wire) + n \in 1..Len(wire') /\ wire'[Len(wire) + n].type = "interrupt"
      BY <1>2, <2>2
    <3> QED BY <3>1
  <2>3. CASE agent' = "waiting" /\ ~failed' /\ agent = "waiting"
    BY <1>1, <1>3, <2>1, <2>3 DEF Asks
  <2>4. CASE agent' = "waiting" /\ agent # "waiting"
    BY <2>2, <2>4 DEF Asks
  <2> QED BY <2>3, <2>4 DEF Asks
<1> QED BY <1>1, <1>3, CardsSent

\* A frame that is of no call.
LEMMA SendsPlain ==
    ASSUME TimelineInv, CardInv, NEW f \in Sent(made), Emit(<<f>>),
           f.type \notin {"tool_end", "extraction"},
           Live' \subseteq Live \/ (f.type = "tool_start" /\ Live' \subseteq Live \cup {f.of}),
           Live' # {} => agent' = "working", agent' = "waiting" => agent = "waiting"
    PROVE  CardInv'
<1>1. <<f>> \in Seq(Sent(made)) /\ wire \in Seq(Sent(made))
  BY DEF TimelineInv, Typed
<1>2. wire' = Append(wire, f) /\ UNCHANGED <<messages, lastEnded, ended>>
  <2>1. wire' = wire \o <<f>>
    BY DEF Emit
  <2> QED BY <1>1, <2>1, OneFrame DEF Emit, Serverside, view
<1>3. ASSUME Lined PROVE Lined'
  <2> DEFINE I == Ids(messages)
  <2>1. LinedUp(wire, I, lastEnded, ended, Live)
    BY <1>3 DEF Lined
  <2>2. (Ids(messages))' = I
    BY <1>2
  <2>3. \A i \in Live' : i \in Live \/ (f.type = "tool_start" /\ f.of = i)
    OBVIOUS
  <2> HIDE DEF I
  <2>4. LinedUp(Append(wire, f), I, lastEnded, ended, Live')
    BY <1>1, <2>1, <2>3, LinedPut
  <2> QED BY <1>2, <2>2, <2>4 DEF Lined
<1> QED BY <1>1, <1>3, SendsOn

LEMMA TurnKeepsCards == ASSUME TimelineInv, CardInv, Turn PROVE CardInv'
<1>t. made \in Nat /\ said \in Nat /\ wire \in Seq(Sent(made)) /\ calls \in [Call -> {"new", "running", "paused", "over"}]
  BY DEF TimelineInv, Typed
<1>r. Live # {} => agent = "working"
  BY DEF CardInv
<1>1. ASSUME NEW t \in {"content", "reasoning"}, Speak(t) PROVE CardInv'
  <2> DEFINE f == Frame(t, <<"text", said'>>)
  <2>1. said' \in Nat /\ Emit(<<f>>) /\ UNCHANGED <<agent, calls>>
    BY <1>1, <1>t DEF Speak, turns
  <2>2. f \in Sent(made) /\ f.type = t
    <3>1. <<"text", said'>> \in Spoken
      BY <2>1 DEF Spoken
    <3> QED BY <1>t, <3>1, SaidFrame DEF Frame
  <2>3. Live' = Live
    BY <2>1 DEF Live
  <2> HIDE DEF f
  <2> QED BY <1>r, <2>1, <2>2, <2>3, SendsPlain
<1>2. CASE Interrupt
  <2> DEFINE f == Frame("interrupt", None)
             g == Frame("complete", None)
             fs == <<f, g>>
  <2>1. Emit(fs) /\ agent' = "waiting"
        /\ calls' = [i \in Call |-> IF calls[i] = "running" THEN "paused" ELSE calls[i]]
    BY <1>2 DEF Interrupt
  <2>2. f \in Sent(made) /\ g \in Sent(made) /\ f.type = "interrupt" /\ g.type = "complete"
    BY <1>t, SaidFrame DEF Frame
  <2>3. Live' = {}
    BY <2>1 DEF Live
  <2> HIDE DEF f, g
  <2>4. wire' = Append(Append(wire, f), g) /\ UNCHANGED <<messages, lastEnded, ended>>
    <3>1. wire' = wire \o <<f, g>>
      BY <2>1 DEF Emit
    <3> QED BY <1>t, <2>1, <2>2, <3>1, TwoFrames DEF Emit, Serverside, view
  <2>5. ASSUME Lined PROVE Lined'
    <3> DEFINE I == Ids(messages)
               w == Append(wire, f)
    <3>1. LinedUp(wire, I, lastEnded, ended, Live)
      BY <2>5 DEF Lined
    <3>2. (Ids(messages))' = I
      BY <2>4
    <3> HIDE DEF I
    <3>3. LinedUp(w, I, lastEnded, ended, Live)
      BY <1>t, <2>2, <3>1, LinedPut
    <3>4. w \in Seq(Sent(made))
      BY <1>t, <2>2, AppendProperties
    <3> HIDE DEF w
    <3>5. LinedUp(Append(w, g), I, lastEnded, ended, Live')
      BY <2>2, <2>3, <3>3, <3>4, LinedPut
    <3> QED BY <2>4, <3>2, <3>5 DEF Lined, w
  <2>6. fs \in Seq(Sent(made)) /\ 1 \in 1..Len(fs) /\ fs[1] = f
    BY <2>2
  <2> HIDE DEF fs
  <2> QED BY <2>1, <2>2, <2>3, <2>5, <2>6, SendsOn
<1>3. CASE EndTurn
  <2> DEFINE f == Frame("complete", None)
             g == Frame("error", <<"error", 0>>)
  <2>1. (Emit(<<f>>) \/ Emit(<<g>>)) /\ agent' = "idle" /\ calls' = GivenUp
    BY <1>3 DEF EndTurn
  <2>2. f \in Sent(made) /\ g \in Sent(made) /\ f.type = "complete" /\ g.type = "error"
    <3>1. <<"error", 0>> \in Spoken
      BY DEF Spoken
    <3> QED BY <1>t, <3>1, SaidFrame DEF Frame
  <2>3. Live' = {}
    BY <2>1, GivenUpIsStill
  <2> HIDE DEF f, g
  <2> QED BY <2>1, <2>2, <2>3, SendsPlain
<1>4. CASE EndCancelled
  <2> DEFINE f == Frame("cancelled", <<"cancelled", 0>>)
  <2>1. Emit(<<f>>) /\ UNCHANGED <<agent, calls>>
    BY <1>4 DEF EndCancelled
  <2>2. f \in Sent(made) /\ f.type = "cancelled"
    <3>1. <<"cancelled", 0>> \in Spoken
      BY DEF Spoken
    <3> QED BY <1>t, <3>1, SaidFrame DEF Frame
  <2>3. Live' = Live
    BY <2>1 DEF Live
  <2> HIDE DEF f
  <2> QED BY <1>r, <2>1, <2>2, <2>3, SendsPlain
<1>5. ASSUME NEW i \in Call, StartCall(i) PROVE CardInv'
  <2> DEFINE f == Frame("tool_start", i)
  <2>1. /\ Emit(<<f>>) /\ agent = "working" /\ agent' = agent
        /\ calls' = [calls EXCEPT ![i] = "running"]
    BY <1>5 DEF StartCall
  <2>2. f \in Sent(made) /\ f.type = "tool_start" /\ f.of = i
    BY <1>t, SaidFrame DEF Frame
  <2>3. Live' \subseteq Live \cup {i}
    BY <1>t, <2>1 DEF Live
  <2> HIDE DEF f
  <2> QED BY <2>1, <2>2, <2>3, SendsPlain
<1>6. ASSUME NEW i \in Call, EndCall(i) PROVE CardInv'
  <2> DEFINE f == Frame("tool_end", i)
             g(id) == Frame("extraction", <<i, id>>)
  <2>1. /\ agent' = agent /\ agent = "working" /\ calls[i] = "running"
        /\ calls' = [calls EXCEPT ![i] = "over"]
        /\ \E more \in {<<>>} \cup {<<g(id)>> : id \in {i, None}} : Emit(<<f>> \o more)
    BY <1>6 DEF EndCall
  <2>2. /\ f \in Sent(made) /\ f.type = "tool_end" /\ f.of = i
        /\ \A id \in {i, None} :
             g(id) \in Sent(made) /\ g(id).type = "extraction" /\ g(id).of[1] = i
    BY <1>t, SaidFrame DEF Frame
  <2>3. Live' \subseteq Live /\ i \in Live
    BY <1>t, <2>1 DEF Live
  <2> HIDE DEF f, g
  <2>l. ASSUME Lined, UNCHANGED <<messages, lastEnded, ended>>
        PROVE  /\ LinedUp(Append(wire, f), Ids(messages), lastEnded, ended, Live)
               /\ EndedLast(Append(wire, f), lastEnded, ended, i, Len(Append(wire, f)) + 1)
               /\ Append(wire, f) \in Seq(Sent(made)) /\ (Ids(messages))' = Ids(messages)
    <3> DEFINE I == Ids(messages)
    <3>1. LinedUp(wire, I, lastEnded, ended, Live)
      BY <2>l DEF Lined
    <3>2. (Ids(messages))' = I
      BY <2>l
    <3> HIDE DEF I
    <3>3. /\ LinedUp(Append(wire, f), I, lastEnded, ended, Live)
          /\ EndedLast(Append(wire, f), lastEnded, ended, i, Len(wire) + 2)
      BY <1>t, <2>2, <2>3, <3>1, LinedPut
    <3>4. Append(wire, f) \in Seq(Sent(made)) /\ Len(Append(wire, f)) + 1 = Len(wire) + 2
      BY <1>t, <2>2, AppendProperties
    <3> QED BY <3>2, <3>3, <3>4 DEF I
  <2>4. CASE Emit(<<f>>)
    <3>1. wire' = Append(wire, f) /\ UNCHANGED <<messages, lastEnded, ended>>
      <4>1. wire' = wire \o <<f>>
        BY <2>4 DEF Emit
      <4> QED BY <1>t, <2>2, <2>4, <4>1, OneFrame DEF Emit, Serverside, view
    <3>2. ASSUME Lined PROVE Lined'
      <4> DEFINE I == Ids(messages)
      <4>1. LinedUp(Append(wire, f), I, lastEnded, ended, Live) /\ (Ids(messages))' = I
        BY <2>l, <3>1, <3>2
      <4> HIDE DEF I
      <4>2. LinedUp(Append(wire, f), I, lastEnded, ended, Live')
        BY <2>3, <4>1, LinedStill
      <4> QED BY <3>1, <4>1, <4>2 DEF Lined
    <3>3. <<f>> \in Seq(Sent(made))
      BY <2>2
    <3> QED BY <2>1, <2>4, <3>2, <3>3, SendsOn
  <2>5. ASSUME NEW id \in {i, None}, Emit(<<f, g(id)>>) PROVE CardInv'
    <3> DEFINE x == g(id)
               w == Append(wire, f)
    <3>1. x \in Sent(made) /\ x.type = "extraction" /\ x.of[1] = i
      BY <2>2
    <3>2. Emit(<<f, x>>)
      BY <2>5
    <3> HIDE DEF x
    <3>3. wire' = Append(w, x) /\ UNCHANGED <<messages, lastEnded, ended>>
      <4>1. wire' = wire \o <<f, x>>
        BY <3>2 DEF Emit
      <4> QED BY <1>t, <2>2, <3>1, <3>2, <4>1, TwoFrames DEF Emit, Serverside, view
    <3>4. ASSUME Lined PROVE Lined'
      <4> DEFINE I == Ids(messages)
      <4>1. /\ LinedUp(w, I, lastEnded, ended, Live) /\ (Ids(messages))' = I
            /\ EndedLast(w, lastEnded, ended, i, Len(w) + 1) /\ w \in Seq(Sent(made))
        BY <2>l, <3>3, <3>4
      <4> HIDE DEF I, w
      <4>2. LinedUp(Append(w, x), I, lastEnded, ended, Live')
        <5>1. \A k \in Live' : k \in Live
          BY <2>3
        <5> QED BY <3>1, <4>1, <5>1, LinedPut
      <4> QED BY <3>3, <4>1, <4>2 DEF Lined
    <3>5. <<f, x>> \in Seq(Sent(made))
      BY <2>2, <3>1
    <3> HIDE DEF w
    <3> QED BY <2>1, <3>2, <3>4, <3>5, SendsOn
  <2>6. PICK more \in {<<>>} \cup {<<g(id)>> : id \in {i, None}} : Emit(<<f>> \o more)
    BY <2>1
  <2>7. CASE more = <<>>
    BY <2>2, <2>4, <2>6, <2>7, TwoFrames
  <2>8. ASSUME NEW id \in {i, None}, more = <<g(id)>> PROVE CardInv'
    <3>1. <<f>> \o more = <<f, g(id)>>
      <4>1. g(id) \in Sent(made)
        BY <2>2
      <4> QED BY <1>t, <2>2, <2>8, <4>1, TwoFrames
    <3> QED BY <2>5, <2>6, <3>1
  <2>9. more = <<>> \/ \E id \in {i, None} : more = <<g(id)>>
    OBVIOUS
  <2> QED BY <2>7, <2>8, <2>9
<1> QED BY <1>1, <1>2, <1>3, <1>4, <1>5, <1>6 DEF Turn

LEMMA StreamKeepsCards == ASSUME TimelineInv, CardInv, Connect \/ Drop \/ Inject PROVE CardInv'
<1>t. /\ made \in Nat /\ asked \in Nat /\ wire \in Seq(Sent(made))
      /\ served \in 1..made \cup {None} /\ url \in 1..made \cup {None}
  BY DEF TimelineInv, Typed, Numbered
<1>r. Live # {} => agent = "working"
  BY DEF CardInv
<1>1. CASE Connect
  <2> DEFINE init == Frame("session_init", served')
  <2>1. /\ conn # "open"
        /\ UNCHANGED <<messages, interrupt, lastEnded, ended, given, url, failed, posting>>
    BY <1>1 DEF Connect, Serverside, view
  <2>2. \/ url = None /\ made' = made + 1 /\ served' = made + 1
        \/ url # None /\ made' = made /\ served' = url
    BY <1>1 DEF Connect
  <2>3. init.type = "session_init" /\ init \in Sent(made')
    <3>1. made' \in Nat /\ served' \in 1..made'
      BY <1>t, <2>2
    <3> QED BY <3>1, SaidFrame DEF Frame
  <2>4. CASE served' = served
    <3>1. wire' = <<init>> \o wire /\ UNCHANGED <<agent, calls, torn>>
      BY <1>1, <2>4 DEF Connect, turns
    <3>2. url = served /\ served # None /\ made' = made
      BY <1>t, <2>2, <2>4, StreamAssumption
    <3>3. Attached
      BY <3>2 DEF Attached
    <3>4. Live' = Live /\ init \in Sent(made)
      BY <2>3, <3>1, <3>2 DEF Live
    <3> HIDE DEF init
    <3>5. ASSUME Lined PROVE Lined'
      <4> DEFINE I == Ids(messages)
      <4>1. LinedUp(wire, I, lastEnded, ended, Live)
        BY <3>5 DEF Lined
      <4>2. (Ids(messages))' = I
        BY <2>1
      <4> HIDE DEF I
      <4>3. LinedUp(<<init>> \o wire, I, lastEnded, ended, Live)
        BY <1>t, <2>3, <3>4, <4>1, LinedBegin
      <4> QED BY <2>1, <3>1, <3>4, <4>2, <4>3 DEF Lined
    <3>6. ASSUME NEW n \in 1..Len(wire), wire[n].type = "interrupt"
          PROVE  \E k \in 1..Len(wire') : wire'[k].type = "interrupt"
      <4>1. <<init>> \in Seq(Sent(made)) /\ Len(<<init>>) = 1
        BY <3>4
      <4>2. /\ Len(wire') = Len(wire) + 1 /\ Len(wire) \in Nat
            /\ \A k \in 1..Len(wire') : wire'[k] = IF k <= 1 THEN <<init>>[k] ELSE wire[k - 1]
        BY <1>t, <3>1, <4>1, ConcatProperties
      <4>3. n + 1 \in 1..Len(wire') /\ ~(n + 1 <= 1) /\ (n + 1) - 1 = n
        BY <4>2
      <4>4. wire'[n + 1] = wire[n]
        BY <4>2, <4>3
      <4> QED BY <3>6, <4>3, <4>4
    <3>7. Asks => Asks'
      BY <2>1, <3>1, <3>6 DEF Asks
    <3>8. Known => Known'
      BY <2>1 DEF Known
    <3> QED BY <1>r, <3>1, <3>3, <3>4, <3>5, <3>7, <3>8 DEF CardInv
  <2>5. CASE served' # served
    <3>1. /\ wire' = <<init>> /\ agent' = "idle" /\ calls' = GivenUp
          /\ torn' = (torn \/ (served # None /\ messages # <<>>))
      BY <1>1, <2>5 DEF Connect
    <3>2. Live' = {}
      BY <3>1, GivenUpIsStill
    <3>3. Asks'
      BY <3>1 DEF Asks
    <3>4. Len(wire') = 1 /\ wire'[1].type = "session_init"
      BY <2>3, <3>1
    <3>5. Lined'
      BY <3>2, <3>4 DEF Lined, LinedUp
    <3>6. Known => Known'
      BY <2>1 DEF Known
    <3>7. ~torn' => ~torn
      BY <3>1
    <3> QED BY <3>2, <3>3, <3>5, <3>6, <3>7 DEF CardInv
  <2> QED BY <2>4, <2>5
<1>2. CASE Drop
  <2>1. /\ UNCHANGED <<messages, interrupt, lastEnded, ended, given, url, served, failed, posting,
                       agent, calls>>
        /\ conn = "open"
        /\ \E n \in 1..(Len(wire) + 1) :
             wire' = SubSeq(wire, n, Len(wire)) /\ torn' = (torn \/ n > 1)
    BY <1>2 DEF Drop, Serverside, view, server, turns
  <2>2. PICK n \in 1..(Len(wire) + 1) :
            wire' = SubSeq(wire, n, Len(wire)) /\ torn' = (torn \/ n > 1)
    BY <2>1
  <2>3. Live' = Live
    BY <2>1 DEF Live
  <2>4. ASSUME ~torn' PROVE Known' /\ Lined' /\ Asks'
    <3>1. ~torn /\ n = 1
      <4>1. ~(torn \/ n > 1)
        BY <2>2, <2>4
      <4>2. n \in Nat /\ n >= 1
        BY <1>t
      <4> QED BY <4>1, <4>2
    <3>2. wire' = wire
      BY <1>t, <2>2, <3>1, SubSeqFull
    <3>3. Known /\ Lined /\ Asks
      BY <2>1, <3>1 DEF CardInv, Attached
    <3>4. Known'
      BY <2>1, <3>3 DEF Known
    <3>5. Lined'
      BY <2>1, <2>3, <3>2, <3>3 DEF Lined
    <3>6. Asks'
      BY <2>1, <3>2, <3>3 DEF Asks
    <3> QED BY <3>4, <3>5, <3>6
  <2> QED BY <1>r, <2>1, <2>3, <2>4 DEF CardInv
<1>3. CASE Inject
  <2> DEFINE f == Frame("user_message", <<"injected", asked'>>)
  <2>1. /\ UNCHANGED <<messages, lastEnded, ended, given, url, conn, served, torn>>
        /\ asked' = asked + 1 /\ wire' = Append(wire, f) /\ agent' = "working" /\ calls' = GivenUp
    BY <1>3 DEF Inject, view, link, history, StartTurn
  <2>2. f \in Sent(made) /\ f.type = "user_message"
    <3>1. <<"injected", asked'>> \in Spoken
      BY <1>t, <2>1 DEF Spoken
    <3> QED BY <1>t, <3>1, SaidFrame DEF Frame
  <2>3. Live' = {}
    BY <2>1, GivenUpIsStill
  <2> HIDE DEF f
  <2>4. ASSUME Lined PROVE Lined'
    <3> DEFINE I == Ids(messages)
    <3>1. LinedUp(wire, I, lastEnded, ended, Live)
      BY <2>4 DEF Lined
    <3>2. (Ids(messages))' = I
      BY <2>1
    <3> HIDE DEF I
    <3>3. LinedUp(Append(wire, f), I, lastEnded, ended, Live')
      BY <1>t, <2>2, <2>3, <3>1, LinedPut
    <3> QED BY <2>1, <3>2, <3>3 DEF Lined
  <2>5. Asks'
    BY <2>1 DEF Asks
  <2> QED BY <2>1, <2>3, <2>4, <2>5, CardsSent
<1> QED BY <1>1, <1>2, <1>3

LEMMA CardsAtFirst == ASSUME Init PROVE CardInv
<1>1. /\ messages = <<>> /\ wire = <<>> /\ agent = "idle" /\ calls = [i \in Call |-> "new"]
      /\ ended = {} /\ given = {}
  BY DEF Init
<1>2. Live = {}
  BY <1>1 DEF Live
<1>3. CardsIn(messages) = {}
  BY <1>1 DEF CardsIn
<1>4. Known
  BY <1>1, <1>3 DEF Known, Agree
<1>5. Lined
  <2>1. 1..Len(wire) = {}
    BY <1>1
  <2> QED BY <1>2, <2>1 DEF Lined, LinedUp
<1>6. Asks
  BY <1>1 DEF Asks
<1> QED BY <1>2, <1>4, <1>5, <1>6 DEF CardInv

LEMMA StepKeepsCards == ASSUME TimelineInv, CardInv, [Next]_vars PROVE CardInv'
<1>1. CASE Frames
  BY <1>1, FramesKeepCards
<1>2. CASE Requests
  BY <1>2, RequestsKeepCards
<1>3. CASE Send \/ Respond \/ CancelStream \/ ResetSession \/ Reload \/ Persist
  BY <1>3, UserKeepsCards
<1>4. CASE Connect \/ Drop \/ Inject
  BY <1>4, StreamKeepsCards
<1>5. CASE Turn
  BY <1>5, TurnKeepsCards
<1>6. CASE UNCHANGED vars
  <2>1. UNCHANGED <<messages, interrupt, wire, lastEnded, ended, given, url, conn, served, torn,
                    failed, posting, agent, calls>>
    BY <1>6 DEF vars, view, link, server, turns, history
  <2>2. Live' = Live /\ SameCards(messages, messages)
    BY <2>1 DEF Live, SameCards
  <2>3. SameCards(messages', messages)
    BY <2>1, <2>2
  <2>4. Live' # {} => agent' = "working"
    BY <2>1, <2>2 DEF CardInv
  <2> QED BY <2>1, <2>2, <2>3, <2>4, CardsStay
<1> QED BY <1>1, <1>2, <1>3, <1>4, <1>5, <1>6 DEF Next, Turn

LEMMA CardsAlways == Spec => [](TimelineInv /\ CardInv)
<1>1. Init => TimelineInv /\ CardInv
  BY TimelineAtFirst, CardsAtFirst
<1>2. TimelineInv /\ CardInv /\ [Next]_vars => (TimelineInv /\ CardInv)'
  BY StepKeepsTimeline, StepKeepsCards
<1> QED BY <1>1, <1>2, PTL DEF Spec

\* A call has one card, and the card shows the end and the extraction of its own call, frames
\* lost on the way aside.
THEOREM CardsShowTheirOwn == Spec => []CardsAgree
<1>1. ASSUME TimelineInv, CardInv PROVE CardsAgree
  <2>1. OneEach(messages)
    BY <1>1 DEF TimelineInv
  <2>2. ~torn => Agree(messages, ended, given)
    BY <1>1 DEF CardInv, Known
  <2> QED BY <2>1, <2>2 DEF CardsAgree, OneEach, Agree
<1>2. TimelineInv /\ CardInv => CardsAgree
  BY <1>1
<1> QED BY <1>2, CardsAlways, PTL

\* A turn that waits for approval can be answered once its frames are there, unless an answer
\* is on its way or failed, or frames were lost.
THEOREM ApprovalsCanBeGiven == Spec => []ApprovalShown
<1>1. ASSUME CardInv PROVE ApprovalShown
  <2> SUFFICES ASSUME agent = "waiting", conn = "open", wire = <<>>, "answer" \notin posting,
                      ~torn, ~failed
               PROVE  interrupt
    BY DEF ApprovalShown
  <2>1. Asks
    BY <1>1 DEF CardInv, Attached
  <2>2. 1..Len(wire) = {}
    OBVIOUS
  <2> QED BY <2>1, <2>2 DEF Asks
<1>2. TimelineInv /\ CardInv => ApprovalShown
  BY <1>1
<1> QED BY <1>2, CardsAlways, PTL

=============================================================================

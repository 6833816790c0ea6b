-------------------------- MODULE FileRoutesProofs --------------------------
(***************************************************************************)
(* What the guards promise, for all origins, settings and senders, and     *)
(* with it what the file routes behind them do.                            *)
(***************************************************************************)
EXTENDS FileRoutes, SequenceTheorems, WellFoundedInduction, TLAPS

\* What a request of a sender is like.
LEMMA SentShape ==
  ASSUME NEW s \in Sender, NEW r \in Sent(s)
  PROVE  /\ r.scope = "http" /\ r.method = "unsafe" /\ r.path = "other"
         /\ r.host = s.host /\ r.login = s.knows /\ r.nearby = s.nearby
         /\ s.page = None => r.origin = None /\ r.fetchSite = None
         /\ s.page # None => r.origin \in {s.page, Null} /\ r.fetchSite \in Relation(s)
BY DEF Sent

\* A request reaches its route through all layers.
LEMMA RouteMeans ==
  ASSUME NEW c, NEW r
  PROVE  Answer(c, r) = "route" <=>
            PassesHost(c, r) /\ ~IsPreflight(r) /\ PassesSite(c, r) /\ PassesLogin(c, r)
BY DEF Answer, Refusal

\* gh #113, #206, #208: no unsafe request of a page the user has not let in reaches its
\* route, whatever headers its browser leaves out, and none without the password if there
\* is one.
THEOREM StrangersStayOut ==
  ASSUME NEW c \in Settings, NEW s \in Sender, ~Known(c, s)
  PROVE  ~Reaches(c, s)
<1> SUFFICES ASSUME NEW r \in Sent(s), Answer(c, r) = "route"
             PROVE  FALSE
  BY DEF Reaches
<1>1. /\ r.scope = "http" /\ r.method = "unsafe" /\ r.path = "other"
      /\ r.host = s.host /\ r.login = s.knows /\ r.nearby = s.nearby
      /\ s.page # None => r.origin \in {s.page, Null} /\ r.fetchSite \in Relation(s)
  BY SentShape
<1>2. PassesHost(c, r) /\ PassesSite(c, r) /\ PassesLogin(c, r)
  BY RouteMeans
<1>3. c.password => s.knows
  BY <1>1, <1>2 DEF PassesLogin
<1>4. /\ s.page # None /\ ~OwnPage(c, s) /\ s.page \notin CorsOrigins(c)
  BY <1>3 DEF Known
<1>5. s.page \in Origin \cup {Null} /\ s.host \in Origin \cup {None}
  BY <1>4 DEF Sender
<1>6. CASE s.page = s.host
  <2>1. s.page \in Origin
    BY <1>4, <1>5, <1>6, OriginAssumption
  <2>2. HostGuardOn(c) /\ s.nearby /\ ~HostAllowed(c, s.host)
    BY <1>4, <1>6, <2>1 DEF OwnPage
  <2>3. s.host # None
    BY <2>1, <1>6, OriginAssumption
  <2> QED BY <1>1, <1>2, <2>2, <2>3 DEF PassesHost
<1>7. CASE s.page # s.host
  <2>1. r.fetchSite \in {"same-site", "cross-site", None}
    BY <1>1, <1>4, <1>7 DEF Relation
  <2>2. r.origin # None
    BY <1>1, <1>4, OriginAssumption
  <2>3. ~OriginAllowed(c, r.origin, r.host)
    BY <1>1, <1>4, <1>7 DEF OriginAllowed
  <2>4. None \notin {"same-origin", "none"}
    BY <1>1, FetchAssumption
  <2> QED BY <1>1, <1>2, <2>1, <2>2, <2>3, <2>4 DEF PassesSite
<1> QED BY <1>6, <1>7

\* The layers keep nobody else out: a page or program the user lets in gets a request
\* through, under a name the server answers to.
THEOREM KnownGetThrough ==
  ASSUME NEW c \in Settings, NEW s \in Sender, Known(c, s),
         HostGuardOn(c) /\ s.nearby => s.host = None \/ HostAllowed(c, s.host)
  PROVE  Reaches(c, s)
<1> DEFINE r == [scope |-> "http", method |-> "unsafe", path |-> "other", host |-> s.host,
                 origin |-> s.page, fetchSite |-> None, login |-> s.knows,
                 nearby |-> s.nearby]
<1>1. r \in Sent(s)
  BY DEF Sent, Relation
<1>2. PassesHost(c, r)
  BY DEF PassesHost
<1>3. ~IsPreflight(r)
  BY DEF IsPreflight
<1>4. PassesLogin(c, r)
  BY DEF PassesLogin, Known
<1>5. CASE s.page = None
  <2>1. PassesSite(c, r)
    BY <1>5 DEF PassesSite
  <2> QED BY <1>1, <1>2, <1>3, <1>4, <2>1, RouteMeans DEF Reaches
<1>6. CASE s.page # None
  <2>1. (s.page # Null /\ s.page \in CorsOrigins(c)) \/ OwnPage(c, s)
    <3>1. OwnPage(c, s) \/ s.page \in CorsOrigins(c)
      BY <1>6 DEF Known
    <3>2. CorsOrigins(c) \subseteq Origin \cup {Star}
      BY OriginAssumption DEF CorsOrigins, Settings
    <3> QED BY <3>1, <3>2, OriginAssumption
  <2>2. OriginAllowed(c, s.page, s.host)
    BY <2>1, OriginAssumption DEF OriginAllowed, OwnPage
  <2>3. PassesSite(c, r)
    BY <1>6, <2>2 DEF PassesSite
  <2> QED BY <1>1, <1>2, <1>3, <1>4, <2>3, RouteMeans DEF Reaches
<1> QED BY <1>5, <1>6

\* gh #155: a preflight, which carries no credentials, is answered with or without a
\* password, and never as a login.
THEOREM PreflightsNeedNoLogin ==
  ASSUME NEW c \in Settings, NEW r \in Request, IsPreflight(r), PassesHost(c, r)
  PROVE  Answer(c, r) = IF r.origin \in CorsOrigins(c) THEN "cors" ELSE "no cors"
BY DEF Answer

\* gh #67: the health check is answered without credentials.
THEOREM HealthNeedsNoLogin ==
  ASSUME NEW c \in Settings, NEW r \in Request, r.path = "health", r.method = "safe",
         PassesHost(c, r)
  PROVE  Answer(c, r) = "route"
<1>1. PassesSite(c, r) /\ PassesLogin(c, r) /\ ~IsPreflight(r)
  BY DEF PassesSite, PassesLogin, IsPreflight
<1> QED BY <1>1, RouteMeans

----------------------------------------------------------------------------
\* The settings do not change.
LEMMA SettingsStay == Spec => [](settings \in Configured)
<1>1. Init => settings \in Configured
  BY DEF Init
<1>2. settings \in Configured /\ [Next]_vars => (settings \in Configured)'
  BY DEF Next, vars, Serves, Progress, Agent
<1> QED BY <1>1, <1>2, PTL DEF Spec

\* Whatever settings the server has, no request of a stranger changes a file or starts an
\* upload.
THEOREM StrangersDoNothing == Spec => StrangersChangeNothing
<1>1. settings \in Configured /\ [Next]_vars =>
        [\A s \in Asking : ~Known(settings, s) /\ Serves(s) => UNCHANGED fileVars]_vars
  <2> SUFFICES ASSUME settings \in Configured, NEW s \in Asking, ~Known(settings, s), Serves(s)
               PROVE  FALSE
    OBVIOUS
  <2>1. settings \in Settings /\ s \in Sender
    BY RoutesAssumption
  <2> QED BY <2>1, StrangersStayOut DEF Serves
<1> QED BY <1>1, SettingsStay, PTL DEF Spec, StrangersChangeNothing

----------------------------------------------------------------------------
\* Induction up to a bound, over a set instead of a predicate.

LEMMA LessIsWellFounded == IsWellFoundedOn({ss \in Nat \X Nat : ss[1] < ss[2]}, Nat)
BY Zenon, NatLessThanWellFounded DEF OpToRel

LEMMA Least == ASSUME NEW S \in SUBSET Nat, S # {} PROVE \E m \in S : \A k \in S : m <= k
<1> DEFINE R == {ss \in Nat \X Nat : ss[1] < ss[2]}
<1>1. IsWellFoundedOn(R, Nat)
  BY LessIsWellFounded
<1>2. PICK m \in S : \A k \in S : ~(<<k, m>> \in R)
  <2> HIDE DEF R
  <2> QED BY <1>1, WFMin
<1>3. \A k \in S : ~(k < m)
  BY <1>2
<1> QED BY <1>3

LEMMA UpTo ==
    ASSUME NEW N \in Nat, NEW S, 0 \in S, \A n \in 1..N : n - 1 \in S => n \in S
    PROVE  \A n \in 0..N : n \in S
<1> SUFFICES ASSUME {n \in 0..N : n \notin S} # {} PROVE FALSE
  OBVIOUS
<1>1. {n \in 0..N : n \notin S} \in SUBSET Nat
  OBVIOUS
<1>2. PICK m \in {n \in 0..N : n \notin S} : \A k \in {n \in 0..N : n \notin S} : m <= k
  BY <1>1, Least
<1>3. m \in 1..N
  BY <1>2
<1>4. m - 1 \in S
  BY <1>2, <1>3
<1> QED BY <1>2, <1>3, <1>4

----------------------------------------------------------------------------
\* Walks.

Plain == Name \cup {"workspace", "outside", "loop"}
Part  == Plain \cup {".."}

Node == {Dir} \cup {File(d) : d \in Data} \cup {Link(q) : q \in Seq(Part)}

\* A tree as the workspace can be: it and "/" are directories, and links are in it.
GoodTree(t) ==
    /\ DOMAIN t \in SUBSET Seq(Part) /\ \A p \in DOMAIN t : t[p] \in Node
    /\ {<<>>, Workspace} \subseteq DOMAIN t /\ t[<<>>] = Dir /\ t[Workspace] = Dir
    /\ \A p \in DOMAIN t : t[p].is = "link" => Len(p) > 1 /\ p[1] = "workspace"

\* No place on the way to p is a link, nor is p.
NoLinks(t, p) == \A n \in 0..Len(p) : ~Is(t, SubSeq(p, 1, n), "link")

Walking(t, w) == w \in [at : Seq(Plain), rest : Seq(Part)] /\ NoLinks(t, w.at)

Before(path) == [at |-> <<>>, rest |-> path]

\* Walked is the function its recursive definition describes.
LEMMA WalkedSteps ==
    ASSUME NEW t, NEW path
    PROVE  /\ Walked(t, path)[0] = Before(path)
           /\ \A n \in 1..Hops : Walked(t, path)[n] = Hop(t, Walked(t, path)[n - 1])
<1> DEFINE w0 == Before(path)
<1> HIDE DEF w0
<1> DEFINE E(g, k) == g = [n \in 0..k |-> IF n = 0 THEN w0 ELSE Hop(t, g[n - 1])]
           S == {k \in 0..Hops : \E g : E(g, k)}
<1>h. Hops \in Nat
  BY FileAssumption
<1>1. 0 \in S
  <2>1. E([n \in 0..0 |-> w0], 0)
    OBVIOUS
  <2> HIDE DEF E
  <2>2. \E g : E(g, 0)
    BY ONLY <2>1, Zenon
  <2> QED BY <2>2, <1>h
<1>2. ASSUME NEW k \in 1..Hops, k - 1 \in S PROVE k \in S
  <2>1. PICK g0 : E(g0, k - 1)
    BY <1>2
  <2> DEFINE h == [n \in 0..k |-> IF n = k THEN Hop(t, g0[k - 1]) ELSE g0[n]]
  <2>2. \A n \in 0..k : h[n] = IF n = 0 THEN w0 ELSE Hop(t, h[n - 1])
    <3> SUFFICES ASSUME NEW n \in 0..k
                 PROVE  h[n] = IF n = 0 THEN w0 ELSE Hop(t, h[n - 1])
      OBVIOUS
    <3>1. CASE n = k
      BY <3>1, <1>h
    <3>2. CASE n # k
      <4>1. n \in 0..(k - 1) /\ h[n] = g0[n]
        BY <3>2, <1>h
      <4>2. n # 0 => h[n - 1] = g0[n - 1]
        BY <4>1, <1>h
      <4>3. g0[n] = IF n = 0 THEN w0 ELSE Hop(t, g0[n - 1])
        BY <2>1, <4>1
      <4> QED BY <4>1, <4>2, <4>3
    <3> QED BY <3>1, <3>2
  <2>3. E(h, k)
    BY <2>2
  <2> HIDE DEF E, h
  <2>4. \E g : E(g, k)
    BY ONLY <2>3, Zenon
  <2> QED BY <2>4
<1> HIDE DEF S
<1>3. Hops \in S
  <2>1. \A k \in 0..Hops : k \in S
    BY <1>1, <1>2, <1>h, UpTo, Zenon
  <2> QED BY <2>1, <1>h
<1>4. \E g : E(g, Hops)
  BY <1>3 DEF S
<1>5. E(Walked(t, path), Hops)
  BY <1>4 DEF Walked, w0, Before
<1> QED BY <1>5, <1>h DEF w0

\* A walk from a path is a sequence of hops.
LEMMA WalkInduction ==
    ASSUME NEW t, NEW path, NEW S, Before(path) \in S,
           \A w \in S : Hop(t, w) \in S
    PROVE  Walked(t, path)[Hops] \in S
<1> DEFINE T == {n \in 0..Hops : Walked(t, path)[n] \in S}
<1>h. Hops \in Nat
  BY FileAssumption
<1>1. 0 \in T
  BY WalkedSteps, <1>h
<1>2. ASSUME NEW n \in 1..Hops, n - 1 \in T PROVE n \in T
  BY <1>2, WalkedSteps, <1>h
<1> HIDE DEF T
<1>3. \A n \in 0..Hops : n \in T
  BY <1>1, <1>2, <1>h, UpTo, Zenon
<1> QED BY <1>3, <1>h DEF T

LEMMA ExtendsBy ==
    ASSUME NEW p \in Seq(Part), NEW x \in Part
    PROVE  /\ Append(p, x) \in Seq(Part) /\ Len(Append(p, x)) = Len(p) + 1
           /\ SubSeq(Append(p, x), 1, Len(p) + 1) = Append(p, x)
           /\ \A n \in 0..Len(p) : SubSeq(Append(p, x), 1, n) = SubSeq(p, 1, n)
OBVIOUS

LEMMA FrontOf ==
    ASSUME NEW p \in Seq(Plain), p # <<>>
    PROVE  /\ Front(p) \in Seq(Plain) /\ Len(Front(p)) = Len(p) - 1
           /\ \A n \in 0..(Len(p) - 1) : SubSeq(Front(p), 1, n) = SubSeq(p, 1, n)
<1>1. Len(p) \in Nat \ {0}
  BY EmptySeq
<1>2. Front(p) \in Seq(Plain) /\ Len(Front(p)) = Len(p) - 1
  <2>1. Len(p) - 1 \in 0..Len(p)
    BY <1>1
  <2>2. Len(SubSeq(p, 1, Len(p) - 1)) = Len(p) - 1
    <3>1. \A k \in 0..Len(p) : Len(SubSeq(p, 1, k)) = k
      OBVIOUS
    <3> QED BY <2>1, <3>1
  <2>3. SubSeq(p, 1, Len(p) - 1) \in Seq(Plain)
    BY <1>1, <2>1
  <2> QED BY <2>2, <2>3 DEF Front
<1>3. \A i \in 1..(Len(p) - 1) : Front(p)[i] = p[i]
  BY <1>1 DEF Front
<1>4. ASSUME NEW n \in 0..(Len(p) - 1) PROVE SubSeq(Front(p), 1, n) = SubSeq(p, 1, n)
  <2>1. \A i \in 1..n : Front(p)[i] = p[i]
    BY <1>1, <1>3
  <2>2. /\ SubSeq(Front(p), 1, n) = [i \in 1..n |-> Front(p)[i]]
        /\ SubSeq(p, 1, n) = [i \in 1..n |-> p[i]]
    BY <1>1, <1>2
  <2> QED BY ONLY <2>1, <2>2
<1> QED BY <1>2, <1>4

\* What a link of a good tree is.
LEMMA LinkLeads ==
    ASSUME NEW t, GoodTree(t), NEW q, Is(t, q, "link")
    PROVE  /\ q \in Seq(Part) /\ t[q].to \in Seq(Part)
           /\ Len(q) > 1 /\ q[1] = "workspace" /\ q \in DOMAIN t
<1>1. q \in DOMAIN t /\ t[q].is = "link"
  BY DEF Is
<1>2. t[q] \in Node /\ q \in Seq(Part) /\ Len(q) > 1 /\ q[1] = "workspace"
  BY <1>1 DEF GoodTree
<1>3. t[q] # Dir /\ \A d \in Data : t[q] # File(d)
  BY <1>1 DEF Dir, File
<1>4. PICK p \in Seq(Part) : t[q] = Link(p)
  BY <1>2, <1>3 DEF Node
<1> QED BY <1>1, <1>2, <1>4 DEF Link

\* A hop keeps to places without ".." and links behind it.
LEMMA HopWalks ==
    ASSUME NEW t, GoodTree(t), NEW w, Walking(t, w)
    PROVE  Walking(t, Hop(t, w))
<1> DEFINE x == Head(w.rest)  next == Append(w.at, x)
<1>w. /\ w \in [at : Seq(Plain), rest : Seq(Part)] /\ NoLinks(t, w.at)
      /\ w.at \in Seq(Plain) /\ w.rest \in Seq(Part)
  BY DEF Walking
<1>0. NoLinks(t, <<>>)
  <2>1. SubSeq(<<>>, 1, 0) = <<>> /\ Len(<<>>) = 0
    OBVIOUS
  <2>2. ~Is(t, <<>>, "link")
    BY DEF GoodTree, Is, Dir
  <2>3. \A n \in 0..Len(<<>>) : n = 0
    BY <2>1
  <2> QED BY <2>1, <2>2, <2>3 DEF NoLinks
<1>1. CASE w.rest = <<>>
  BY <1>1 DEF Hop
<1>2. CASE w.rest # <<>> /\ x = ".."
  <2>1. Hop(t, w) = [at |-> IF w.at = <<>> THEN <<>> ELSE Front(w.at), rest |-> Tail(w.rest)]
    BY <1>2 DEF Hop
  <2>2. Tail(w.rest) \in Seq(Part)
    BY <1>w, <1>2
  <2>3. CASE w.at = <<>>
    BY <1>0, <2>1, <2>2, <2>3 DEF Walking
  <2>4. CASE w.at # <<>>
    <3>1. Front(w.at) \in Seq(Plain)
      BY <1>w, <2>4, FrontOf
    <3>2. NoLinks(t, Front(w.at))
      <4>1. Len(w.at) \in Nat
        BY <1>w
      <4>2. /\ Len(Front(w.at)) = Len(w.at) - 1
            /\ \A n \in 0..(Len(w.at) - 1) : SubSeq(Front(w.at), 1, n) = SubSeq(w.at, 1, n)
        BY <1>w, <2>4, FrontOf
      <4>3. \A n \in 0..(Len(w.at) - 1) : n \in 0..Len(w.at)
        BY <4>1
      <4>4. \A n \in 0..Len(w.at) : ~Is(t, SubSeq(w.at, 1, n), "link")
        BY <1>w DEF NoLinks
      <4> QED BY ONLY <4>2, <4>3, <4>4 DEF NoLinks
    <3> QED BY <2>1, <2>2, <2>4, <3>1, <3>2 DEF Walking
  <2> QED BY <2>3, <2>4
<1>3. CASE w.rest # <<>> /\ x # ".." /\ Is(t, next, "link")
  <2>1. Hop(t, w) = [at |-> <<>>, rest |-> t[next].to \o Tail(w.rest)]
    BY <1>3 DEF Hop
  <2>2. Tail(w.rest) \in Seq(Part)
    BY <1>w, <1>3
  <2>3. t[next].to \in Seq(Part)
    BY <1>3, LinkLeads
  <2>4. t[next].to \o Tail(w.rest) \in Seq(Part)
    BY <2>2, <2>3
  <2>5. <<>> \in Seq(Plain)
    OBVIOUS
  <2> QED BY <1>0, <2>1, <2>4, <2>5 DEF Walking
<1>4. CASE w.rest # <<>> /\ x # ".." /\ ~Is(t, next, "link")
  <2>1. Hop(t, w) = [at |-> next, rest |-> Tail(w.rest)]
    BY <1>4 DEF Hop
  <2>2. Tail(w.rest) \in Seq(Part) /\ x \in Part
    BY <1>w, <1>4
  <2>3. x \in Plain
    BY <1>4, <2>2 DEF Part
  <2>4. next \in Seq(Plain)
    BY <1>w, <2>3
  <2>5. NoLinks(t, next)
    <3>1. w.at \in Seq(Part)
      BY <1>w DEF Part
    <3>2. /\ Len(next) = Len(w.at) + 1 /\ SubSeq(next, 1, Len(w.at) + 1) = next
          /\ \A n \in 0..Len(w.at) : SubSeq(next, 1, n) = SubSeq(w.at, 1, n)
      BY <2>2, <3>1, ExtendsBy
    <3>3. Len(w.at) \in Nat
      BY <1>w
    <3> HIDE DEF next
    <3>4. ASSUME NEW n \in 0..Len(next) PROVE ~Is(t, SubSeq(next, 1, n), "link")
      <4>1. n \in 0..Len(w.at) \/ n = Len(w.at) + 1
        BY <3>2, <3>3
      <4>2. n \in 0..Len(w.at) => ~Is(t, SubSeq(w.at, 1, n), "link")
        BY <1>w DEF NoLinks
      <4>3. n = Len(w.at) + 1 => SubSeq(next, 1, n) = next
        BY <3>2
      <4> QED BY <1>4, <3>2, <4>1, <4>2, <4>3
    <3> QED BY <3>4 DEF NoLinks
  <2> QED BY <2>1, <2>2, <2>4, <2>5 DEF Walking
<1> QED BY <1>1, <1>2, <1>3, <1>4

LEMMA WalkBegins ==
    ASSUME NEW t, GoodTree(t), NEW path \in Seq(Part)
    PROVE  Walking(t, Before(path))
<1>1. Before(path) \in [at : Seq(Plain), rest : Seq(Part)] /\ Before(path).at = <<>>
  BY DEF Before
<1>2. SubSeq(<<>>, 1, 0) = <<>> /\ \A n \in 0..Len(<<>>) : n = 0
  OBVIOUS
<1>3. ~Is(t, <<>>, "link")
  BY DEF GoodTree, Is, Dir
<1>4. NoLinks(t, Before(path).at)
  BY <1>1, <1>2, <1>3 DEF NoLinks
<1> QED BY <1>1, <1>4 DEF Walking

\* What Path.resolve() returns is a plain path, and neither it nor a place above is a link.
LEMMA RealIsPlain ==
    ASSUME NEW t, GoodTree(t), NEW path \in Seq(Part)
    PROVE  Real(t, path) \in Seq(Plain) /\ NoLinks(t, Real(t, path))
<1> DEFINE S == {w \in [at : Seq(Plain), rest : Seq(Part)] : Walking(t, w)}
           w0 == Before(path)
<1>0. \A p : Len(p) = 1 /\ p # Workspace /\ p \in Seq(Plain) => NoLinks(t, p)
  <2> SUFFICES ASSUME NEW p \in Seq(Plain), Len(p) = 1, NEW n \in 0..1 
               PROVE  ~Is(t, SubSeq(p, 1, n), "link")
    BY DEF NoLinks
  <2>1. Len(SubSeq(p, 1, n)) \in Nat /\ Len(SubSeq(p, 1, n)) <= 1
    OBVIOUS
  <2>2. \A r \in DOMAIN t : t[r].is = "link" => Len(r) > 1
    BY DEF GoodTree
  <2> DEFINE q == SubSeq(p, 1, n)
  <2> HIDE DEF q
  <2>3. Len(q) \in Nat /\ Len(q) <= 1
    BY <2>1 DEF q
  <2>4. ~(q \in DOMAIN t /\ t[q].is = "link")
    BY <2>2, <2>3
  <2> QED BY <2>4 DEF Is, q
<1>1. w0 \in S
  BY WalkBegins DEF Walking
<1>2. \A w \in S : Hop(t, w) \in S
  <2>1. \A w \in S : Walking(t, Hop(t, w))
    BY HopWalks
  <2> QED BY <2>1 DEF Walking
<1>3. Walked(t, path)[Hops] \in S
  <2> HIDE DEF S
  <2> QED BY <1>1, <1>2, WalkInduction
<1>4. CASE Walked(t, path)[Hops].rest = <<>>
  BY <1>3, <1>4 DEF Real, Walking
<1>5. CASE Walked(t, path)[Hops].rest # <<>>
  <2>1. Real(t, path) = Lost
    BY <1>5 DEF Real
  <2>2. Lost \in Seq(Plain) /\ Len(Lost) = 1 /\ Lost # Workspace
    BY DEF Lost, Plain, Workspace
  <2> QED BY <1>0, <2>1, <2>2
<1> QED BY <1>4, <1>5

\* Trees with the same links resolve every path alike.
LEMMA SameLinks ==
    ASSUME NEW t, NEW u, NEW path,
           \A q : /\ Is(t, q, "link") <=> Is(u, q, "link")
                  /\ Is(t, q, "link") => t[q].to = u[q].to
    PROVE  Real(t, path) = Real(u, path)
<1> DEFINE T == {n \in 0..Hops : Walked(t, path)[n] = Walked(u, path)[n]}
<1>h. Hops \in Nat
  BY FileAssumption
<1>1. \A w : Hop(t, w) = Hop(u, w)
  BY DEF Hop
<1>2. 0 \in T
  <2>1. Walked(t, path)[0] = Walked(u, path)[0]
    BY WalkedSteps
  <2> QED BY <2>1, <1>h
<1>3. ASSUME NEW n \in 1..Hops, n - 1 \in T PROVE n \in T
  <2>1. Walked(t, path)[n] = Hop(t, Walked(t, path)[n - 1])
    BY WalkedSteps
  <2>2. Walked(u, path)[n] = Hop(u, Walked(u, path)[n - 1])
    BY WalkedSteps
  <2> QED BY <1>1, <1>3, <2>1, <2>2
<1> HIDE DEF T
<1>4. Hops \in T
  <2>1. \A n \in 0..Hops : n \in T
    BY <1>2, <1>3, <1>h, UpTo, Zenon
  <2> QED BY <2>1, <1>h
<1> QED BY <1>4 DEF T, Real

\* A walk a to a path and a walk b to the one above it, x being its last name: a has x still
\* to go after what b has, or b is done and a went on with x.
Ahead(t, a, b, x) ==
    \/ a.at = b.at /\ a.rest = Append(b.rest, x)
    \/ /\ b.rest = <<>>
       /\ Is(t, Append(b.at, x), "link") \/ (a.rest = <<>> /\ a.at = Append(b.at, x))

LEMMA HeadOfLonger ==
    ASSUME NEW r \in Seq(Part), NEW x \in Part
    PROVE  /\ Append(r, x) # <<>>
           /\ r # <<>> => /\ Head(Append(r, x)) = Head(r)
                          /\ Tail(Append(r, x)) = Append(Tail(r), x) /\ Tail(r) \in Seq(Part)
           /\ r = <<>> => Head(Append(r, x)) = x /\ Tail(Append(r, x)) = <<>>
OBVIOUS

LEMMA LongerConcat ==
    ASSUME NEW q \in Seq(Part), NEW r \in Seq(Part), NEW x \in Part
    PROVE  q \o Append(r, x) = Append(q \o r, x)
OBVIOUS

LEMMA HopsAhead ==
    ASSUME NEW t, GoodTree(t), NEW a, NEW b, NEW x \in Part \ {".."},
           Walking(t, b), Walking(t, a), Ahead(t, a, b, x)
    PROVE  Ahead(t, Hop(t, a), Hop(t, b), x)
<1>w. /\ a.at \in Seq(Plain) /\ a.rest \in Seq(Part)
      /\ b.at \in Seq(Plain) /\ b.rest \in Seq(Part)
  BY DEF Walking
<1>1. CASE a.at = b.at /\ a.rest = Append(b.rest, x) /\ b.rest = <<>>
  <2>1. a.rest # <<>> /\ Head(a.rest) = x /\ Tail(a.rest) = <<>>
    BY <1>1, <1>w, HeadOfLonger
  <2>2. Hop(t, b) = b
    BY <1>1 DEF Hop
  <2>3. CASE Is(t, Append(b.at, x), "link")
    BY <1>1, <2>2, <2>3 DEF Ahead
  <2>4. CASE ~Is(t, Append(b.at, x), "link")
    <3>1. Hop(t, a) = [at |-> Append(b.at, x), rest |-> <<>>]
      BY <1>1, <2>1, <2>4 DEF Hop
    <3> QED BY <1>1, <2>2, <3>1 DEF Ahead
  <2> QED BY <2>3, <2>4
<1>2. CASE a.at = b.at /\ a.rest = Append(b.rest, x) /\ b.rest # <<>>
  <2>1. /\ a.rest # <<>> /\ Head(a.rest) = Head(b.rest)
        /\ Tail(a.rest) = Append(Tail(b.rest), x) /\ Tail(b.rest) \in Seq(Part)
    BY <1>2, <1>w, HeadOfLonger
  <2> DEFINE next == Append(b.at, Head(b.rest))
  <2>2. CASE Head(b.rest) = ".."
    <3>1. Hop(t, a) = [at |-> IF a.at = <<>> THEN <<>> ELSE Front(a.at), rest |-> Tail(a.rest)]
      BY <2>1, <2>2 DEF Hop
    <3>2. Hop(t, b) = [at |-> IF b.at = <<>> THEN <<>> ELSE Front(b.at), rest |-> Tail(b.rest)]
      BY <1>2, <2>2 DEF Hop
    <3> QED BY <1>2, <2>1, <3>1, <3>2 DEF Ahead
  <2>3. CASE Head(b.rest) # ".." /\ Is(t, next, "link")
    <3>1. Hop(t, a) = [at |-> <<>>, rest |-> t[next].to \o Tail(a.rest)]
      BY <1>2, <2>1, <2>3 DEF Hop
    <3>2. Hop(t, b) = [at |-> <<>>, rest |-> t[next].to \o Tail(b.rest)]
      BY <1>2, <2>3 DEF Hop
    <3>3. t[next].to \in Seq(Part)
      BY <2>3, LinkLeads
    <3>4. t[next].to \o Tail(a.rest) = Append(t[next].to \o Tail(b.rest), x)
      <4> DEFINE to == t[next].to  r == Tail(b.rest)
      <4>1. to \in Seq(Part) /\ r \in Seq(Part) /\ Tail(a.rest) = Append(r, x)
        BY <2>1, <3>3
      <4> HIDE DEF to, r
      <4>2. to \o Append(r, x) = Append(to \o r, x)
        BY <4>1, LongerConcat
      <4>3. to \o Tail(a.rest) = Append(to \o r, x)
        BY ONLY <4>1, <4>2, Zenon
      <4> QED BY <4>3 DEF to, r
    <3> DEFINE ra == t[next].to \o Tail(a.rest)  rb == t[next].to \o Tail(b.rest)
    <3> HIDE DEF ra, rb
    <3>5. Hop(t, a) = [at |-> <<>>, rest |-> ra] /\ Hop(t, b) = [at |-> <<>>, rest |-> rb]
      BY <3>1, <3>2 DEF ra, rb
    <3>6. ra = Append(rb, x)
      BY <3>4 DEF ra, rb
    <3> QED BY ONLY <3>5, <3>6 DEF Ahead
  <2>4. CASE Head(b.rest) # ".." /\ ~Is(t, next, "link")
    <3>1. Hop(t, a) = [at |-> next, rest |-> Tail(a.rest)]
      BY <1>2, <2>1, <2>4 DEF Hop
    <3>2. Hop(t, b) = [at |-> next, rest |-> Tail(b.rest)]
      BY <1>2, <2>4 DEF Hop
    <3> QED BY <2>1, <3>1, <3>2 DEF Ahead
  <2> QED BY <2>2, <2>3, <2>4
<1>3. CASE /\ b.rest = <<>>
           /\ Is(t, Append(b.at, x), "link") \/ (a.rest = <<>> /\ a.at = Append(b.at, x))
  <2>1. Hop(t, b) = b
    BY <1>3 DEF Hop
  <2>2. a.rest = <<>> => Hop(t, a) = a
    BY DEF Hop
  <2> QED BY <1>3, <2>1, <2>2 DEF Ahead
<1> QED BY <1>1, <1>2, <1>3 DEF Ahead

\* A walk stays a walk.
LEMMA WalksOn ==
    ASSUME NEW t, GoodTree(t), NEW path \in Seq(Part)
    PROVE  \A n \in 0..Hops : Walking(t, Walked(t, path)[n])
<1> DEFINE T == {n \in 0..Hops : Walking(t, Walked(t, path)[n])}
<1>h. Hops \in Nat
  BY FileAssumption
<1>1. 0 \in T
  <2>1. Walked(t, path)[0] = Before(path)
    BY WalkedSteps
  <2>2. Walking(t, Before(path))
    BY WalkBegins
  <2> QED BY <1>h, <2>1, <2>2
<1>2. ASSUME NEW n \in 1..Hops, n - 1 \in T PROVE n \in T
  <2>1. Walked(t, path)[n] = Hop(t, Walked(t, path)[n - 1])
    BY WalkedSteps
  <2>2. Walking(t, Hop(t, Walked(t, path)[n - 1]))
    BY <1>2, HopWalks
  <2> QED BY <1>h, <2>1, <2>2
<1> HIDE DEF T
<1>3. \A n \in 0..Hops : n \in T
  BY <1>1, <1>2, <1>h, UpTo, Zenon
<1> QED BY <1>3 DEF T

\* Where a path leads is one name beyond where the path above it leads, unless there is a
\* link or the walk is too long.
LEMMA OneNameOn ==
    ASSUME NEW t, GoodTree(t), NEW path \in Seq(Part), NEW x \in Part \ {".."}
    PROVE  \/ Real(t, Append(path, x)) \in {Lost, Append(Real(t, path), x)}
           \/ Is(t, Append(Real(t, path), x), "link")
<1> DEFINE a(n) == Walked(t, Append(path, x))[n]
           b(n) == Walked(t, path)[n]
           T == {n \in 0..Hops : Ahead(t, a(n), b(n), x)}
<1>h. Hops \in Nat
  BY FileAssumption
<1>p. Append(path, x) \in Seq(Part) /\ Append(path, x) # <<>>
  BY HeadOfLonger
<1>1. 0 \in T
  <2>1. a(0) = Before(Append(path, x)) /\ b(0) = Before(path)
    BY WalkedSteps
  <2>2. Ahead(t, Before(Append(path, x)), Before(path), x)
    BY DEF Ahead, Before
  <2> QED BY <1>h, <2>1, <2>2
<1>2. ASSUME NEW n \in 1..Hops, n - 1 \in T PROVE n \in T
  <2>1. a(n) = Hop(t, a(n - 1)) /\ b(n) = Hop(t, b(n - 1))
    BY WalkedSteps
  <2>2. n - 1 \in 0..Hops /\ n \in 0..Hops
    BY <1>h
  <2>3. Walking(t, a(n - 1)) /\ Walking(t, b(n - 1))
    BY <1>p, <2>2, WalksOn
  <2>4. Ahead(t, a(n - 1), b(n - 1), x)
    BY <1>2
  <2> HIDE DEF a, b
  <2>5. Ahead(t, Hop(t, a(n - 1)), Hop(t, b(n - 1)), x)
    BY <2>3, <2>4, HopsAhead
  <2> QED BY <2>1, <2>2, <2>5
<1>3. Ahead(t, a(Hops), b(Hops), x)
  <2> HIDE DEF T
  <2>1. \A n \in 0..Hops : n \in T
    BY <1>1, <1>2, <1>h, UpTo, Zenon
  <2> QED BY <2>1, <1>h DEF T
<1>4. Walking(t, b(Hops))
  BY <1>h, WalksOn
<1>5. CASE a(Hops).at = b(Hops).at /\ a(Hops).rest = Append(b(Hops).rest, x)
  <2>1. a(Hops).rest # <<>>
    <3> DEFINE r == b(Hops).rest
    <3>1. r \in Seq(Part)
      BY <1>4 DEF Walking
    <3> HIDE DEF r
    <3>2. Append(r, x) # <<>>
      BY <3>1, HeadOfLonger
    <3> QED BY <1>5, <3>2, Zenon DEF r
  <2> QED BY <2>1 DEF Real
<1>6. CASE /\ b(Hops).rest = <<>>
           /\ Is(t, Append(b(Hops).at, x), "link")
              \/ (a(Hops).rest = <<>> /\ a(Hops).at = Append(b(Hops).at, x))
  <2>1. Real(t, path) = b(Hops).at
    BY <1>6 DEF Real
  <2>2. a(Hops).rest = <<>> => Real(t, Append(path, x)) = a(Hops).at
    BY DEF Real
  <2> QED BY <1>6, <2>1, <2>2
<1> QED BY <1>3, <1>5, <1>6 DEF Ahead

LEMMA NowhereToGo == ASSUME NEW t PROVE Real(t, <<>>) = <<>>
<1> DEFINE S == {Before(<<>>)}
<1>1. \A w \in S : Hop(t, w) \in S
  BY DEF Before, Hop
<1>2. Walked(t, <<>>)[Hops] \in S
  <2> HIDE DEF S
  <2>1. Before(<<>>) \in S
    BY DEF S
  <2> QED BY <1>1, <2>1, WalkInduction
<1> QED BY <1>2 DEF Before, Real

\* The workspace itself is where its path leads.
LEMMA WorkspaceIsThere == ASSUME NEW t, GoodTree(t) PROVE Resolve(t, <<>>) = Workspace
<1> DEFINE done == [at |-> Workspace, rest |-> <<>>]
           T == {n \in 0..Hops : n # 0 => Walked(t, Workspace)[n] = done}
<1>h. Hops \in Nat \ {0}
  BY FileAssumption
<1>1. 0 \in T
  BY <1>h
<1>2. ASSUME NEW n \in 1..Hops, n - 1 \in T PROVE n \in T
  <2>1. Walked(t, Workspace)[n] = Hop(t, Walked(t, Workspace)[n - 1])
    BY WalkedSteps
  <2>2. CASE n = 1
    <3>1. Walked(t, Workspace)[n - 1] = [at |-> <<>>, rest |-> Workspace]
      BY <2>2, WalkedSteps DEF Before
    <3>2. /\ Workspace # <<>> /\ Head(Workspace) = "workspace" /\ Tail(Workspace) = <<>>
          /\ Append(<<>>, "workspace") = Workspace
      BY DEF Workspace
    <3>3. ~Is(t, Workspace, "link")
      BY DEF Is, GoodTree, Dir
    <3>4. Hop(t, [at |-> <<>>, rest |-> Workspace]) = done
      BY <3>2, <3>3 DEF Hop
    <3> QED BY <1>h, <2>1, <3>1, <3>4
  <2>3. CASE n # 1
    <3>1. Walked(t, Workspace)[n - 1] = done
      BY <1>2, <2>3
    <3>2. Hop(t, done) = done
      BY DEF Hop
    <3> QED BY <1>h, <2>1, <3>1, <3>2
  <2> QED BY <2>2, <2>3
<1> HIDE DEF T
<1>3. \A n \in 0..Hops : n \in T
  <2>1. Hops \in Nat
    BY <1>h
  <2> QED BY <1>1, <1>2, <2>1, UpTo, Zenon
<1>4. Walked(t, Workspace)[Hops] = done
  BY <1>3, <1>h DEF T
<1>5. Workspace \o <<>> = Workspace
  BY DEF Workspace
<1> QED BY <1>4, <1>5 DEF Real, Resolve

\* A resolved path leads to itself, or is too long a walk.
LeadsBack(t, p) ==
    Real(t, p) = p \/ (Real(t, p) # <<>> /\ Real(t, p)[1] = "loop")

LEMMA ResolvedStays ==
    ASSUME NEW t, GoodTree(t), NEW path \in Seq(Plain), NoLinks(t, path)
    PROVE  LeadsBack(t, path)
<1> DEFINE T == {n \in 0..Len(path) : LeadsBack(t, SubSeq(path, 1, n))}
<1>l. Len(path) \in Nat
  OBVIOUS
<1>1. 0 \in T
  <2>1. SubSeq(path, 1, 0) = <<>>
    OBVIOUS
  <2>2. Real(t, <<>>) = <<>>
    BY NowhereToGo
  <2>3. LeadsBack(t, SubSeq(path, 1, 0))
    BY <2>1, <2>2 DEF LeadsBack
  <2> QED BY <1>l, <2>3
<1>2. ASSUME NEW n \in 1..Len(path), n - 1 \in T PROVE n \in T
  <2> DEFINE p == SubSeq(path, 1, n - 1)  x == path[n]  r == Real(t, p)
  <2>1. p \in Seq(Part) /\ x \in Part \ {".."} /\ SubSeq(path, 1, n) = Append(p, x)
    <3>1. x \in Plain /\ n \in 0..Len(path) /\ n - 1 \in 0..Len(path)
      OBVIOUS
    <3>2. p \in Seq(Plain)
      BY <3>1
    <3>3. SubSeq(path, 1, n) = Append(p, x)
      OBVIOUS
    <3>4. ".." \notin Plain
      BY FileAssumption DEF Plain
    <3> HIDE DEF p, x
    <3> QED BY <3>1, <3>2, <3>3, <3>4 DEF Part
  <2>2. ~Is(t, Append(p, x), "link")
    <3>1. n \in 0..Len(path)
      BY <1>l
    <3>2. ~Is(t, SubSeq(path, 1, n), "link")
      BY <3>1 DEF NoLinks
    <3> QED BY <2>1, <3>2
  <2>3. r = p \/ (r[1] = "loop" /\ r # <<>>)
    <3>1. LeadsBack(t, p)
      BY <1>2
    <3> HIDE DEF p
    <3> QED BY <3>1 DEF LeadsBack
  <2>4. r \in Seq(Part)
    <3> HIDE DEF p
    <3>1. r \in Seq(Plain)
      BY <2>1, RealIsPlain
    <3> QED BY <3>1 DEF Part
  <2> HIDE DEF p, x
  <2>5. Real(t, Append(p, x)) \in {Lost, Append(r, x)} \/ Is(t, Append(r, x), "link")
    BY <2>1, OneNameOn
  <2> HIDE DEF r
  <2>6. ASSUME r = p PROVE LeadsBack(t, Append(p, x))
    <3>1. Real(t, Append(p, x)) = Lost \/ Real(t, Append(p, x)) = Append(p, x)
      BY <2>2, <2>5, <2>6
    <3>2. Lost[1] = "loop" /\ Lost # <<>>
      BY DEF Lost
    <3> QED BY <3>1, <3>2 DEF LeadsBack
  <2>7. ASSUME r[1] = "loop", r # <<>> PROVE LeadsBack(t, Append(p, x))
    <3>1. Append(r, x)[1] = "loop" /\ Append(r, x) # <<>>
      BY <2>1, <2>4, <2>7
    <3>2. ~Is(t, Append(r, x), "link")
      BY <3>1, LinkLeads
    <3>3. Lost[1] = "loop" /\ Lost # <<>>
      BY DEF Lost
    <3>4. Real(t, Append(p, x))[1] = "loop" /\ Real(t, Append(p, x)) # <<>>
      BY <2>5, <3>1, <3>2, <3>3
    <3> QED BY <3>4 DEF LeadsBack
  <2>8. LeadsBack(t, SubSeq(path, 1, n))
    BY <2>1, <2>3, <2>6, <2>7
  <2> QED BY <1>l, <2>8
<1>3. Len(path) \in T
  <2> HIDE DEF T
  <2>1. \A n \in 0..Len(path) : n \in T
    BY <1>1, <1>2, <1>l, UpTo, Zenon
  <2> QED BY <2>1, <1>l
<1>4. SubSeq(path, 1, Len(path)) = path
  OBVIOUS
<1> QED BY <1>3, <1>4

----------------------------------------------------------------------------
\* Inside and outside.

LEMMA InsideMeans ==
    ASSUME NEW p \in Seq(Part)
    PROVE  /\ Inside(p) <=> Len(p) > 0 /\ p[1] = "workspace"
           /\ Inside(p) /\ p # Workspace <=> Len(p) > 1 /\ p[1] = "workspace"
<1>1. Workspace \in Seq(Part) /\ Len(Workspace) = 1 /\ Workspace[1] = "workspace"
  BY DEF Workspace, Part, Plain
<1>2. ASSUME NEW q \in Seq(Part), Len(q) > 0
      PROVE  SubSeq(q, 1, 1) = [i \in 1..1 |-> q[i]] /\ SubSeq(q, 1, 1)[1] = q[1]
  BY <1>2
<1>3. Len(p) \in Nat
  OBVIOUS
<1>4. Inside(p) <=> Len(p) > 0 /\ p[1] = "workspace"
  <2>1. Inside(p) <=> 1 <= Len(p) /\ SubSeq(Workspace, 1, 1) = SubSeq(p, 1, 1)
    BY <1>1 DEF Inside, IsPrefix
  <2>2. CASE Len(p) > 0
    <3>1. SubSeq(p, 1, 1) = [i \in 1..1 |-> p[i]] /\ SubSeq(p, 1, 1)[1] = p[1]
      BY <1>2, <2>2
    <3>2. /\ SubSeq(Workspace, 1, 1) = [i \in 1..1 |-> Workspace[i]]
          /\ SubSeq(Workspace, 1, 1)[1] = Workspace[1]
      <4>1. Len(Workspace) > 0
        BY <1>1
      <4> QED BY <1>1, <1>2, <4>1
    <3>3. SubSeq(Workspace, 1, 1) = SubSeq(p, 1, 1) <=> p[1] = Workspace[1]
      <4>1. p[1] = Workspace[1] => \A i \in 1..1 : p[i] = Workspace[i]
        OBVIOUS
      <4> QED BY <3>1, <3>2, <4>1
    <3>4. 1 <= Len(p)
      BY <1>3, <2>2
    <3> QED BY <1>1, <2>1, <2>2, <3>3, <3>4
  <2>3. CASE ~(Len(p) > 0)
    BY <1>3, <2>1, <2>3
  <2> QED BY <2>2, <2>3
<1>5. Len(p) = 1 /\ p[1] = "workspace" => p = Workspace
  BY DEF Workspace
<1>6. p = Workspace => Len(p) = 1
  BY <1>1, Zenon
<1>7. Len(p) > 1 <=> Len(p) > 0 /\ Len(p) # 1
  <2>1. \A n \in Nat : n > 1 <=> n > 0 /\ n # 1
    OBVIOUS
  <2> QED BY <1>3, <2>1, Zenon
<1> QED BY <1>4, <1>5, <1>6, <1>7, Zenon

\* What is below a path in the workspace is in the workspace, and not the workspace.
LEMMA BelowInside ==
    ASSUME NEW p \in Seq(Part), NEW q \in Seq(Part), IsPrefix(p, q), Inside(p), p # Workspace
    PROVE  Inside(q) /\ q # Workspace
<1>1. Len(p) > 1 /\ p[1] = "workspace" /\ Len(p) <= Len(q)
  BY InsideMeans DEF IsPrefix
<1>2. SubSeq(p, 1, Len(p))[1] = p[1] /\ SubSeq(q, 1, Len(p))[1] = q[1]
  BY <1>1
<1>3. q[1] = "workspace"
  BY <1>1, <1>2 DEF IsPrefix
<1>4. Len(q) > 1
  BY <1>1
<1> QED BY <1>3, <1>4, InsideMeans

\* A path's beginnings are "/", the workspace, or in it.
LEMMA AboveInside ==
    ASSUME NEW p \in Seq(Part), Inside(p), NEW n \in 0..Len(p)
    PROVE  /\ SubSeq(p, 1, n) \in Seq(Part)
           /\ SubSeq(p, 1, n) \in {<<>>, Workspace}
              \/ (Inside(SubSeq(p, 1, n)) /\ SubSeq(p, 1, n) # Workspace)
<1> DEFINE q == SubSeq(p, 1, n)
<1>1. Len(p) > 0 /\ p[1] = "workspace"
  BY InsideMeans
<1>2. q \in Seq(Part) /\ Len(q) = n
  OBVIOUS
<1>3. n # 0 => q[1] = "workspace"
  BY <1>1
<1>4. n = 0 => q = <<>>
  BY <1>2
<1> HIDE DEF q
<1>5. Inside(q) <=> Len(q) > 0 /\ q[1] = "workspace"
  BY <1>2, InsideMeans
<1>6. n # 0 => Inside(q)
  BY <1>2, <1>3, <1>5
<1> QED BY <1>2, <1>4, <1>6 DEF q

LEMMA FrontOfPart ==
    ASSUME NEW p \in Seq(Part), Inside(p), p # Workspace
    PROVE  /\ Front(p) \in Seq(Part) /\ Inside(Front(p)) /\ Len(Front(p)) = Len(p) - 1
           /\ \A n \in 0..Len(Front(p)) : SubSeq(Front(p), 1, n) = SubSeq(p, 1, n)
           /\ p # <<>> /\ Last(p) \in Part /\ p = Append(Front(p), Last(p))
<1>1. Len(p) > 1 /\ p[1] = "workspace"
  BY InsideMeans
<1>2. p # <<>> /\ Last(p) \in Part /\ p = Append(Front(p), Last(p))
  BY <1>1 DEF Last, Front
<1>3. Front(p) \in Seq(Part) /\ Len(Front(p)) = Len(p) - 1
  <2>1. Len(p) - 1 \in 0..Len(p)
    BY <1>1
  <2>2. \A k \in 0..Len(p) : SubSeq(p, 1, k) \in Seq(Part) /\ Len(SubSeq(p, 1, k)) = k
    OBVIOUS
  <2> QED BY <2>1, <2>2 DEF Front
<1>4. Inside(Front(p))
  <2>1. Front(p)[1] = p[1]
    BY <1>1 DEF Front
  <2>2. Len(Front(p)) > 0
    BY <1>1, <1>3
  <2> QED BY <1>1, <1>3, <2>1, <2>2, InsideMeans
<1>5. ASSUME NEW n \in 0..Len(Front(p)) PROVE SubSeq(Front(p), 1, n) = SubSeq(p, 1, n)
  <2>0. Len(p) \in Nat
    OBVIOUS
  <2>1. \A i \in 1..n : Front(p)[i] = p[i]
    BY <1>3, <2>0 DEF Front
  <2>2. /\ SubSeq(Front(p), 1, n) = [i \in 1..n |-> Front(p)[i]]
        /\ SubSeq(p, 1, n) = [i \in 1..n |-> p[i]]
    BY <1>3, <2>0
  <2> QED BY ONLY <2>1, <2>2
<1> QED BY <1>2, <1>3, <1>4, <1>5

----------------------------------------------------------------------------
\* The invariant.

UploadsTyped ==
    /\ uploads \in [Upload -> {Nobody} \cup [dest : Seq(Part), asked : Seq(Part), data : Data]]
    /\ \A u \in Upload : uploads[u] # Nobody => uploads[u].asked = uploads[u].dest

FInv == GoodTree(tree) /\ UploadsTyped

LEMMA InputsAreParts ==
    /\ \A path \in ClientPath : path \in Seq(Part) /\ Workspace \o path \in Seq(Part)
    /\ \A name \in FileName : name \in Part /\ name # ".."
    /\ \A p \in LinkAt : p \in Seq(Part) /\ Len(p) > 1 /\ p[1] = "workspace"
    /\ \A p \in LinkTo : p \in Seq(Part)
<1>1. Name \cup {"..", "outside"} \subseteq Part /\ Name \cup {"workspace"} \subseteq Part
      /\ Name \cup {"..", "workspace", "outside"} \subseteq Part
  BY DEF Part, Plain
<1>2. \A S : S \subseteq Part => Seq(S) \subseteq Seq(Part)
  OBVIOUS
<1>3. \A path \in Seq(Part) : Workspace \o path \in Seq(Part)
  <2>1. Workspace \in Seq(Part)
    BY DEF Workspace, Part, Plain
  <2> QED BY <2>1
<1>4. \A path \in ClientPath : path \in Seq(Part)
  BY <1>1, <1>2, FileAssumption
<1>5. \A p \in LinkAt : p \in Seq(Part)
  BY <1>1, <1>2, FileAssumption
<1>6. \A p \in LinkTo : p \in Seq(Part)
  BY <1>1, <1>2, FileAssumption
<1>7. \A name \in FileName : name \in Part /\ name # ".."
  BY FileAssumption DEF Part, Plain
<1>8. \A p \in LinkAt : Len(p) > 1 /\ p[1] = "workspace"
  BY FileAssumption
<1> QED BY <1>3, <1>4, <1>5, <1>6, <1>7, <1>8

\* Resolving a path of a request.
LEMMA ResolvedPlain ==
    ASSUME GoodTree(tree), NEW path \in Seq(Part)
    PROVE  /\ Resolve(tree, path) \in Seq(Plain) /\ Resolve(tree, path) \in Seq(Part)
           /\ NoLinks(tree, Resolve(tree, path))
           /\ ~Is(tree, Resolve(tree, path), "link")
<1> DEFINE r == Resolve(tree, path)
<1>1. Workspace \o path \in Seq(Part)
  BY DEF Workspace, Part, Plain
<1>2. r \in Seq(Plain) /\ NoLinks(tree, r)
  BY <1>1, RealIsPlain DEF Resolve
<1> HIDE DEF r
<1>3. r \in Seq(Part)
  BY <1>2 DEF Part
<1>4. SubSeq(r, 1, Len(r)) = r /\ Len(r) \in 0..Len(r)
  BY <1>2
<1>5. ~Is(tree, r, "link")
  BY <1>2, <1>4 DEF NoLinks
<1> QED BY <1>2, <1>3, <1>5 DEF r

\* What each change of the tree leaves and adds.
LEMMA MakeDirsKeeps ==
    ASSUME GoodTree(tree), NEW p \in Seq(Part), Inside(p)
    PROVE  LET t == MakeDirs(tree, p)
           IN /\ GoodTree(t) /\ DOMAIN tree \subseteq DOMAIN t
              /\ \A q \in DOMAIN tree : t[q] = tree[q]
              /\ \A q \in DOMAIN t \ DOMAIN tree : t[q] = Dir /\ Inside(q) /\ q # Workspace
<1> DEFINE t == MakeDirs(tree, p)  new == {SubSeq(p, 1, n) : n \in 0..Len(p)}
<1>1. DOMAIN t = DOMAIN tree \cup new /\ \A q \in DOMAIN t : t[q] = IF q \in DOMAIN tree THEN tree[q] ELSE Dir
  BY DEF MakeDirs
<1>2. \A q \in new : q \in Seq(Part) /\ (q \in {<<>>, Workspace} \/ (Inside(q) /\ q # Workspace))
  BY AboveInside
<1> HIDE DEF t, new
<1>3. \A q \in DOMAIN t \ DOMAIN tree : t[q] = Dir /\ Inside(q) /\ q # Workspace
  BY <1>1, <1>2 DEF GoodTree
<1>4. GoodTree(t)
  <2>1. DOMAIN t \in SUBSET Seq(Part) /\ {<<>>, Workspace} \subseteq DOMAIN t
    BY <1>1, <1>2 DEF GoodTree
  <2>2. Dir \in Node
    BY DEF Node
  <2>3. \A q \in DOMAIN t : t[q] \in Node
    BY <1>1, <2>2 DEF GoodTree
  <2>4. \A q \in DOMAIN t : t[q].is = "link" => Len(q) > 1 /\ q[1] = "workspace"
    <3>1. Dir.is # "link"
      BY DEF Dir
    <3> QED BY <1>1, <3>1 DEF GoodTree
  <2>5. t[<<>>] = Dir /\ t[Workspace] = Dir
    BY <1>1, <2>1 DEF GoodTree
  <2> QED BY <2>1, <2>3, <2>4, <2>5 DEF GoodTree
<1> QED BY <1>1, <1>3, <1>4 DEF t

LEMMA PutKeeps ==
    ASSUME NEW s, GoodTree(s), NEW p \in Seq(Part), Inside(p), p # Workspace, NEW node \in Node
    PROVE  LET t == Put(s, p, node)
           IN /\ GoodTree(t) /\ DOMAIN t = DOMAIN s \cup {p} /\ t[p] = node
              /\ \A q \in DOMAIN s : q # p => t[q] = s[q]
<1> DEFINE t == Put(s, p, node)
<1>1. DOMAIN t = DOMAIN s \cup {p} /\ t[p] = node /\ \A q \in DOMAIN s : q # p => t[q] = s[q]
  BY DEF Put
<1>2. Len(p) > 1 /\ p[1] = "workspace" /\ p # <<>>
  <2>1. Len(p) > 1 /\ p[1] = "workspace"
    BY InsideMeans
  <2> QED BY <2>1
<1> HIDE DEF t
<1>3. GoodTree(t)
  <2>1. DOMAIN t \in SUBSET Seq(Part) /\ {<<>>, Workspace} \subseteq DOMAIN t
    BY <1>1 DEF GoodTree
  <2>2. \A q \in DOMAIN t : t[q] \in Node
    BY <1>1 DEF GoodTree
  <2>3. \A q \in DOMAIN t : t[q].is = "link" => Len(q) > 1 /\ q[1] = "workspace"
    BY <1>1, <1>2 DEF GoodTree
  <2>4. t[<<>>] = Dir /\ t[Workspace] = Dir
    BY <1>1, <1>2 DEF GoodTree
  <2> QED BY <2>1, <2>2, <2>3, <2>4 DEF GoodTree
<1> QED BY <1>1, <1>3 DEF t

LEMMA FrontOfAny ==
    ASSUME NEW p \in Seq(Part), p # <<>>
    PROVE  Front(p) \in Seq(Part) /\ Last(p) \in Part /\ p = Append(Front(p), Last(p))
BY DEF Front, Last

\* Deleting below a path in the workspace.
LEMMA DeletingKeeps ==
    ASSUME GoodTree(tree), NEW p \in DOMAIN tree, Inside(p), p # Workspace,
           tree' = [q \in DOMAIN tree \ Below(p) |-> tree[q]]
    PROVE  /\ GoodTree(tree') /\ DOMAIN tree \ DOMAIN tree' = Below(p)
           /\ DOMAIN tree' \subseteq DOMAIN tree
           /\ \A q \in DOMAIN tree' : tree'[q] = tree[q]
           /\ \A q \in Below(p) : Inside(q) /\ q # Workspace
<1>1. p \in Seq(Part) /\ Below(p) \subseteq DOMAIN tree /\ Below(p) \subseteq Seq(Part)
  BY DEF GoodTree, Below
<1>2. \A q \in Below(p) : Inside(q) /\ q # Workspace
  BY <1>1, BelowInside DEF Below
<1>3. <<>> \notin Below(p) /\ Workspace \notin Below(p)
  <2>1. ~Inside(<<>>)
    BY DEF Inside, IsPrefix, Workspace
  <2> QED BY <1>2, <2>1
<1>4. DOMAIN tree' = DOMAIN tree \ Below(p) /\ \A q \in DOMAIN tree' : tree'[q] = tree[q]
  OBVIOUS
<1>5. GoodTree(tree')
  <2>1. DOMAIN tree' \in SUBSET Seq(Part) /\ {<<>>, Workspace} \subseteq DOMAIN tree'
    BY <1>3, <1>4 DEF GoodTree
  <2>2. \A q \in DOMAIN tree' : tree'[q] \in Node
    BY <1>4 DEF GoodTree
  <2>3. \A q \in DOMAIN tree' : tree'[q].is = "link" => Len(q) > 1 /\ q[1] = "workspace"
    BY <1>4 DEF GoodTree
  <2>4. tree'[<<>>] = Dir /\ tree'[Workspace] = Dir
    BY <1>4, <2>1 DEF GoodTree
  <2> QED BY <2>1, <2>2, <2>3, <2>4 DEF GoodTree
<1> QED BY <1>1, <1>2, <1>4, <1>5

\* What delete_path removes, when it does.
Victim(path) == IF NamesLink(tree, path) THEN NamedPlace(tree, path) ELSE Resolve(tree, path)

LEMMA DeletesVictim ==
    ASSUME NEW path, Deletes(path)
    PROVE  /\ Inside(Victim(path)) /\ Victim(path) \in DOMAIN tree /\ Victim(path) # Workspace
           /\ tree' = [q \in DOMAIN tree \ Below(Victim(path)) |-> tree[q]]
           /\ UNCHANGED uploads
BY DEF Deletes, Victim

\* gh #175: it is what the path names, the last name not followed.
LEMMA VictimIsNamed ==
    ASSUME GoodTree(tree), NEW path \in ClientPath, Deletes(path)
    PROVE  Victim(path) = NamedPlace(tree, path)
<1>p. path \in Seq(Part)
  BY InputsAreParts
<1>1. CASE NamesLink(tree, path)
  BY <1>1 DEF Victim
<1>2. CASE ~NamesLink(tree, path) /\ (path = <<>> \/ Last(path) = "..")
  BY <1>2 DEF Victim, NamedPlace
<1>3. CASE ~NamesLink(tree, path) /\ path # <<>> /\ Last(path) # ".."
  <2> DEFINE f == Front(path)  x == Last(path)  r == Resolve(tree, f)
  <2>1. f \in Seq(Part) /\ x \in Part \ {".."} /\ path = Append(f, x)
    BY <1>p, <1>3, FrontOfAny
  <2>2. NamedPlace(tree, path) = Append(r, x)
    BY <1>3 DEF NamedPlace
  <2> HIDE DEF f, x
  <2>3. r \in Seq(Part)
    BY <2>1, ResolvedPlain
  <2>4. Workspace \o f \in Seq(Part) /\ Workspace \o path = Append(Workspace \o f, x)
    <3>1. Workspace \in Seq(Part)
      BY DEF Workspace, Part, Plain
    <3> QED BY <2>1, <3>1
  <2>5. \/ Resolve(tree, path) \in {Lost, Append(r, x)}
        \/ Is(tree, Append(r, x), "link")
    BY <2>1, <2>4, OneNameOn DEF Resolve
  <2> HIDE DEF r
  <2>6. ~Is(tree, Append(r, x), "link")
    <3> SUFFICES ASSUME Is(tree, Append(r, x), "link") PROVE FALSE
      OBVIOUS
    <3>1. Len(Append(r, x)) > 1 /\ Append(r, x)[1] = "workspace"
      BY LinkLeads
    <3>2. Len(r) > 0 /\ r[1] = "workspace"
      BY <2>1, <2>3, <3>1
    <3>3. Inside(r)
      BY <2>3, <3>2, InsideMeans
    <3> QED BY <1>3, <2>2, <3>3 DEF NamesLink, f, x, r
  <2>7. Inside(Victim(path)) /\ Victim(path) = Resolve(tree, path)
    BY <1>3, DeletesVictim DEF Victim
  <2>8. ~Inside(Lost)
    <3>1. Lost \in Seq(Part) /\ Lost[1] = "loop"
      BY DEF Lost, Part, Plain
    <3> QED BY <3>1, InsideMeans
  <2> QED BY <2>2, <2>5, <2>6, <2>7, <2>8
<1> QED BY <1>1, <1>2, <1>3

\* Where an upload is stored.
LEMMA SavesAt ==
    ASSUME FInv, NEW u \in Upload, Saves(u)
    PROVE  LET p == Resolve(tree, uploads[u].dest)
           IN /\ p \in Seq(Part) /\ Inside(p) /\ p # Workspace
              /\ ~Is(tree, p, "dir") /\ ~Is(tree, p, "link")
              /\ p \in DOMAIN tree => tree[p].is = "file"
              /\ uploads[u].dest \in Seq(Part) /\ uploads[u].asked = uploads[u].dest
              /\ uploads[u].data \in Data
              /\ GoodTree(tree') /\ DOMAIN tree \subseteq DOMAIN tree'
              /\ p \in DOMAIN tree' /\ tree'[p] = File(uploads[u].data)
              /\ \A q \in DOMAIN tree : q # p => tree'[q] = tree[q]
              /\ \A q \in DOMAIN tree' \ DOMAIN tree : Inside(q) /\ q # Workspace
              /\ \A q \in DOMAIN tree' \ DOMAIN tree : q # p => tree'[q] = Dir
<1> DEFINE p == Resolve(tree, uploads[u].dest)
<1>1. /\ uploads[u].dest \in Seq(Part) /\ uploads[u].asked = uploads[u].dest
      /\ uploads[u].data \in Data
  BY DEF FInv, UploadsTyped, Saves
<1>2. p \in Seq(Part) /\ ~Is(tree, p, "link")
  BY <1>1, ResolvedPlain DEF FInv
<1>3. Inside(p) /\ p # Workspace /\ ~Is(tree, p, "dir")
  BY DEF Saves, CanSave
<1>4. tree' = Put(MakeDirs(tree, Front(p)), p, File(uploads[u].data))
  BY DEF Saves
<1> HIDE DEF p
<1>5. p \in DOMAIN tree => tree[p].is = "file"
  <2> SUFFICES ASSUME p \in DOMAIN tree PROVE tree[p].is = "file"
    OBVIOUS
  <2>1. tree[p] \in Node /\ tree[p].is # "dir" /\ tree[p].is # "link"
    BY <1>2, <1>3 DEF FInv, GoodTree, Is
  <2>2. tree[p] # Dir /\ \A q \in Seq(Part) : tree[p] # Link(q)
    BY <2>1 DEF Dir, Link
  <2>3. PICK d \in Data : tree[p] = File(d)
    BY <2>1, <2>2 DEF Node
  <2> QED BY <2>3 DEF File
<1> DEFINE s == MakeDirs(tree, Front(p))
<1>6. /\ GoodTree(s) /\ DOMAIN tree \subseteq DOMAIN s
      /\ \A q \in DOMAIN tree : s[q] = tree[q]
      /\ \A q \in DOMAIN s \ DOMAIN tree : s[q] = Dir /\ Inside(q) /\ q # Workspace
  <2>1. Front(p) \in Seq(Part) /\ Inside(Front(p))
    BY <1>2, <1>3, FrontOfPart
  <2> QED BY <2>1, MakeDirsKeeps DEF FInv
<1> HIDE DEF s
<1>7. File(uploads[u].data) \in Node
  BY <1>1 DEF Node
<1>8. tree' = Put(s, p, File(uploads[u].data))
  BY <1>4 DEF s
<1>9. /\ GoodTree(tree') /\ DOMAIN tree' = DOMAIN s \cup {p}
      /\ tree'[p] = File(uploads[u].data)
      /\ \A q \in DOMAIN s : q # p => tree'[q] = s[q]
  <2> DEFINE node == File(uploads[u].data)
  <2> HIDE DEF node
  <2>1. node \in Node /\ tree' = Put(s, p, node)
    BY <1>7, <1>8 DEF node
  <2>2. /\ GoodTree(Put(s, p, node)) /\ DOMAIN Put(s, p, node) = DOMAIN s \cup {p}
        /\ Put(s, p, node)[p] = node
        /\ \A q \in DOMAIN s : q # p => Put(s, p, node)[q] = s[q]
    BY <1>2, <1>3, <1>6, <2>1, PutKeeps
  <2> QED BY <2>1, <2>2 DEF node
<1>10. /\ DOMAIN tree \subseteq DOMAIN tree' /\ p \in DOMAIN tree'
       /\ \A q \in DOMAIN tree : q # p => tree'[q] = tree[q]
       /\ \A q \in DOMAIN tree' \ DOMAIN tree : Inside(q) /\ q # Workspace
       /\ \A q \in DOMAIN tree' \ DOMAIN tree : q # p => tree'[q] = Dir
  BY <1>3, <1>6, <1>9
<1> QED BY <1>1, <1>2, <1>3, <1>5, <1>9, <1>10 DEF p

\* A request, or the agent, makes a directory, a link or nothing.
LEMMA AddsNode ==
    ASSUME GoodTree(tree), NEW p \in LinkAt, NEW to \in LinkTo, AgentLinks(p, to)
    PROVE  /\ GoodTree(tree') /\ DOMAIN tree' = DOMAIN tree \cup {p}
           /\ \A q \in DOMAIN tree : tree'[q] = tree[q]
           /\ Inside(p) /\ p # Workspace
<1>1. p \in Seq(Part) /\ Inside(p) /\ p # Workspace /\ to \in Seq(Part)
  BY InputsAreParts, InsideMeans
<1>2. Link(to) \in Node
  BY <1>1 DEF Node
<1>3. tree' = Put(tree, p, Link(to)) /\ p \notin DOMAIN tree
  BY DEF AgentLinks
<1> DEFINE node == Link(to)
<1> HIDE DEF node
<1>4. /\ GoodTree(Put(tree, p, node)) /\ DOMAIN Put(tree, p, node) = DOMAIN tree \cup {p}
      /\ \A q \in DOMAIN tree : q # p => Put(tree, p, node)[q] = tree[q]
  BY <1>1, <1>2, PutKeeps DEF node
<1> QED BY <1>1, <1>3, <1>4 DEF node

LEMMA MakesDirAdds ==
    ASSUME GoodTree(tree), NEW path \in ClientPath, MakesDir(path)
    PROVE  /\ GoodTree(tree') /\ DOMAIN tree \subseteq DOMAIN tree'
           /\ \A q \in DOMAIN tree : tree'[q] = tree[q]
           /\ \A q \in DOMAIN tree' \ DOMAIN tree : Inside(q) /\ q # Workspace
<1> DEFINE p == Resolve(tree, path)
<1>1. p \in Seq(Part)
  BY InputsAreParts, ResolvedPlain
<1>2. Inside(p) /\ tree' = MakeDirs(tree, p)
  BY DEF MakesDir
<1> HIDE DEF p
<1> QED BY <1>1, <1>2, MakeDirsKeeps

\* An upload that begins will be read where it is stored.
LEMMA BeginsTyped ==
    ASSUME FInv, NEW u \in Upload, NEW path \in ClientPath, NEW slash \in BOOLEAN,
           NEW name \in FileName, NEW d \in Data, Begins(u, path, slash, name, d)
    PROVE  FInv'
<1>1. /\ uploads' = [uploads EXCEPT ![u] =
          [dest  |-> IF IntoDir(path, slash) THEN Append(path, name) ELSE path,
           asked |-> IF slash \/ Lists(tree, path) THEN Append(path, name) ELSE path,
           data  |-> d]]
      /\ tree' = tree /\ (slash \/ Inside(Resolve(tree, path)))
  BY DEF Begins
<1>2. IntoDir(path, slash) <=> (slash \/ Lists(tree, path))
  BY <1>1 DEF IntoDir, Lists
<1> DEFINE to == IF IntoDir(path, slash) THEN Append(path, name) ELSE path
<1>3. to \in Seq(Part)
  BY InputsAreParts
<1>4. uploads' = [uploads EXCEPT ![u] = [dest |-> to, asked |-> to, data |-> d]]
  BY <1>1, <1>2
<1> HIDE DEF to
<1>5. UploadsTyped'
  BY <1>3, <1>4 DEF FInv, UploadsTyped
<1> QED BY <1>1, <1>5 DEF FInv, GoodTree

\* An upload that ends.
LEMMA EndsTyped ==
    ASSUME UploadsTyped, NEW u \in Upload, uploads' = [uploads EXCEPT ![u] = Nobody]
    PROVE  UploadsTyped'
BY DEF UploadsTyped

LEMMA FInvInit == Init => FInv
<1> SUFFICES ASSUME Init PROVE FInv
  OBVIOUS
<1>1. PICK d \in Data :
        tree = [p \in {<<>>, Workspace, Outside} \cup {Append(Outside, n) : n \in Name} |->
                  IF Len(p) < 2 THEN Dir ELSE File(d)]
  BY DEF Init, FilesInit
<1>2. /\ <<>> \in Seq(Part) /\ Workspace \in Seq(Part) /\ Outside \in Seq(Part)
      /\ \A n \in Name : Append(Outside, n) \in Seq(Part)
  BY DEF Workspace, Outside, Part, Plain
<1>3. Len(<<>>) < 2 /\ Len(Workspace) < 2
  <2>1. Len(<<>>) = 0 /\ Len(Workspace) = 1
    BY DEF Workspace
  <2> QED BY <2>1
<1>4. DOMAIN tree \in SUBSET Seq(Part) /\ {<<>>, Workspace} \subseteq DOMAIN tree
  BY <1>1, <1>2
<1>5. \A p \in DOMAIN tree : tree[p] = Dir \/ tree[p] = File(d)
  BY <1>1
<1>6. tree[<<>>] = Dir /\ tree[Workspace] = Dir
  <2>1. \A p \in DOMAIN tree : tree[p] = IF Len(p) < 2 THEN Dir ELSE File(d)
    BY <1>1
  <2> QED BY <1>3, <1>4, <2>1, Zenon
<1>7. Dir.is # "link" /\ File(d).is # "link" /\ Dir \in Node /\ File(d) \in Node
  BY DEF Dir, File, Node
<1>8. GoodTree(tree)
  BY <1>4, <1>5, <1>6, <1>7 DEF GoodTree
<1>9. UploadsTyped
  BY DEF UploadsTyped, Init, FilesInit
<1> QED BY <1>8, <1>9 DEF FInv

LEMMA FInvStep == FInv /\ [Next]_vars => FInv'
<1> SUFFICES ASSUME FInv, [Next]_vars PROVE FInv'
  OBVIOUS
<1>1. ASSUME NEW path \in ClientPath, MakesDir(path) PROVE FInv'
  <2>1. GoodTree(tree')
    BY <1>1, MakesDirAdds DEF FInv
  <2>2. uploads' = uploads
    BY <1>1 DEF MakesDir
  <2> QED BY <2>1, <2>2 DEF FInv, UploadsTyped, GoodTree
<1>2. ASSUME NEW path \in ClientPath, Deletes(path) PROVE FInv'
  <2>1. GoodTree(tree')
    BY <1>2, DeletesVictim, DeletingKeeps DEF FInv
  <2>2. uploads' = uploads
    BY <1>2, DeletesVictim
  <2> QED BY <2>1, <2>2 DEF FInv, UploadsTyped, GoodTree
<1>3. ASSUME NEW u \in Upload, Saves(u) PROVE FInv'
  <2>1. GoodTree(tree')
    BY <1>3, SavesAt
  <2>2. UploadsTyped'
    BY <1>3, EndsTyped DEF Saves, FInv
  <2> QED BY <2>1, <2>2 DEF FInv, GoodTree
<1>4. ASSUME NEW u \in Upload, Fails(u) PROVE FInv'
  <2>1. UploadsTyped' /\ tree' = tree
    BY <1>4, EndsTyped DEF Fails, FInv
  <2> QED BY <2>1 DEF FInv, GoodTree
<1>5. ASSUME NEW p \in LinkAt, NEW to \in LinkTo, AgentLinks(p, to) PROVE FInv'
  <2>1. GoodTree(tree')
    BY <1>5, AddsNode DEF FInv
  <2>2. uploads' = uploads
    BY <1>5 DEF AgentLinks
  <2> QED BY <2>1, <2>2 DEF FInv, UploadsTyped, GoodTree
<1>6. CASE UNCHANGED vars
  BY <1>6 DEF vars, fileVars, FInv, GoodTree, UploadsTyped
<1> QED BY <1>1, <1>2, <1>3, <1>4, <1>5, <1>6, BeginsTyped DEF Next, Serves, Asks, Progress, Agent

\* Directories stay directories, links stay in the workspace, and an upload is read where it
\* is stored.
THEOREM TreesStayGood == Spec => []FInv
BY FInvInit, FInvStep, PTL DEF Spec

----------------------------------------------------------------------------
\* gh #41, #148, #175: what a step changes is in the workspace, what it removes is what a
\* deletion names, and it changes one file at most, by an upload.
GoneIn    == DOMAIN tree \ DOMAIN tree'
KeptIn    == DOMAIN tree \cap DOMAIN tree'
ChangedIn == {q \in KeptIn : tree'[q] # tree[q]}

StepIsNamed ==
    /\ \A q \in GoneIn \cup ChangedIn \cup (DOMAIN tree' \ DOMAIN tree) :
          Inside(q) /\ q # Workspace
    /\ GoneIn # {} =>
          /\ ChangedIn = {} /\ \E path \in ClientPath : Deletes(path)
          /\ \A path \in ClientPath : Deletes(path) => GoneIn = Below(NamedPlace(tree, path))
    /\ ChangedIn # {} =>
          /\ \E u \in Upload : Saves(u)
          /\ \E q \in KeptIn : ChangedIn = {q} /\ tree[q].is = "file"

\* A step that only adds to the workspace.
LEMMA OnlyAdds ==
    ASSUME DOMAIN tree \subseteq DOMAIN tree', \A q \in DOMAIN tree : tree'[q] = tree[q],
           \A q \in DOMAIN tree' \ DOMAIN tree : Inside(q) /\ q # Workspace
    PROVE  StepIsNamed
<1>1. GoneIn = {} /\ ChangedIn = {}
  BY DEF GoneIn, ChangedIn, KeptIn
<1> QED BY <1>1 DEF StepIsNamed

LEMMA StepsAreNamed == FInv /\ [Next]_vars => StepIsNamed
<1> SUFFICES ASSUME FInv, [Next]_vars PROVE StepIsNamed
  OBVIOUS
<1>g. GoodTree(tree)
  BY DEF FInv
<1>1. ASSUME NEW path \in ClientPath, MakesDir(path) PROVE StepIsNamed
  BY <1>1, <1>g, MakesDirAdds, OnlyAdds
<1>2. ASSUME NEW path \in ClientPath, Deletes(path) PROVE StepIsNamed
  <2>1. ASSUME NEW other \in ClientPath, Deletes(other)
        PROVE  /\ GoneIn = Below(NamedPlace(tree, other)) /\ DOMAIN tree' \subseteq DOMAIN tree
               /\ ChangedIn = {} /\ \A q \in GoneIn : Inside(q) /\ q # Workspace
    <3> DEFINE p == Victim(other)
    <3>1. /\ Inside(p) /\ p \in DOMAIN tree /\ p # Workspace
          /\ tree' = [q \in DOMAIN tree \ Below(p) |-> tree[q]]
      BY <2>1, DeletesVictim
    <3>2. p = NamedPlace(tree, other)
      BY <2>1, <1>g, VictimIsNamed
    <3> HIDE DEF p
    <3>3. /\ DOMAIN tree \ DOMAIN tree' = Below(p) /\ DOMAIN tree' \subseteq DOMAIN tree
          /\ \A q \in DOMAIN tree' : tree'[q] = tree[q]
          /\ \A q \in Below(p) : Inside(q) /\ q # Workspace
      BY <3>1, <1>g, DeletingKeeps
    <3> QED BY <3>2, <3>3 DEF GoneIn, ChangedIn, KeptIn
  <2>2. /\ DOMAIN tree' \subseteq DOMAIN tree /\ ChangedIn = {}
        /\ \A q \in GoneIn : Inside(q) /\ q # Workspace
    BY <1>2, <2>1
  <2> QED BY <1>2, <2>1, <2>2 DEF StepIsNamed
<1>3. ASSUME NEW u \in Upload, Saves(u) PROVE StepIsNamed
  <2> DEFINE p == Resolve(tree, uploads[u].dest)
  <2>1. /\ Inside(p) /\ p # Workspace
        /\ p \in DOMAIN tree => tree[p].is = "file"
        /\ DOMAIN tree \subseteq DOMAIN tree'
        /\ \A q \in DOMAIN tree : q # p => tree'[q] = tree[q]
        /\ \A q \in DOMAIN tree' \ DOMAIN tree : Inside(q) /\ q # Workspace
    BY <1>3, SavesAt
  <2> HIDE DEF p
  <2>2. GoneIn = {} /\ KeptIn = DOMAIN tree
    BY <2>1 DEF GoneIn, KeptIn
  <2>3. ChangedIn \subseteq {p} /\ ChangedIn \subseteq DOMAIN tree
    BY <2>1, <2>2 DEF ChangedIn
  <2>4. ChangedIn # {} => ChangedIn = {p} /\ p \in KeptIn /\ tree[p].is = "file"
    BY <2>1, <2>2, <2>3
  <2>5. \A q \in GoneIn \cup ChangedIn \cup (DOMAIN tree' \ DOMAIN tree) :
          Inside(q) /\ q # Workspace
    BY <2>1, <2>2, <2>3
  <2> QED BY <1>3, <2>2, <2>4, <2>5 DEF StepIsNamed
<1>4. ASSUME NEW p \in LinkAt, NEW to \in LinkTo, AgentLinks(p, to) PROVE StepIsNamed
  BY <1>4, <1>g, AddsNode, OnlyAdds
<1>5. CASE UNCHANGED tree
  BY <1>5, OnlyAdds
<1> QED BY <1>1, <1>2, <1>3, <1>4, <1>5
        DEF Next, Serves, Asks, Progress, Agent, Begins, Fails, vars, fileVars

\* Whatever links there are, a request changes nothing outside the workspace, a deletion
\* removes what its path names, and an upload changes one file at most.
THEOREM OnlyTheNamedChanges == Spec => ChangesOnlyTheNamed
<1>1. FInv /\ [Next]_vars => StepIsNamed
  BY StepsAreNamed
<1>2. StepIsNamed =>
        LET gone    == DOMAIN tree \ DOMAIN tree'
            kept    == DOMAIN tree \cap DOMAIN tree'
            changed == {q \in kept : tree'[q] # tree[q]}
        IN /\ \A q \in gone \cup changed \cup (DOMAIN tree' \ DOMAIN tree) :
                 Inside(q) /\ q # Workspace
           /\ gone # {} =>
                 /\ changed = {} /\ \E path \in ClientPath : Deletes(path)
                 /\ \A path \in ClientPath :
                       Deletes(path) => gone = Below(NamedPlace(tree, path))
           /\ changed # {} =>
                 /\ \E u \in Upload : Saves(u)
                 /\ \E q \in kept : changed = {q} /\ tree[q].is = "file"
  BY DEF StepIsNamed, GoneIn, KeptIn, ChangedIn
<1> QED BY <1>1, <1>2, TreesStayGood, PTL DEF Spec, ChangesOnlyTheNamed

----------------------------------------------------------------------------
\* gh #75, #81: storing a file turns no link, so its path leads there afterwards.
LEMMA StoredIsRead ==
    ASSUME FInv, NEW u \in Upload, Saves(u)
    PROVE  /\ Reads(tree', uploads[u].asked)
           /\ ReadOf(tree', uploads[u].asked) = uploads[u].data
<1> DEFINE dest == uploads[u].dest  p == Resolve(tree, dest)  d == uploads[u].data
<1>1. /\ p \in Seq(Part) /\ Inside(p) /\ ~Is(tree, p, "link")
      /\ dest \in Seq(Part) /\ uploads[u].asked = dest
      /\ DOMAIN tree \subseteq DOMAIN tree'
      /\ p \in DOMAIN tree' /\ tree'[p] = File(d)
      /\ \A q \in DOMAIN tree : q # p => tree'[q] = tree[q]
      /\ \A q \in DOMAIN tree' \ DOMAIN tree : q # p => tree'[q] = Dir
  BY SavesAt
<1> HIDE DEF dest, p, d
<1>2. Dir.is # "link" /\ File(d).is = "file" /\ File(d).data = d
  BY DEF Dir, File
<1>3. \A q : /\ Is(tree, q, "link") <=> Is(tree', q, "link")
             /\ Is(tree, q, "link") => tree[q].to = tree'[q].to
  BY <1>1, <1>2 DEF Is
<1>4. Resolve(tree', dest) = p
  BY <1>3, SameLinks DEF Resolve, p
<1>5. Is(tree', p, "file")
  BY <1>1, <1>2 DEF Is
<1> QED BY <1>1, <1>2, <1>4, <1>5 DEF Reads, ReadOf, d

\* What an accepted upload stored is what a read of its path returns, whatever became of the
\* path while the body was read.
THEOREM UploadsAreReadBack == Spec => UploadRoundTrips
<1>1. FInv /\ [Next]_vars =>
        [\A u \in Upload : Saves(u) =>
            /\ Reads(tree', uploads[u].asked)
            /\ ReadOf(tree', uploads[u].asked) = uploads[u].data]_vars
  BY StoredIsRead
<1> QED BY <1>1, TreesStayGood, PTL DEF Spec, UploadRoundTrips

----------------------------------------------------------------------------
\* Listing.

Deeper(t, dirs) == UNION {Entries(t, d) : d \in {e \in dirs : Is(t, Real(t, e), "dir")}}

\* Levels is the function its recursive definition describes.
LEMMA LevelsSteps ==
    ASSUME NEW t, NEW path, NEW depth \in Nat
    PROVE  /\ Levels(t, path, depth)[0] = {Resolve(t, path)}
           /\ \A k \in 1..depth :
                 Levels(t, path, depth)[k] = Deeper(t, Levels(t, path, depth)[k - 1])
<1> DEFINE l0 == {Resolve(t, path)}
<1> HIDE DEF l0
<1> DEFINE E(g, k) == g = [n \in 0..k |-> IF n = 0 THEN l0 ELSE Deeper(t, g[n - 1])]
           S == {k \in 0..depth : \E g : E(g, k)}
<1>1. 0 \in S
  <2>1. E([n \in 0..0 |-> l0], 0)
    OBVIOUS
  <2> HIDE DEF E
  <2>2. \E g : E(g, 0)
    BY ONLY <2>1, Zenon
  <2> QED BY <2>2
<1>2. ASSUME NEW k \in 1..depth, k - 1 \in S PROVE k \in S
  <2>1. PICK g0 : E(g0, k - 1)
    BY <1>2
  <2> DEFINE h == [n \in 0..k |-> IF n = k THEN Deeper(t, g0[k - 1]) ELSE g0[n]]
  <2>2. \A n \in 0..k : h[n] = IF n = 0 THEN l0 ELSE Deeper(t, h[n - 1])
    <3> SUFFICES ASSUME NEW n \in 0..k
                 PROVE  h[n] = IF n = 0 THEN l0 ELSE Deeper(t, h[n - 1])
      OBVIOUS
    <3>1. CASE n = k
      BY <3>1
    <3>2. CASE n # k
      <4>1. n \in 0..(k - 1) /\ h[n] = g0[n]
        BY <3>2
      <4>2. n # 0 => h[n - 1] = g0[n - 1]
        BY <4>1
      <4>3. g0[n] = IF n = 0 THEN l0 ELSE Deeper(t, g0[n - 1])
        BY <2>1, <4>1
      <4> QED BY <4>1, <4>2, <4>3
    <3> QED BY <3>1, <3>2
  <2>3. E(h, k)
    BY <2>2
  <2> HIDE DEF E, h
  <2>4. \E g : E(g, k)
    BY ONLY <2>3, Zenon
  <2> QED BY <2>4
<1> HIDE DEF S
<1>3. depth \in S
  <2>1. \A k \in 0..depth : k \in S
    BY <1>1, <1>2, UpTo, Zenon
  <2> QED BY <2>1
<1>4. \E g : E(g, depth)
  BY <1>3 DEF S
<1>5. E(Levels(t, path, depth), depth)
  BY <1>4 DEF Levels, Deeper, l0
<1>6. /\ Levels(t, path, depth)[0] = l0
      /\ \A k \in 1..depth : Levels(t, path, depth)[k] = Deeper(t, Levels(t, path, depth)[k - 1])
  <2> DEFINE f == Levels(t, path, depth)
  <2> HIDE DEF f
  <2>1. f = [n \in 0..depth |-> IF n = 0 THEN l0 ELSE Deeper(t, f[n - 1])]
    BY <1>5 DEF f
  <2>2. f[0] = l0 /\ \A k \in 1..depth : f[k] = Deeper(t, f[k - 1])
    BY ONLY <2>1, depth \in Nat
  <2> QED BY <2>2 DEF f
<1> QED BY <1>6, Zenon DEF l0

\* The path shown with an entry leads where the entry does.
LEMMA ShownPath ==
    ASSUME NEW t, NEW e \in Seq(Part), Inside(e)
    PROVE  Resolve(t, Tail(e)) = Real(t, e)
<1>1. Len(e) > 0 /\ e[1] = "workspace"
  BY InsideMeans
<1>2. <<e[1]>> \o Tail(e) = e
  BY <1>1
<1> QED BY <1>1, <1>2 DEF Resolve, Workspace

LEMMA NamesAreParts == \A n \in Name : n \in Part \ {".."}
BY FileAssumption DEF Part, Plain

\* An entry is a name in its directory, contained.
LEMMA EntriesInside ==
    ASSUME NEW t, NEW d \in Seq(Part), Inside(d), NEW e \in Entries(t, d)
    PROVE  e \in Seq(Part) /\ Inside(e) /\ Contained(t, e)
<1>1. PICK n \in Name : e = Append(d, n) /\ Contained(t, e)
  BY DEF Entries
<1>2. n \in Part
  BY NamesAreParts
<1>3. Len(d) > 0 /\ d[1] = "workspace"
  BY InsideMeans
<1>4. e \in Seq(Part) /\ Len(e) > 0 /\ e[1] = "workspace"
  BY <1>1, <1>2, <1>3
<1> QED BY <1>1, <1>4, InsideMeans

\* What is there can be opened, if it is contained.
LEMMA ContainedOpens ==
    ASSUME NEW t, GoodTree(t), NEW e \in Seq(Part), Inside(e), Contained(t, e),
           Real(t, e) \in DOMAIN t
    PROVE  Reads(t, Tail(e)) \/ Lists(t, Tail(e))
<1> DEFINE r == Real(t, e)
<1>1. r \in Seq(Plain) /\ NoLinks(t, r)
  BY RealIsPlain
<1>2. Inside(r) /\ r \in DOMAIN t /\ Resolve(t, Tail(e)) = r
  BY ShownPath DEF Contained
<1> HIDE DEF r
<1>3. SubSeq(r, 1, Len(r)) = r /\ Len(r) \in 0..Len(r)
  BY <1>1
<1>4. t[r].is # "link" /\ t[r] \in Node
  BY <1>1, <1>2, <1>3 DEF NoLinks, Is, GoodTree
<1>5. \A q \in Seq(Part) : t[r] # Link(q)
  BY <1>4 DEF Link
<1>6. t[r].is \in {"file", "dir"}
  BY <1>4, <1>5 DEF Node, File, Dir
<1> QED BY <1>2, <1>6 DEF Reads, Lists, Is

\* What can be opened is there, and contained.
LEMMA OpensContained ==
    ASSUME NEW t, NEW e \in Seq(Part), Inside(e), Reads(t, Tail(e)) \/ Lists(t, Tail(e))
    PROVE  Contained(t, e) /\ Real(t, e) \in DOMAIN t
BY ShownPath DEF Reads, Lists, Contained, Is

\* A name in a resolved directory that can be opened is an entry of it, if not skipped.
LEMMA OpensIsEntry ==
    ASSUME NEW t, GoodTree(t), NEW d \in Seq(Plain), NoLinks(t, d), Inside(d),
           NEW n \in Name, Reads(t, Tail(Append(d, n))) \/ Lists(t, Tail(Append(d, n))),
           ~(n \in Skipped /\ Lists(t, Tail(Append(d, n))))
    PROVE  Append(d, n) \in Entries(t, d) /\ Real(t, d) = d
<1> DEFINE e == Append(d, n)  r == Real(t, d)
<1>1. d \in Seq(Part) /\ n \in Part \ {".."}
  BY NamesAreParts DEF Part
<1>2. e \in Seq(Part) /\ Inside(e)
  <2>1. Len(d) > 0 /\ d[1] = "workspace"
    BY <1>1, InsideMeans
  <2>2. e \in Seq(Part) /\ Len(e) > 0 /\ e[1] = "workspace"
    BY <1>1, <2>1
  <2> HIDE DEF e
  <2> QED BY <2>2, InsideMeans
<1>3. Contained(t, e) /\ Real(t, e) \in DOMAIN t
  BY <1>2, OpensContained
<1>4. r \in Seq(Part)
  <2>1. r \in Seq(Plain)
    BY <1>1, RealIsPlain
  <2> HIDE DEF r
  <2> QED BY <2>1 DEF Part
<1>5. Real(t, e) \in {Lost, Append(r, n)} \/ Is(t, Append(r, n), "link")
  BY <1>1, OneNameOn
<1>6. LeadsBack(t, d)
  BY ResolvedStays
<1>7. Real(t, e) \in Seq(Part) /\ Inside(Real(t, e))
  <2>1. Real(t, e) \in Seq(Plain)
    BY <1>2, RealIsPlain
  <2> HIDE DEF e
  <2> QED BY <1>3, <2>1 DEF Part, Contained
<1>8. r = d
  <2> SUFFICES ASSUME r # <<>>, r[1] = "loop" PROVE FALSE
    BY <1>6 DEF LeadsBack
  <2>1. Append(r, n) \in Seq(Part) /\ Append(r, n)[1] = "loop"
    BY <1>1, <1>4
  <2>2. ~Inside(Append(r, n)) /\ ~Is(t, Append(r, n), "link")
    BY <2>1, InsideMeans, LinkLeads
  <2>3. Lost \in Seq(Part) /\ Lost[1] = "loop"
    BY DEF Lost, Part, Plain
  <2>4. ~Inside(Lost)
    BY <2>3, InsideMeans
  <2> QED BY <1>5, <1>7, <2>2, <2>4
<1>9. Append(r, n) \in DOMAIN t
  <2>1. Real(t, e) = Lost \/ Real(t, e) = Append(r, n) \/ Is(t, Append(r, n), "link")
    BY <1>5
  <2>2. Real(t, e) # Lost
    <3>1. Lost \in Seq(Part) /\ Lost[1] = "loop"
      BY DEF Lost, Part, Plain
    <3>2. ~Inside(Lost)
      BY <3>1, InsideMeans
    <3> QED BY <1>7, <3>2
  <2> HIDE DEF e, r
  <2> QED BY <1>3, <2>1, <2>2, LinkLeads
<1>10. ~(n \in Skipped /\ Is(t, Real(t, e), "dir"))
  <2>1. Resolve(t, Tail(e)) = Real(t, e)
    BY <1>2, ShownPath
  <2>2. Inside(Real(t, e))
    BY <1>7
  <2> QED BY <2>1, <2>2 DEF Lists
<1> QED BY <1>3, <1>8, <1>9, <1>10 DEF Entries

LEMMA ListingShows == GoodTree(tree) => ListingAgrees
<1> SUFFICES ASSUME GoodTree(tree),
                    NEW top \in {<<>>} \cup {p \in ClientPath : Lists(tree, p)}
             PROVE  /\ \A e \in Listing(tree, top, 2) : Real(tree, e) \in DOMAIN tree =>
                          Reads(tree, Tail(e)) \/ Lists(tree, Tail(e))
                    /\ \A n \in Name :
                          LET e == Append(Resolve(tree, top), n)
                          IN /\ Reads(tree, Tail(e)) \/ Lists(tree, Tail(e))
                             /\ ~(n \in Skipped /\ Lists(tree, Tail(e)))
                             => e \in Listing(tree, top, 2)
  BY Zenon DEF ListingAgrees
<1> DEFINE d == Resolve(tree, top)  level == Levels(tree, top, 2)
<1>1. d \in Seq(Plain) /\ d \in Seq(Part) /\ NoLinks(tree, d)
  <2>1. top \in Seq(Part)
    <3>1. <<>> \in Seq(Part)
      OBVIOUS
    <3> QED BY <3>1, InputsAreParts
  <2> QED BY <2>1, ResolvedPlain
<1>2. Inside(d) /\ Is(tree, d, "dir")
  <2>1. CASE top = <<>>
    <3>1. d = Workspace
      BY <2>1, WorkspaceIsThere
    <3>2. Workspace \in Seq(Part) /\ Len(Workspace) > 0 /\ Workspace[1] = "workspace"
      BY DEF Workspace, Part, Plain
    <3>3. Inside(Workspace)
      BY <3>2, InsideMeans
    <3>4. Is(tree, Workspace, "dir")
      BY DEF GoodTree, Is, Dir
    <3> QED BY <3>1, <3>3, <3>4
  <2>2. CASE Lists(tree, top)
    BY <2>2 DEF Lists
  <2> QED BY <2>1, <2>2
<1>3. level[0] = {d} /\ level[1] = Deeper(tree, level[0]) /\ level[2] = Deeper(tree, level[1])
  <2>1. /\ level[0] = {d}
        /\ \A k \in 1..2 : level[k] = Deeper(tree, level[k - 1])
    BY LevelsSteps
  <2>2. level[1] = Deeper(tree, level[1 - 1]) /\ level[2] = Deeper(tree, level[2 - 1])
    BY <2>1
  <2> QED BY <2>1, <2>2
<1>4. Listing(tree, top, 2) = level[1] \cup level[2]
  <2>1. {level[k] : k \in 1..2} = {level[1], level[2]}
    OBVIOUS
  <2> QED BY <2>1 DEF Listing
<1> HIDE DEF level, d
<1>5. ASSUME NEW dirs, \A q \in dirs : q \in Seq(Part) /\ Inside(q)
      PROVE  \A e \in Deeper(tree, dirs) : e \in Seq(Part) /\ Inside(e) /\ Contained(tree, e)
  BY <1>5, EntriesInside DEF Deeper
<1>6. \A e \in level[1] : e \in Seq(Part) /\ Inside(e) /\ Contained(tree, e)
  BY <1>1, <1>2, <1>3, <1>5
<1>7. \A e \in level[2] : e \in Seq(Part) /\ Inside(e) /\ Contained(tree, e)
  BY <1>3, <1>5, <1>6
<1>8. \A e \in Listing(tree, top, 2) : Real(tree, e) \in DOMAIN tree =>
         Reads(tree, Tail(e)) \/ Lists(tree, Tail(e))
  BY <1>4, <1>6, <1>7, ContainedOpens
<1>9. ASSUME NEW n \in Name,
             Reads(tree, Tail(Append(d, n))) \/ Lists(tree, Tail(Append(d, n))),
             ~(n \in Skipped /\ Lists(tree, Tail(Append(d, n))))
      PROVE  Append(d, n) \in Listing(tree, top, 2)
  <2>1. Append(d, n) \in Entries(tree, d) /\ Real(tree, d) = d
    BY <1>1, <1>2, <1>9, OpensIsEntry
  <2>2. Append(d, n) \in Deeper(tree, {d})
    BY <1>2, <2>1 DEF Deeper
  <2> QED BY <1>3, <1>4, <2>2
<1> QED BY <1>8, <1>9 DEF d

\* gh #148: the panel shows what can be opened, and all of it.
THEOREM ListingsAgree == Spec => []ListingAgrees
<1>1. FInv => ListingAgrees
  BY ListingShows DEF FInv
<1> QED BY <1>1, TreesStayGood, PTL
=============================================================================

-------------------------- MODULE VirtualFSProofs --------------------------
(***************************************************************************)
(* For any names, depth, sessions, requests and number of operations: the  *)
(* trees keep their shape, and the requests of one session share one file  *)
(* system.                                                                 *)
(***************************************************************************)
EXTENDS VirtualFS, SequenceTheorems, WellFoundedInduction, TLAPS

\* Every variable has its type; a file system not made yet is empty; a request holds a
\* file system only during its operations.
Typed ==
    /\ dirs \in [Fs -> SUBSET Path] /\ files \in [Fs -> SUBSET Path]
    /\ made \in 0..MaxFs /\ session \in [Entry -> 1..made \cup {None}] /\ ended \subseteq 1..made
    /\ manager \in Request \cup {None}
    /\ pc \in [Request -> {"idle", "first", "again", "ready",
                            "known", "new", "made", "named", "holding"}]
    /\ via \in [Request -> Request \cup {None}] /\ who \in [Request -> Session \cup {None}]
    /\ held \in [Request -> 1..made \cup {None}]

Placed == \A r \in Request : (pc[r] = "again" => manager # None)
                             /\ (pc[r] = "ready" => via[r] # None)
                             /\ (pc[r] \in Inside => Mine(r) \in Entry)

Unborn == \A f \in Fs : f > made => All(f) = {}
Holding == \A r \in Request : pc[r] = "holding" <=> held[r] # None

\* No file system is in the tables twice, and none comes back.
Once == /\ \A d, e \in Entry : session[d] # None /\ session[d] = session[e] => d = e
        /\ \A e \in Entry : session[e] \notin ended

\* What a request holds is still in the table it was taken from, unless it ended.
Held == \A r \in Request : held[r] # None /\ held[r] \notin ended => session[Mine(r)] = held[r]

VInv == Typed /\ Placed /\ Unborn /\ Holding /\ TreeShaped /\ Once /\ Held /\ NotSharedOtherwise

----------------------------------------------------------------------------
\* Paths.

LEMMA ParentPath == ASSUME NEW p \in Path PROVE Parent(p) \in Seq(Name)
BY SubSeqProperties DEF Path, Parent

\* The parent of a beginning of p is a beginning of p.
LEMMA ParentOfBeginning ==
    ASSUME NEW p \in Path, NEW n \in 1..Len(p), n > 1
    PROVE  /\ Len(SubSeq(p, 1, n)) = n
           /\ Parent(SubSeq(p, 1, n)) = SubSeq(p, 1, n - 1)
<1> DEFINE q == SubSeq(p, 1, n)
<1>1. q \in Seq(Name) /\ Len(q) = n /\ \A i \in 1..n : q[i] = p[i]
  BY SubSeqProperties DEF Path
<1>2. q # <<>>
  BY <1>1
<1>3. SubSeq(q, 1, n - 1) = SubSeq(p, 1, n - 1)
  <2>1. /\ SubSeq(q, 1, n - 1) \in Seq(Name) /\ SubSeq(p, 1, n - 1) \in Seq(Name)
        /\ Len(SubSeq(q, 1, n - 1)) = n - 1 /\ Len(SubSeq(p, 1, n - 1)) = n - 1
        /\ \A i \in 1..(n - 1) : SubSeq(q, 1, n - 1)[i] = SubSeq(p, 1, n - 1)[i]
    BY <1>1, SubSeqProperties DEF Path
  <2> QED BY <2>1, SeqEqual
<1> QED BY <1>1, <1>2, <1>3 DEF Parent

LEMMA ChainPath == ASSUME NEW p \in Path PROVE Chain(p) \in SUBSET Path
<1>1. ASSUME NEW n \in 1..Len(p) PROVE SubSeq(p, 1, n) \in Path
  <2>1. SubSeq(p, 1, n) \in Seq(Name) /\ Len(SubSeq(p, 1, n)) = n
    BY SubSeqProperties DEF Path
  <2>2. Len(p) \in Nat /\ Len(p) <= Depth
    BY DEF Path
  <2> QED BY <2>1, <2>2, VfsAssumption DEF Path
<1> QED BY <1>1 DEF Chain

LEMMA ChainShaped ==
    ASSUME NEW p \in Path, NEW q \in Chain(p), Len(q) > 1
    PROVE  Parent(q) \in Chain(p)
<1>1. CASE p = <<>>
  BY <1>1 DEF Chain
<1>2. CASE p # <<>>
  <2>1. PICK n \in 1..Len(p) : q = SubSeq(p, 1, n)
    BY <1>2 DEF Chain
  <2>2. Len(q) = n
    BY <2>1, SubSeqProperties DEF Path
  <2>3. Parent(q) = SubSeq(p, 1, n - 1) /\ n - 1 \in 1..Len(p)
    BY <2>1, <2>2, ParentOfBeginning DEF Path
  <2> QED BY <1>2, <2>3 DEF Chain
<1> QED BY <1>1, <1>2

\* What has the parent p is below p.
LEMMA ChildIsBelow ==
    ASSUME NEW q \in Path, Len(q) > 1
    PROVE  Parent(q) # <<>> /\ Below(Parent(q), q)
<1>1. Len(SubSeq(q, 1, Len(q) - 1)) = Len(q) - 1
  BY SubSeqProperties DEF Path
<1>2. q # <<>> /\ Len(q) \in Nat
  BY DEF Path
<1>3. Parent(q) = SubSeq(q, 1, Len(q) - 1) /\ Len(Parent(q)) = Len(q) - 1
  BY <1>1, <1>2 DEF Parent
<1>4. Parent(q) # <<>>
  <2>1. Len(Parent(q)) > 0
    BY <1>2, <1>3
  <2> QED BY <2>1, ParentPath, EmptySeq
<1>5. SubSeq(q, 1, Len(Parent(q))) = Parent(q)
  BY <1>3
<1> QED BY <1>2, <1>3, <1>4, <1>5 DEF Below

----------------------------------------------------------------------------
\* The operations of a file system.

LEMMA OperationsKeepTheTree ==
    ASSUME Typed, TreeShaped, NEW f \in Fs, NEW p \in Path,
           \/ \E parents \in BOOLEAN : Mkdir(f, p, parents)
           \/ Write(f, p) \/ Unlink(f, p) \/ Rmdir(f, p)
    PROVE  /\ dirs' \in [Fs -> SUBSET Path] /\ files' \in [Fs -> SUBSET Path]
           /\ \A g \in Fs \ {f} : dirs'[g] = dirs[g] /\ files'[g] = files[g]
           /\ TreeShaped'
<1> USE DEF Typed
<1>1. ASSUME NEW parents \in BOOLEAN, Mkdir(f, p, parents)
      PROVE  /\ dirs' \in [Fs -> SUBSET Path] /\ files' = files
             /\ \A g \in Fs \ {f} : dirs'[g] = dirs[g]
             /\ TreeShaped'
  <2> DEFINE new == IF Parent(p) \in dirs[f] THEN {p} ELSE Chain(p)
  <2>1. new \in SUBSET Path
    BY ChainPath
  <2>2. dirs' = [dirs EXCEPT ![f] = dirs[f] \cup new] /\ files' = files
    BY <1>1 DEF Mkdir
  <2>3. ASSUME NEW q \in new, Len(q) > 1 PROVE Parent(q) \in dirs[f] \cup new
    BY <2>3, ChainShaped
  <2> HIDE DEF new
  <2>4. ASSUME NEW g \in Fs, NEW q \in dirs'[g] \cup files'[g], Len(q) > 1
        PROVE  Parent(q) \in dirs'[g]
    BY <2>1, <2>2, <2>3, <2>4 DEF TreeShaped, All
  <2> QED BY <2>1, <2>2, <2>4 DEF TreeShaped, All
<1>2. CASE Write(f, p)
  <2>1. files' \in [Fs -> SUBSET Path] /\ dirs' = dirs
    BY <1>2 DEF Write
  <2>2. ASSUME NEW g \in Fs, NEW q \in dirs'[g] \cup files'[g], Len(q) > 1
        PROVE  Parent(q) \in dirs'[g]
    BY <1>2, <2>1, <2>2 DEF TreeShaped, All, Write
  <2> QED BY <1>2, <2>1, <2>2 DEF TreeShaped, All, Write
<1>3. CASE Unlink(f, p)
  BY <1>3 DEF TreeShaped, All, Unlink
<1>4. CASE Rmdir(f, p)
  <2>1. dirs' = [dirs EXCEPT ![f] = dirs[f] \ {p}] /\ files' = files
    BY <1>4 DEF Rmdir
  <2>2. ASSUME NEW q \in dirs[f] \cup files[f], Len(q) > 1 PROVE Parent(q) # p
    BY <1>4, <2>2, ChildIsBelow DEF Rmdir, Empty, All
  <2>3. ASSUME NEW g \in Fs, NEW q \in dirs'[g] \cup files'[g], Len(q) > 1
        PROVE  Parent(q) \in dirs'[g]
    BY <2>1, <2>2, <2>3 DEF TreeShaped, All
  <2> QED BY <2>1, <2>3 DEF TreeShaped, All
<1> QED BY <1>1, <1>2, <1>3, <1>4

----------------------------------------------------------------------------
\* The table.

LEMMA VInvInit == Init => VInv
<1> SUFFICES ASSUME Init PROVE VInv
  OBVIOUS
<1> USE VfsAssumption DEF Init
<1>1. Typed /\ Placed /\ Holding
  BY DEF Typed, Placed, Holding, Inside
<1>2. Unborn /\ TreeShaped
  BY DEF Unborn, TreeShaped, All
<1>3. Once /\ Held /\ NotSharedOtherwise
  BY DEF Once, Held, NotSharedOtherwise
<1> QED BY <1>1, <1>2, <1>3 DEF VInv

\* A request that holds nothing goes on to another place where it holds nothing.
LEMMA Walking ==
    ASSUME VInv, NEW r \in Request, NEW p \in {"idle", "first", "again", "ready",
                                               "known", "new", "made", "named"},
           NEW m \in Request \cup {None}, NEW s \in Session \cup {None},
           pc[r] # "holding", pc' = [pc EXCEPT ![r] = p],
           via' = [via EXCEPT ![r] = m], who' = [who EXCEPT ![r] = s],
           manager' \in Request \cup {None}, manager # None => manager' # None,
           p = "again" => manager' # None, p = "ready" => m # None,
           p \in Inside => m # None /\ s # None,
           UNCHANGED <<trees, made, session, held, ended>>
    PROVE  VInv'
<1> USE DEF VInv
<1>0. VfsAssumption
  BY VfsAssumption
<1>1. held[r] = None /\ r \in Request
  BY DEF Holding
<1>2. Typed'
  <2>1. pc' \in [Request -> {"idle", "first", "again", "ready",
                             "known", "new", "made", "named", "holding"}]
    BY DEF Typed
  <2>2. via' \in [Request -> Request \cup {None}] /\ who' \in [Request -> Session \cup {None}]
    BY DEF Typed
  <2> QED BY ONLY Typed, <2>1, <2>2, manager' \in Request \cup {None},
              UNCHANGED <<trees, made, session, held, ended>> DEF Typed, trees
<1>3. \A q \in Request : q # r => pc'[q] = pc[q] /\ Mine(q)' = Mine(q) /\ via'[q] = via[q] /\ who'[q] = who[q]
  BY DEF Typed, Mine
<1>4. pc'[r] = p /\ via'[r] = m /\ who'[r] = s /\ Mine(r)' = <<m, s>>
  BY DEF Typed, Mine
<1>5. Placed'
  <2>1. ASSUME NEW q \in Request, q # r
        PROVE  (pc'[q] = "again" => manager' # None) /\ (pc'[q] = "ready" => via'[q] # None)
               /\ (pc'[q] \in Inside => Mine(q)' \in Entry)
    BY <1>3, <2>1 DEF Placed
  <2>2. p \in Inside => <<m, s>> \in Entry
    BY DEF Entry
  <2> QED BY ONLY <1>4, <2>1, <2>2, p = "again" => manager' # None, p = "ready" => m # None
          DEF Placed, Entry
<1>6. Holding' /\ Held' /\ NotSharedOtherwise'
  <2>1. Holding'
    BY <1>1, <1>3, <1>4 DEF Holding
  <2>2. Held'
    <3> SUFFICES ASSUME NEW q \in Request, held[q] # None, held[q] \notin ended
                 PROVE  session[Mine(q)'] = held[q]
      BY DEF Held
    <3>1. q # r
      BY <1>1
    <3> QED BY <1>3, <3>1 DEF Held
  <2>3. NotSharedOtherwise'
    BY <1>1, <1>3 DEF NotSharedOtherwise
  <2> QED BY <2>1, <2>2, <2>3
<1>7. Unborn' /\ TreeShaped' /\ Once'
  BY DEF Unborn, TreeShaped, Once, All, trees
<1> QED BY <1>2, <1>5, <1>6, <1>7

\* The same, with its manager and its session.
LEMMA Waiting ==
    ASSUME VInv, NEW r \in Request, NEW p \in {"again", "made", "named"},
           pc[r] # "holding", pc' = [pc EXCEPT ![r] = p],
           p # "again" => pc[r] \in Inside, p = "again" => manager' # None,
           manager' \in Request \cup {None}, manager # None => manager' # None,
           UNCHANGED <<trees, made, session, via, who, held, ended>>
    PROVE  VInv'
<1> DEFINE m == via[r]
           s == who[r]
<1>1. via \in [Request -> Request \cup {None}] /\ who \in [Request -> Session \cup {None}]
  BY DEF VInv, Typed
<1>2. m \in Request \cup {None} /\ s \in Session \cup {None}
  BY <1>1
<1>3. via' = [via EXCEPT ![r] = m] /\ who' = [who EXCEPT ![r] = s]
  BY <1>1
<1>4. p \in Inside => m # None /\ s # None
  <2> SUFFICES ASSUME p \in Inside PROVE m # None /\ s # None
    OBVIOUS
  <2>1. pc[r] \in Inside
    BY DEF Inside
  <2>2. Mine(r) \in Entry
    BY <2>1 DEF VInv, Placed
  <2> QED BY <2>2, VfsAssumption DEF Mine, Entry
<1>5. p \in {"idle", "first", "again", "ready", "known", "new", "made", "named"} /\ p # "ready"
  OBVIOUS
<1>6. /\ UNCHANGED <<trees, made, session, held, ended>>
      /\ p = "again" => manager' # None
      /\ manager # None => manager' # None
      /\ p = "ready" => m # None
  BY <1>5
<1> HIDE DEF m, s
<1> QED BY ONLY VInv, r \in Request, pc[r] # "holding", pc' = [pc EXCEPT ![r] = p],
            manager' \in Request \cup {None}, <1>2, <1>3, <1>4, <1>5, <1>6, Walking

\* The steps of the table that take nobody's place: some entries go, and are ended.
LEMMA Leaving ==
    ASSUME VInv, NEW E \in SUBSET Entry, UNCHANGED <<trees, made, manager, via, who, held>>,
           session' = [e \in Entry |-> IF e \in E THEN None ELSE session[e]],
           ended' = Ended(E),
           pc' \in [Request -> {"idle", "first", "again", "ready",
                                "known", "new", "made", "named", "holding"}],
           \A q \in Request : pc'[q] = pc[q] \/ (pc'[q] = "named" /\ pc[q] = "made")
    PROVE  VInv'
<1> USE DEF VInv
<1>1. session' \in [Entry -> 1..made \cup {None}] /\ ended' \subseteq 1..made
  <2>1. \A e \in Entry : session[e] \in 1..made \cup {None}
    BY DEF Typed
  <2>2. session' \in [Entry -> 1..made \cup {None}]
    BY <2>1
  <2>3. {session[e] : e \in E} \ {None} \subseteq 1..made /\ ended \subseteq 1..made
    BY <2>1 DEF Typed
  <2> QED BY <2>2, <2>3 DEF Ended
<1>2. Typed'
  BY ONLY Typed, <1>1, UNCHANGED <<trees, made, manager, via, who, held>>,
          pc' \in [Request -> {"idle", "first", "again", "ready",
                                "known", "new", "made", "named", "holding"}] DEF Typed, trees
<1>3. Placed' /\ Holding'
  BY DEF Placed, Holding, Mine, Inside
<1>4. \A e \in Entry : session'[e] = IF e \in E THEN None ELSE session[e]
  OBVIOUS
<1>5. ended \subseteq ended' /\ \A e \in E : session[e] # None => session[e] \in ended'
  BY DEF Ended
<1>6. Once'
  <2>1. \A d, e \in Entry : session'[d] # None /\ session'[d] = session'[e] => d = e
    BY <1>4 DEF Once
  <2>2. ASSUME NEW e \in Entry PROVE session'[e] \notin ended'
    <3>1. CASE session'[e] = None
      <4>1. None \notin 1..made
        BY VfsAssumption DEF Typed
      <4> QED BY <1>1, <3>1, <4>1
    <3>2. CASE session'[e] # None
      <4>1. e \notin E /\ session'[e] = session[e] /\ session[e] \notin ended
        BY <1>4, <3>2 DEF Once
      <4>2. \A d \in E : session[d] # session[e]
        BY <3>2, <4>1 DEF Once
      <4> QED BY <4>1, <4>2 DEF Ended
    <3> QED BY <3>1, <3>2
  <2> QED BY <2>1, <2>2 DEF Once
<1>7. Held'
  <2> SUFFICES ASSUME NEW q \in Request, held[q] # None, held[q] \notin ended'
               PROVE  session'[Mine(q)] = held[q]
    BY DEF Held, Mine
  <2>1. session[Mine(q)] = held[q] /\ Mine(q) \in Entry
    BY <1>5 DEF Held, Holding, Placed, Inside
  <2>2. Mine(q) \notin E
    BY <1>5, <2>1
  <2> QED BY <1>4, <2>1, <2>2
<1>8. NotSharedOtherwise' /\ Unborn' /\ TreeShaped'
  BY DEF NotSharedOtherwise, Unborn, TreeShaped, All, trees
<1> QED BY <1>2, <1>3, <1>6, <1>7, <1>8

\* A request takes the file system it was given by its entry, or lets it go.
LEMMA Taking ==
    ASSUME VInv, NEW r \in Request, pc[r] = "named", session[Mine(r)] # None,
           held' = [held EXCEPT ![r] = session[Mine(r)]], pc' = [pc EXCEPT ![r] = "holding"],
           UNCHANGED <<trees, made, manager, session, via, who, ended>>
    PROVE  VInv'
<1> DEFINE f == session[Mine(r)]
<1> USE DEF VInv
<1>1. Mine(r) \in Entry
  BY DEF Placed, Inside
<1>2. f \in 1..made /\ f # None
  BY <1>1 DEF Typed
<1>3. f \notin ended
  BY <1>1 DEF Once
<1> HIDE DEF f
<1>4. held'[r] = f /\ \A q \in Request : q # r => held'[q] = held[q]
  BY DEF Typed, f
<1>5. pc'[r] = "holding" /\ \A q \in Request : q # r => pc'[q] = pc[q]
  BY DEF Typed
<1>6. Typed'
  <2>1. held' \in [Request -> 1..made \cup {None}]
    BY <1>2 DEF Typed, f
  <2>2. pc' \in [Request -> {"idle", "first", "again", "ready",
                             "known", "new", "made", "named", "holding"}]
    BY DEF Typed
  <2> QED BY ONLY Typed, <2>1, <2>2, UNCHANGED <<trees, made, manager, session, via, who, ended>>
          DEF Typed, trees
<1>7. Placed' /\ Holding'
  BY <1>1, <1>2, <1>4, <1>5 DEF Placed, Holding, Mine, Inside
<1>8. Held'
  BY <1>4 DEF Held, Mine, f
<1>9. NotSharedOtherwise'
  <2>1. ASSUME NEW q \in Request, held[q] = f PROVE who[q] = who[r]
    <3>1. session[Mine(q)] = f /\ Mine(q) \in Entry
      BY <1>2, <1>3, <2>1 DEF Held, Holding, Placed, Inside
    <3>2. Mine(q) = Mine(r)
      BY <1>1, <1>2, <3>1 DEF Once, f
    <3> QED BY <3>2 DEF Mine
  <2> QED BY <1>4, <2>1 DEF NotSharedOtherwise
<1>10. Unborn' /\ TreeShaped' /\ Once'
  BY DEF Unborn, TreeShaped, Once, All, trees
<1> QED BY <1>6, <1>7, <1>8, <1>9, <1>10

LEMMA LettingGo == ASSUME VInv, NEW r \in Request, Done(r) PROVE VInv'
<1> USE DEF VInv
<1>1. /\ pc' = [pc EXCEPT ![r] = "idle"] /\ held' = [held EXCEPT ![r] = None]
      /\ via' = [via EXCEPT ![r] = None] /\ who' = [who EXCEPT ![r] = None]
      /\ UNCHANGED <<trees, made, manager, session, ended>>
  BY DEF Done, Leave, Goto, table
<1>2. /\ held'[r] = None /\ pc'[r] = "idle"
      /\ \A q \in Request : q # r => /\ held'[q] = held[q] /\ pc'[q] = pc[q]
                                     /\ via'[q] = via[q] /\ who'[q] = who[q]
  BY <1>1 DEF Typed
<1>3. Typed'
  <2>1. /\ pc' \in [Request -> {"idle", "first", "again", "ready",
                                "known", "new", "made", "named", "holding"}]
        /\ via' \in [Request -> Request \cup {None}] /\ who' \in [Request -> Session \cup {None}]
        /\ held' \in [Request -> 1..made \cup {None}]
    BY <1>1 DEF Typed
  <2> QED BY ONLY Typed, <2>1, <1>1 DEF Typed, trees
<1>4. Placed' /\ Holding'
  BY <1>1, <1>2 DEF Placed, Holding, Mine, Inside
<1>5. Held' /\ NotSharedOtherwise'
  BY <1>1, <1>2 DEF Held, NotSharedOtherwise, Mine
<1>6. Unborn' /\ TreeShaped' /\ Once'
  BY <1>1 DEF Unborn, TreeShaped, Once, All, trees
<1> QED BY <1>3, <1>4, <1>5, <1>6

LEMMA Creating == ASSUME VInv, NEW r \in Request, Create(r) PROVE VInv'
<1> USE DEF VInv
<1> DEFINE e == Mine(r)
<1>1. e \in Entry /\ pc[r] = "new" /\ r \in Request
  BY DEF Create, Placed, Inside
<1>2. /\ pc' = [pc EXCEPT ![r] = "made"] /\ UNCHANGED <<files, manager, via, who, held, ended>>
  BY DEF Create, Goto
<1>3. CASE session[e] # None
  <2>1. UNCHANGED <<made, session, dirs>>
    BY <1>3 DEF Create, Missing
  <2>2. UNCHANGED <<trees, made, session, via, who, held, ended>> /\ manager' = manager
    BY <1>2, <2>1 DEF trees
  <2>3. manager \in Request \cup {None} /\ pc[r] \in Inside /\ pc[r] # "holding"
    BY <1>1 DEF Typed, Inside
  <2> HIDE DEF VInv, e
  <2> QED BY <1>2, <2>2, <2>3, Waiting
<1>4. CASE session[e] = None
  <2> HIDE DEF e
  <2>1. /\ made < MaxFs /\ made' = made + 1
        /\ session' = [session EXCEPT ![e] = made + 1]
        /\ dirs' = [dirs EXCEPT ![made + 1] = {<<Root>>, <<Root, Canvas>>}]
    BY <1>4 DEF Create, Missing, Number, e
  <2>2. made \in Nat /\ made + 1 \in Fs /\ made + 1 > made /\ made + 1 # None /\ made \in 0..MaxFs
    BY <2>1, VfsAssumption DEF Typed, Fs
  <2>3. \A f \in Fs : f # made + 1 => All(f)' = All(f) /\ dirs'[f] = dirs[f]
    BY <1>2, <2>1 DEF All, Typed
  <2>4. dirs'[made + 1] = {<<Root>>, <<Root, Canvas>>} /\ files'[made + 1] = {}
    <3>1. All(made + 1) = {}
      BY <2>2 DEF Unborn
    <3> QED BY <1>2, <2>1, <2>2, <3>1 DEF All, Typed
  <2>5. /\ <<Root>> \in Path /\ <<Root, Canvas>> \in Path
        /\ Len(<<Root>>) = 1 /\ Parent(<<Root, Canvas>>) = <<Root>>
    <3>1. <<Root>> \in Path /\ Len(<<Root>>) = 1 /\ <<Root, Canvas>> \in Path
      BY VfsAssumption DEF Path
    <3> DEFINE q == <<Root, Canvas>>
    <3>3. q \in Seq(Name) /\ Len(q) = 2 /\ q # <<>> /\ q[1] = Root
      BY VfsAssumption
    <3>2. SubSeq(q, 1, 1) = <<Root>> /\ Len(q) = 2
      <4> HIDE DEF q
      <4>1. SubSeq(q, 1, 1) \in Seq(Name) /\ Len(SubSeq(q, 1, 1)) = 1 /\ SubSeq(q, 1, 1)[1] = q[1]
        BY <3>3, SubSeqProperties
      <4>2. <<Root>> \in Seq(Name) /\ Len(<<Root>>) = 1 /\ <<Root>>[1] = Root
        BY VfsAssumption
      <4>3. \A i \in 1..1 : SubSeq(q, 1, 1)[i] = <<Root>>[i]
        BY <3>3, <4>1, <4>2
      <4>4. SubSeq(q, 1, 1) = <<Root>>
        BY ONLY <4>1, <4>2, <4>3, SeqEqual
      <4> QED BY <3>3, <4>4
    <3> QED BY <3>1, <3>2, <3>3 DEF Parent
  <2>6. TreeShaped'
    <3>1. ASSUME NEW f \in Fs, NEW q \in All(f)', Len(q) > 1 PROVE Parent(q) \in dirs'[f]
      <4>1. CASE f = made + 1
        <5>1. q \in {<<Root>>, <<Root, Canvas>>}
          BY <2>4, <3>1, <4>1 DEF All
        <5>2. q = <<Root, Canvas>>
          BY ONLY <2>5, <3>1, <5>1
        <5> QED BY <2>4, <2>5, <4>1, <5>2
      <4>2. CASE f # made + 1
        <5>1. q \in All(f) /\ dirs'[f] = dirs[f]
          BY <2>3, <3>1, <4>2
        <5> QED BY <3>1, <5>1 DEF TreeShaped
      <4> QED BY <4>1, <4>2
    <3> QED BY <3>1 DEF TreeShaped
  <2>7. session'[e] = made + 1 /\ \A d \in Entry : d # e => session'[d] = session[d]
    BY <1>1, <2>1 DEF Typed
  <2>8. \A d \in Entry : session[d] # made + 1
    <3>1. \A d \in Entry : session[d] \in 1..made \cup {None}
      BY DEF Typed
    <3> QED BY <2>2, <3>1
  <2>9. Once'
    <3>1. made + 1 \notin ended
      BY <2>2 DEF Typed
    <3>2. \A d \in Entry : session'[d] \notin ended'
      BY <1>2, <2>7, <3>1 DEF Once
    <3>3. ASSUME NEW c \in Entry, NEW d \in Entry, session'[c] # None, session'[c] = session'[d]
          PROVE  c = d
      BY <2>7, <2>8, <3>3 DEF Once
    <3> QED BY <3>2, <3>3 DEF Once
  <2>10. Held' /\ NotSharedOtherwise'
    <3>1. ASSUME NEW q \in Request, held[q] # None, held[q] \notin ended
          PROVE  session'[Mine(q)] = held[q]
      <4>1. session[Mine(q)] = held[q] /\ Mine(q) \in Entry
        BY <3>1 DEF Held, Holding, Placed, Inside
      <4>2. Mine(q) # e
        BY <1>4, <3>1, <4>1
      <4> QED BY <2>7, <4>1, <4>2
    <3> QED BY <1>2, <3>1 DEF Held, NotSharedOtherwise, Mine
  <2>11. Unborn'
    <3>1. ASSUME NEW f \in Fs, f > made + 1 PROVE All(f)' = {}
      <4>1. f # made + 1 /\ f > made
        BY <2>2, <3>1 DEF Fs
      <4> QED BY <2>3, <4>1 DEF Unborn
    <3> QED BY <2>1, <3>1 DEF Unborn
  <2>12. Typed'
    <3>1. dirs' \in [Fs -> SUBSET Path]
      BY <2>1, <2>5 DEF Typed
    <3>2. /\ session' \in [Entry -> 1..made' \cup {None}] /\ made' \in 0..MaxFs
          /\ ended' \subseteq 1..made'
      BY <1>1, <1>2, <2>1, <2>2, VfsAssumption DEF Typed
    <3>3. held' \in [Request -> 1..made' \cup {None}]
      BY <1>2, <2>1, <2>2 DEF Typed
    <3>4. pc' \in [Request -> {"idle", "first", "again", "ready",
                               "known", "new", "made", "named", "holding"}]
      BY <1>2 DEF Typed
    <3> QED BY ONLY Typed, <1>2, <3>1, <3>2, <3>3, <3>4 DEF Typed
  <2>13. Placed' /\ Holding'
    <3>1. pc'[r] = "made" /\ \A q \in Request : q # r => pc'[q] = pc[q]
      BY <1>2 DEF Typed
    <3> QED BY <1>1, <1>2, <3>1 DEF Placed, Holding, Mine, Inside, e
  <2> QED BY <2>6, <2>9, <2>10, <2>11, <2>12, <2>13
<1> QED BY <1>3, <1>4

LEMMA VInvStep == VInv /\ [Next]_vars => VInv'
<1> SUFFICES ASSUME VInv, [Next]_vars PROVE VInv'
  OBVIOUS
<1>0. /\ \A r \in Request : /\ via[r] \in Request \cup {None} /\ who[r] \in Session \cup {None}
                            /\ via = [via EXCEPT ![r] = via[r]] /\ who = [who EXCEPT ![r] = who[r]]
                            /\ (pc[r] \in Inside => via[r] # None /\ who[r] # None)
      /\ manager \in Request \cup {None} /\ None \notin Request /\ None \notin Session
  <2>1. via \in [Request -> Request \cup {None}] /\ who \in [Request -> Session \cup {None}]
    BY DEF VInv, Typed
  <2>2. \A r \in Request : pc[r] \in Inside => via[r] \in Request /\ who[r] \in Session
    BY DEF VInv, Placed, Mine, Entry
  <2> QED BY <2>1, <2>2, VfsAssumption DEF VInv, Typed
<1>1. ASSUME NEW r \in Request, GetManager(r) PROVE VInv'
  BY <1>0, <1>1, Walking DEF GetManager, Goto, table, Inside
<1>2. ASSUME NEW r \in Request, MakeManager(r) PROVE VInv'
  <2>1. /\ pc' = [pc EXCEPT ![r] = "again"] /\ pc[r] # "holding" /\ manager' = r
        /\ UNCHANGED <<trees, made, session, via, who, held, ended>>
    BY <1>2 DEF MakeManager, Goto
  <2>2. manager' \in Request \cup {None} /\ manager' # None
    BY <1>0, <2>1
  <2> QED BY ONLY VInv, <2>1, <2>2, r \in Request, Waiting
<1>3. ASSUME NEW r \in Request, ReturnManager(r) PROVE VInv'
  <2>1. manager # None
    BY <1>3 DEF VInv, Placed, ReturnManager
  <2> QED BY <1>0, <1>3, <2>1, Walking DEF ReturnManager, Goto, table, Inside
<1>4. ASSUME NEW r \in Request, NEW s \in Session, GetOrCreate(r, s) \/ Begin(r, s) PROVE VInv'
  <2>1. via[r] # None /\ s # None /\ pc[r] # "holding"
    BY <1>0, <1>4 DEF VInv, Placed, GetOrCreate, Begin
  <2>2. PICK p \in {"known", "new", "named"} : pc' = [pc EXCEPT ![r] = p]
    BY <1>4 DEF GetOrCreate, Begin, Goto
  <2>3. /\ UNCHANGED <<trees, made, session, held, ended>> /\ manager' = manager /\ via' = via
        /\ who' = [who EXCEPT ![r] = s]
    BY <1>4 DEF GetOrCreate, Begin, table
  <2> QED BY <1>0, <2>1, <2>2, <2>3, Walking DEF Inside
<1>5. ASSUME NEW r \in Request, Touch(r) PROVE VInv'
  <2>1. /\ pc' = [pc EXCEPT ![r] = "named"] /\ pc[r] \in Inside /\ pc[r] # "holding"
        /\ UNCHANGED <<trees, made, manager, session, via, who, held, ended>>
    BY <1>5 DEF Touch, Goto, Inside
  <2> QED BY <1>0, <2>1, Waiting
<1>6. ASSUME NEW r \in Request, Create(r) PROVE VInv'
  BY <1>6, Creating
<1>7. ASSUME NEW r \in Request, Cleanup(r) PROVE VInv'
  <2>1. /\ pc' = [pc EXCEPT ![r] = "named"] /\ pc[r] = "made"
        /\ UNCHANGED <<trees, made, manager, via, who, held>>
    BY <1>7 DEF Cleanup, Goto
  <2>2. \A q \in Request : pc'[q] = pc[q] \/ (pc'[q] = "named" /\ pc[q] = "made")
    BY <2>1 DEF VInv, Typed
  <2>3. pc' \in [Request -> {"idle", "first", "again", "ready",
                             "known", "new", "made", "named", "holding"}]
    BY <2>1 DEF VInv, Typed
  <2>4. \E E \in SUBSET Entry : /\ session' = [e \in Entry |-> IF e \in E THEN None ELSE session[e]]
                                /\ ended' = Ended(E)
    <3>1. CASE via[r] \in due
      <4> DEFINE old == {e \in Entry : e \in idle /\ e[1] = via[r]}
      <4>1. session' = [e \in Entry |-> IF e \in old THEN None ELSE session[e]] /\ ended' = Ended(old)
        BY <1>7, <3>1 DEF Cleanup
      <4> QED BY <4>1
    <3>2. CASE via[r] \notin due
      <4>1. session' = [e \in Entry |-> IF e \in {} THEN None ELSE session[e]] /\ ended' = Ended({})
        BY <1>7, <3>2 DEF Cleanup, VInv, Typed, Ended
      <4> QED BY <4>1
    <3> QED BY <3>1, <3>2
  <2> QED BY <2>1, <2>2, <2>3, <2>4, Leaving
<1>8. ASSUME NEW r \in Request, GetFilesystem(r) PROVE VInv'
  <2>1. pc[r] = "named" /\ held[r] = None /\ UNCHANGED <<trees, made, manager, session, ended>>
        /\ held' = [held EXCEPT ![r] = session[Mine(r)]]
    BY <1>8 DEF GetFilesystem, VInv, Holding
  <2>2. CASE session[Mine(r)] = None
    <3>1. held' = held
      BY <2>1, <2>2 DEF VInv, Typed
    <3>2. /\ pc' = [pc EXCEPT ![r] = "idle"] /\ via' = [via EXCEPT ![r] = None]
          /\ who' = [who EXCEPT ![r] = None]
      BY <1>8, <2>2 DEF GetFilesystem, Leave, Goto
    <3> QED BY <1>0, <2>1, <3>1, <3>2, Walking DEF Inside
  <2>3. CASE session[Mine(r)] # None
    <3>1. pc' = [pc EXCEPT ![r] = "holding"] /\ UNCHANGED <<via, who>>
      BY <1>8, <2>3 DEF GetFilesystem, Goto
    <3> QED BY <2>1, <2>3, <3>1, Taking
  <2> QED BY <2>2, <2>3
<1>9. ASSUME NEW r \in Request, Done(r) PROVE VInv'
  BY <1>9, LettingGo
<1>10. ASSUME NEW r \in Request, Operate(r) PROVE VInv'
  <2> USE DEF VInv
  <2>1. held[r] \in Fs /\ held[r] <= made /\ UNCHANGED <<made, table, requests, ended>>
    <3>1. held[r] \in 1..made /\ made \in 0..MaxFs
      BY <1>10 DEF Operate, Typed, Holding
    <3> QED BY <1>10, <3>1, VfsAssumption DEF Operate, Fs
  <2>2. PICK p \in Path : \/ \E parents \in BOOLEAN : Mkdir(held[r], p, parents)
                          \/ Write(held[r], p) \/ Unlink(held[r], p) \/ Rmdir(held[r], p)
    BY <1>10 DEF Operate
  <2>3. /\ dirs' \in [Fs -> SUBSET Path] /\ files' \in [Fs -> SUBSET Path]
        /\ \A g \in Fs \ {held[r]} : dirs'[g] = dirs[g] /\ files'[g] = files[g]
        /\ TreeShaped'
    BY <2>1, <2>2, OperationsKeepTheTree
  <2>4. Unborn'
    <3>1. ASSUME NEW f \in Fs, f > made PROVE All(f)' = All(f)
      <4>1. f # held[r]
        BY <2>1, <3>1, VfsAssumption DEF Fs, Typed
      <4> QED BY <2>3, <4>1 DEF All
    <3> QED BY <2>1, <3>1 DEF Unborn
  <2>5. Typed' /\ Placed' /\ Holding'
    BY <2>1, <2>3 DEF Typed, Placed, Holding, Mine, table, requests
  <2>6. Once' /\ Held' /\ NotSharedOtherwise'
    BY <2>1 DEF Once, Held, NotSharedOtherwise, Mine, table, requests
  <2> QED BY <2>3, <2>4, <2>5, <2>6
<1>11. ASSUME NEW d \in Entry, Delete(d) PROVE VInv'
  <2>1. /\ session' = [e \in Entry |-> IF e \in {d} THEN None ELSE session[e]]
        /\ ended' = Ended({d}) /\ UNCHANGED <<trees, made, manager, pc, via, who, held>>
    BY <1>11 DEF Delete, requests, VInv, Typed
  <2>2. pc \in [Request -> {"idle", "first", "again", "ready",
                            "known", "new", "made", "named", "holding"}]
    BY DEF VInv, Typed
  <2> QED BY <2>1, <2>2, Leaving
<1>12. CASE Age \/ UNCHANGED vars
  <2>1. UNCHANGED <<trees, made, manager, session, requests, ended>>
    BY <1>12 DEF Age, vars, table
  <2> QED BY <2>1 DEF VInv, Typed, Placed, Unborn, Holding, TreeShaped, Once, Held,
                      NotSharedOtherwise, Mine, All, trees, requests
<1> QED BY <1>1, <1>2, <1>3, <1>4, <1>5, <1>6, <1>7, <1>8, <1>9, <1>10, <1>11, <1>12 DEF Next

THEOREM Invariance == Spec => []VInv
<1>1. Init => VInv
  BY VInvInit
<1>2. VInv /\ [Next]_vars => VInv'
  BY VInvStep
<1> QED BY <1>1, <1>2, PTL DEF Spec

\* The rest of the types: the clock, the counter and a history.
Noted == idle \subseteq Entry /\ asked \subseteq Entry /\ due \subseteq Request /\ ops \in Nat

LEMMA NotedStep == VInv /\ Noted /\ [Next]_vars => Noted'
<1> SUFFICES ASSUME VInv, Noted, [Next]_vars PROVE Noted'
  OBVIOUS
<1>0. \A r \in Request : pc[r] \in Inside => Mine(r) \in Entry
  BY DEF VInv, Placed
<1> USE DEF Noted
<1>1. ASSUME NEW s \in Session, NEW r \in Request, GetOrCreate(r, s) \/ Begin(r, s) PROVE Noted'
  BY <1>1 DEF GetOrCreate, Begin, table
<1>2. ASSUME NEW r \in Request, Touch(r) \/ Create(r) \/ GetFilesystem(r) PROVE Noted'
  <2>1. Mine(r) \in Entry
    BY <1>0, <1>2 DEF Touch, Create, GetFilesystem, Inside
  <2>2. idle' \subseteq idle /\ asked' \subseteq asked \cup {Mine(r)} /\ due' = due /\ ops' = ops
    <3>1. CASE Touch(r)
      BY <3>1 DEF Touch, Touched
    <3>2. CASE Create(r)
      BY <3>2 DEF Create
    <3>3. CASE GetFilesystem(r)
      BY <3>3 DEF GetFilesystem, Touched
    <3> QED BY <1>2, <3>1, <3>2, <3>3
  <2> QED BY <2>1, <2>2
<1>3. ASSUME NEW r \in Request, GetManager(r) \/ MakeManager(r) \/ ReturnManager(r) \/ Cleanup(r)
      PROVE  Noted'
  <2>1. due' \subseteq due /\ UNCHANGED <<idle, asked, ops>>
    BY <1>3 DEF GetManager, MakeManager, ReturnManager, Cleanup, table
  <2> QED BY <2>1
<1>4. ASSUME NEW r \in Request, Operate(r) PROVE Noted'
  <2>1. ops' = ops + 1 /\ UNCHANGED <<table, asked>>
    BY <1>4 DEF Operate
  <2> QED BY <2>1 DEF table
<1>5. ASSUME NEW r \in Request, Done(r) PROVE Noted'
  BY <1>5 DEF Done, table
<1>6. ASSUME NEW e \in Entry, Delete(e) PROVE Noted'
  BY <1>6 DEF Delete
<1>7. CASE Age
  BY <1>7 DEF Age
<1>8. CASE UNCHANGED vars
  BY <1>8 DEF vars, table
<1> QED BY <1>1, <1>2, <1>3, <1>4, <1>5, <1>6, <1>7, <1>8 DEF Next

\* Every variable keeps its type.
THEOREM TypesHold == Spec => []TypeOK
<1>1. Init => Noted
  <2> SUFFICES ASSUME Init PROVE Noted
    OBVIOUS
  <2>1. idle = {} /\ asked = {} /\ due = {} /\ ops = 0
    BY DEF Init
  <2> QED BY <2>1 DEF Noted
<1>2. VInv /\ Noted => TypeOK
  BY DEF VInv, Typed, Placed, Noted, TypeOK
<1> QED BY <1>1, <1>2, NotedStep, Invariance, PTL DEF Spec

\* Nothing is left without its directory, "/" apart.
THEOREM TreesKeepTheirShape == Spec => []TreeShaped
<1>1. VInv => TreeShaped
  BY DEF VInv
<1> QED BY <1>1, Invariance, PTL

\* Requests of one session share its file system, those that have the manager all get from
\* then on, and requests of different sessions share none.
THEOREM SessionsHaveOneWorkspace == Spec => []OneWorkspace
<1>1. VInv => OneWorkspace
  BY DEF VInv, Held, Mine, OneWorkspace, SharedBySession
<1> QED BY <1>1, Invariance, PTL

\* An entry that was asked for since time passed last is not up for expiry: get_session
\* and create_session set last_accessed, and only time makes an entry idle.
Awake == \A e \in Entry : session[e] # None /\ e \in asked => e \notin idle

LEMMA AwakeStep == VInv /\ Awake /\ [Next]_vars => Awake'
<1> SUFFICES ASSUME VInv, Awake, [Next]_vars PROVE Awake'
  OBVIOUS
<1>b. session \in [Entry -> 1..made \cup {None}]
  BY DEF VInv, Typed
<1>1. ASSUME NEW r \in Request, NEW s \in Session, GetOrCreate(r, s) \/ Begin(r, s) PROVE Awake'
  BY ONLY <1>1, Awake DEF GetOrCreate, Begin, table, Awake
<1>2. ASSUME NEW r \in Request, Touch(r) PROVE Awake'
  <2>1. session' = session /\ asked' = asked \cup {Mine(r)}
    BY ONLY <1>2 DEF Touch
  <2>2. idle' = IF session[Mine(r)] # None THEN idle \ {Mine(r)} ELSE idle
    BY ONLY <1>2 DEF Touch, Touched
  <2> QED BY ONLY <2>1, <2>2, Awake DEF Awake
<1>3. ASSUME NEW r \in Request, Create(r) PROVE Awake'
  <2>1. CASE session[Mine(r)] = None
    <3>1. /\ \A e \in Entry : e # Mine(r) => session'[e] = session[e]
          /\ idle' = idle \ {Mine(r)} /\ asked' = asked \cup {Mine(r)}
      BY ONLY <1>3, <1>b, <2>1 DEF Create, Missing, Number
    <3> QED BY ONLY <3>1, Awake DEF Awake
  <2>2. CASE session[Mine(r)] # None
    BY ONLY <1>3, <2>2, Awake DEF Create, Missing, Awake
  <2> QED BY ONLY <2>1, <2>2
<1>4. ASSUME NEW r \in Request, Cleanup(r) PROVE Awake'
  <2>1. asked' = asked /\ idle' = idle /\ \A e \in Entry : session'[e] \in {session[e], None}
    BY ONLY <1>4, <1>b DEF Cleanup
  <2> QED BY ONLY <2>1, Awake DEF Awake
<1>5. ASSUME NEW r \in Request, GetFilesystem(r) PROVE Awake'
  BY ONLY <1>5, Awake DEF GetFilesystem, Touched, Awake
<1>6. ASSUME NEW r \in Request,
             Operate(r) \/ Done(r) \/ GetManager(r) \/ MakeManager(r) \/ ReturnManager(r)
      PROVE  Awake'
  <2>1. UNCHANGED <<session, idle, asked>>
    BY ONLY <1>6 DEF Operate, Done, GetManager, MakeManager, ReturnManager, table
  <2> QED BY ONLY <2>1, Awake DEF Awake
<1>7. ASSUME NEW e \in Entry, Delete(e) PROVE Awake'
  BY ONLY <1>7, <1>b, Awake DEF Delete, Awake
<1>8. CASE Age
  BY ONLY <1>8 DEF Age, Awake
<1>9. CASE UNCHANGED vars
  BY ONLY <1>9, Awake DEF vars, table, Awake
<1> QED BY ONLY <1>1, <1>2, <1>3, <1>4, <1>5, <1>6, <1>7, <1>8, <1>9, [Next]_vars DEF Next

\* Only a delete and the cleanup take an entry from its table.
LEMMA LeavesTheTable ==
    ASSUME VInv, Next, NEW e \in Entry, session[e] # None, session'[e] = None
    PROVE  Delete(e) \/ (e \in idle /\ \E r \in Request : Cleanup(r))
<1>a. /\ session \in [Entry -> 1..made \cup {None}] /\ made \in Nat
      /\ None \notin 1..MaxFs /\ MaxFs \in Nat
  BY VfsAssumption DEF VInv, Typed
<1>1. session' # session
  OBVIOUS
<1>2. ASSUME NEW r \in Request, NEW u \in Session, GetOrCreate(r, u) \/ Begin(r, u) PROVE FALSE
  BY ONLY <1>1, <1>2 DEF GetOrCreate, Begin, table
<1>3. ASSUME NEW r \in Request, \/ Touch(r) \/ GetFilesystem(r) \/ Operate(r) \/ Done(r)
                                \/ GetManager(r) \/ MakeManager(r) \/ ReturnManager(r)
      PROVE  FALSE
  BY ONLY <1>1, <1>3 DEF Touch, GetFilesystem, Operate, Done, GetManager, MakeManager,
                         ReturnManager, table
<1>4. ASSUME NEW r \in Request, Create(r) PROVE FALSE
  <2>1. session[Mine(r)] = None /\ session' = [session EXCEPT ![Mine(r)] = made + 1]
    BY ONLY <1>1, <1>4 DEF Create, Missing, Number
  <2> QED BY ONLY <1>a, <2>1, session[e] # None, session'[e] = None, e \in Entry
<1>5. ASSUME NEW u \in Entry, Delete(u) PROVE u = e
  BY ONLY <1>a, <1>5, session[e] # None, session'[e] = None, e \in Entry DEF Delete
<1>6. ASSUME NEW r \in Request, Cleanup(r) PROVE e \in idle
  BY ONLY <1>6, session[e] # None, session'[e] = None, e \in Entry DEF Cleanup
<1>7. ~Age
  BY ONLY <1>1 DEF Age
<1> QED BY ONLY Next, <1>2, <1>3, <1>4, <1>5, <1>6, <1>7, e \in Entry DEF Next

\* The cleanup that a create ends with never takes a session that somebody asked for within
\* the timeout, also when the asking ran between the create and its cleanup.
THEOREM LiveOnesStay == Spec => LiveSessionsStay
<1>1. Init => Awake
  BY DEF Init, Awake
<1>2. VInv /\ Awake /\ [Next]_vars
        => [\A e \in Entry : (session[e] # None /\ session'[e] = None /\ e \in asked)
                             => Delete(e)]_vars
  <2> SUFFICES ASSUME VInv, Awake, Next, NEW e \in Entry,
                      session[e] # None, session'[e] = None, e \in asked
               PROVE  Delete(e)
    OBVIOUS
  <2>1. e \notin idle
    BY DEF Awake
  <2> QED BY <2>1, LeavesTheTable
<1> QED BY <1>1, <1>2, AwakeStep, Invariance, PTL DEF Spec, LiveSessionsStay

----------------------------------------------------------------------------
\* Induction up to a bound, over a set instead of a predicate.

LEMMA LessIsWellFounded == IsWellFoundedOn({ss \in Nat \X Nat : ss[1] < ss[2]}, Nat)
BY Zenon, NatLessThanWellFounded DEF OpToRel

LEMMA Least == ASSUME NEW S \in SUBSET Nat, S # {} PROVE \E m \in S : \A k \in S : m <= k
<1> DEFINE R == {ss \in Nat \X Nat : ss[1] < ss[2]}
<1>1. IsWellFoundedOn(R, Nat)
  BY LessIsWellFounded
<1>2. PICK m \in S : \A k \in S : ~(<<k, m>> \in R)
  <2> HIDE DEF R
  <2> QED BY <1>1, WFMin
<1>3. \A k \in S : ~(k < m)
  BY <1>2
<1> QED BY <1>3

LEMMA UpTo ==
    ASSUME NEW N \in Nat, NEW S, 0 \in S, \A n \in 1..N : n - 1 \in S => n \in S
    PROVE  \A n \in 0..N : n \in S
<1> SUFFICES ASSUME {n \in 0..N : n \notin S} # {} PROVE FALSE
  OBVIOUS
<1>1. {n \in 0..N : n \notin S} \in SUBSET Nat
  OBVIOUS
<1>2. PICK m \in {n \in 0..N : n \notin S} : \A k \in {n \in 0..N : n \notin S} : m <= k
  BY <1>1, Least
<1>3. m \in 1..N
  BY <1>2
<1>4. m - 1 \in S
  BY <1>2, <1>3
<1> QED BY <1>2, <1>3, <1>4

----------------------------------------------------------------------------
\* The two pieces of code that resolve "..".

\* Walked is the function its recursive definition describes.
LEMMA WalkedSteps ==
    ASSUME NEW start, NEW parts, Len(parts) \in Nat
    PROVE  /\ Walked(start, parts)[0] = start
           /\ \A n \in 1..Len(parts) :
                 Walked(start, parts)[n] = Step(Walked(start, parts)[n - 1], parts[n])
<1> DEFINE E(g, k) == g = [n \in 0..k |-> IF n = 0 THEN start ELSE Step(g[n - 1], parts[n])]
           S == {k \in 0..Len(parts) : \E g : E(g, k)}
<1>1. 0 \in S
  <2>1. E([n \in 0..0 |-> start], 0)
    OBVIOUS
  <2> HIDE DEF E
  <2>2. \E g : E(g, 0)
    BY ONLY <2>1, Zenon
  <2> QED BY <2>2
<1>2. ASSUME NEW k \in 1..Len(parts), k - 1 \in S PROVE k \in S
  <2>1. PICK g0 : E(g0, k - 1)
    BY <1>2
  <2> DEFINE h == [n \in 0..k |-> IF n = k THEN Step(g0[k - 1], parts[k]) ELSE g0[n]]
  <2>2. \A n \in 0..k : h[n] = IF n = 0 THEN start ELSE Step(h[n - 1], parts[n])
    <3> SUFFICES ASSUME NEW n \in 0..k
                 PROVE  h[n] = IF n = 0 THEN start ELSE Step(h[n - 1], parts[n])
      OBVIOUS
    <3>1. CASE n = k
      BY <3>1
    <3>2. CASE n # k
      <4>1. n \in 0..(k - 1) /\ h[n] = g0[n]
        BY <3>2
      <4>2. n # 0 => h[n - 1] = g0[n - 1]
        BY <4>1
      <4>3. g0[n] = IF n = 0 THEN start ELSE Step(g0[n - 1], parts[n])
        BY <2>1, <4>1
      <4> QED BY <4>1, <4>2, <4>3
    <3> QED BY <3>1, <3>2
  <2>3. E(h, k)
    BY <2>2
  <2> HIDE DEF E, h
  <2>4. \E g : E(g, k)
    BY ONLY <2>3, Zenon
  <2> QED BY <2>4
<1> HIDE DEF S
<1>3. Len(parts) \in S
  <2>1. \A k \in 0..Len(parts) : k \in S
    BY <1>1, <1>2, UpTo, Zenon
  <2> QED BY <2>1
<1>4. \E g : E(g, Len(parts))
  BY <1>3 DEF S
<1>5. E(Walked(start, parts), Len(parts))
  BY <1>4, Zenon DEF Walked
<1> QED BY <1>5

LEMMA WalkedIsASequence ==
    ASSUME NEW start \in Seq(Name), NEW parts \in Seq(Name \cup {".", ".."})
    PROVE  \A n \in 0..Len(parts) : Walked(start, parts)[n] \in Seq(Name)
<1> DEFINE w == Walked(start, parts)
           S == {n \in 0..Len(parts) : w[n] \in Seq(Name)}
<1>1. /\ w[0] = start
      /\ \A n \in 1..Len(parts) : w[n] = Step(w[n - 1], parts[n])
  BY WalkedSteps
<1> HIDE DEF w
<1>2. ASSUME NEW q \in Seq(Name), NEW x \in Name \cup {".", ".."} PROVE Step(q, x) \in Seq(Name)
  <2>1. Parent(q) \in Seq(Name)
    BY SubSeqProperties DEF Parent
  <2>2. x \in Name => Append(q, x) \in Seq(Name)
    BY AppendProperties
  <2> QED BY <2>1, <2>2 DEF Step
<1>3. 0 \in S
  BY <1>1
<1>4. ASSUME NEW n \in 1..Len(parts), n - 1 \in S PROVE n \in S
  <2>1. parts[n] \in Name \cup {".", ".."}
    OBVIOUS
  <2>2. w[n - 1] \in Seq(Name)
    BY <1>4
  <2>3. w[n] \in Seq(Name)
    BY <1>1, <1>2, <2>1, <2>2
  <2> QED BY <2>3
<1> HIDE DEF S
<1>5. \A n \in 0..Len(parts) : n \in S
  <2>1. Len(parts) \in Nat
    OBVIOUS
  <2> QED BY <2>1, <1>3, <1>4, UpTo, Zenon
<1> QED BY <1>5 DEF S, w

LEMMA AppendIntoConcat ==
    ASSUME NEW s \in Seq(Name), NEW q \in Seq(Name), NEW x \in Name
    PROVE  Append(s \o q, x) = s \o Append(q, x)
BY SMT

\* A path of names leads to where it says.
LEMMA WalkOfNames ==
    ASSUME NEW start \in Seq(Name), NEW parts \in Seq(Name)
    PROVE  Walk(start, parts) = start \o parts
<1> DEFINE w == Walked(start, parts)
           S == {n \in 0..Len(parts) : w[n] = start \o SubSeq(parts, 1, n)}
<1>1. /\ w[0] = start
      /\ \A n \in 1..Len(parts) : w[n] = Step(w[n - 1], parts[n])
  BY WalkedSteps
<1> HIDE DEF w
<1>2. 0 \in S
  <2>1. SubSeq(parts, 1, 0) = <<>> /\ start \o <<>> = start
    OBVIOUS
  <2> QED BY <1>1, <2>1
<1>3. ASSUME NEW n \in 1..Len(parts), n - 1 \in S PROVE n \in S
  <2> DEFINE b == SubSeq(parts, 1, n - 1)
  <2>1. parts[n] \in Name /\ parts[n] # ".."
    BY VfsAssumption
  <2>2. b \in Seq(Name) /\ w[n - 1] = start \o b
    BY <1>3, SubSeqProperties
  <2>3. SubSeq(parts, 1, n) = Append(b, parts[n])
    OBVIOUS
  <2>4. w[n] = Append(w[n - 1], parts[n])
    BY <1>1, <2>1 DEF Step
  <2> HIDE DEF b
  <2>5. Append(start \o b, parts[n]) = start \o Append(b, parts[n])
    BY <2>1, <2>2, AppendIntoConcat, Zenon
  <2>6. w[n] = start \o Append(b, parts[n])
    BY ONLY <2>2, <2>4, <2>5, Zenon
  <2>7. n \in 0..Len(parts)
    OBVIOUS
  <2> QED BY ONLY <2>3, <2>6, <2>7
<1> HIDE DEF S
<1>4. Len(parts) \in S
  <2>1. Len(parts) \in Nat
    OBVIOUS
  <2>2. \A n \in 0..Len(parts) : n \in S
    BY <2>1, <1>2, <1>3, UpTo, Zenon
  <2> QED BY <2>1, <2>2
<1>5. SubSeq(parts, 1, Len(parts)) = parts
  OBVIOUS
<1> QED BY <1>4, <1>5 DEF S, w, Walk

\* A relative path that does not stray leads, below the root, to where it leads from "/".
LEMMA WalkBelow ==
    ASSUME NEW parts \in Seq(Name \cup {".", ".."}), NEW d \in Name,
           \A n \in 0..Len(parts) : Walked(<<>>, parts)[n] = <<>> =>
               n # Len(parts) /\ parts[n + 1] # ".."
    PROVE  Walk(<<d>>, parts) = <<d>> \o Walk(<<>>, parts)
<1> DEFINE v == Walked(<<>>, parts)
           w == Walked(<<d>>, parts)
           S == {n \in 0..Len(parts) : w[n] = <<d>> \o v[n]}
<1>1. /\ w[0] = <<d>> /\ v[0] = <<>>
      /\ \A n \in 1..Len(parts) : w[n] = Step(w[n - 1], parts[n]) /\ v[n] = Step(v[n - 1], parts[n])
  BY WalkedSteps
<1>2. \A n \in 0..Len(parts) : v[n] \in Seq(Name)
  <2>1. <<>> \in Seq(Name)
    OBVIOUS
  <2> QED BY <2>1, WalkedIsASequence
<1>3. \A n \in 1..Len(parts) : v[n - 1] = <<>> => parts[n] # ".."
  <2> SUFFICES ASSUME NEW n \in 1..Len(parts), v[n - 1] = <<>> PROVE parts[n] # ".."
    OBVIOUS
  <2>1. n - 1 \in 0..Len(parts) /\ (n - 1) + 1 = n
    OBVIOUS
  <2> QED BY <2>1
<1> HIDE DEF v, w
<1>4. 0 \in S
  <2>1. <<d>> \o <<>> = <<d>> /\ 0 \in 0..Len(parts)
    OBVIOUS
  <2> QED BY <1>1, <2>1
<1>5. ASSUME NEW n \in 1..Len(parts), n - 1 \in S PROVE n \in S
  <2> DEFINE b == v[n - 1]
  <2>1. b \in Seq(Name) /\ w[n - 1] = <<d>> \o b
    BY <1>2, <1>5
  <2>2. parts[n] \in Name \cup {".", ".."}
    OBVIOUS
  <2>3. v[n] = Step(b, parts[n]) /\ w[n] = Step(<<d>> \o b, parts[n])
    BY <1>1, <2>1
  <2>4. parts[n] = ".." => b # <<>>
    BY <1>3
  <2> HIDE DEF b
  <2>5. Step(<<d>> \o b, parts[n]) = <<d>> \o Step(b, parts[n])
    <3>1. CASE parts[n] = ".."
      <4>1. b # <<>> /\ <<d>> \o b # <<>>
        BY <2>1, <2>4, <3>1
      <4>2. SubSeq(<<d>> \o b, 1, Len(<<d>> \o b) - 1) = <<d>> \o SubSeq(b, 1, Len(b) - 1)
        BY <2>1, <4>1
      <4> QED BY <3>1, <4>1, <4>2 DEF Step, Parent
    <3>2. CASE parts[n] \in Name
      <4>1. parts[n] # ".."
        BY <3>2, VfsAssumption
      <4>2. Append(<<d>> \o b, parts[n]) = <<d>> \o Append(b, parts[n])
        BY ONLY <2>1, <3>2, d \in Name
      <4> QED BY <3>2, <4>1, <4>2 DEF Step
    <3>3. CASE parts[n] = "."
      <4>1. parts[n] \notin Name /\ parts[n] # ".."
        BY <3>3, VfsAssumption
      <4> QED BY <4>1 DEF Step
    <3> QED BY <2>2, <3>1, <3>2, <3>3
  <2> QED BY <2>3, <2>5
<1> HIDE DEF S
<1>6. Len(parts) \in S
  <2>1. Len(parts) \in Nat
    OBVIOUS
  <2>2. \A n \in 0..Len(parts) : n \in S
    BY <2>1, <1>4, <1>5, UpTo, Zenon
  <2> QED BY <2>1, <2>2
<1> QED BY <1>6 DEF S, v, w, Walk

\* Whatever a path that does not stray is made of, resolve returns a path that the file
\* system takes for the same one.
LEMMA ResolvedIsTheSame ==
    ASSUME NEW raw \in Raw, ~Strays(raw) PROVE Normal(Resolved(raw)) = Normal(raw)
<1> DEFINE p == Walk(<<>>, raw.parts)
<1>1. raw.abs \in BOOLEAN /\ raw.parts \in Seq(Name \cup {".", ".."})
  BY VfsAssumption
<1>2. p \in Seq(Name)
  <2>1. <<>> \in Seq(Name) /\ Len(raw.parts) \in 0..Len(raw.parts)
    BY <1>1
  <2> QED BY <1>1, <2>1, WalkedIsASequence DEF Walk
<1>3. Walk(<<>>, p) = p /\ Walk(<<Root>>, p) = <<Root>> \o p
  <2>1. <<>> \in Seq(Name) /\ <<Root>> \in Seq(Name) /\ <<>> \o p = p
    BY <1>2, VfsAssumption
  <2> QED BY <1>2, <2>1, WalkOfNames
<1>4. CASE raw.abs
  BY <1>3, <1>4 DEF Normal, Resolved
<1>5. CASE ~raw.abs
  <2>1. \A n \in 0..Len(raw.parts) : Walked(<<>>, raw.parts)[n] = <<>> =>
            n # Len(raw.parts) /\ raw.parts[n + 1] # ".."
    BY <1>5 DEF Strays
  <2>2. Walk(<<Root>>, raw.parts) = <<Root>> \o p
    BY <1>1, <2>1, WalkBelow, VfsAssumption
  <2>3. p # <<>>
    BY <1>1, <2>1 DEF Walk
  <2> QED BY <1>3, <1>5, <2>2, <2>3 DEF Normal, Resolved
<1> QED BY <1>4, <1>5, <1>1

----------------------------------------------------------------------------
\* The two pieces of code that walk the tables.

LEMMA Beginnings ==
    ASSUME NEW q \in Path, NEW n \in 0..Len(q), NEW m \in 0..n
    PROVE  SubSeq(SubSeq(q, 1, n), 1, m) = SubSeq(q, 1, m)
<1> DEFINE b == SubSeq(q, 1, n)
<1>1. q \in Seq(Name) /\ Len(q) \in Nat
  BY DEF Path
<1>2. b \in Seq(Name) /\ Len(b) = n /\ \A i \in 1..n : b[i] = q[i]
  BY <1>1, SubSeqProperties
<1>3. /\ SubSeq(q, 1, m) \in Seq(Name) /\ Len(SubSeq(q, 1, m)) = m
      /\ \A i \in 1..m : SubSeq(q, 1, m)[i] = q[i]
  BY <1>1, SubSeqProperties
<1> HIDE DEF b
<1>4. /\ SubSeq(b, 1, m) \in Seq(Name) /\ Len(SubSeq(b, 1, m)) = m
      /\ \A i \in 1..m : SubSeq(b, 1, m)[i] = b[i]
  BY <1>2, SubSeqProperties
<1>5. SubSeq(b, 1, m) = SubSeq(q, 1, m)
  <2>1. \A i \in 1..m : SubSeq(b, 1, m)[i] = SubSeq(q, 1, m)[i]
    BY <1>2, <1>3, <1>4
  <2> QED BY <1>3, <1>4, <2>1, SeqEqual
<1> QED BY <1>5 DEF b

\* Below a directory is what is in it, and what is below something in it.
LEMMA BelowItsParent ==
    ASSUME NEW p \in Path, NEW q \in Path, q # <<>>
    PROVE  /\ Len(q) \in Nat \ {0} /\ Len(Parent(q)) = Len(q) - 1
           /\ Below(p, q) <=> (Parent(q) = p \/ Below(p, Parent(q)))
<1>1. q \in Seq(Name) /\ Len(q) \in Nat \ {0} /\ Len(p) \in Nat
  BY EmptySeq DEF Path
<1>2. Parent(q) = SubSeq(q, 1, Len(q) - 1) /\ Len(SubSeq(q, 1, Len(q) - 1)) = Len(q) - 1
  <2>1. q \in Seq(Name) /\ Len(q) - 1 \in Nat /\ Len(q) - 1 <= Len(q)
    BY <1>1
  <2> DEFINE n == Len(q) - 1
  <2>2. 1 \in 1..(Len(q) + 1) /\ n \in (1 - 1)..Len(q) /\ n - 1 + 1 = n
    BY ONLY <1>1
  <2> HIDE DEF n
  <2>3. Len(SubSeq(q, 1, n)) = n
    BY ONLY <2>1, <2>2, SubSeqProperties
  <2> QED BY <2>3 DEF Parent, n
<1>3. ASSUME Len(p) <= Len(q) - 1 PROVE SubSeq(Parent(q), 1, Len(p)) = SubSeq(q, 1, Len(p))
  BY <1>1, <1>2, <1>3, Beginnings
<1>4. ASSUME Below(p, q) PROVE Parent(q) = p \/ Below(p, Parent(q))
  BY <1>1, <1>2, <1>3, <1>4 DEF Below
<1>5. ASSUME Parent(q) = p \/ Below(p, Parent(q)) PROVE Below(p, q)
  BY <1>1, <1>2, <1>3, <1>5 DEF Below
<1> QED BY <1>1, <1>2, <1>4, <1>5

\* Rounds is the function its recursive definition describes.
LEMMA RoundsSteps ==
    ASSUME NEW f, NEW d
    PROVE  /\ Rounds(f, d)[0] = {d}
           /\ \A n \in 1..Depth :
                 Rounds(f, d)[n] = Rounds(f, d)[n - 1] \cup
                                   UNION {Listdir(f, q) : q \in Rounds(f, d)[n - 1] \cap dirs[f]}
<1> DEFINE Onward(s) == s \cup UNION {Listdir(f, q) : q \in s \cap dirs[f]}
           E(g, k) == g = [n \in 0..k |-> IF n = 0 THEN {d}
                                          ELSE g[n - 1] \cup
                                               UNION {Listdir(f, q) : q \in g[n - 1] \cap dirs[f]}]
           S == {k \in 0..Depth : \E g : E(g, k)}
<1>0. Depth \in Nat
  BY VfsAssumption
<1>1. 0 \in S
  <2>1. E([n \in 0..0 |-> {d}], 0)
    OBVIOUS
  <2> HIDE DEF E
  <2>2. \E g : E(g, 0)
    BY ONLY <2>1, Zenon
  <2> QED BY <1>0, <2>2
<1>2. ASSUME NEW k \in 1..Depth, k - 1 \in S PROVE k \in S
  <2>1. PICK g : E(g, k - 1)
    BY <1>2
  <2> DEFINE h == [n \in 0..k |-> IF n = k THEN Onward(g[k - 1]) ELSE g[n]]
  <2>2. \A n \in 0..k : h[n] = IF n = 0 THEN {d} ELSE Onward(h[n - 1])
    <3> SUFFICES ASSUME NEW n \in 0..k PROVE h[n] = IF n = 0 THEN {d} ELSE Onward(h[n - 1])
      OBVIOUS
    <3>0. \A j \in 0..(k - 1) : g[j] = IF j = 0 THEN {d} ELSE Onward(g[j - 1])
      BY ONLY <2>1
    <3> HIDE DEF Onward
    <3>1. CASE n = k
      BY <3>1
    <3>2. CASE n # k
      <4>1. n \in 0..(k - 1) /\ h[n] = g[n]
        BY <3>2
      <4>2. n # 0 => h[n - 1] = g[n - 1]
        BY <4>1
      <4> QED BY <3>0, <4>1, <4>2
    <3> QED BY <3>1, <3>2
  <2>3. E(h, k)
    <3> HIDE DEF h
    <3>1. h = [n \in 0..k |-> h[n]]
      BY DEF h
    <3> QED BY <2>2, <3>1
  <2> HIDE DEF E, h
  <2>4. \E i : E(i, k)
    BY ONLY <2>3, Zenon
  <2> QED BY <2>4
<1> HIDE DEF S
<1>3. Depth \in S
  <2>1. \A k \in 0..Depth : k \in S
    BY <1>0, <1>1, <1>2, UpTo, Zenon
  <2> QED BY <1>0, <2>1
<1>4. \E g : E(g, Depth)
  BY <1>3 DEF S
<1>5. E(Rounds(f, d), Depth)
  BY <1>4, Zenon DEF Rounds
<1> HIDE DEF Onward
<1>6. \A n \in 0..Depth : Rounds(f, d)[n] = IF n = 0 THEN {d} ELSE Onward(Rounds(f, d)[n - 1])
  BY <1>5 DEF Onward
<1>7. Rounds(f, d)[0] = {d}
  BY <1>0, <1>6
<1>8. \A n \in 1..Depth : Rounds(f, d)[n] = Onward(Rounds(f, d)[n - 1])
  BY <1>0, <1>6
<1> QED BY ONLY <1>7, <1>8, Zenon DEF Onward

\* In a tree, rounds of listdir from a directory reach what its path begins.
LEMMA ListingIsComplete ==
    ASSUME Typed, TreeShaped, NEW f \in Fs, NEW d \in dirs[f]
    PROVE  Descend(f, d) = Glob(f, d)
<1> DEFINE R == Rounds(f, d)
           Within(n) == {d} \cup {q \in All(f) : Below(d, q) /\ Len(q) <= Len(d) + n}
           S == {n \in 0..Depth : R[n] = Within(n)}
<1>0. Depth \in Nat
  BY VfsAssumption
<1>1. All(f) \subseteq Path /\ d \in Path /\ \A q \in Path : Len(q) \in 0..Depth
  BY <1>0 DEF Typed, All, Path
<1>2. /\ R[0] = {d}
      /\ \A n \in 1..Depth : R[n] = R[n - 1] \cup UNION {Listdir(f, q) : q \in R[n - 1] \cap dirs[f]}
  BY RoundsSteps
<1> HIDE DEF R
<1>3. 0 \in S
  <2>1. \A q \in All(f) : Below(d, q) => ~(Len(q) <= Len(d) + 0)
    BY <1>1 DEF Below
  <2> QED BY <1>0, <1>2, <2>1
<1>4. ASSUME NEW n \in 1..Depth, n - 1 \in S PROVE n \in S
  <2>1. R[n - 1] = Within(n - 1) /\ n \in Nat
    BY <1>4
  <2>2. ASSUME NEW q \in Within(n - 1), NEW c \in Listdir(f, q) PROVE c \in Within(n)
    <3>0. CASE c = <<>>
      BY <2>2, <3>0 DEF Listdir, Parent
    <3>9. CASE c # <<>>
      <4>1. c \in All(f) /\ Parent(c) = q /\ c # <<>>
        BY <2>2, <3>9 DEF Listdir, All
      <4>2. /\ Len(c) \in Nat /\ Len(q) = Len(c) - 1
            /\ Below(d, c) <=> (q = d \/ Below(d, q))
        BY <1>1, <4>1, BelowItsParent
      <4>3. Len(q) <= Len(d) + (n - 1) /\ Len(d) \in Nat
        BY <1>1, <2>1, <2>2
      <4>4. Len(c) <= Len(d) + n
        BY ONLY <2>1, <4>2, <4>3
      <4>5. q = d \/ Below(d, q)
        BY <2>2
      <4> QED BY <4>1, <4>2, <4>4, <4>5
    <3> QED BY <3>0, <3>9
  <2>3. ASSUME NEW c \in Within(n), c \notin Within(n - 1)
        PROVE  \E q \in Within(n - 1) \cap dirs[f] : c \in Listdir(f, q)
    <3>1. c \in All(f) /\ c \in Path /\ Below(d, c) /\ Len(c) <= Len(d) + n
      BY <1>1, <2>3
    <3>2. c # <<>>
      <4>1. Len(c) > 0
        BY <1>1, <3>1 DEF Below
      <4> QED BY <4>1
    <3>3. /\ Len(c) \in Nat \ {0} /\ Len(Parent(c)) = Len(c) - 1
          /\ Parent(c) = d \/ Below(d, Parent(c))
      BY <1>1, <3>1, <3>2, BelowItsParent
    <3>4. Parent(c) \in dirs[f]
      <4>1. CASE Parent(c) = d
        BY <4>1
      <4>2. CASE Below(d, Parent(c))
        <5>1. Len(d) \in Nat /\ Len(d) < Len(Parent(c))
          BY <1>1, <4>2 DEF Below
        <5>2. Len(c) > 1
          BY ONLY <3>3, <5>1
        <5> QED BY <3>1, <5>2 DEF TreeShaped
      <4> QED BY <3>3, <4>1, <4>2
    <3>5. Len(Parent(c)) <= Len(d) + (n - 1)
      <4>1. Len(d) \in Nat
        BY <1>1
      <4> QED BY ONLY <2>1, <3>1, <3>3, <4>1
    <3>6. Parent(c) \in Within(n - 1)
      BY <3>3, <3>4, <3>5 DEF All
    <3>7. c \in Listdir(f, Parent(c))
      <4>1. c # Parent(c)
        BY <3>3
      <4> QED BY <3>1, <4>1 DEF Listdir, All
    <3> QED BY <3>4, <3>6, <3>7
  <2>4. Within(n - 1) \subseteq Within(n)
    <3>1. ASSUME NEW q \in All(f), Len(q) <= Len(d) + (n - 1) PROVE Len(q) <= Len(d) + n
      <4>1. Len(q) \in Nat /\ Len(d) \in Nat
        BY <1>1
      <4> QED BY ONLY <2>1, <3>1, <4>1
    <3> QED BY <3>1
  <2> HIDE DEF Within
  <2>5. R[n] = Within(n)
    <3>1. R[n] = Within(n - 1) \cup UNION {Listdir(f, q) : q \in Within(n - 1) \cap dirs[f]}
      BY <1>2, <2>1
    <3> QED BY ONLY <3>1, <2>2, <2>3, <2>4
  <2>6. n \in 0..Depth
    BY <1>0
  <2> QED BY <2>5, <2>6
<1> HIDE DEF S
<1>5. Depth \in S
  <2>1. \A n \in 0..Depth : n \in S
    BY <1>0, <1>3, <1>4, UpTo, Zenon
  <2> QED BY <1>0, <2>1
<1>6. R[Depth] = Within(Depth)
  BY <1>5 DEF S
<1>7. \A q \in All(f) : Below(d, q) => Len(q) <= Len(d) + Depth
  BY <1>0, <1>1 DEF Below
<1>8. ASSUME NEW q \in Within(Depth), NEW c \in Listdir(f, q) PROVE c \in Glob(f, d)
  <2>1. c \in All(f) /\ Parent(c) = q /\ (c \in files[f] \/ (c \in dirs[f] /\ c # q))
    BY <1>8 DEF Listdir, All
  <2>2. q = d \/ Below(d, q)
    BY <1>8
  <2>3. CASE c = <<>>
    <3>1. q = <<>> /\ c \in files[f]
      BY <2>1, <2>3 DEF Parent
    <3>2. ~Below(d, <<>>)
      BY <1>1 DEF Below
    <3> QED BY <2>2, <2>3, <3>1, <3>2 DEF Glob
  <2>4. CASE c # <<>>
    <3>1. Below(d, c)
      BY <1>1, <2>1, <2>2, <2>4, BelowItsParent
    <3> QED BY <2>1, <3>1 DEF Glob
  <2> QED BY <2>3, <2>4
<1>9. ASSUME NEW c \in Glob(f, d)
      PROVE  \E q \in Within(Depth) \cap dirs[f] : c \in Listdir(f, q)
  <2>1. c \in All(f)
    BY <1>9 DEF Glob, All
  <2>2. CASE c = <<>> /\ d = <<>> /\ c \in files[f]
    <3>1. c \in Listdir(f, d)
      BY <2>2 DEF Listdir, Parent
    <3> QED BY <3>1
  <2>3. CASE Below(d, c)
    <3>1. c # <<>>
      BY <1>1, <2>1, <2>3 DEF Below
    <3>2. /\ Len(c) \in Nat \ {0} /\ Len(Parent(c)) = Len(c) - 1
          /\ Parent(c) = d \/ Below(d, Parent(c))
      BY <1>1, <2>1, <2>3, <3>1, BelowItsParent
    <3>3. Parent(c) \in dirs[f]
      <4>1. CASE Below(d, Parent(c))
        <5>1. Len(d) \in Nat /\ Len(d) < Len(Parent(c))
          BY <1>1, <4>1 DEF Below
        <5>2. Len(c) > 1
          BY ONLY <3>2, <5>1
        <5> QED BY <2>1, <5>2 DEF TreeShaped
      <4> QED BY <3>2, <4>1
    <3>4. Parent(c) \in Within(Depth)
      BY <1>7, <3>2, <3>3 DEF All
    <3>5. c # Parent(c)
      BY <3>2
    <3>6. c \in Listdir(f, Parent(c))
      BY <2>1, <3>5 DEF Listdir, All
    <3> QED BY <3>3, <3>4, <3>6
  <2> QED BY <1>9, <2>2, <2>3 DEF Glob
<1> HIDE DEF Within
<1>10. Descend(f, d) = UNION {Listdir(f, q) : q \in R[Depth] \cap dirs[f]}
  BY DEF R, Descend
<1> QED BY ONLY <1>6, <1>8, <1>9, <1>10

\* What the two pieces of code that resolve "..", and the two that walk the tables, mean is
\* the same: for any names, any depth and any paths.
THEOREM NamesMeanTheSame == Spec => []NamesAgree
<1>1. VInv => NamesAgree
  <2> SUFFICES ASSUME VInv PROVE NamesAgree
    OBVIOUS
  <2>1. ListingFindsAll
    BY ListingIsComplete DEF VInv, ListingFindsAll
  <2>2. ResolveKeepsTheFile
    BY ResolvedIsTheSame DEF ResolveKeepsTheFile
  <2> QED BY <2>1, <2>2 DEF NamesAgree
<1> QED BY <1>1, Invariance, PTL
=============================================================================

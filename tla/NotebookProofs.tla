--------------------------- MODULE NotebookProofs ---------------------------
(***************************************************************************)
(* For any number of sessions, notebooks, cells, threads and executions:   *)
(* what a cell prints stays with its run, a cell runs with its own         *)
(* notebook's variables unless a first run takes the shell from it, and no *)
(* two cells of a notebook have the same execution count.                  *)
(***************************************************************************)
EXTENDS Notebook, SequenceTheorems, FiniteSetTheorems, TLAPS

\* Each thread's state is a record of the fields Begin writes.
RunShape ==
    /\ run = [c \in Call |-> run[c]]
    /\ \A c \in Call :
         run[c] = [pc |-> run[c].pc, book |-> run[c].book, at |-> run[c].at,
                   upto |-> run[c].upto,
                   wasCapped |-> run[c].wasCapped, oldOut |-> run[c].oldOut]

\* What holds of the process while a thread has the lock, and while none has.
Captured ==
    /\ \A c, d \in Running : c = d
    /\ \A c \in Running : stdout = c /\ run[c].oldOut = None
    /\ Running = {} => stdout = None

BoundToRun ==
    \A c \in Running \ taken : userNs = run[c].book \/ (c \in cleared /\ userNs = None)

NInv == RunShape /\ (HasIPython => Captured /\ BoundToRun)

----------------------------------------------------------------------------
LEMMA NInvInit == Init => NInv
<1> SUFFICES ASSUME Init PROVE NInv
  OBVIOUS
<1>1. RunShape
  BY DEF Init, RunShape, Idle
<1>2. Running = {}
  BY DEF Init, Running, Idle
<1>3. stdout = None
  BY DEF Init
<1> QED BY <1>1, <1>2, <1>3 DEF NInv, Captured, BoundToRun

\* A step that leaves the runs, the process and the history as they are.
LEMMA OthersKeep ==
    NInv /\ UNCHANGED <<run, process, history>> => NInv'
BY DEF NInv, RunShape, Captured, BoundToRun, Running, process, history

\* The shell keeps the old namespace, and the cells that run in it are marked.
LEMMA ResetKeeps ==
    ASSUME NInv, NEW s \in Session, NEW b \in Book, Reset(s, b)
    PROVE  NInv'
<1>1. UNCHANGED <<run, stdout, taken>>
  BY DEF Reset
<1>2. RunShape' /\ Running' = Running /\ (HasIPython => Captured')
  BY <1>1 DEF NInv, RunShape, Captured, Running
<1>3. /\ userNs' = IF userNs = b THEN None ELSE userNs
      /\ cleared' = cleared \cup {c \in Running : run[c].book = b}
      /\ b # None
  BY NotebookAssumption DEF Reset, NewNamespace
<1>4. HasIPython => BoundToRun'
  <2> SUFFICES ASSUME HasIPython, NEW c \in Running, c \notin taken
               PROVE  userNs' = run[c].book \/ (c \in cleared' /\ userNs' = None)
    BY <1>1, <1>2 DEF BoundToRun
  <2>1. userNs = run[c].book \/ (c \in cleared /\ userNs = None)
    BY DEF NInv, BoundToRun
  <2>2. CASE userNs = run[c].book
    BY <2>2, <1>3
  <2>3. CASE c \in cleared /\ userNs = None
    BY <2>3, <1>3
  <2> QED BY <2>1, <2>2, <2>3
<1> QED BY <1>2, <1>4 DEF NInv

\* A thread that starts or goes on to a next cell is not running yet.
LEMMA CountKeeps ==
    ASSUME NInv, NEW c \in Call, NEW b, NEW i, NEW n,
           Count(c, b, i, n), run[c].pc # "running", UNCHANGED <<process, history>>
    PROVE  NInv'
<1>1. /\ RunShape'
      /\ \A d \in Call : d # c => run'[d] = run[d]
      /\ run'[c].pc = "counted"
  BY DEF NInv, RunShape, Count, Idle
<1>2. Running' = Running /\ \A d \in Running : run'[d] = run[d]
  BY <1>1 DEF Running
<1> QED BY <1>1, <1>2 DEF NInv, Captured, BoundToRun, process, history

LEMMA ContinueKeeps ==
    ASSUME NInv, NEW c \in Call, Continue(c)
    PROVE  NInv'
<1>1. CASE run[c].at + 1 \in DOMAIN cells[run[c].book]
  BY <1>1, CountKeeps DEF Continue
<1>2. CASE run[c].at + 1 \notin DOMAIN cells[run[c].book]
  <2>1. /\ RunShape'
        /\ \A d \in Call : d # c => run'[d] = run[d]
        /\ run'[c].pc # "running"
    BY <1>2 DEF NInv, RunShape, Continue, Idle
  <2>2. Running' = Running /\ \A d \in Running : run'[d] = run[d]
    BY <2>1 DEF Running, Continue
  <2> QED BY <2>1, <2>2 DEF NInv, Captured, BoundToRun, process, history, Continue
<1> QED BY <1>1, <1>2

\* Neither the limit nor a look at the shell concerns a cell that runs.
LEMMA EnterKeeps ==
    ASSUME NInv, NEW c \in Call, AskLimit(c) \/ Enter(c)
    PROVE  NInv'
<1>1. /\ RunShape'
      /\ \A d \in Call : d # c => run'[d] = run[d]
      /\ run[c].pc # "running" /\ run'[c].pc # "running"
  <2>1. CASE AskLimit(c)
    <3>1. run' = [run EXCEPT ![c] = [run[c] EXCEPT !.pc = "begun", !.wasCapped = capped]]
      BY <2>1, Zenon DEF AskLimit
    <3>2. RunShape
      BY DEF NInv
    <3>3. /\ run' = [d \in Call |-> run'[d]]
          /\ \A d \in Call : d # c => run'[d] = run[d]
          /\ run'[c] = [run[c] EXCEPT !.pc = "begun", !.wasCapped = capped]
      BY <3>1, <3>2 DEF RunShape
    <3>4. run'[c] = [pc |-> "begun", book |-> run[c].book, at |-> run[c].at,
                     upto |-> run[c].upto, wasCapped |-> capped, oldOut |-> run[c].oldOut]
      BY <3>2, <3>3 DEF RunShape
    <3> QED BY <2>1, <3>2, <3>3, <3>4 DEF RunShape, AskLimit
  <2>2. CASE Enter(c)
    BY <2>2 DEF NInv, RunShape, Enter
  <2> QED BY <2>1, <2>2
<1>2. Running' = Running /\ \A d \in Running : run'[d] = run[d]
  BY <1>1 DEF Running
<1>3. UNCHANGED <<userNs, stdout, history>>
  BY DEF AskLimit, Enter, process
<1> QED BY <1>1, <1>2, <1>3 DEF NInv, Captured, BoundToRun, history

\* A first run takes the shell from every cell that runs.
LEMMA BindKeeps ==
    ASSUME NInv, NEW c \in Call, Bind(c)
    PROVE  NInv'
<1>1. /\ RunShape'
      /\ \A d \in Call : d # c => run'[d] = run[d]
      /\ run'[c].pc = "waiting"
  BY DEF NInv, RunShape, Bind
<1>2. Running' = Running /\ \A d \in Running : run'[d] = run[d]
  BY <1>1 DEF Running, Bind
<1>3. stdout' = stdout /\ taken' = Running
  BY DEF Bind
<1> QED BY <1>1, <1>2, <1>3 DEF NInv, Captured, BoundToRun

\* The lock is free when a cell begins to run.
LEMMA RunKeeps ==
    ASSUME NInv, NEW c \in Call, Run(c)
    PROVE  NInv'
<1>1. /\ RunShape'
      /\ \A d \in Call : d # c => run'[d] = run[d]
      /\ run'[c].pc = "running" /\ run'[c].oldOut = stdout /\ run'[c].book = run[c].book
  <2>1. run' = [run EXCEPT ![c] = [run[c] EXCEPT !.pc = "running", !.oldOut = stdout]]
    BY Zenon DEF Run
  <2>2. run = [d \in Call |-> run[d]] /\ RunShape
    BY DEF NInv, RunShape
  <2>3. /\ run' = [d \in Call |-> run'[d]]
        /\ \A d \in Call : d # c => run'[d] = run[d]
        /\ run'[c] = [run[c] EXCEPT !.pc = "running", !.oldOut = stdout]
    BY <2>1, <2>2
  <2>4. run'[c] = [pc |-> "running", book |-> run[c].book, at |-> run[c].at,
                   upto |-> run[c].upto,
                   wasCapped |-> run[c].wasCapped, oldOut |-> stdout]
    BY <2>2, <2>3 DEF RunShape
  <2> QED BY <2>2, <2>3, <2>4 DEF RunShape
<1>2. HasIPython => Running = {}
  BY DEF Run, LockFree, Running
<1>3. HasIPython => Running' = {c}
  BY <1>1, <1>2 DEF Running
<1>4. HasIPython => stdout = None
  BY <1>2 DEF NInv, Captured
<1>5. stdout' = c /\ (HasIPython => userNs' = run[c].book)
  BY DEF Run, Bound
<1> QED BY <1>1, <1>3, <1>4, <1>5 DEF NInv, Captured, BoundToRun

\* The cell that ends was the only one, and gives back the process's own output.
LEMMA RanKeeps ==
    ASSUME NInv, NEW c \in Call, Ran(c)
    PROVE  NInv'
<1>1. /\ RunShape'
      /\ \A d \in Call : d # c => run'[d] = run[d]
      /\ run'[c].pc = "ran"
  BY DEF NInv, RunShape, Ran
<1>2. HasIPython => Running = {c}
  BY DEF NInv, Captured, Running, Ran
<1>3. HasIPython => Running' = {}
  BY <1>1, <1>2 DEF Running
<1>4. HasIPython => stdout' = None
  BY <1>2 DEF NInv, Captured, Ran
<1> QED BY <1>1, <1>3, <1>4 DEF NInv, Captured, BoundToRun

LEMMA FinishKeeps ==
    ASSUME NInv, NEW c \in Call, Finish(c)
    PROVE  NInv'
<1>1. /\ RunShape'
      /\ \A d \in Call : d # c => run'[d] = run[d]
      /\ run'[c].pc # "running"
  BY DEF NInv, RunShape, Finish, Idle
<1>2. Running' = Running /\ \A d \in Running : run'[d] = run[d]
  BY <1>1 DEF Running, Finish
<1>3. UNCHANGED <<userNs, stdout, history>>
  BY DEF Finish
<1> QED BY <1>1, <1>2, <1>3 DEF NInv, Captured, BoundToRun, history

LEMMA NInvStep == NInv /\ [Next]_vars => NInv'
<1> SUFFICES ASSUME NInv, [Next]_vars PROVE NInv'
  OBVIOUS
<1>1. CASE UNCHANGED vars
  BY <1>1, OthersKeep DEF vars
<1>2. CASE \E s \in Session, b \in Book : Tool(s, b)
  BY <1>2, OthersKeep, ResetKeeps DEF Tool, Look, DeleteCell, AddCell
<1>3. CASE \E s \in Session, b \in Book : Release(s, b)
  BY <1>3, OthersKeep DEF Release
<1>4. ASSUME NEW c \in Call, Execution(c) PROVE NInv'
  <2>1. CASE \E s \in Session, b \in Book : \E i, n \in DOMAIN cells[b] : Begin(c, s, b, i, n)
    <3>1. PICK s \in Session, b \in Book : \E i, n \in DOMAIN cells[b] : Begin(c, s, b, i, n)
      BY <2>1
    <3>2. PICK i \in DOMAIN cells[b], n \in DOMAIN cells[b] : Begin(c, s, b, i, n)
      BY <3>1
    <3>3. Count(c, b, i, n) /\ run[c].pc = "idle" /\ UNCHANGED <<process, history>>
      BY <3>2 DEF Begin, Idle
    <3> QED BY <3>3, CountKeeps
  <2>2. CASE Continue(c)
    BY <2>2, ContinueKeeps
  <2>3. CASE AskLimit(c) \/ Enter(c)
    BY <2>3, EnterKeeps
  <2>7. CASE Bind(c)
    BY <2>7, BindKeeps
  <2>4. CASE Run(c)
    BY <2>4, RunKeeps
  <2>5. CASE Ran(c)
    BY <2>5, RanKeeps
  <2>6. CASE Finish(c)
    BY <2>6, FinishKeeps
  <2> QED BY <1>4, <2>1, <2>2, <2>3, <2>4, <2>5, <2>6, <2>7 DEF Execution
<1> QED BY <1>1, <1>2, <1>3, <1>4 DEF Next

\* The invariant holds in every reachable state.
THEOREM NInvHolds == Spec => []NInv
BY NInvInit, NInvStep, PTL DEF Spec

\* gh #157: what a cell prints is captured for its own run, for any number of threads.
THEOREM OutputStays == Spec => []OwnOutput
<1>1. NInv => OwnOutput
  BY DEF NInv, OwnOutput, Captured, Running
<1> QED BY <1>1, NInvHolds, PTL

\* gh #157: with IPython a cell runs with its own notebook's variables as long as no first run
\* takes the shell from it; when its notebook is reset as it runs, with those it had.
THEOREM VariablesStay == Spec => []OwnVariablesOnceBound
<1>1. NInv => OwnVariablesOnceBound
  BY DEF NInv, OwnVariablesOnceBound, BoundToRun
<1> QED BY <1>1, NInvHolds, PTL

----------------------------------------------------------------------------
\* Which cells a notebook has, and their counts.

In(b, k) == \E i \in DOMAIN cells[b] : cells[b][i] = k

\* The types the counts depend on.
CountTypes ==
    /\ cells \in [Book -> Seq(Cell)]
    /\ counter \in [Book -> Nat]
    /\ count \in [Cell -> Nat \cup {None}]
    /\ \A c \in Call : run[c].pc # "idle" => run[c].book \in Book

\* A cell is in one place of one notebook, or in none.
Placed ==
    /\ \A b \in Book : \A i, j \in DOMAIN cells[b] : cells[b][i] = cells[b][j] => i = j
    /\ \A b, d \in Book : \A k \in Cell : In(b, k) /\ In(d, k) => b = d
    /\ \A b \in Book : \A k \in Cell : In(b, k) => count[k] # None

\* No cell has been counted beyond its notebook's counter, and no two alike.
Counted ==
    \A b \in Book : \A k \in Cell : In(b, k) =>
        /\ count[k] <= counter[b]
        /\ \A m \in Cell : In(b, m) /\ count[m] = count[k] => m = k \/ count[k] = 0

CountInv == CountTypes /\ Placed /\ Counted

----------------------------------------------------------------------------
\* What InsertAt and RemoveAt return.
LEMMA Inserted ==
    ASSUME NEW s \in Seq(Cell), NEW i \in 1..(Len(s) + 1), NEW e \in Cell
    PROVE  /\ InsertAt(s, i, e) \in Seq(Cell)
           /\ Len(InsertAt(s, i, e)) = Len(s) + 1
           /\ \A j \in 1..(i - 1) : InsertAt(s, i, e)[j] = s[j]
           /\ InsertAt(s, i, e)[i] = e
           /\ \A j \in (i + 1)..(Len(s) + 1) : InsertAt(s, i, e)[j] = s[j - 1]
<1> DEFINE front == SubSeq(s, 1, i - 1)
           back  == SubSeq(s, i, Len(s))
<1>1. /\ front \in Seq(Cell) /\ Len(front) = i - 1
      /\ \A j \in 1..(i - 1) : front[j] = s[j]
  BY SubSeqProperties
<1>2. /\ back \in Seq(Cell) /\ Len(back) = Len(s) - i + 1
      /\ \A j \in 1..(Len(s) - i + 1) : back[j] = s[i + j - 1]
  <2>1. i \in Int /\ Len(s) \in Int /\ \A j \in i..Len(s) : s[j] \in Cell
    OBVIOUS
  <2> QED BY <2>1, SubSeqProperties
<1>3. <<e>> \in Seq(Cell) /\ Len(<<e>>) = 1 /\ <<e>>[1] = e
  OBVIOUS
<1> DEFINE start == front \o <<e>>
<1> HIDE DEF front, back
<1>4. /\ start \in Seq(Cell) /\ Len(start) = i
      /\ \A j \in 1..i : start[j] = IF j < i THEN s[j] ELSE e
  BY <1>1, <1>3, ConcatProperties
<1> HIDE DEF start
<1>5. InsertAt(s, i, e) = start \o back
  BY DEF InsertAt, start, front, back
<1>6. /\ start \o back \in Seq(Cell) /\ Len(start \o back) = Len(start) + Len(back)
      /\ \A j \in 1..(Len(start) + Len(back)) : (start \o back)[j] =
            IF j <= Len(start) THEN start[j] ELSE back[j - Len(start)]
  BY <1>2, <1>4, ConcatProperties
<1>7. ASSUME NEW j \in 1..(Len(s) + 1), j > i
      PROVE  back[j - i] = s[j - 1]
  <2>1. j - i \in 1..(Len(s) - i + 1) /\ i + (j - i) - 1 = j - 1
    BY <1>7
  <2> QED BY <2>1, <1>2
<1> QED BY <1>2, <1>4, <1>5, <1>6, <1>7

LEMMA Removed ==
    ASSUME NEW S, NEW s \in Seq(S), NEW i \in 1..Len(s)
    PROVE  /\ RemoveAt(s, i) \in Seq(S)
           /\ Len(RemoveAt(s, i)) = Len(s) - 1
           /\ \A j \in 1..(Len(s) - 1) : RemoveAt(s, i)[j] = IF j < i THEN s[j] ELSE s[j + 1]
<1> DEFINE front == SubSeq(s, 1, i - 1)
           back  == SubSeq(s, i + 1, Len(s))
<1>1. /\ front \in Seq(S) /\ Len(front) = i - 1
      /\ \A j \in 1..(i - 1) : front[j] = s[j]
  BY SubSeqProperties
<1>2. /\ back \in Seq(S) /\ Len(back) = Len(s) - i
      /\ \A j \in 1..(Len(s) - i) : back[j] = s[i + j]
  <2>1. i + 1 \in Int /\ Len(s) \in Int /\ \A j \in (i + 1)..Len(s) : s[j] \in S
    OBVIOUS
  <2> QED BY <2>1, SubSeqProperties
<1> HIDE DEF front, back
<1>3. RemoveAt(s, i) = front \o back
  BY DEF RemoveAt, front, back
<1>4. /\ front \o back \in Seq(S) /\ Len(front \o back) = Len(front) + Len(back)
      /\ \A j \in 1..(Len(front) + Len(back)) : (front \o back)[j] =
            IF j <= Len(front) THEN front[j] ELSE back[j - Len(front)]
  BY <1>1, <1>2, ConcatProperties
<1>5. ASSUME NEW j \in 1..(Len(s) - 1), j >= i
      PROVE  back[j - (i - 1)] = s[j + 1]
  <2>1. j - (i - 1) \in 1..(Len(s) - i) /\ i + (j - (i - 1)) = j + 1
    BY <1>5
  <2> QED BY <2>1, <1>2
<1> QED BY <1>1, <1>2, <1>3, <1>4, <1>5

----------------------------------------------------------------------------
LEMMA CountInvInit == Init => CountInv
<1> SUFFICES ASSUME Init PROVE CountInv
  OBVIOUS
<1>1. CountTypes
  BY DEF Init, CountTypes, Idle
<1>2. \A b \in Book : cells[b] = <<>> /\ DOMAIN cells[b] = {}
  BY DEF Init
<1>3. \A b \in Book : \A k \in Cell : ~In(b, k)
  BY <1>2 DEF In
<1> QED BY <1>1, <1>2, <1>3 DEF CountInv, Placed, Counted

\* A step that adds no cell and counts none.
LEMMA FewerKeep ==
    ASSUME CountInv, CountTypes', UNCHANGED count,
           \A b \in Book : \A i, j \in DOMAIN cells'[b] : cells'[b][i] = cells'[b][j] => i = j,
           \A b \in Book : \A k \in Cell : In(b, k)' => In(b, k) /\ counter[b] <= counter'[b]
    PROVE  CountInv'
<1>1. Placed'
  BY DEF CountInv, Placed
<1>2. ASSUME NEW b \in Book, NEW k \in Cell, In(b, k)'
      PROVE  count[k] <= counter'[b]
  <2>1. In(b, k) /\ counter[b] <= counter'[b]
    BY <1>2
  <2>2. count[k] <= counter[b] /\ count[k] \in Nat /\ counter[b] \in Nat /\ counter'[b] \in Nat
    BY <2>1 DEF CountInv, CountTypes, Counted, Placed
  <2> QED BY <2>1, <2>2
<1>3. Counted'
  BY <1>2 DEF CountInv, Counted
<1> QED BY <1>1, <1>3 DEF CountInv

\* A step that changes neither the lists nor the counts.
LEMMA SameKeep ==
    ASSUME CountInv, UNCHANGED <<cells, counter, count>>,
           \A c \in Call : run'[c].pc # "idle" => run'[c].book \in Book
    PROVE  CountInv'
<1>1. \A b : \A k : In(b, k)' <=> In(b, k)
  BY DEF In
<1>2. CountTypes'
  BY DEF CountInv, CountTypes
<1>3. Placed' /\ Counted'
  BY <1>1 DEF CountInv, Placed, Counted
<1> QED BY <1>2, <1>3 DEF CountInv

LEMMA ResetCounts ==
    ASSUME CountInv, NEW s \in Session, NEW b \in Book, Reset(s, b)
    PROVE  CountInv'
<1>1. UNCHANGED <<count, run>>
  BY DEF Reset
<1>2. \A d \in Book : IF d = b THEN cells'[d] = <<>> /\ counter'[d] = 0
                     ELSE cells'[d] = cells[d] /\ counter'[d] = counter[d]
  BY DEF Reset, CountInv, CountTypes
<1>3. CountTypes'
  BY <1>1 DEF Reset, CountInv, CountTypes
<1>4. \A d \in Book : \A k \in Cell : In(d, k)' => d # b /\ In(d, k)
  BY <1>2 DEF In
<1>5. \A d \in Book : \A k \in Cell : In(d, k)' => In(d, k) /\ counter[d] <= counter'[d]
  BY <1>2, <1>4 DEF CountInv, CountTypes
<1>6. \A d \in Book : \A i, j \in DOMAIN cells'[d] : cells'[d][i] = cells'[d][j] => i = j
  BY <1>2 DEF CountInv, Placed
<1> QED BY <1>1, <1>3, <1>5, <1>6, FewerKeep

LEMMA DeleteCellCounts ==
    ASSUME CountInv, NEW s \in Session, NEW b \in Book, NEW i \in DOMAIN cells[b],
           DeleteCell(s, b, i)
    PROVE  CountInv'
<1>1. UNCHANGED <<count, counter, run>> /\ cells' = [cells EXCEPT ![b] = RemoveAt(@, i)]
  BY DEF DeleteCell
<1>2. cells[b] \in Seq(Cell) /\ i \in 1..Len(cells[b])
  BY DEF CountInv, CountTypes
<1>3. /\ RemoveAt(cells[b], i) \in Seq(Cell)
      /\ Len(RemoveAt(cells[b], i)) = Len(cells[b]) - 1
      /\ \A j \in 1..(Len(cells[b]) - 1) :
           RemoveAt(cells[b], i)[j] = IF j < i THEN cells[b][j] ELSE cells[b][j + 1]
  BY <1>2, Removed
<1>4. CountTypes'
  BY <1>1, <1>3 DEF CountInv, CountTypes
<1>5. cells'[b] = RemoveAt(cells[b], i) /\ \A d \in Book : d # b => cells'[d] = cells[d]
  BY <1>1 DEF CountInv, CountTypes
<1>6. DOMAIN cells'[b] = 1..(Len(cells[b]) - 1) /\ DOMAIN cells[b] = 1..Len(cells[b])
  BY <1>2, <1>3, <1>5
<1>7. \A j \in DOMAIN cells'[b] :
         /\ j \in DOMAIN cells[b] /\ j + 1 \in DOMAIN cells[b]
         /\ cells'[b][j] = IF j < i THEN cells[b][j] ELSE cells[b][j + 1]
  BY <1>2, <1>3, <1>5, <1>6
<1>8. \A d \in Book : \A j, l \in DOMAIN cells'[d] : cells'[d][j] = cells'[d][l] => j = l
  <2>1. \A j, l \in DOMAIN cells[b] : cells[b][j] = cells[b][l] => j = l
    BY DEF CountInv, Placed
  <2>2. \A j, l \in DOMAIN cells'[b] : cells'[b][j] = cells'[b][l] => j = l
    <3> DEFINE old(j) == IF j < i THEN j ELSE j + 1
    <3>1. \A j \in DOMAIN cells'[b] : old(j) \in DOMAIN cells[b] /\ cells'[b][j] = cells[b][old(j)]
      BY <1>7
    <3>2. \A j, l \in DOMAIN cells'[b] : old(j) = old(l) => j = l
      BY <1>2, <1>6
    <3> HIDE DEF old
    <3> QED BY <2>1, <3>1, <3>2
  <2> QED BY <2>2, <1>5 DEF CountInv, Placed
<1>9. \A d \in Book : \A k \in Cell : In(d, k)' => In(d, k)
  BY <1>5, <1>7 DEF In
<1>10. \A d \in Book : counter[d] <= counter'[d]
  BY <1>1 DEF CountInv, CountTypes
<1> QED BY <1>1, <1>4, <1>8, <1>9, <1>10, FewerKeep

\* A new cell is in no list yet, and has no count.
LEMMA AddCellCounts ==
    ASSUME CountInv, NEW s \in Session, NEW b \in Book, NEW i \in 1..(Len(cells[b]) + 1),
           NEW k \in Cell, AddCell(s, b, i, k)
    PROVE  CountInv'
<1>1. /\ count[k] = None /\ count' = [count EXCEPT ![k] = 0] /\ UNCHANGED <<counter, run>>
      /\ cells' = [cells EXCEPT ![b] = InsertAt(@, i, k)]
  BY DEF AddCell
<1>2. cells[b] \in Seq(Cell)
  BY DEF CountInv, CountTypes
<1>3. /\ InsertAt(cells[b], i, k) \in Seq(Cell)
      /\ Len(InsertAt(cells[b], i, k)) = Len(cells[b]) + 1
      /\ \A j \in 1..(i - 1) : InsertAt(cells[b], i, k)[j] = cells[b][j]
      /\ InsertAt(cells[b], i, k)[i] = k
      /\ \A j \in (i + 1)..(Len(cells[b]) + 1) : InsertAt(cells[b], i, k)[j] = cells[b][j - 1]
  <2> DEFINE q == cells[b]
  <2>1. q \in Seq(Cell) /\ i \in 1..(Len(q) + 1)
    BY <1>2
  <2> HIDE DEF q
  <2>2. /\ InsertAt(q, i, k) \in Seq(Cell)
        /\ Len(InsertAt(q, i, k)) = Len(q) + 1
        /\ \A j \in 1..(i - 1) : InsertAt(q, i, k)[j] = q[j]
        /\ InsertAt(q, i, k)[i] = k
        /\ \A j \in (i + 1)..(Len(q) + 1) : InsertAt(q, i, k)[j] = q[j - 1]
    BY ONLY <2>1, k \in Cell, Inserted
  <2> QED BY ONLY <2>2 DEF q
<1>4. CountTypes'
  BY <1>1, <1>3 DEF CountInv, CountTypes
<1>5. cells'[b] = InsertAt(cells[b], i, k) /\ \A d \in Book : d # b => cells'[d] = cells[d]
  BY <1>1 DEF CountInv, CountTypes
<1>6. DOMAIN cells'[b] = 1..(Len(cells[b]) + 1) /\ DOMAIN cells[b] = 1..Len(cells[b])
  BY <1>2, <1>3, <1>5
<1>7. \A j \in DOMAIN cells'[b] :
         /\ j < i => j \in DOMAIN cells[b] /\ cells'[b][j] = cells[b][j]
         /\ j = i => cells'[b][j] = k
         /\ j > i => j - 1 \in DOMAIN cells[b] /\ cells'[b][j] = cells[b][j - 1]
  <2> SUFFICES ASSUME NEW j \in DOMAIN cells'[b]
               PROVE  /\ j < i => j \in DOMAIN cells[b] /\ cells'[b][j] = cells[b][j]
                      /\ j = i => cells'[b][j] = k
                      /\ j > i => j - 1 \in DOMAIN cells[b] /\ cells'[b][j] = cells[b][j - 1]
    OBVIOUS
  <2>1. Len(cells[b]) \in Nat /\ j \in 1..(Len(cells[b]) + 1)
    BY <1>2, <1>6
  <2>2. CASE j < i
    BY <2>1, <2>2, <1>3, <1>5, <1>6
  <2>3. CASE j = i
    BY <2>3, <1>3, <1>5
  <2>4. CASE j > i
    BY <2>1, <2>4, <1>3, <1>5, <1>6
  <2> QED BY <2>2, <2>3, <2>4
<1>8. \A d \in Book : ~In(d, k)
  BY <1>1 DEF CountInv, Placed
<1>9. \A d \in Book : \A m \in Cell : In(d, m)' => In(d, m) \/ (d = b /\ m = k)
  <2>1. \A m \in Cell : In(b, m)' => In(b, m) \/ m = k
    BY <1>6, <1>7 DEF In
  <2> QED BY <2>1, <1>5 DEF In
<1>10. \A d \in Book : \A j, l \in DOMAIN cells'[d] : cells'[d][j] = cells'[d][l] => j = l
  <2>1. \A j, l \in DOMAIN cells[b] : cells[b][j] = cells[b][l] => j = l
    BY DEF CountInv, Placed
  <2>2. \A j \in DOMAIN cells[b] : cells[b][j] # k
    BY <1>8 DEF In
  <2>3. ASSUME NEW j \in DOMAIN cells'[b], NEW l \in DOMAIN cells'[b],
               cells'[b][j] = cells'[b][l]
        PROVE  j = l
    <3>1. j \in Int /\ l \in Int /\ i \in Int
      BY <1>6
    <3>2. j = i <=> l = i
      BY <2>2, <2>3, <3>1, <1>7
    <3>3. CASE j < i /\ l < i
      BY <2>1, <2>3, <3>3, <1>7
    <3>4. CASE j > i /\ l > i
      BY <2>1, <2>3, <3>1, <3>4, <1>7
    <3>5. CASE j < i /\ l > i
      BY <2>1, <2>3, <3>1, <3>5, <1>7
    <3>6. CASE j > i /\ l < i
      BY <2>1, <2>3, <3>1, <3>6, <1>7
    <3> QED BY <3>1, <3>2, <3>3, <3>4, <3>5, <3>6
  <2> QED BY <2>3, <1>5 DEF CountInv, Placed
<1>11. count'[k] = 0 /\ \A m \in Cell : m # k => count'[m] = count[m]
  BY <1>1 DEF CountInv, CountTypes
<1>12. Placed'
  BY <1>8, <1>9, <1>10, <1>11, NotebookAssumption DEF CountInv, Placed
<1>13. Counted'
  <2> SUFFICES ASSUME NEW d \in Book, NEW m \in Cell, In(d, m)'
               PROVE  /\ count'[m] <= counter'[d]
                      /\ \A n \in Cell : In(d, n)' /\ count'[n] = count'[m]
                                           => n = m \/ count'[m] = 0
    BY DEF Counted
  <2>1. CASE m = k
    BY <2>1, <1>1, <1>11 DEF CountInv, CountTypes
  <2>2. CASE m # k
    BY <2>2, <1>1, <1>9, <1>11 DEF CountInv, Counted
  <2> QED BY <2>1, <2>2
<1> QED BY <1>4, <1>12, <1>13 DEF CountInv

\* A cell that is run gets a count above all others.
LEMMA CountCounts ==
    ASSUME CountInv, NInv, NEW c \in Call, NEW b \in Book, NEW i \in DOMAIN cells[b], NEW n,
           Count(c, b, i, n), UNCHANGED cells
    PROVE  CountInv'
<1> DEFINE k == cells[b][i]
<1>1. k \in Cell /\ In(b, k)
  BY DEF CountInv, CountTypes, In
<1> HIDE DEF k
<1>2. /\ counter' = [counter EXCEPT ![b] = @ + 1]
      /\ count' = [count EXCEPT ![k] = counter'[b]]
  BY DEF Count, k
<1>3. /\ counter[b] \in Nat /\ counter'[b] = counter[b] + 1
      /\ \A d \in Book : d # b => counter'[d] = counter[d]
      /\ count'[k] = counter[b] + 1
      /\ \A m \in Cell : m # k => count'[m] = count[m]
  BY <1>1, <1>2 DEF CountInv, CountTypes
<1>4. \A d \in Call : run'[d].pc # "idle" => run'[d].book \in Book
  BY DEF Count, NInv, RunShape, CountInv, CountTypes, Idle
<1>5. CountTypes'
  BY <1>1, <1>2, <1>3, <1>4 DEF CountInv, CountTypes
<1>6. \A d : \A m : In(d, m)' <=> In(d, m)
  BY DEF In
<1>7. Placed'
  BY <1>3, <1>6, NotebookAssumption DEF CountInv, Placed
<1>8. \A d \in Book : \A m \in Cell : In(d, m) =>
          count[m] \in Nat /\ counter[d] \in Nat /\ count[m] <= counter[d]
  BY DEF CountInv, CountTypes, Placed, Counted
<1>9. Counted'
  <2> SUFFICES ASSUME NEW d \in Book, NEW m \in Cell, In(d, m)
               PROVE  /\ count'[m] <= counter'[d]
                      /\ \A l \in Cell : In(d, l) /\ count'[l] = count'[m]
                                           => l = m \/ count'[m] = 0
    BY <1>6 DEF Counted
  <2>1. CASE d = b
    BY <2>1, <1>3, <1>8 DEF CountInv, Counted
  <2>2. CASE d # b
    <3>1. \A l \in Cell : In(d, l) => l # k
      BY <2>2, <1>1 DEF CountInv, Placed
    <3> QED BY <2>2, <3>1, <1>3 DEF CountInv, Counted
  <2> QED BY <2>1, <2>2
<1> QED BY <1>5, <1>7, <1>9 DEF CountInv

\* A thread keeps its notebook until it is idle.
LEMMA KeepsBook ==
    ASSUME CountInv, NInv, NEW c \in Call, AskLimit(c) \/ Enter(c) \/ Bind(c) \/ Run(c) \/ Ran(c) \/ Finish(c)
    PROVE  CountInv'
<1>1. UNCHANGED <<cells, counter, count>>
  BY DEF AskLimit, Enter, Bind, Run, Ran, Finish
<1>2. run[c].pc # "idle" /\ RunShape
  BY DEF AskLimit, Enter, Bind, Run, Ran, Finish, NInv
<1>3. \A d \in Call : d # c => run'[d] = run[d]
  BY <1>2 DEF AskLimit, Enter, Bind, Run, Ran, Finish, RunShape
<1>4. run'[c] = Idle \/ run'[c].book = run[c].book
  <2>1. CASE Enter(c)
    BY <2>1, <1>2 DEF Enter, RunShape
  <2>5. CASE AskLimit(c)
    BY <2>5, <1>2 DEF AskLimit, RunShape
  <2>6. CASE Bind(c)
    BY <2>6, <1>2 DEF Bind, RunShape
  <2>2. CASE Run(c)
    BY <2>2, <1>2 DEF Run, RunShape
  <2>3. CASE Ran(c)
    BY <2>3, <1>2 DEF Ran, RunShape
  <2>4. CASE Finish(c)
    BY <2>4, <1>2 DEF Finish, RunShape
  <2> QED BY <2>1, <2>2, <2>3, <2>4, <2>5, <2>6
<1>5. \A d \in Call : run[d].pc # "idle" => run[d].book \in Book
  BY DEF CountInv, CountTypes
<1>6. run'[c].pc # "idle" => run'[c].book \in Book
  <2>1. CASE run'[c] = Idle
    BY <2>1 DEF Idle
  <2>2. CASE run'[c].book = run[c].book
    BY <2>2, <1>2, <1>5
  <2> QED BY <2>1, <2>2, <1>4
<1>7. \A d \in Call : run'[d].pc # "idle" => run'[d].book \in Book
  BY <1>3, <1>5, <1>6
<1> QED BY <1>1, <1>7, SameKeep

LEMMA ContinueCounts ==
    ASSUME CountInv, NInv, NEW c \in Call, Continue(c)
    PROVE  CountInv'
<1>1. run[c].book \in Book
  BY DEF Continue, CountInv, CountTypes
<1>2. CASE run[c].at + 1 \in DOMAIN cells[run[c].book]
  BY <1>1, <1>2, CountCounts DEF Continue
<1>3. CASE run[c].at + 1 \notin DOMAIN cells[run[c].book]
  <2>1. UNCHANGED <<cells, counter, count>>
    BY <1>3 DEF Continue
  <2>2. /\ \A d \in Call : d # c => run'[d] = run[d]
        /\ run'[c] = Idle \/ run'[c].book = run[c].book
    BY <1>3 DEF Continue, NInv, RunShape
  <2>3. \A d \in Call : run'[d].pc # "idle" => run'[d].book \in Book
    BY <1>1, <2>2 DEF CountInv, CountTypes, Idle
  <2> QED BY <2>1, <2>3, SameKeep
<1> QED BY <1>2, <1>3

LEMMA CountInvStep == CountInv /\ NInv /\ [Next]_vars => CountInv'
<1> SUFFICES ASSUME CountInv, NInv, [Next]_vars PROVE CountInv'
  OBVIOUS
<1>1. UNCHANGED <<cells, counter, count, run>> => CountInv'
  BY SameKeep DEF CountInv, CountTypes
<1>2. CASE UNCHANGED vars
  BY <1>1, <1>2 DEF vars
<1>3. ASSUME NEW s \in Session, NEW b \in Book, Tool(s, b) PROVE CountInv'
  <2>1. CASE Look(s, b)
    BY <2>1, <1>1 DEF Look
  <2>2. CASE Reset(s, b)
    BY <2>2, ResetCounts
  <2>3. CASE \E i \in DOMAIN cells[b] : DeleteCell(s, b, i)
    BY <2>3, DeleteCellCounts
  <2>4. CASE \E i \in 1..(Len(cells[b]) + 1), k \in Cell : AddCell(s, b, i, k)
    BY <2>4, AddCellCounts
  <2> QED BY <1>3, <2>1, <2>2, <2>3, <2>4 DEF Tool
<1>4. CASE \E s \in Session, b \in Book : Release(s, b)
  BY <1>4, <1>1 DEF Release
<1>5. ASSUME NEW c \in Call, Execution(c) PROVE CountInv'
  <2>1. CASE \E s \in Session, b \in Book : \E i, n \in DOMAIN cells[b] : Begin(c, s, b, i, n)
    <3>1. PICK s \in Session, b \in Book : \E i, n \in DOMAIN cells[b] : Begin(c, s, b, i, n)
      BY <2>1
    <3>2. PICK i \in DOMAIN cells[b], n \in DOMAIN cells[b] : Begin(c, s, b, i, n)
      BY <3>1
    <3>3. Count(c, b, i, n) /\ UNCHANGED cells
      BY <3>2 DEF Begin
    <3> QED BY <3>3, CountCounts
  <2>2. CASE Continue(c)
    BY <2>2, ContinueCounts
  <2>3. CASE AskLimit(c) \/ Enter(c) \/ Bind(c) \/ Run(c) \/ Ran(c) \/ Finish(c)
    BY <2>3, KeepsBook
  <2> QED BY <1>5, <2>1, <2>2, <2>3 DEF Execution
<1> QED BY <1>2, <1>3, <1>4, <1>5 DEF Next

\* Two cells of a notebook that were run never show the same execution count, whatever is
\* inserted, deleted, reset and run at once, for any number of notebooks and cells.
THEOREM CountsStayApart == Spec => []CountsDiffer
<1>1. CountInv => CountsDiffer
  <2> SUFFICES ASSUME CountInv, NEW b \in Book, NEW i \in DOMAIN cells[b],
                      NEW j \in DOMAIN cells[b], count[cells[b][i]] = count[cells[b][j]],
                      count[cells[b][i]] # 0
               PROVE  i = j
    BY DEF CountsDiffer
  <2>1. cells[b][i] \in Cell /\ cells[b][j] \in Cell /\ In(b, cells[b][i]) /\ In(b, cells[b][j])
    BY DEF CountInv, CountTypes, In
  <2>2. cells[b][i] = cells[b][j]
    BY <2>1 DEF CountInv, Counted
  <2> QED BY <2>2 DEF CountInv, Placed
<1> QED BY <1>1, CountInvInit, CountInvStep, NInvHolds, PTL DEF Spec

----------------------------------------------------------------------------
\* The table of notebooks: one for each session in it.
OneEach ==
    /\ table \in Seq(Book) /\ Len(table) <= Limit
    /\ owner \in [Book -> Session \cup {None}]
    /\ \A i \in DOMAIN table : owner[table[i]] \in Session
    /\ \A i, j \in DOMAIN table : owner[table[i]] = owner[table[j]] => i = j
    /\ since \in [Session -> SUBSET Session]
    /\ \A s \in Session : s \notin since[s] => IsFiniteSet(since[s])

\* The notebooks behind a session's own in the table were used since.
Behind(s, i) ==
    /\ owner[table[i]] = s
    /\ \A j \in DOMAIN table : j > i => owner[table[j]] \in since[s]

\* A session that used its notebook has it, with those that used theirs since behind it,
\* or there were too many of those.
Recent ==
    \A s \in Session : s \notin since[s] =>
        (\E i \in DOMAIN table : Behind(s, i)) \/ Cardinality(since[s]) >= Limit

TableInv == OneEach /\ Recent

\* What RemoveFirst leaves of a list without repetitions: all but the one place.
LEMMA RemovedFirst ==
    ASSUME NEW S, NEW t \in Seq(S), NEW p \in 1..Len(t),
           \A j \in 1..Len(t) : t[j] = t[p] => j = p
    PROVE  RemoveFirst(t, t[p]) = RemoveAt(t, p)
<1> DEFINE I == {j \in 1..Len(t) : t[j] = t[p]}
<1>1. I = {p}
  OBVIOUS
<1>2. SelectInSeq(t, LAMBDA v : v = t[p]) = p
  BY <1>1 DEF SelectInSeq, Min
<1> QED BY <1>2 DEF RemoveFirst

LEMMA Earlier ==
    ASSUME NEW n \in Nat
    PROVE  \A j \in 1..n : j # n => j \in 1..(n - 1)
OBVIOUS

\* The table after a use: the user's notebook is last, before it what is kept, in its order;
\* lost is at most the first, when the table is full.
Reshaped(s, b, old) ==
    /\ table' \in Seq(Book) /\ Len(table') \in 1..Limit
    /\ owner' \in [Book -> Session \cup {None}]
    /\ table'[Len(table')] = b /\ owner'[b] = s
    /\ \A j \in 1..(Len(table') - 1) :
         /\ old[j] \in DOMAIN table /\ table'[j] = table[old[j]]
         /\ owner'[table'[j]] = owner[table[old[j]]] /\ owner'[table'[j]] # s
    /\ \A j, k \in 1..(Len(table') - 1) : j < k => old[j] < old[k]
    /\ \A i \in DOMAIN table :
         \/ \E j \in 1..(Len(table') - 1) : old[j] = i
         \/ owner[table[i]] = s
         \/ i = 1 /\ Len(table') = Limit /\ \A k \in DOMAIN table : owner[table[k]] # s

LEMMA FoundShape ==
    ASSUME OneEach, NEW s \in Session, NEW b \in Book, Found(s, b)
    PROVE  \E old : Reshaped(s, b, old)
<1>1. PICK p \in 1..Len(table) : table[p] = b /\ owner[b] = s
  <2>1. b \in ToSet(table) /\ owner[b] = s
    BY Zenon DEF Found, Kept
  <2>2. DOMAIN table = 1..Len(table)
    BY DEF OneEach
  <2>3. \E p \in DOMAIN table : table[p] = b
    BY <2>1, Zenon DEF ToSet
  <2> QED BY ONLY <2>1, <2>2, <2>3
<1>2. table \in Seq(Book) /\ Len(table) \in Nat /\ Len(table) <= Limit /\ Limit \in Nat
      /\ DOMAIN table = 1..Len(table)
  BY NotebookAssumption DEF OneEach
<1>3. \A j \in 1..Len(table) : owner[table[j]] = s => j = p
  BY <1>1, <1>2 DEF OneEach
<1>4. RemoveFirst(table, b) = RemoveAt(table, p)
  <2>1. \A j \in 1..Len(table) : table[j] = table[p] => j = p
    BY <1>1, <1>3
  <2>2. RemoveFirst(table, table[p]) = RemoveAt(table, p)
    BY ONLY <1>1, <1>2, <2>1, RemovedFirst
  <2> QED BY <1>1, <2>2
<1> DEFINE rest == RemoveAt(table, p)
<1>5. /\ rest \in Seq(Book) /\ Len(rest) = Len(table) - 1
      /\ \A j \in 1..(Len(table) - 1) : rest[j] = IF j < p THEN table[j] ELSE table[j + 1]
  BY <1>1, <1>2, Removed
<1>6. table' = Append(rest, b) /\ owner' = owner
  BY <1>4 DEF Found
<1> HIDE DEF rest
<1>7. /\ table' \in Seq(Book) /\ Len(table') = Len(table) /\ table'[Len(table)] = b
      /\ \A j \in 1..(Len(table) - 1) : table'[j] = rest[j]
  <2>1. /\ Append(rest, b) \in Seq(Book) /\ Len(Append(rest, b)) = Len(rest) + 1
        /\ Append(rest, b)[Len(rest) + 1] = b
        /\ \A j \in 1..Len(rest) : Append(rest, b)[j] = rest[j]
    BY <1>5, AppendProperties
  <2>2. Len(rest) = Len(table) - 1 /\ Len(rest) + 1 = Len(table)
    BY ONLY <1>2, <1>5
  <2> QED BY ONLY <1>6, <2>1, <2>2
<1> DEFINE old == [j \in 1..(Len(table) - 1) |-> IF j < p THEN j ELSE j + 1]
<1>8. \A j \in 1..(Len(table) - 1) : /\ old[j] \in 1..Len(table) /\ old[j] # p
                                     /\ table'[j] = table[old[j]]
  BY <1>1, <1>2, <1>5, <1>7
<1>9. \A j, k \in 1..(Len(table) - 1) : j < k => old[j] < old[k]
  BY <1>1, <1>2
<1>10. \A i \in 1..Len(table) : i # p => \E j \in 1..(Len(table) - 1) : old[j] = i
  <2> SUFFICES ASSUME NEW i \in 1..Len(table), i # p
               PROVE  \E j \in 1..(Len(table) - 1) : old[j] = i
    OBVIOUS
  <2>1. CASE i < p
    <3>1. i \in 1..(Len(table) - 1) /\ old[i] = i
      BY <1>1, <1>2, <2>1
    <3> QED BY <3>1
  <2>2. CASE i > p
    <3>1. i - 1 \in 1..(Len(table) - 1) /\ old[i - 1] = i
      BY <1>1, <1>2, <2>2
    <3> QED BY <3>1
  <2> QED BY <2>1, <2>2, <1>2
<1> HIDE DEF old
<1>11. Reshaped(s, b, old)
  <2>1. \A j \in 1..(Len(table) - 1) : owner[table[old[j]]] # s
    BY <1>3, <1>8
  <2>2. owner \in [Book -> Session \cup {None}]
    BY DEF OneEach
  <2>3. Len(table) \in 1..Limit
    BY ONLY <1>1, <1>2
  <2>4. \A i \in DOMAIN table : owner[table[i]] = s \/ \E j \in 1..(Len(table) - 1) : old[j] = i
    BY ONLY <1>1, <1>2, <1>10
  <2>5. \A j \in 1..(Len(table) - 1) :
          /\ old[j] \in DOMAIN table /\ table'[j] = table[old[j]]
          /\ owner'[table'[j]] = owner[table[old[j]]] /\ owner'[table'[j]] # s
    BY ONLY <2>1, <1>2, <1>6, <1>8
  <2>6. Len(table') = Len(table) /\ table' \in Seq(Book) /\ table'[Len(table)] = b
        /\ owner' \in [Book -> Session \cup {None}] /\ owner'[b] = s
    BY ONLY <1>1, <1>6, <1>7, <2>2
  <2> QED BY ONLY <2>3, <2>4, <2>5, <2>6, <1>9 DEF Reshaped
<1> QED BY <1>11

LEMMA CreatedShape ==
    ASSUME OneEach, NEW s \in Session, NEW b \in Book, Created(s, b)
    PROVE  \E old : Reshaped(s, b, old)
<1>1. table \in Seq(Book) /\ Len(table) \in Nat /\ Len(table) <= Limit /\ Limit \in Nat /\ Limit # 0
      /\ DOMAIN table = 1..Len(table)
  BY NotebookAssumption DEF OneEach
<1>2. \A i \in 1..Len(table) : /\ table[i] # b /\ owner[table[i]] # s
                               /\ owner'[table[i]] = owner[table[i]]
  <2>1. \A i \in 1..Len(table) : table[i] \in Book /\ owner[table[i]] # None
    BY <1>1, NotebookAssumption DEF OneEach
  <2>2. \A i \in 1..Len(table) : table[i] \in ToSet(table)
    BY <1>1 DEF ToSet
  <2> QED BY <2>1, <2>2 DEF Created, Kept, OneEach
<1>3. owner' \in [Book -> Session \cup {None}] /\ owner'[b] = s
  BY DEF Created, OneEach
<1>4. CASE Len(table) < Limit
  <2>1. table' = Append(table, b)
    BY <1>4 DEF Created
  <2>2. /\ table' \in Seq(Book) /\ Len(table') = Len(table) + 1 /\ table'[Len(table) + 1] = b
        /\ \A j \in 1..Len(table) : table'[j] = table[j]
    BY <1>1, <2>1, AppendProperties
  <2> DEFINE old == [j \in 1..Len(table) |-> j]
  <2>3. Reshaped(s, b, old)
    BY <1>1, <1>2, <1>3, <1>4, <2>2 DEF Reshaped
  <2> QED BY <2>3
<1>5. CASE Len(table) = Limit
  <2>1. table' = Append(Tail(table), b) /\ table # <<>>
    BY <1>1, <1>5 DEF Created
  <2>2. /\ Tail(table) \in Seq(Book) /\ Len(Tail(table)) = Len(table) - 1
        /\ \A j \in 1..(Len(table) - 1) : Tail(table)[j] = table[j + 1]
    BY <1>1, <2>1, HeadTailProperties
  <2>3. /\ table' \in Seq(Book) /\ Len(table') = Len(table) /\ table'[Len(table)] = b
        /\ \A j \in 1..(Len(table) - 1) : table'[j] = table[j + 1]
    BY <1>1, <2>1, <2>2, AppendProperties
  <2> DEFINE old == [j \in 1..(Len(table) - 1) |-> j + 1]
  <2>4. \A j \in 1..(Len(table) - 1) : old[j] \in 1..Len(table) /\ table'[j] = table[old[j]]
    BY <1>1, <2>3
  <2>5. \A j, k \in 1..(Len(table) - 1) : j < k => old[j] < old[k]
    BY <1>1
  <2>6. \A i \in 1..Len(table) : i = 1 \/ \E j \in 1..(Len(table) - 1) : old[j] = i
    <3> SUFFICES ASSUME NEW i \in 1..Len(table), i # 1
                 PROVE  \E j \in 1..(Len(table) - 1) : old[j] = i
      OBVIOUS
    <3>1. i - 1 \in 1..(Len(table) - 1) /\ old[i - 1] = i
      BY <1>1
    <3> QED BY <3>1
  <2> HIDE DEF old
  <2>7. Reshaped(s, b, old)
    <3>1. Len(table') \in 1..Limit /\ Len(table') = Limit /\ Len(table) = Limit
      BY ONLY <1>1, <1>5, <2>3
    <3>2. \A j \in 1..(Limit - 1) :
            /\ old[j] \in DOMAIN table /\ table'[j] = table[old[j]]
            /\ owner'[table'[j]] = owner[table[old[j]]] /\ owner'[table'[j]] # s
      BY ONLY <1>1, <1>2, <2>4, <3>1
    <3>3. table' \in Seq(Book) /\ table'[Limit] = b
      BY ONLY <2>3, <3>1
    <3>4. \A i \in DOMAIN table : i = 1 \/ \E j \in 1..(Limit - 1) : old[j] = i
      BY ONLY <1>1, <2>6, <3>1
    <3>5. \A k \in DOMAIN table : owner[table[k]] # s
      BY ONLY <1>1, <1>2
    <3>6. \A j, k \in 1..(Limit - 1) : j < k => old[j] < old[k]
      BY ONLY <2>5, <3>1
    <3> QED BY ONLY <1>3, <3>1, <3>2, <3>3, <3>4, <3>5, <3>6 DEF Reshaped
  <2> QED BY <2>7
<1>6. Len(table) < Limit \/ Len(table) = Limit
  <2>1. \A m, n \in Nat : m <= n => m < n \/ m = n
    OBVIOUS
  <2>2. Len(table) \in Nat /\ Limit \in Nat /\ Len(table) <= Limit
    BY <1>1
  <2> QED BY ONLY <2>1, <2>2, Zenon
<1> QED BY <1>4, <1>5, <1>6

LEMMA UseKeepsEach ==
    ASSUME OneEach, NEW s \in Session, NEW b \in Book, NEW old, Reshaped(s, b, old),
           since' = [r \in Session |-> IF r = s THEN {} ELSE since[r] \cup {s}]
    PROVE  OneEach'
<1>1. /\ table' \in Seq(Book) /\ Len(table') \in 1..Limit /\ DOMAIN table' = 1..Len(table')
      /\ DOMAIN table = 1..Len(table) /\ Limit \in Nat
  BY NotebookAssumption DEF Reshaped, OneEach
<1>n. Len(table') \in Nat
  BY ONLY <1>1
<1>2. \A j \in 1..Len(table') : j # Len(table') => j \in 1..(Len(table') - 1)
  BY ONLY <1>n, Earlier
<1>3. \A j \in 1..Len(table') : owner'[table'[j]] \in Session
  <2>1. owner'[table'[Len(table')]] = s
    BY DEF Reshaped
  <2>2. \A j \in 1..(Len(table') - 1) : owner'[table'[j]] \in Session
    <3>1. \A j \in 1..(Len(table') - 1) :
            old[j] \in DOMAIN table /\ owner'[table'[j]] = owner[table[old[j]]]
      BY DEF Reshaped
    <3>2. \A i \in DOMAIN table : owner[table[i]] \in Session
      BY DEF OneEach
    <3> QED BY ONLY <3>1, <3>2
  <2> QED BY <1>2, <2>1, <2>2
<1>4. ASSUME NEW i \in 1..Len(table'), NEW j \in 1..Len(table'),
             owner'[table'[i]] = owner'[table'[j]]
      PROVE  i = j
  <2>1. \A k \in 1..(Len(table') - 1) : owner'[table'[k]] # owner'[table'[Len(table')]]
    BY DEF Reshaped
  <2>2. i = Len(table') <=> j = Len(table')
    BY <1>2, <1>4, <2>1
  <2>3. CASE i # Len(table')
    <3>1. i \in 1..(Len(table') - 1) /\ j \in 1..(Len(table') - 1)
      BY <1>2, <2>2, <2>3
    <3>2. old[i] = old[j]
      BY <1>4, <3>1 DEF Reshaped, OneEach
    <3>3. old[i] \in Nat /\ ~(i < j) /\ ~(j < i)
      BY <1>1, <3>1, <3>2 DEF Reshaped
    <3> QED BY <3>1, <3>3
  <2> QED BY <2>2, <2>3
<1>5. since' \in [Session -> SUBSET Session]
  BY DEF OneEach
<1>6. ASSUME NEW r \in Session, r \notin since'[r] PROVE IsFiniteSet(since'[r])
  <2>1. CASE r = s
    BY <2>1, FS_EmptySet
  <2>2. CASE r # s
    <3>1. since'[r] = since[r] \cup {s} /\ IsFiniteSet(since[r])
      BY <1>6, <2>2 DEF OneEach
    <3> QED BY <3>1, FS_AddElement
  <2> QED BY <2>1, <2>2
<1>7. Len(table') <= Limit
  BY ONLY <1>1
<1>8. owner' \in [Book -> Session \cup {None}]
  BY DEF Reshaped
<1> QED BY ONLY <1>1, <1>3, <1>4, <1>5, <1>6, <1>7, <1>8 DEF OneEach

LEMMA UseKeepsRecent ==
    ASSUME TableInv, NEW s \in Session, NEW b \in Book, NEW old, Reshaped(s, b, old),
           since' = [r \in Session |-> IF r = s THEN {} ELSE since[r] \cup {s}], OneEach'
    PROVE  Recent'
<1> SUFFICES ASSUME NEW r \in Session, r \notin since'[r],
                    ~\E i \in DOMAIN table' : Behind(r, i)'
             PROVE  Cardinality(since'[r]) >= Limit
  BY DEF Recent
<1>1. /\ table' \in Seq(Book) /\ Len(table') \in 1..Limit /\ DOMAIN table' = 1..Len(table')
      /\ table \in Seq(Book) /\ DOMAIN table = 1..Len(table) /\ Limit \in Nat
  BY NotebookAssumption DEF Reshaped, OneEach, TableInv
<1> DEFINE last == Len(table')
<1>n. last \in Nat /\ last \in 1..last /\ \A j \in 1..last : ~(j > last)
  BY ONLY <1>1
<1>2. \A j \in 1..last : j # last => j \in 1..(last - 1)
  BY ONLY <1>n, Earlier
<1>o. \A j \in 1..(last - 1) : j \in 1..last
  BY ONLY <1>n
<1>3. r # s
  <2> SUFFICES ASSUME r = s PROVE FALSE
    OBVIOUS
  <2>1. last \in DOMAIN table' /\ owner'[table'[last]] = r /\ \A j \in DOMAIN table' : ~(j > last)
    BY <1>1, <1>n DEF Reshaped
  <2> QED BY <2>1 DEF Behind
<1>4. since'[r] = since[r] \cup {s} /\ r \notin since[r] /\ since[r] \subseteq Session
      /\ IsFiniteSet(since[r]) /\ IsFiniteSet(since'[r])
  BY <1>3 DEF TableInv, OneEach
<1>5. CASE Cardinality(since[r]) >= Limit
  <2>1. Cardinality(since[r]) <= Cardinality(since'[r])
        /\ Cardinality(since[r]) \in Nat /\ Cardinality(since'[r]) \in Nat
    BY <1>4, FS_Subset, FS_CardinalityType
  <2> QED BY <1>1, <1>5, <2>1
<1>6. CASE \E i \in DOMAIN table : Behind(r, i)
  <2>1. PICK i \in DOMAIN table : Behind(r, i)
    BY <1>6
  \* Who is behind the session's notebook used one since.
  <2>2. \A j \in 1..(last - 1) : old[j] > i => owner'[table'[j]] \in since'[r]
    BY <1>1, <1>4, <2>1 DEF Reshaped, Behind
  <2>3. owner'[table'[last]] \in since'[r]
    BY <1>4 DEF Reshaped
  <2>4. ~\E j \in 1..(last - 1) : old[j] = i
    <3> SUFFICES ASSUME NEW j \in 1..(last - 1), old[j] = i PROVE FALSE
      OBVIOUS
    <3>1. owner'[table'[j]] = r /\ j \in DOMAIN table'
      BY <1>1, <1>o, <2>1 DEF Reshaped, Behind
    <3>2. \A k \in DOMAIN table' : k > j => owner'[table'[k]] \in since'[r]
      <4> SUFFICES ASSUME NEW k \in DOMAIN table', k > j, k # last
                   PROVE  owner'[table'[k]] \in since'[r]
        BY <2>3
      <4>1. k \in 1..(last - 1) /\ old[k] > i
        BY <1>1, <1>2 DEF Reshaped
      <4> QED BY <2>2, <4>1
    <3> QED BY <3>1, <3>2 DEF Behind
  <2>5. i = 1 /\ last = Limit
    BY <1>3, <2>1, <2>4 DEF Reshaped, Behind
  <2>6. \A j \in 1..Limit : owner'[table'[j]] \in since'[r]
    <3>1. \A j \in 1..(last - 1) : old[j] \in 1..Len(table) /\ old[j] # 1
      BY <1>1, <2>4, <2>5 DEF Reshaped
    <3> QED BY <1>1, <1>2, <2>2, <2>3, <2>5, <3>1
  <2> DEFINE f == [j \in 1..Limit |-> owner'[table'[j]]]
  <2>7. f \in [1..Limit -> since'[r]] /\ \A j, k \in 1..Limit : f[j] = f[k] => j = k
    BY <1>1, <2>5, <2>6 DEF OneEach
  <2>8. f \in Injection(1..Limit, since'[r])
    BY <2>7 DEF Injection, IsInjective
  <2>9. Cardinality(1..Limit) = Limit /\ IsFiniteSet(1..Limit)
    BY <1>1, FS_Interval
  <2> QED BY <1>4, <2>8, <2>9, FS_Injection
<1> QED BY <1>4, <1>5, <1>6 DEF TableInv, Recent

LEMMA UseTable ==
    ASSUME TableInv, NEW s \in Session, NEW b \in Book, Use(s, b)
    PROVE  TableInv'
<1>1. PICK old : Reshaped(s, b, old)
  BY FoundShape, CreatedShape DEF Use, TableInv
<1>2. since' = [r \in Session |-> IF r = s THEN {} ELSE since[r] \cup {s}]
  BY DEF Use
<1>3. OneEach'
  BY <1>1, <1>2, UseKeepsEach DEF TableInv
<1>4. Recent'
  BY <1>1, <1>2, <1>3, UseKeepsRecent
<1> QED BY <1>3, <1>4 DEF TableInv

LEMMA ReleaseTable ==
    ASSUME TableInv, NEW s \in Session, NEW b \in Book, Release(s, b)
    PROVE  TableInv'
<1>1. PICK p \in 1..Len(table) : table[p] = b /\ owner[b] = s
  <2>1. b \in ToSet(table) /\ owner[b] = s
    BY Zenon DEF Release, Kept
  <2>2. DOMAIN table = 1..Len(table)
    BY DEF OneEach, TableInv
  <2>3. \E p \in DOMAIN table : table[p] = b
    BY <2>1, Zenon DEF ToSet
  <2> QED BY ONLY <2>1, <2>2, <2>3
<1>2. table \in Seq(Book) /\ Len(table) \in Nat /\ Len(table) <= Limit /\ Limit \in Nat
      /\ DOMAIN table = 1..Len(table)
  BY NotebookAssumption DEF TableInv, OneEach
<1>3. \A j \in 1..Len(table) : owner[table[j]] = s => j = p
  BY <1>1, <1>2 DEF TableInv, OneEach
<1>4. table' = RemoveAt(table, p)
  <2>1. \A j \in 1..Len(table) : table[j] = table[p] => j = p
    BY <1>1, <1>3
  <2>2. RemoveFirst(table, table[p]) = RemoveAt(table, p)
    BY ONLY <1>1, <1>2, <2>1, RemovedFirst
  <2> QED BY <1>1, <2>2 DEF Release
<1>5. /\ table' \in Seq(Book) /\ Len(table') = Len(table) - 1
      /\ \A j \in 1..(Len(table) - 1) : table'[j] = IF j < p THEN table[j] ELSE table[j + 1]
  BY <1>1, <1>2, <1>4, Removed
<1>6. DOMAIN table' = 1..(Len(table) - 1) /\ owner' = owner
      /\ since' = [since EXCEPT ![s] = Session]
  BY <1>5 DEF Release
<1> DEFINE old == [j \in 1..(Len(table) - 1) |-> IF j < p THEN j ELSE j + 1]
<1>7. \A j \in 1..(Len(table) - 1) : old[j] \in 1..Len(table) /\ table'[j] = table[old[j]]
  BY <1>1, <1>2, <1>5
<1>8. \A j, k \in 1..(Len(table) - 1) :
        /\ old[j] = old[k] => j = k
        /\ j > k => old[j] > old[k]
  BY <1>1, <1>2
<1>9. \A i \in 1..Len(table) : i # p => \E j \in 1..(Len(table) - 1) :
          old[j] = i /\ \A k \in 1..(Len(table) - 1) : k > j => old[k] > i
  <2> SUFFICES ASSUME NEW i \in 1..Len(table), i # p
               PROVE  \E j \in 1..(Len(table) - 1) : old[j] = i
    BY <1>8
  <2>1. CASE i < p
    <3>1. i \in 1..(Len(table) - 1) /\ old[i] = i
      BY <1>1, <1>2, <2>1
    <3> QED BY <3>1
  <2>2. CASE i > p
    <3>1. i - 1 \in 1..(Len(table) - 1) /\ old[i - 1] = i
      BY <1>1, <1>2, <2>2
    <3> QED BY <3>1
  <2> QED BY <2>1, <2>2, <1>2
<1> HIDE DEF old
<1>10. OneEach'
  <2>1. \A j \in DOMAIN table' : owner'[table'[j]] \in Session
    BY <1>2, <1>6, <1>7 DEF TableInv, OneEach
  <2>2. \A j, k \in DOMAIN table' : owner'[table'[j]] = owner'[table'[k]] => j = k
    <3>1. \A j, k \in DOMAIN table : owner[table[j]] = owner[table[k]] => j = k
      BY DEF TableInv, OneEach
    <3> QED BY ONLY <3>1, <1>2, <1>6, <1>7, <1>8
  <2>3. since' \in [Session -> SUBSET Session] /\ \A r \in Session : r \notin since'[r] => IsFiniteSet(since'[r])
    BY <1>6 DEF TableInv, OneEach
  <2>4. Len(table') <= Limit
    BY ONLY <1>2, <1>5
  <2> QED BY <1>5, <1>6, <2>1, <2>2, <2>3, <2>4 DEF TableInv, OneEach
<1>11. Recent'
  <2> SUFFICES ASSUME NEW r \in Session, r \notin since'[r], ~(Cardinality(since'[r]) >= Limit)
               PROVE  \E j \in DOMAIN table' : Behind(r, j)'
    BY DEF Recent
  <2>1. r # s /\ since'[r] = since[r]
    BY <1>6 DEF TableInv, OneEach
  <2>2. PICK i \in DOMAIN table : Behind(r, i)
    BY <2>1 DEF TableInv, Recent
  <2>3. PICK j \in 1..(Len(table) - 1) :
          old[j] = i /\ \A k \in 1..(Len(table) - 1) : k > j => old[k] > i
    BY <1>1, <1>2, <1>9, <2>1, <2>2 DEF Behind
  <2>4. Behind(r, j)'
    BY <1>2, <1>6, <1>7, <2>1, <2>2, <2>3 DEF Behind
  <2> QED BY <1>6, <2>4
<1> QED BY <1>10, <1>11 DEF TableInv

LEMMA TableInvInit == Init => TableInv
<1> SUFFICES ASSUME Init PROVE TableInv
  OBVIOUS
<1>1. /\ table = <<>> /\ Len(table) = 0 /\ DOMAIN table = {} /\ table \in Seq(Book)
      /\ owner \in [Book -> Session \cup {None}] /\ 0 <= Limit
      /\ since = [s \in Session |-> Session]
  BY NotebookAssumption DEF Init
<1>2. \A s \in Session : s \in since[s]
  BY <1>1
<1> QED BY <1>1, <1>2 DEF TableInv, OneEach, Recent

LEMMA TableInvStep == TableInv /\ [Next]_vars => TableInv'
<1> SUFFICES ASSUME TableInv, [Next]_vars PROVE TableInv'
  OBVIOUS
<1>1. UNCHANGED books => TableInv'
  BY DEF books, TableInv, OneEach, Recent, Behind
<1>2. CASE UNCHANGED vars
  BY <1>1, <1>2 DEF vars
<1>3. ASSUME NEW s \in Session, NEW b \in Book, Tool(s, b) PROVE TableInv'
  BY <1>3, UseTable DEF Tool, Look, Reset, DeleteCell, AddCell
<1>4. ASSUME NEW s \in Session, NEW b \in Book, Release(s, b) PROVE TableInv'
  BY <1>4, ReleaseTable
<1>5. ASSUME NEW c \in Call, Execution(c) PROVE TableInv'
  <2>1. CASE \E s \in Session, b \in Book : \E i, n \in DOMAIN cells[b] : Begin(c, s, b, i, n)
    <3>1. PICK s \in Session, b \in Book : Use(s, b)
      BY <2>1 DEF Begin
    <3> QED BY <3>1, UseTable
  <2>2. CASE \/ Continue(c) \/ AskLimit(c) \/ Enter(c) \/ Bind(c)
             \/ Run(c) \/ Ran(c) \/ Finish(c)
    BY <1>1, <2>2 DEF Continue, AskLimit, Enter, Bind, Run, Ran, Finish
  <2> QED BY <1>5, <2>1, <2>2 DEF Execution
<1> QED BY <1>2, <1>3, <1>4, <1>5 DEF Next

THEOREM TableInvHolds == Spec => []TableInv
BY TableInvInit, TableInvStep, PTL DEF Spec

\* "Least-recently-used is evicted": a session's notebook stays until Limit others have used
\* theirs or the session is released, for any number of sessions and whatever Limit is.
THEOREM RecentlyUsedStays == Spec => []RecentStays
<1>1. ASSUME TableInv, NEW s \in Session, s \notin since[s], Cardinality(since[s]) < Limit
      PROVE  Kept(s) # {}
  <2>1. Cardinality(since[s]) \in Nat /\ Limit \in Nat
    BY <1>1, FS_CardinalityType, NotebookAssumption DEF TableInv, OneEach
  <2>2. PICK i \in DOMAIN table : Behind(s, i)
    BY <1>1, <2>1 DEF TableInv, Recent
  <2>3. i \in 1..Len(table) /\ owner[table[i]] = s
    BY <2>2 DEF Behind, TableInv, OneEach
  <2> QED BY <2>3 DEF Kept, ToSet
<1>2. TableInv => RecentStays
  BY <1>1 DEF RecentStays
<1> QED BY <1>2, TableInvHolds, PTL

----------------------------------------------------------------------------
\* The other types.
RunTypes == [pc : {"idle", "next", "counted", "begun", "binding", "waiting", "running", "ran"},
             book : Book \cup {None}, at : Nat, upto : Nat,
             wasCapped : BOOLEAN, oldOut : Call \cup {None}]

ProcessTypes ==
    /\ hasShell \in [Book -> BOOLEAN] /\ run \in [Call -> RunTypes]
    /\ userNs \in Book \cup {None} /\ stdout \in Call \cup {None} /\ capped \in BOOLEAN
    /\ runs \in 0..MaxRuns /\ taken \subseteq Call /\ cleared \subseteq Call

LEMMA CountTyped ==
    ASSUME ProcessTypes, CountTypes, NEW c \in Call, NEW b \in Book, NEW i \in DOMAIN cells[b],
           NEW n \in Nat, Count(c, b, i, n)
    PROVE  run' \in [Call -> RunTypes] /\ runs' \in 0..MaxRuns
<1>1. i \in Nat
  BY DEF CountTypes
<1>2. [Idle EXCEPT !.pc = "counted", !.book = b, !.at = i, !.upto = n] \in RunTypes
  BY <1>1 DEF Idle, RunTypes, ProcessTypes
<1>3. run' \in [Call -> RunTypes]
  BY <1>2 DEF Count, ProcessTypes
<1>4. runs' \in 0..MaxRuns
  BY NotebookAssumption DEF Count, ProcessTypes
<1> QED BY <1>3, <1>4

LEMMA ProcessTypesStep == ProcessTypes /\ CountTypes /\ [Next]_vars => ProcessTypes'
<1> SUFFICES ASSUME ProcessTypes, CountTypes, [Next]_vars PROVE ProcessTypes'
  OBVIOUS
<1>1. UNCHANGED <<process, hasShell, run, runs, history>> => ProcessTypes'
  BY DEF ProcessTypes, process, history
<1>2. CASE UNCHANGED vars
  BY <1>1, <1>2 DEF vars
<1>3. ASSUME NEW s \in Session, NEW b \in Book, Tool(s, b) \/ Release(s, b) PROVE ProcessTypes'
  <2>1. CASE Reset(s, b)
    <3>1. /\ UNCHANGED <<stdout, capped, hasShell, run, runs, taken>>
          /\ userNs' = IF userNs = b THEN None ELSE userNs
          /\ cleared' = cleared \cup {c \in Running : run[c].book = b}
      BY <2>1 DEF Reset, NewNamespace
    <3> QED BY <3>1 DEF ProcessTypes, Running
  <2>2. CASE Tool(s, b) /\ ~Reset(s, b)
    BY <2>2, <1>1 DEF Tool, Look, DeleteCell, AddCell
  <2>3. CASE Release(s, b)
    BY <2>3, <1>1 DEF Release
  <2> QED BY <1>3, <2>1, <2>2, <2>3
<1>4. ASSUME NEW c \in Call, Execution(c) PROVE ProcessTypes'
  <2>1. run[c] \in RunTypes /\ run[c].at + 1 \in Nat /\ run[c].upto \in Nat
    BY DEF ProcessTypes, RunTypes
  <2>2. ASSUME NEW s \in Session, NEW b \in Book, NEW i \in DOMAIN cells[b],
               NEW n \in DOMAIN cells[b], Begin(c, s, b, i, n)
        PROVE  ProcessTypes'
    <3>1. n \in Nat
      BY DEF CountTypes
    <3> QED BY <2>2, <3>1, CountTyped DEF Begin, ProcessTypes, process, history
  <2>3. CASE Continue(c)
    <3>1. run[c].book \in Book
      BY <2>3 DEF Continue, CountTypes
    <3>2. CASE run[c].at + 1 \in DOMAIN cells[run[c].book]
      BY <2>1, <2>3, <3>1, <3>2, CountTyped DEF Continue, ProcessTypes, process, history
    <3>3. CASE run[c].at + 1 \notin DOMAIN cells[run[c].book]
      <4>1. Idle \in RunTypes /\ [run[c] EXCEPT !.at = run[c].at + 1] \in RunTypes
        BY <2>1 DEF Idle, RunTypes
      <4>2. run' \in [Call -> RunTypes] /\ runs' = runs
        BY <2>3, <3>3, <4>1 DEF Continue, ProcessTypes
      <4> QED BY <2>3, <4>2 DEF Continue, ProcessTypes, process, history
    <3> QED BY <3>2, <3>3
  <2>4. CASE Enter(c)
    <3>1. /\ [run[c] EXCEPT !.pc = "waiting"] \in RunTypes
          /\ [run[c] EXCEPT !.pc = "binding"] \in RunTypes
      BY <2>1 DEF RunTypes
    <3>2. run' \in [Call -> RunTypes] /\ capped' = TRUE
      BY <2>4, <3>1 DEF Enter, ProcessTypes
    <3>3. UNCHANGED <<userNs, stdout, hasShell, runs, history>>
      BY <2>4 DEF Enter
    <3> QED BY <3>2, <3>3 DEF ProcessTypes, history
  <2>8. CASE AskLimit(c)
    <3>1. [run[c] EXCEPT !.pc = "begun", !.wasCapped = capped] \in RunTypes
      BY <2>1 DEF RunTypes, ProcessTypes
    <3>2. run' = [run EXCEPT ![c] = [run[c] EXCEPT !.pc = "begun", !.wasCapped = capped]]
      BY <2>8, Zenon DEF AskLimit
    <3>3. run' \in [Call -> RunTypes] /\ UNCHANGED <<process, hasShell, runs, history>>
      BY <2>8, <3>1, <3>2 DEF AskLimit, ProcessTypes
    <3> QED BY <3>3 DEF ProcessTypes, process, history
  <2>9. CASE Bind(c)
    <3>1. [run[c] EXCEPT !.pc = "waiting"] \in RunTypes /\ run[c].book \in Book
      BY <2>1, <2>9 DEF Bind, RunTypes, CountTypes
    <3>2. run' \in [Call -> RunTypes] /\ userNs' \in Book
      BY <2>9, <3>1 DEF Bind, ProcessTypes
    <3>3. UNCHANGED <<stdout, capped, runs, cleared>> /\ taken' = Running
      BY <2>9 DEF Bind
    <3>4. hasShell' \in [Book -> BOOLEAN]
      BY <2>9, <3>1 DEF Bind, ProcessTypes
    <3> QED BY <3>2, <3>3, <3>4 DEF ProcessTypes, Running
  <2>5. CASE Run(c)
    <3>1. run[c].book \in Book /\ [run[c] EXCEPT !.pc = "running", !.oldOut = stdout] \in RunTypes
      BY <2>1, <2>5 DEF Run, CountTypes, ProcessTypes, RunTypes
    <3>2. run' = [run EXCEPT ![c] = [run[c] EXCEPT !.pc = "running", !.oldOut = stdout]]
      BY <2>5, Zenon DEF Run
    <3>3. userNs' \in Book \cup {None}
      BY <2>5, <3>1 DEF Run, Bound, ProcessTypes
    <3> QED BY <2>5, <3>1, <3>2, <3>3 DEF Run, ProcessTypes, history
  <2>6. CASE Ran(c)
    <3>1. run[c].oldOut \in Call \cup {None} /\ [run[c] EXCEPT !.pc = "ran"] \in RunTypes
      BY <2>1 DEF RunTypes
    <3> QED BY <2>6, <3>1 DEF Ran, ProcessTypes
  <2>7. CASE Finish(c)
    <3>1. /\ run[c].wasCapped \in BOOLEAN /\ Idle \in RunTypes
          /\ [run[c] EXCEPT !.pc = "next"] \in RunTypes
      BY <2>1 DEF Idle, RunTypes
    <3> QED BY <2>7, <3>1 DEF Finish, ProcessTypes, history
  <2> QED BY <1>4, <2>2, <2>3, <2>4, <2>5, <2>6, <2>7, <2>8, <2>9 DEF Execution
<1> QED BY <1>2, <1>3, <1>4 DEF Next

\* Every variable keeps its type: the table within its limit, lists, counts and runs.
THEOREM TypesHold == Spec => []TypeOK
<1>1. Init => CountInv /\ ProcessTypes
  <2>1. Idle \in RunTypes /\ 0 \in 0..MaxRuns
    BY NotebookAssumption DEF Idle, RunTypes
  <2>2. Init => ProcessTypes
    BY ONLY <2>1 DEF Init, ProcessTypes
  <2> QED BY <2>2, CountInvInit
<1>2. CountInv /\ ProcessTypes /\ NInv /\ [Next]_vars => CountInv' /\ ProcessTypes'
  BY CountInvStep, ProcessTypesStep DEF CountInv
<1>3. CountInv /\ ProcessTypes /\ TableInv => TypeOK
  BY DEF CountInv, CountTypes, ProcessTypes, RunTypes, TableInv, OneEach, TypeOK
<1> QED BY <1>1, <1>2, <1>3, NInvHolds, TableInvHolds, PTL DEF Spec
=============================================================================

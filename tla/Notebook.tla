------------------------------ MODULE Notebook ------------------------------
(***************************************************************************)
(* The notebooks of langstage/tools.py: one NotebookState for each session *)
(* in a table of bounded size, and the cell runs of several sessions at    *)
(* once.  A run takes three things that belong to the whole process: the   *)
(* address-space limit (memory_limit), sys.stdout, and with IPython the    *)
(* namespace of the one InteractiveShell.                                  *)
(*                                                                         *)
(* A tool call that runs no cell is one step: it touches one notebook and  *)
(* waits for nothing.                                                      *)
(***************************************************************************)
EXTENDS Integers, FiniteSets, SequencesExt

CONSTANTS
    Session,        \* thread ids of agent runs
    Book,           \* NotebookState objects; bound: each is created once
    Cell,           \* cells; bound: each is created once
    Call,           \* worker threads that run cells
    Limit,          \* _MAX_SESSION_NOTEBOOKS
    MaxRuns,        \* bound: executions of cells
    HasIPython,     \* whether IPython is installed
    None

ASSUME NotebookAssumption ==
    /\ Limit \in Nat \ {0} /\ MaxRuns \in Nat
    /\ HasIPython \in BOOLEAN
    /\ None \notin Session \cup Book \cup Cell \cup Call \cup Nat

VARIABLES
    table,          \* _session_notebook_states: the notebooks kept, least recently used first
    owner,          \* the session of each notebook, None before it is created
    cells,          \* each notebook's _cells
    counter,        \* its _execution_count
    hasShell,       \* whether its _ipython_shell is set
    count,          \* each cell's execution_count, 0 until it is run; None before it is created
    run,            \* each thread's execute_cell or execute_all
    userNs,         \* the notebook whose namespace the shell has, None if it is no notebook's
    stdout,         \* the thread whose buffer sys.stdout is, None if the process's own
    capped,         \* whether the soft limit is memory_limit's, not the process's own
    runs,           \* executions so far (bounded)
    since,          \* history: who used a notebook since this session did
    taken,          \* history: the running cells from which a first run took the shell
    cleared         \* history: the running cells whose notebook was reset as they ran

books   == <<table, owner, since>>
process == <<userNs, stdout, capped>>
history == <<taken, cleared>>
vars == <<books, process, cells, counter, hasShell, count, run, runs, history>>

Idle == [pc |-> "idle", book |-> None, at |-> 0, upto |-> 0,
         wasCapped |-> FALSE, oldOut |-> None]

TypeOK ==
    /\ table \in Seq(Book) /\ Len(table) <= Limit
    /\ owner \in [Book -> Session \cup {None}]
    /\ cells \in [Book -> Seq(Cell)]
    /\ counter \in [Book -> Nat]
    /\ hasShell \in [Book -> BOOLEAN]
    /\ count \in [Cell -> Nat \cup {None}]
    /\ run \in [Call -> [pc : {"idle", "next", "counted", "begun", "binding", "waiting",
                               "running", "ran"},
                         book : Book \cup {None}, at : Nat, upto : Nat,
                         wasCapped : BOOLEAN, oldOut : Call \cup {None}]]
    /\ userNs \in Book \cup {None} /\ stdout \in Call \cup {None} /\ capped \in BOOLEAN
    /\ runs \in 0..MaxRuns
    /\ since \in [Session -> SUBSET Session]
    /\ taken \subseteq Call /\ cleared \subseteq Call

Running == {c \in Call : run[c].pc = "running"}

Init ==
    /\ table = <<>> /\ owner = [b \in Book |-> None]
    /\ cells = [b \in Book |-> <<>>] /\ counter = [b \in Book |-> 0]
    /\ hasShell = [b \in Book |-> FALSE]
    /\ count = [k \in Cell |-> None]
    /\ run = [c \in Call |-> Idle]
    /\ userNs = None /\ stdout = None /\ capped = FALSE
    /\ runs = 0
    /\ since = [s \in Session |-> Session]
    /\ taken = {} /\ cleared = {}

----------------------------------------------------------------------------
\* The table, under _session_notebook_lock.

Kept(s) == {b \in ToSet(table) : owner[b] = s}

\* Mutant: the limit is off by one.
CreatedOver(s, b) ==
    /\ Kept(s) = {} /\ owner[b] = None
    /\ owner' = [owner EXCEPT ![b] = s]
    /\ table' = Append(IF Len(table) <= Limit THEN table ELSE Tail(table), b)

\* A session without a notebook gets a new one; over the limit the first is dropped.
Created(s, b) ==
    /\ Kept(s) = {} /\ owner[b] = None
    /\ owner' = [owner EXCEPT ![b] = s]
    /\ table' = Append(IF Len(table) < Limit THEN table ELSE Tail(table), b)

\* Mutant: a notebook that is used again keeps its place.
FoundInPlace(s, b) == b \in Kept(s) /\ UNCHANGED <<table, owner>>

\* The session's notebook moves to the end.
Found(s, b) ==
    /\ b \in Kept(s)
    /\ table' = Append(RemoveFirst(table, b), b) /\ UNCHANGED owner

\* get_notebook_state.
Use(s, b) ==
    /\ Found(s, b) \/ Created(s, b)
    /\ since' = [r \in Session |-> IF r = s THEN {} ELSE since[r] \cup {s}]

\* release_notebook_state, when the session is deleted or reaped.
Release(s, b) ==
    /\ b \in Kept(s)
    /\ table' = RemoveFirst(table, b)
    /\ since' = [since EXCEPT ![s] = Session]
    /\ UNCHANGED <<owner, process, cells, counter, hasShell, count, run, runs, history>>

----------------------------------------------------------------------------
\* The tools that run no cell.

\* insert_cell; create_cell at the end.
AddCell(s, b, i, k) ==
    /\ Use(s, b)
    /\ count[k] = None
    /\ cells' = [cells EXCEPT ![b] = InsertAt(@, i, k)]
    /\ count' = [count EXCEPT ![k] = 0]
    /\ UNCHANGED <<process, counter, hasShell, run, runs, history>>

DeleteCell(s, b, i) ==
    /\ Use(s, b)
    /\ cells' = [cells EXCEPT ![b] = RemoveAt(@, i)]
    /\ UNCHANGED <<process, counter, hasShell, count, run, runs, history>>

\* modify_cell, which leaves the count; get_script and get_variables; an index out of range.
Look(s, b) ==
    /\ Use(s, b)
    /\ UNCHANGED <<process, cells, counter, hasShell, count, run, runs, history>>

\* The notebook gets a new namespace: the shell, and with it a cell that runs, keeps the old.
NewNamespace(b) ==
    /\ userNs' = IF userNs = b THEN None ELSE userNs
    /\ cleared' = cleared \cup {c \in Running : run[c].book = b}

\* Mutant: the cells stay.
ResetCounter(s, b) ==
    /\ Use(s, b)
    /\ NewNamespace(b)
    /\ counter' = [counter EXCEPT ![b] = 0]
    /\ UNCHANGED <<stdout, capped, cells, hasShell, count, run, runs, taken>>

\* The cells, the variables and the counter.
Reset(s, b) ==
    /\ Use(s, b)
    /\ NewNamespace(b)
    /\ cells' = [cells EXCEPT ![b] = <<>>]
    /\ counter' = [counter EXCEPT ![b] = 0]
    /\ UNCHANGED <<stdout, capped, hasShell, count, run, runs, taken>>

----------------------------------------------------------------------------
\* A thread runs the i-th cell of notebook b, and in execute_all the next ones up to
\* the n-th.  It keeps its notebook when that leaves the table.

\* The cell is counted.  (Its output shows the counter read once more, after this step.)
Count(c, b, i, n) ==
    /\ runs < MaxRuns /\ runs' = runs + 1
    /\ counter' = [counter EXCEPT ![b] = @ + 1]
    /\ count' = [count EXCEPT ![cells[b][i]] = counter'[b]]
    /\ run' = [run EXCEPT ![c] = [Idle EXCEPT !.pc = "counted", !.book = b, !.at = i, !.upto = n]]

Begin(c, s, b, i, n) ==
    /\ run[c] = Idle /\ Use(s, b)
    /\ (n = i \/ (i = 1 /\ n = Len(cells[b])))
    /\ Count(c, b, i, n)
    /\ UNCHANGED <<process, cells, hasShell, history>>

\* execute_all goes on; a cell that is gone by now is an error in its place.
Continue(c) ==
    /\ run[c].pc = "next"
    /\ LET i == run[c].at + 1
       IN IF i \in DOMAIN cells[run[c].book]
          THEN Count(c, run[c].book, i, run[c].upto)
          ELSE /\ run' = [run EXCEPT ![c] = IF i = @.upto THEN Idle ELSE [@ EXCEPT !.at = i]]
               /\ UNCHANGED <<runs, counter, count>>
    /\ UNCHANGED <<books, process, cells, hasShell, history>>

\* memory_limit asks for the present limit.
AskLimit(c) ==
    /\ run[c].pc = "counted"
    /\ run' = [run EXCEPT ![c].pc = "begun", ![c].wasCapped = capped]
    /\ UNCHANGED <<books, process, cells, counter, hasShell, count, runs, history>>

\* It sets its own, and _get_ipython looks whether the notebook has the shell.
Enter(c) ==
    /\ run[c].pc = "begun"
    /\ capped' = TRUE
    /\ run' = [run EXCEPT ![c].pc =
                 IF HasIPython /\ ~hasShell[run[c].book] THEN "binding" ELSE "waiting"]
    /\ UNCHANGED <<books, userNs, stdout, cells, counter, hasShell, count, runs, history>>

\* The first time it gives the shell this notebook's namespace, without the lock.
Bind(c) ==
    /\ run[c].pc = "binding"
    /\ userNs' = run[c].book
    /\ hasShell' = [hasShell EXCEPT ![run[c].book] = TRUE]
    /\ taken' = Running
    /\ run' = [run EXCEPT ![c].pc = "waiting"]
    /\ UNCHANGED <<books, stdout, capped, cells, counter, count, runs, cleared>>

\* Mutant: the namespace is bound once, by Bind.
BoundOnce(b) == userNs

\* ipython.user_ns = self._namespace; without IPython the shell is not used.
Bound(b) == IF HasIPython THEN b ELSE userNs

\* Mutant: without the lock.
LockFreeAlways == TRUE

\* _ipython_lock; without IPython there is no lock.
LockFree == HasIPython => Running = {}

\* The output is redirected and the cell's text begins to run.
Run(c) ==
    /\ run[c].pc = "waiting" /\ LockFree
    /\ userNs' = Bound(run[c].book)
    /\ stdout' = c
    /\ run' = [run EXCEPT ![c].pc = "running", ![c].oldOut = stdout]
    /\ UNCHANGED <<books, capped, cells, counter, hasShell, count, runs, history>>

\* It ends, or raises; the output goes where it went before.
Ran(c) ==
    /\ run[c].pc = "running"
    /\ stdout' = run[c].oldOut
    /\ run' = [run EXCEPT ![c].pc = "ran"]
    /\ taken' = taken \ {c} /\ cleared' = cleared \ {c}
    /\ UNCHANGED <<books, userNs, capped, cells, counter, hasShell, count, runs>>

\* memory_limit sets the limit it found.
Finish(c) ==
    /\ run[c].pc = "ran"
    /\ capped' = run[c].wasCapped
    /\ run' = [run EXCEPT ![c] = IF @.at = @.upto THEN Idle ELSE [@ EXCEPT !.pc = "next"]]
    /\ UNCHANGED <<books, userNs, stdout, cells, counter, hasShell, count, runs, history>>

----------------------------------------------------------------------------
Tool(s, b) ==
    \/ Look(s, b) \/ Reset(s, b)
    \/ \E i \in DOMAIN cells[b] : DeleteCell(s, b, i)
    \/ \E i \in 1..(Len(cells[b]) + 1), k \in Cell : AddCell(s, b, i, k)

Execution(c) ==
    \/ \E s \in Session, b \in Book : \E i, n \in DOMAIN cells[b] : Begin(c, s, b, i, n)
    \/ Continue(c) \/ AskLimit(c) \/ Enter(c) \/ Bind(c) \/ Run(c) \/ Ran(c) \/ Finish(c)

Next ==
    \/ \E s \in Session, b \in Book : Tool(s, b) \/ Release(s, b)
    \/ \E c \in Call : Execution(c)

Spec == Init /\ [][Next]_vars

----------------------------------------------------------------------------
\* gh #157: what a cell prints is captured for its own run, whoever else runs, and the
\* process has its output back when none does.  With IPython: without it there is no lock.
OwnOutput ==
    HasIPython =>
        /\ \A c \in Running : stdout = c
        /\ Running = {} => stdout = None

\* gh #157: "bind it to THIS notebook's namespace for the run, serialized".  A cell that runs
\* never has another notebook's variables; when its own is reset as it runs it keeps those it
\* had, which are no notebook's any more.
OwnVariables ==
    HasIPython => \A c \in Running : userNs \in {run[c].book, None}

\* As long as no first run takes the shell from it, a cell runs with its own notebook's
\* variables to its end, or, when its notebook is reset as it runs, with those it had.
OwnVariablesOnceBound ==
    HasIPython => \A c \in Running \ taken :
        userNs = run[c].book \/ (c \in cleared /\ userNs = None)

\* "Least-recently-used is evicted": a session's notebook stays until Limit others have
\* used theirs.
RecentStays ==
    \A s \in Session : s \notin since[s] /\ Cardinality(since[s]) < Limit => Kept(s) # {}

\* Two cells of a notebook never have the same execution count.  (The count in a cell's output is
\* read again when the output is made, and may be that of another run which began meanwhile.)
CountsDiffer ==
    \A b \in Book : \A i, j \in DOMAIN cells[b] :
        count[cells[b][i]] = count[cells[b][j]] => i = j \/ count[cells[b][i]] = 0
=============================================================================

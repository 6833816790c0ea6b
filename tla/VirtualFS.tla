----------------------------- MODULE VirtualFS -----------------------------
(***************************************************************************)
(* langstage/virtual_fs.py: the in-memory file systems of the sessions and *)
(* the manager whose table hands them out and drops those nobody asked for.*)
(*                                                                         *)
(* A path is the sequence of its components, <<>> the path "/".  An        *)
(* operation of a file system, and a block of the table under its lock, is *)
(* one step; a request takes several, and others run between them.         *)
(***************************************************************************)
EXTENDS Naturals, SequencesExt

CONSTANTS
    Name,       \* names of files and directories
    Root,       \* the name of the root directory of every file system
    Canvas,     \* the name of the directory that a new session has in it
    Depth,      \* bound: components of a path
    Raw,        \* the path strings of the requests: [abs, parts]
    Session,    \* session ids
    Request,    \* threads that use the sessions
    MaxFs,      \* bound: file systems created
    MaxOps,     \* bound: operations on file systems
    None

ASSUME VfsAssumption ==
    /\ Depth \in Nat /\ Depth > 1 /\ {Root, Canvas} \subseteq Name
    /\ MaxFs \in Nat /\ None \notin Session \cup Request \cup 1..MaxFs
    /\ {".", ".."} \cap Name = {}
    /\ \A raw \in Raw : raw \in [abs : BOOLEAN, parts : Seq(Name \cup {".", ".."})]

VARIABLES
    dirs, files,    \* the paths of each file system; what the files contain is left out
    made,           \* number of file systems created so far
    manager,        \* the global session manager, named for the thread that made it
    session,        \* the managers' tables: the file system of each entry
    idle,           \* entries whose last_accessed is older than the timeout
    due,            \* managers whose cleanup interval has passed since their last cleanup
    pc, via, who,   \* where each request stands, its manager, its session,
    held,           \* and its file system
    ops,
    ended,          \* history: file systems that left their table
    asked           \* history: entries asked for since time passed last

trees == <<dirs, files>>
table == <<manager, session, idle, due>>
requests == <<pc, via, who, held>>
vars == <<trees, made, table, requests, ops, ended, asked>>

Fs    == 1..MaxFs
Entry == Request \X Session
Path == {p \in Seq(Name) : Len(p) <= Depth}

----------------------------------------------------------------------------
\* Paths.

Parent(p) == IF p = <<>> THEN <<>> ELSE SubSeq(p, 1, Len(p) - 1)

\* _normalize_path: a relative path starts at the root of the file system.
Step(seen, part) ==
    CASE part = ".."   -> Parent(seen)
      [] part \in Name -> Append(seen, part)
      [] OTHER         -> seen

\* Where the components lead, one after the other.
Walked(start, parts) ==
    LET seen[n \in 0..Len(parts)] == IF n = 0 THEN start ELSE Step(seen[n - 1], parts[n])
    IN seen
Walk(start, parts) == Walked(start, parts)[Len(parts)]

Normal(raw) == Walk(IF raw.abs THEN <<>> ELSE <<Root>>, raw.parts)

\* VirtualPath.resolve: a relative path stays relative, or becomes "/" when nothing is left.
Resolved(raw) ==
    LET parts == Walk(<<>>, raw.parts) IN [abs |-> raw.abs \/ parts = <<>>, parts |-> parts]

\* A relative path that is back where it starts at its end, or before a "..".
Strays(raw) ==
    /\ ~raw.abs
    /\ \E n \in 0..Len(raw.parts) : /\ Walked(<<>>, raw.parts)[n] = <<>>
                                    /\ n = Len(raw.parts) \/ raw.parts[n + 1] = ".."

Below(p, q) == Len(p) < Len(q) /\ SubSeq(q, 1, Len(p)) = p

\* The directories that mkdir(parents=True) adds: the path and all above it but "/".
Chain(p) == IF p = <<>> THEN {p} ELSE {SubSeq(p, 1, n) : n \in 1..Len(p)}

----------------------------------------------------------------------------
\* One file system.

All(f) == dirs[f] \cup files[f]

\* Mutant: directories are not listed.
ListedFiles(f, p) == {q \in files[f] : Parent(q) = p}

\* Only a directory is asked whether it is the path itself: a file "/" is listed in "/".
Listdir(f, p) == {q \in files[f] : Parent(q) = p} \cup {q \in dirs[f] : Parent(q) = p /\ q # p}

\* glob(path, "*"): fnmatch's star matches slashes too, and "" for a file "/".
Glob(f, p) == {q \in files[f] : Below(p, q) \/ (p = <<>> /\ q = p)}
              \cup {q \in dirs[f] : Below(p, q)}

Mkdir(f, p, parents) ==
    /\ p \notin All(f)
    /\ parents \/ Parent(p) \in dirs[f]
    /\ dirs' = [dirs EXCEPT ![f] = @ \cup IF Parent(p) \in dirs[f] THEN {p} ELSE Chain(p)]
    /\ UNCHANGED files

\* write_bytes does not ask whether the path is a directory.
Write(f, p) ==
    /\ Parent(p) \in dirs[f]
    /\ files' = [files EXCEPT ![f] = @ \cup {p}]
    /\ UNCHANGED dirs

Unlink(f, p) ==
    /\ p \in files[f]
    /\ files' = [files EXCEPT ![f] = @ \ {p}]
    /\ UNCHANGED dirs

\* Mutant: only files count as contents.
EmptyOfFiles(f, p) == p = <<>> \/ \A q \in files[f] : ~Below(p, q)

\* rmdir looks for names that start with the path and a slash: for "/" that is "//".
Empty(f, p) == p = <<>> \/ \A q \in All(f) : ~Below(p, q)

Rmdir(f, p) ==
    /\ p \in dirs[f] /\ Empty(f, p)
    /\ dirs' = [dirs EXCEPT ![f] = @ \ {p}]
    /\ UNCHANGED files

----------------------------------------------------------------------------
\* The session manager and its table.

Init ==
    /\ dirs = [f \in Fs |-> {}] /\ files = dirs /\ made = 0
    /\ manager = None /\ session = [e \in Entry |-> None] /\ idle = {} /\ due = {}
    /\ pc = [r \in Request |-> "idle"] /\ via = [r \in Request |-> None]
    /\ who = via /\ held = via
    /\ ops = 0 /\ ended = {} /\ asked = {}

Goto(r, p) == pc' = [pc EXCEPT ![r] = p]
Leave(r) ==
    Goto(r, "idle") /\ via' = [via EXCEPT ![r] = None] /\ who' = [who EXCEPT ![r] = None]
Ended(E) == ended \cup ({session[e] : e \in E} \ {None})
Mine(r) == <<via[r], who[r]>>

\* get_session_manager, without a lock: a look, the making of a manager, and another look.
GetManager(r) ==
    /\ pc[r] = "idle" /\ via' = [via EXCEPT ![r] = manager]
    /\ Goto(r, IF manager = None THEN "first" ELSE "ready")
    /\ UNCHANGED <<trees, made, table, who, held, ops, ended, asked>>

MakeManager(r) ==
    /\ pc[r] = "first" /\ Goto(r, "again") /\ manager' = r /\ due' = due \ {r}
    /\ UNCHANGED <<trees, made, session, idle, via, who, held, ops, ended, asked>>

ReturnManager(r) ==
    /\ pc[r] = "again" /\ Goto(r, "ready") /\ via' = [via EXCEPT ![r] = manager]
    /\ UNCHANGED <<trees, made, table, who, held, ops, ended, asked>>

\* get_or_create_session begins with a look at the table without its lock.
GetOrCreate(r, s) ==
    /\ pc[r] = "ready" /\ who' = [who EXCEPT ![r] = s]
    /\ Goto(r, IF session[<<via[r], s>>] # None THEN "known" ELSE "new")
    /\ UNCHANGED <<trees, made, table, via, held, ops, ended, asked>>

\* A caller that was given the id of a session already.
Begin(r, s) ==
    /\ pc[r] = "ready" /\ \E m \in Request : session[<<m, s>>] # None
    /\ who' = [who EXCEPT ![r] = s] /\ Goto(r, "named")
    /\ UNCHANGED <<trees, made, table, via, held, ops, ended, asked>>

\* Mutant: get_session does not set last_accessed.
NotTouched(e) == idle
Touched(e) == idle \ {e}

\* get_session of get_or_create_session.
Touch(r) ==
    /\ pc[r] = "known" /\ Goto(r, "named")
    /\ idle' = IF session[Mine(r)] # None THEN Touched(Mine(r)) ELSE idle
    /\ asked' = asked \cup {Mine(r)}
    /\ UNCHANGED <<trees, made, manager, session, due, via, who, held, ops, ended>>

\* Mutant: the look before the lock decides.
MustCreate(e) == TRUE
Missing(e) == session[e] = None

Number(e) == session' = [session EXCEPT ![e] = made + 1] /\ made' = made + 1

\* create_session, under the lock: a new file system with its first two directories.
Create(r) ==
    /\ pc[r] = "new" /\ Goto(r, "made")
    /\ LET e == Mine(r) IN
       IF Missing(e) THEN /\ made < MaxFs /\ Number(e)
                          /\ dirs' = [dirs EXCEPT ![made + 1] = {<<Root>>, <<Root, Canvas>>}]
                          /\ idle' = idle \ {e} /\ asked' = asked \cup {e}
       ELSE UNCHANGED <<made, session, dirs, idle, asked>>
    /\ UNCHANGED <<files, manager, due, via, who, held, ops, ended>>

\* create_session ends with the cleanup, if it is due, of every expired session.
Cleanup(r) ==
    /\ pc[r] = "made" /\ Goto(r, "named")
    /\ IF via[r] \in due
       THEN LET old == {e \in Entry : e \in idle /\ e[1] = via[r]} IN
            /\ due' = due \ {via[r]} /\ ended' = Ended(old)
            /\ session' = [e \in Entry |-> IF e \in old THEN None ELSE session[e]]
       ELSE UNCHANGED <<due, session, ended>>
    /\ UNCHANGED <<trees, made, manager, idle, via, who, held, ops, asked>>

\* get_filesystem, before each operation: None when the session is gone.
GetFilesystem(r) ==
    /\ pc[r] = "named"
    /\ LET e == Mine(r) IN
       /\ held' = [held EXCEPT ![r] = session[e]]
       /\ IF session[e] = None THEN Leave(r) /\ UNCHANGED <<idle, asked>>
          ELSE /\ Goto(r, "holding") /\ idle' = Touched(e) /\ asked' = asked \cup {e}
               /\ UNCHANGED <<via, who>>
    /\ UNCHANGED <<trees, made, manager, session, due, ops, ended>>

\* An operation of the file system that the request holds, whatever became of the session.
Operate(r) ==
    /\ pc[r] = "holding" /\ ops < MaxOps /\ ops' = ops + 1
    /\ \E raw \in Raw : LET p == Normal(raw) f == held[r] IN
          /\ p \in Path
          /\ \/ \E parents \in BOOLEAN : Mkdir(f, p, parents)
             \/ Write(f, p) \/ Unlink(f, p) \/ Rmdir(f, p)
    /\ UNCHANGED <<made, table, requests, ended, asked>>

Done(r) ==
    /\ pc[r] = "holding" /\ Leave(r) /\ held' = [held EXCEPT ![r] = None]
    /\ UNCHANGED <<trees, made, table, ops, ended, asked>>

Delete(e) ==
    /\ session[e] # None /\ session' = [session EXCEPT ![e] = None]
    /\ ended' = Ended({e})
    /\ UNCHANGED <<trees, made, manager, idle, due, requests, ops, asked>>

\* Time: longer than the timeout and the interval.
Age ==
    /\ idle' = {e \in Entry : session[e] # None} /\ due' = Request /\ asked' = {}
    /\ UNCHANGED <<trees, made, manager, session, requests, ops, ended>>

Next ==
    \/ Age
    \/ \E e \in Entry : Delete(e)
    \/ \E r \in Request, s \in Session : GetOrCreate(r, s) \/ Begin(r, s)
    \/ \E r \in Request :
          \/ GetManager(r) \/ MakeManager(r) \/ ReturnManager(r)
          \/ Touch(r) \/ Create(r) \/ Cleanup(r) \/ GetFilesystem(r) \/ Operate(r) \/ Done(r)

Spec == Init /\ [][Next]_vars

----------------------------------------------------------------------------
\* Properties.

\* Where a request stands once it has its session.
Inside == {"known", "new", "made", "named", "holding"}

TypeOK ==
    /\ dirs \in [Fs -> SUBSET Path] /\ files \in [Fs -> SUBSET Path]
    /\ made \in 0..MaxFs /\ session \in [Entry -> 1..made \cup {None}]
    /\ manager \in Request \cup {None} /\ due \subseteq Request
    /\ idle \subseteq Entry /\ asked \subseteq Entry
    /\ pc \in [Request -> {"idle", "first", "again", "ready",
                            "known", "new", "made", "named", "holding"}]
    /\ via \in [Request -> Request \cup {None}] /\ who \in [Request -> Session \cup {None}]
    /\ held \in [Request -> 1..made \cup {None}]
    /\ \A r \in Request : (pc[r] = "again" => manager # None)
                           /\ (pc[r] = "ready" => via[r] # None)
                           /\ (pc[r] \in Inside => Mine(r) \in Entry)
    /\ ops \in Nat /\ ended \subseteq 1..made

\* Whatever was created, written and removed: what is below a directory is in directories.
\* Only "/" may be missing, since rmdir removes it with all its contents left.
TreeShaped ==
    \A f \in Fs : \A p \in All(f) : Len(p) > 1 => Parent(p) \in dirs[f]

\* The answers to rounds of listdir from the directory d down.
Rounds(f, d) ==
    LET found[n \in 0..Depth] ==
            IF n = 0 THEN {d}
            ELSE found[n - 1] \cup UNION {Listdir(f, q) : q \in found[n - 1] \cap dirs[f]}
    IN found
Descend(f, d) == UNION {Listdir(f, q) : q \in Rounds(f, d)[Depth] \cap dirs[f]}

\* Going down with listdir finds what glob finds.
ListingFindsAll == \A f \in Fs : \A d \in dirs[f] : Descend(f, d) = Glob(f, d)

\* resolve and the file system agree on what ".." means, except for a relative path that
\* goes above its start, where resolve forgets the "..", or ends there, which is "/" to it.
ResolveKeepsTheFile ==
    \A raw \in Raw : ~Strays(raw) =>
        \A f \in Fs : Normal(Resolved(raw)) \in All(f) <=> Normal(raw) \in All(f)

\* The two pieces of code that resolve "..", and the two that walk the tables, mean the
\* same files: nothing is hidden, and nothing has two places.
NamesAgree == ListingFindsAll /\ ResolveKeepsTheFile

\* Requests for one session work on one file system, also when they create it at once:
\* what a request holds is its session's, unless that was deleted or expired meanwhile.
\* Two threads that both find no manager make two, so this is said of the requests whose
\* manager is the one that all get from then on.
SharedBySession ==
    \A r \in Request : (held[r] # None /\ held[r] \notin ended /\ via[r] = manager)
                       => session[<<manager, who[r]>>] = held[r]

\* Requests for different sessions never work on one, whatever was deleted or expired.
NotSharedOtherwise ==
    \A r, q \in Request : held[r] # None /\ held[r] = held[q] => who[r] = who[q]

OneWorkspace == SharedBySession /\ NotSharedOtherwise

\* No session that was asked for within the timeout expires.
LiveSessionsStay ==
    [][\A e \in Entry : (session[e] # None /\ session'[e] = None /\ e \in asked)
                        => Delete(e)]_vars
=============================================================================

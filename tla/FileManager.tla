---------------------------- MODULE FileManager ----------------------------
(***************************************************************************)
(* The files of the workspace as the browser's file panel reads and        *)
(* changes them (langstage/workspace/file_manager.py, its routes           *)
(* langstage/server/routes_files.py): paths that may go up, through links  *)
(* and out of the workspace; uploads that decide where to store before     *)
(* their body is read; the agent making links in between.                  *)
(*                                                                         *)
(* A call of FileManager is one step: it does not await.  Contents that    *)
(* cannot be decoded, permissions and a full disk are left out.            *)
(***************************************************************************)
EXTENDS Naturals, Sequences, SequencesExt

CONSTANTS
    Name,       \* names of files and directories, without those that begin with a dot
    Skipped,    \* SKIP_DIRS: directories the panel does not show
    Data,       \* contents
    Upload,     \* uploads that can be on their way at once
    Nobody,     \* no upload
    ClientPath, \* paths in requests: sequences of names, "..", "outside"
    FileName,   \* names of uploaded files
    LinkAt,     \* where the agent makes links
    LinkTo,     \* where they lead
    MaxDepth,   \* bound: how deep the workspace gets
    Hops        \* bound: names and links followed before a path counts as a loop

ASSUME FileAssumption ==
    /\ Skipped \subseteq Name /\ FileName \subseteq Name
    /\ ClientPath \subseteq Seq(Name \cup {"..", "outside"})
    /\ LinkAt \subseteq Seq(Name \cup {"workspace"})
    /\ \A p \in LinkAt : Len(p) > 1 /\ p[1] = "workspace"
    /\ LinkTo \subseteq Seq(Name \cup {"..", "workspace", "outside"})
    /\ MaxDepth \in Nat /\ Hops \in Nat \ {0}
    /\ {"..", "workspace", "outside", "loop"} \cap Name = {}

VARIABLES
    tree,       \* every path that exists, with what it is
    uploads     \* upload requests whose body is being read: where they go, and (history)
                \* the path their client will read them at

fileVars == <<tree, uploads>>

Workspace == <<"workspace">>
Outside   == <<"outside">>

Dir     == [is |-> "dir"]
File(d) == [is |-> "file", data |-> d]
Link(p) == [is |-> "link", to |-> p]

FilesInit ==
    /\ \E d \in Data :
          tree = [p \in {<<>>, Workspace, Outside} \cup {Append(Outside, n) : n \in Name} |->
                    IF Len(p) < 2 THEN Dir ELSE File(d)]
    /\ uploads = [u \in Upload |-> Nobody]

----------------------------------------------------------------------------
\* Paths.

Is(t, p, kind) == p \in DOMAIN t /\ t[p].is = kind

Lost == <<"loop">>

\* A step of a walk to a path: where it is, and what is still to go.  Links are followed,
\* ".." is one up from where they have led, and what does not exist stays as it is written.
Hop(t, w) ==
    IF w.rest = <<>> THEN w
    ELSE LET next == Append(w.at, Head(w.rest))
         IN IF Head(w.rest) = ".."
            THEN [at |-> IF w.at = <<>> THEN <<>> ELSE Front(w.at), rest |-> Tail(w.rest)]
            ELSE IF Is(t, next, "link") THEN [at |-> <<>>, rest |-> t[next].to \o Tail(w.rest)]
            ELSE [at |-> next, rest |-> Tail(w.rest)]

Walked(t, path) ==
    LET walk[n \in 0..Hops] ==
          IF n = 0 THEN [at |-> <<>>, rest |-> path] ELSE Hop(t, walk[n - 1])
    IN walk

\* Path.resolve().
Real(t, path) == LET w == Walked(t, path)[Hops] IN IF w.rest = <<>> THEN w.at ELSE Lost

\* is_relative_to(workspace).
Inside(p) == IsPrefix(Workspace, p)

\* _resolve_path refuses what is not Inside.
Resolve(t, path) == Real(t, Workspace \o path)

\* _unresolved_link: the link a path names, its last name not followed.
NamedPlace(t, path) ==
    IF path = <<>> \/ Last(path) = ".." THEN Resolve(t, path)
    ELSE Append(Resolve(t, Front(path)), Last(path))

NamesLink(t, path) ==
    /\ path # <<>> /\ Last(path) # ".."
    /\ Inside(Resolve(t, Front(path))) /\ Is(t, NamedPlace(t, path), "link")

----------------------------------------------------------------------------
\* What can be read.

\* get_tree is accepted.
Lists(t, path) == Inside(Resolve(t, path)) /\ Is(t, Resolve(t, path), "dir")

\* read_file, preview_file and download are accepted, and what they return.
Reads(t, path)  == Inside(Resolve(t, path)) /\ Is(t, Resolve(t, path), "file")
ReadOf(t, path) == t[Resolve(t, path)].data

\* Mutant (gh #148): an entry counts as contained wherever it leads.
ContainedAlways(t, item) == TRUE

\* _is_contained.
Contained(t, item) == Inside(Real(t, item))

\* _list_dir without its recursion: the entries of a directory, which is written as the
\* walk has come to it.
Entries(t, dir) ==
    {Append(dir, n) : n \in {m \in Name :
        /\ Append(Real(t, dir), m) \in DOMAIN t
        /\ ~(m \in Skipped /\ Is(t, Real(t, Append(dir, m)), "dir"))
        /\ Contained(t, Append(dir, m))}}

\* get_tree: the entries down to depth.
Levels(t, path, depth) ==
    LET level[k \in 0..depth] ==
          IF k = 0 THEN {Resolve(t, path)}
          ELSE UNION {Entries(t, d) : d \in {e \in level[k - 1] : Is(t, Real(t, e), "dir")}}
    IN level

Listing(t, path, depth) == UNION {Levels(t, path, depth)[k] : k \in 1..depth}

----------------------------------------------------------------------------
\* Changes.

Below(p) == {q \in DOMAIN tree : IsPrefix(p, q)}

Put(t, p, node) == [q \in DOMAIN t \cup {p} |-> IF q = p THEN node ELSE t[q]]

\* mkdir(parents=True): fails under a file, and then makes nothing.
CanMake(t, p)  == \A q \in DOMAIN t : IsPrefix(q, p) => t[q].is = "dir"
MakeDirs(t, p) == [q \in DOMAIN t \cup {SubSeq(p, 1, n) : n \in 0..Len(p)} |->
                    IF q \in DOMAIN t THEN t[q] ELSE Dir]

\* The bound of the model.
Fits(p) == Len(p) <= MaxDepth + 1

\* create_directory.  Refused if the path exists, leads out or is under a file.
MakesDir(path) ==
    LET p == Resolve(tree, path)
    IN /\ Inside(p) /\ Fits(p) /\ p \notin DOMAIN tree /\ CanMake(tree, p)
       /\ tree' = MakeDirs(tree, p)
       /\ UNCHANGED uploads

\* Mutant (gh #175): the link is followed before it is removed.
DeletesResolved(path) ==
    LET p == Resolve(tree, path)
    IN /\ Inside(p) /\ p \in DOMAIN tree /\ p # Workspace
       /\ tree' = [q \in DOMAIN tree \ Below(p) |-> tree[q]]
       /\ UNCHANGED uploads

\* delete_path.  A link goes itself; a directory goes with all that is in it, links in it
\* not followed.
Deletes(path) ==
    LET p == IF NamesLink(tree, path) THEN NamedPlace(tree, path) ELSE Resolve(tree, path)
    IN /\ Inside(p) /\ p \in DOMAIN tree /\ p # Workspace
       /\ tree' = [q \in DOMAIN tree \ Below(p) |-> tree[q]]
       /\ UNCHANGED uploads

\* Mutant (gh #75): the path is a directory, always.
IntoDirAlways(path, slash) == TRUE

\* upload: the file goes into the directory under its own name when the path ends with a
\* slash or is a directory.
IntoDir(path, slash) == slash \/ Is(tree, Resolve(tree, path), "dir")

\* The upload begins.  The decision is made, and the body awaited.  A path that leads out
\* is refused here, unless it ends with a slash.
Begins(u, path, slash, name, d) ==
    /\ uploads[u] = Nobody
    /\ slash \/ Inside(Resolve(tree, path))
    /\ uploads' = [uploads EXCEPT ![u] =
          [dest  |-> IF IntoDir(path, slash) THEN Append(path, name) ELSE path,
           asked |-> IF slash \/ Lists(tree, path) THEN Append(path, name) ELSE path,
           data  |-> d]]
    /\ UNCHANGED tree

\* save_upload: where it is stored, by the tree as it is now.
CanSave(u) ==
    LET p == Resolve(tree, uploads[u].dest)
    IN Inside(p) /\ p # Workspace /\ CanMake(tree, Front(p)) /\ ~Is(tree, p, "dir")

Saves(u) ==
    /\ uploads[u] # Nobody /\ CanSave(u)
    /\ LET p == Resolve(tree, uploads[u].dest)
       IN Fits(p) /\ tree' = Put(MakeDirs(tree, Front(p)), p, File(uploads[u].data))
    /\ uploads' = [uploads EXCEPT ![u] = Nobody]

\* It is refused, or the client has gone.
Fails(u) ==
    /\ uploads[u] # Nobody
    /\ uploads' = [uploads EXCEPT ![u] = Nobody]
    /\ UNCHANGED tree

\* The agent makes a link, by its own means.
AgentLinks(p, to) ==
    /\ Is(tree, Front(p), "dir") /\ p \notin DOMAIN tree
    /\ tree' = Put(tree, p, Link(to))
    /\ UNCHANGED uploads
=============================================================================

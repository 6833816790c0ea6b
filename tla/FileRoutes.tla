----------------------------- MODULE FileRoutes -----------------------------
(***************************************************************************)
(* The file routes behind the layers of the server: a request changes the  *)
(* workspace if the guards let one of its sender's requests through.       *)
(***************************************************************************)
EXTENDS FileManager, HttpGuards

CONSTANTS
    Configured, \* the settings servers are started with
    Asking      \* who sends requests

ASSUME RoutesAssumption == Configured \subseteq Settings /\ Asking \subseteq Sender

VARIABLE settings   \* of this server

vars == <<fileVars, settings>>

Init == FilesInit /\ settings \in Configured

\* The routes a request can take: /mkdir, /delete (POST and DELETE), /upload.
Asks(path) ==
    \/ MakesDir(path)
    \/ Deletes(path)
    \/ \E u \in Upload, slash \in BOOLEAN, n \in FileName, d \in Data : Begins(u, path, slash, n, d)

Serves(s) ==
    /\ Reaches(settings, s)
    /\ \E path \in ClientPath : Asks(path)
    /\ UNCHANGED settings

Progress == (\E u \in Upload : Saves(u) \/ Fails(u)) /\ UNCHANGED settings

Agent ==
    /\ \E p \in LinkAt, to \in LinkTo : AgentLinks(p, to)
    /\ UNCHANGED settings

Next == (\E s \in Asking : Serves(s)) \/ Progress \/ Agent

Spec == Init /\ [][Next]_vars

----------------------------------------------------------------------------
\* What the file routes promise.

\* gh #41, #148, #175: whatever links there are, a request changes nothing outside the
\* workspace and never the workspace's own directory; a delete takes away what is at or
\* below the place its path names, the last name not followed; an upload changes at
\* most one file that is there, and a new directory none.
ChangesOnlyTheNamed ==
    [][LET gone    == DOMAIN tree \ DOMAIN tree'
           kept    == DOMAIN tree \cap DOMAIN tree'
           changed == {q \in kept : tree'[q] # tree[q]}
       IN /\ \A q \in gone \cup changed \cup (DOMAIN tree' \ DOMAIN tree) :
                Inside(q) /\ q # Workspace
          /\ gone # {} =>
                /\ changed = {} /\ \E path \in ClientPath : Deletes(path)
                /\ \A path \in ClientPath :
                      Deletes(path) => gone = Below(NamedPlace(tree, path))
          /\ changed # {} =>
                /\ \E u \in Upload : Saves(u)
                /\ \E q \in kept : changed = {q} /\ tree[q].is = "file"]_vars

\* gh #75, #81: what an accepted upload stored is what a read of its path returns, or of
\* its own name in the path when that ended with a slash or was a directory when the
\* request came in; whatever became of the path while the body was read.
UploadRoundTrips ==
    [][\A u \in Upload : Saves(u) =>
          /\ Reads(tree', uploads[u].asked)
          /\ ReadOf(tree', uploads[u].asked) = uploads[u].data]_vars

\* gh #148: the panel shows what can be opened, and all of it: an entry shown as a
\* directory can be listed and one shown as a file can be read at the path shown with it,
\* and what can be read or listed in a directory, but for the skipped ones, is an entry.
ListingAgrees ==
    \A top \in {<<>>} \cup {p \in ClientPath : Lists(tree, p)} :
        LET shown == Listing(tree, top, 2)
            open(e) == Reads(tree, Tail(e)) \/ Lists(tree, Tail(e))
        IN /\ \A e \in shown : Real(tree, e) \in DOMAIN tree => open(e)
           /\ \A n \in Name :
                LET e == Append(Resolve(tree, top), n)
                IN open(e) /\ ~(n \in Skipped /\ Lists(tree, Tail(e))) => e \in shown

\* gh #113, #206, #208: a page the user has not let in changes no file and starts no
\* upload, and with a password set nobody does without it.
StrangersChangeNothing ==
    [][\A s \in Asking : ~Known(settings, s) /\ Serves(s) => UNCHANGED fileVars]_vars
=============================================================================

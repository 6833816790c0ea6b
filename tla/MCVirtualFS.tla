---------------------------- MODULE MCVirtualFS ----------------------------
\* A small instance of VirtualFS for TLC.
EXTENDS VirtualFS

Abs(parts) == [abs |-> TRUE, parts |-> parts]
Rel(parts) == [abs |-> FALSE, parts |-> parts]

\* "/", "/a", "a/..", "a", "../a", "a/a", "a/.././a/a", "/a/../../workspace/a"
RawPaths == {Abs(<<>>), Abs(<<"a">>), Rel(<<"a", "..">>), Rel(<<"a">>), Rel(<<"..", "a">>),
             Rel(<<"a", "a">>), Rel(<<"a", "..", ".", "a", "a">>),
             Abs(<<"a", "..", "..", "workspace", "a">>)}

\* Bound: operations are explored of one request that has a manager to itself, on the first
\* file system.  What they do to a tree does not depend on who else is there.
OneOperates ==
    ops > 0 => /\ made = 1
               /\ \A r \in Request : r # manager => pc[r] = "idle"

Symmetry == Permutations(Request) \cup Permutations(Session)
=============================================================================

---------------------------- MODULE MCFileRoutes ----------------------------
\* Small instances of FileRoutes for TLC.
EXTENDS FileRoutes

CONSTANTS a, h, d1, d2, here, sub, app, other

Paths == {<<>>, <<a>>, <<h>>, <<a, h>>, <<a, "..">>, <<"..", "outside">>}

Places == {<<"workspace", a>>, <<"workspace", h>>, <<"workspace", a, h>>}

Targets == {Workspace, Outside, <<"workspace", h>>, <<"outside", a>>}

\* Contents are only compared.
Symmetry == Permutations({d1, d2})

Setting(l, hs, os, p) == [local |-> l, hosts |-> hs, origins |-> os, password |-> p]
Servers == {Setting(TRUE, {}, {}, FALSE), Setting(TRUE, {app}, {}, TRUE),
            Setting(TRUE, {}, {app}, FALSE), Setting(FALSE, {}, {}, TRUE)}

Page(p, at)    == [page |-> p, host |-> at, knows |-> TRUE, nearby |-> TRUE]
Program(knows) == [page |-> None, host |-> here, knows |-> knows, nearby |-> TRUE]
Senders == {Program(TRUE), Program(FALSE), Page(here, here), Page(sub, here), Page(app, here),
            Page(app, app), Page(other, here), Page(other, other), Page(Null, here)}
=============================================================================

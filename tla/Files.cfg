SPECIFICATION Spec
CONSTANTS
    a = a
    h = h
    d1 = d1
    d2 = d2
    here = here
    sub = sub
    app = app
    other = other
    Name = {a, h}
    Skipped = {h}
    Data = {d1, d2}
    Upload = {u1}
    Nobody = Nobody
    ClientPath <- Paths
    FileName = {h}
    LinkAt <- Places
    LinkTo <- Targets
    MaxDepth = 2
    Hops = 8
    Origin = {here, sub, app, other}
    Local = {here, sub}
    LocalOrigin = {here}
    Star = Star
    Null = Null
    None = None
    Configured <- Servers
    Asking <- Senders
SYMMETRY Symmetry
INVARIANT ListingAgrees
PROPERTIES
    ChangesOnlyTheNamed
    UploadRoundTrips
    StrangersChangeNothing
CHECK_DEADLOCK FALSE

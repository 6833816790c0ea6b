----------------------------- MODULE HttpGuards -----------------------------
(***************************************************************************)
(* The layers a request passes before any route sees it                    *)
(* (langstage/server/middleware.py), from the outside in: the Host header  *)
(* guard, CORS, the cross-site guard and Basic authentication.             *)
(*                                                                         *)
(* The layers see headers only.  Which headers a browser puts on the       *)
(* request of a page is stated here as well, so that what the layers       *)
(* decide can be compared with who asked.  An origin stands for a host and *)
(* a port; scheme, letter case and the spelling of lists are left out.     *)
(***************************************************************************)
EXTENDS FiniteSets

CONSTANTS
    Origin,        \* where pages come from, and what a Host header can say
    Local,         \* those is_loopback_host accepts
    LocalOrigin,   \* those _LOOPBACK_ORIGIN_REGEX matches
    Star,           \* "*"
    Null,          \* the origin of sandboxed frames and of files
    None           \* a header that is not there

ASSUME OriginAssumption ==
    /\ LocalOrigin \subseteq Local /\ Local \subseteq Origin
    /\ {Star, Null, None} \cap Origin = {}
    /\ Star # Null /\ Star # None /\ Null # None

\* The settings: is the server bound to a loopback address, allowed_hosts, cors_origins,
\* is there a password.
Settings == [local : BOOLEAN, hosts : SUBSET (Origin \cup {Star}),
             origins : SUBSET (Origin \cup {Star}), password : BOOLEAN]

FetchSite == {"same-origin", "same-site", "cross-site", "none", None}

ASSUME FetchAssumption == None \notin {"same-origin", "same-site", "cross-site", "none"}

\* A request: preflight is an OPTIONS with the headers CORS asks with; login says whether
\* it has the right credentials, and nearby whether it came in on a loopback address.
Request ==
    [scope : {"http", "websocket", "lifespan"}, method : {"safe", "preflight", "unsafe"},
     path : {"health", "other"}, host : Origin \cup {None}, origin : Origin \cup {Null, None},
     fetchSite : FetchSite, login : BOOLEAN, nearby : BOOLEAN]

----------------------------------------------------------------------------
\* HostHeaderGuard.

HostGuardOn(c) == c.local /\ Star \notin c.hosts

HostAllowed(c, h) == h \in Local \cup c.hosts

PassesHost(c, r) ==
    \/ ~HostGuardOn(c) \/ r.scope = "lifespan" \/ ~r.nearby \/ r.host = None
    \/ HostAllowed(c, r.host)

----------------------------------------------------------------------------
\* _resolve_cors: the listed origins, or all with "*", or the loopback ones.
CorsOrigins(c) ==
    CASE c.origins = {}      -> LocalOrigin
      [] Star \in c.origins   -> Origin
      [] OTHER               -> c.origins

\* CORSMiddleware answers a preflight itself.
IsPreflight(r) == r.scope = "http" /\ r.method = "preflight" /\ r.origin # None

----------------------------------------------------------------------------
\* CrossSiteRequestGuard.

OriginAllowed(c, o, h) == o # Null /\ (o \in CorsOrigins(c) \/ (h # None /\ o = h))

\* Mutant: an origin that is hidden counts as none.
PassesSiteHidden(c, r) ==
    \/ r.scope # "http" \/ r.method # "unsafe"
    \/ r.fetchSite \in {"same-origin", "none"}
    \/ r.origin # None /\ OriginAllowed(c, r.origin, r.host)
    \/ r.origin \in {None, Null} /\ r.fetchSite = None

PassesSite(c, r) ==
    \/ r.scope # "http" \/ r.method # "unsafe"
    \/ r.fetchSite \in {"same-origin", "none"}
    \/ r.origin # None /\ OriginAllowed(c, r.origin, r.host)
    \/ r.origin = None /\ r.fetchSite = None

----------------------------------------------------------------------------
\* BasicAuthMiddleware, which is there when a password is set.

PassesLogin(c, r) ==
    ~c.password \/ r.scope = "lifespan" \/ r.path = "health" \/ r.login

----------------------------------------------------------------------------
\* add_middleware: what becomes of a request.

Refusal(r, status) == IF r.scope = "websocket" THEN "closed" ELSE status

Answer(c, r) ==
    CASE ~PassesHost(c, r)   -> Refusal(r, "forbidden")
      [] PassesHost(c, r) /\ IsPreflight(r) ->
            IF r.origin \in CorsOrigins(c) THEN "cors" ELSE "no cors"
      [] PassesHost(c, r) /\ ~IsPreflight(r) /\ ~PassesSite(c, r) -> "forbidden"
      [] PassesHost(c, r) /\ ~IsPreflight(r) /\ PassesSite(c, r) ->
            IF PassesLogin(c, r) THEN "route" ELSE Refusal(r, "unauthorized")

----------------------------------------------------------------------------
\* Who asks: a page (of an origin, or Null) in a browser that reached this server under
\* the name host, or a program (None).  knows: it has the password to send along.

Sender == [page : Origin \cup {Null, None}, host : Origin \cup {None}, knows : BOOLEAN,
           nearby : BOOLEAN]

\* What the browser says of the page's relation to the server, if it says anything.
Relation(s) ==
    IF s.page = s.host THEN {"same-origin", None} ELSE {"same-site", "cross-site", None}

\* The unsafe requests it can make.  A browser puts the page's origin on them, or "null"
\* when the page asks it to hide where it comes from; a program puts nothing.
Sent(s) ==
    {[scope |-> "http", method |-> "unsafe", path |-> "other", host |-> s.host,
      origin |-> o, fetchSite |-> f, login |-> s.knows, nearby |-> s.nearby] :
        o \in IF s.page = None THEN {None} ELSE {s.page, Null},
        f \in IF s.page = None THEN {None} ELSE Relation(s)}

\* One of them reaches its route.
Reaches(c, s) == \E r \in Sent(s) : Answer(c, r) = "route"

\* The pages the user lets act: those of the server's own name, which on a guarded
\* loopback server is a name it answers to, and those of the listed origins.
OwnPage(c, s) ==
    /\ s.page = s.host /\ s.page \in Origin
    /\ HostGuardOn(c) /\ s.nearby => HostAllowed(c, s.host)

Known(c, s) ==
    /\ s.page = None \/ OwnPage(c, s) \/ s.page \in CorsOrigins(c)
    /\ c.password => s.knows
=============================================================================

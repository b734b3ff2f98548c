--------------------------- MODULE LoginProperties ---------------------------
(***************************************************************************)
(* What the login, its sessions and its limits promise.                    *)
(***************************************************************************)
EXTENDS Login

\* Every variable has its type (web/auth.py, create_infra_tables.sql).
TypeOK ==
    /\ now \in 0..MaxTime
    /\ member \in [Member -> GateRow]
    /\ hits \in [Endpoint -> [0..MaxTime -> Nat]]
    /\ passed \in [Endpoint -> [0..MaxTime -> Nat]]
    /\ jti \in [Visit -> Nat \cup {Nothing}]
    /\ session \in [Visit -> [created : Nat, seen : Nat] \cup {Nothing}]
    /\ log \subseteq Event /\ journal \subseteq Event /\ complaints \subseteq Event
    /\ assertion \in [Visit -> [claims : Claims, exp : Nat] \cup {Nothing}]
    /\ stateCookie \in [Browser -> [ticket : Visit, until : Nat] \cup {Nothing}]
    /\ sessionCookie \in [Browser -> Visit \cup {Nothing}]
    /\ visit \in [Visit -> Visits]
    /\ request \in [Request -> Requests \cup {Nothing}]
    /\ opened \in [Visit -> Visit \cup {Nothing}]
    /\ crossed \subseteq Visit
    /\ left \in [BoundKind -> Nat]

-----------------------------------------------------------------------------
(* The abstract specification, and how the tables and the clock map to it. *)

Opened == {v \in Visit : opened[v] # Nothing}

Door == INSTANCE Access WITH
    Session   <- Visit,
    Assertion <- Visit,
    live      <- {v \in Visit : Alive(v)},
    over      <- {v \in Opened : ~ Alive(v)},
    valid     <- {t \in Visit : assertion[t] # Nothing /\ now < assertion[t].exp},
    spent     <- {opened[v] : v \in Opened}

\* While an assertion is valid, one session at most is opened with it, however often
\* its URL is loaded and whatever the housekeeping deletes meanwhile; and a session
\* that is past an age or logged out stays so, whatever request races the end
\* (db/jti.py, db/sessions.py, db/prune.py).
LoginImplementsAccess == Door!Spec

-----------------------------------------------------------------------------
(* Safety. *)

\* A session lands in the browser whose begin it answers, also when the callback URL
\* is loaded in another and when several visits share a browser (web/auth.py, callback).
LandsWhereItBegan ==
    \A b \in Browser :
       sessionCookie[b] # Nothing => visit[visit[sessionCookie[b]].ticket].browser = b

\* The claims the login takes: everything about them is as it should be.
Genuine(c) ==
    /\ c.pinned /\ c.signed /\ c.ours /\ c.whole /\ c.numeric
    /\ c.standing = "member"

\* A leader who logs in is let in.  A visit that ends in a refusal was come in the way
\* of: another visit of its browser took its state cookie, or the cookie's age did; its
\* URL was loaded twice; botonio or Discord failed it; the records changed; or the
\* claims or the member's row are not such as the login takes (web/auth.py, callback).
UncrossedLoginLands ==
    \A v \in Visit :
       visit[v].outcome \in {"failed", "denied"} =>
          \/ v \in crossed
          \/ assertion[v] # Nothing /\ ~ Genuine(assertion[v].claims)
          \/ assertion[v] # Nothing /\ ~ Admits(member[assertion[v].claims.member])

\* No more than the limit passes in a window, though the housekeeping deletes the
\* counters of others meanwhile (web/rate_limit.py, db/prune.py).
RateCap == \A e \in Endpoint, w \in 0..MaxTime : passed[e][w] =< AuthRateLimit

\* What the service has concluded is in the audit log and in the journal, or the
\* failure to record it is in the service's own log (db/audit.py).
OutcomeAudited ==
    LET known(event) == event \in (log \cap journal) \cup complaints
    IN /\ \A v \in Visit :
             visit[v].stage \in {"answering", "done"} /\ visit[v].outcome \notin {"limited", "broken"}
                => known(<<visit[v].outcome, v>>)
       /\ \A r \in Request :
             (request[r] # Nothing /\ request[r].stage = "answered" /\ request[r].kind = "logout"
              /\ request[r].principal) => known(<<"logout", request[r].token>>)

\* "A banned member resolves to no one, so a session opened before the ban stops
\* working at its next request" (web/records.py, _resolve_member).
BanEndsSession ==
    \A r \in Request :
       (request[r] # Nothing /\ request[r].stage = "answered" /\ request[r].kind # "logout")
          => ~ request[r].shut
=============================================================================

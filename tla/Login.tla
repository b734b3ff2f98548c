-------------------------------- MODULE Login --------------------------------
(***************************************************************************)
(* Logging in through botonio, the session it opens, and the requests that *)
(* use it (web/auth.py, sso.py, web/rate_limit.py and the tables behind    *)
(* them).  A visit is a begin and the callback that answers it, or a       *)
(* callback URL loaded once more; it takes one action per await.  The      *)
(* visits of one browser share its two cookies.                            *)
(*                                                                         *)
(* A visit stands for all that is named after it: the state botonio hands  *)
(* out at its begin (its ticket), the jti of the assertion that ticket is  *)
(* redeemed for, and the session it opens.                                 *)
(***************************************************************************)
EXTENDS Integers, FiniteSets

CONSTANTS
    Visit,
    Request,        \* the slots for requests other than a login's
    Browser,
    Member,
    Nothing,        \* no cookie, no row, no assertion, no request
    Rows,           \* what the records may hold of a member
    Answers,        \* the claims botonio may sign
    AuthRateLimit, Window, RateRetention,       \* in ticks of the clock, as are:
    StateMaxAge, AssertionTTL, AbsoluteLifetime, IdleTimeout,
    MaxTime,        \* how long a behaviour may last
    Bounds          \* how often each thing of BoundKind may happen

BoundKind == {"begin", "reload", "request", "records", "fault"}

Endpoint == {"begin", "callback", "search"}

LeadershipAssessment == {"leader", "non_leader", "unmarked_leader", "empty_leader"}

Standing == {"member", "dues_expired", "unverified", "not_in_guild"}

\* members and member_bans, as the gate and _resolve_member project them.
GateRow == [known : BOOLEAN, assessment : LeadershipAssessment, banned : BOOLEAN]

\* The claims of an assertion, by what verify_assertion asks of each: pinned, whether
\* its kid names a key we pin; signed, whether that key verifies it; ours, whether
\* issuer, audience and guild are the ones configured; whole, whether jti, sub and the
\* timestamps are there and well formed, and nbf has come; numeric, whether sub is a
\* number.
Claims == [pinned : BOOLEAN, signed : BOOLEAN, ours : BOOLEAN, whole : BOOLEAN,
           numeric : BOOLEAN, standing : Standing \cup {"unknown"}, member : Member]

\* What became of a visit, and who logged out, by the session.
Event == {"in", "failed", "denied", "logout"} \X Visit

ASSUME LoginAssumption ==
    /\ Visit \subseteq Nat
    /\ Rows \subseteq GateRow
    /\ Answers \subseteq Claims
    /\ {AuthRateLimit, RateRetention, MaxTime} \subseteq Nat
    /\ {Window, StateMaxAge, AssertionTTL, AbsoluteLifetime, IdleTimeout} \subseteq Nat \ {0}
    /\ Bounds \subseteq [BoundKind -> Nat]

\* An hour is far past any window the limiter enforces (db/prune.py).
ASSUME RetentionAssumption == Window =< RateRetention

VARIABLES
    now,
    member,         \* members and member_bans
    hits,           \* rate_limit_counters: per endpoint and window, 0 where there is no row
    jti,            \* jti_replay: per assertion its expires_at, or Nothing
    session,        \* sessions: per visit [created, seen], or Nothing
    log,            \* audit_log: the events that are in it
    journal,        \* journald: its mirror
    complaints,     \* the service's own log: events whose recording failed
    assertion,      \* per ticket, what botonio signs for it: [claims, exp], or Nothing
    stateCookie,    \* per browser, rosadmin_sso_state: [ticket, until], or Nothing
    sessionCookie,  \* per browser, rosadmin_session: a visit, or Nothing
    visit,          \* per visit, where its requests stand
    request,        \* per slot, the request that is there
    passed,         \* history: the requests the limiter let pass, as hits counts them
    opened,         \* history: per visit, the assertion whose claim opened its session
    crossed,        \* history: visits that something came in the way of
    left            \* what is left of the behaviour's bounds

tables == <<hits, jti, session, log, journal, complaints>>
cookies == <<stateCookie, sessionCookie>>
vars == <<now, member, tables, assertion, cookies, visit, request,
          passed, opened, crossed, left>>

Spend(kind) == left[kind] > 0 /\ left' = [left EXCEPT ![kind] = @ - 1]

-----------------------------------------------------------------------------

Stage == {"unused", "starting", "away",             \* the browser, begin, the browser again
          "completing", "claiming", "gating", "creating", "auditing", "answering",
          "done"}

InCallback == {"completing", "claiming", "gating", "creating", "auditing", "answering"}

Outcome == {"none", "in", "failed", "denied", "limited", "broken"}

Visits == [stage : Stage, browser : Browser \cup {Nothing}, ticket : Visit, outcome : Outcome]

\* shut: history, whether the session's member is banned, and was when it arrived.
Requests == [kind : {"me", "search", "logout"}, browser : Browser, token : Visit,
             stage : {"resolving", "reading", "revoking", "auditing", "answered"},
             principal : BOOLEAN, shut : BOOLEAN]

ASSUME NothingAssumption ==
    /\ Nothing \notin [created : Nat, seen : Nat]
    /\ Nothing \notin [claims : Claims, exp : Nat]
    /\ Nothing \notin [ticket : Visit, until : Nat]
    /\ Nothing \notin Nat
    /\ Nothing \notin Requests

\* The clock of date_trunc('minute', now()).
WindowStart == now - (now % Window)

Passes(e) == hits[e][WindowStart] + 1 =< AuthRateLimit

\* rate_limited: counted whether it passes or not.
Hit(e) ==
    /\ hits' = [hits EXCEPT ![e][WindowStart] = @ + 1]
    /\ passed' = IF Passes(e) THEN [passed EXCEPT ![e][WindowStart] = @ + 1] ELSE passed

\* The member an assertion names, and a session is for.
Owner(v) == assertion[visit[v].ticket].claims.member

\* What verify_assertion lets through, at the moment it looks.
Verifies(a) ==
    /\ a.claims.pinned /\ a.claims.signed /\ a.claims.ours /\ a.claims.whole
    /\ a.claims.standing # "unknown"
    /\ now < a.exp

\* The records' half of the grant rule.
Admits(row) == row.known /\ ~ row.banned /\ row.assessment = "leader"

\* PostgresSessionStore.resolve's WHERE clause.
Alive(v) ==
    /\ session[v] # Nothing
    /\ now < session[v].created + AbsoluteLifetime
    /\ now < session[v].seen + IdleTimeout

\* The ticket a browser's state cookie is for, if it has one.
Held(b) == IF stateCookie[b] = Nothing THEN {} ELSE {stateCookie[b].ticket}

Go(v, stage) == visit' = [visit EXCEPT ![v].stage = stage]
Exit(v, outcome) ==
    visit' = [visit EXCEPT ![v].stage = "auditing", ![v].outcome = outcome]
Leave(v, outcome) ==
    visit' = [visit EXCEPT ![v].stage = "done", ![v].outcome = outcome]

-----------------------------------------------------------------------------

Init ==
    /\ now = 0
    /\ member \in [Member -> Rows]
    /\ hits = [e \in Endpoint |-> [w \in 0..MaxTime |-> 0]]
    /\ jti = [v \in Visit |-> Nothing]
    /\ session = [v \in Visit |-> Nothing]
    /\ log = {} /\ journal = {} /\ complaints = {}
    /\ assertion = [v \in Visit |-> Nothing]
    /\ stateCookie = [b \in Browser |-> Nothing]
    /\ sessionCookie = [b \in Browser |-> Nothing]
    /\ visit = [v \in Visit |-> [stage |-> "unused", browser |-> Nothing, ticket |-> v,
                                 outcome |-> "none"]]
    /\ request = [r \in Request |-> Nothing]
    /\ passed = hits
    /\ opened = [v \in Visit |-> Nothing]
    /\ crossed = {}
    /\ left \in Bounds

\* Visits are named in the order in which they come.
Fresh(v) ==
    /\ visit[v].stage = "unused"
    /\ \A u \in Visit : u < v => visit[u].stage # "unused"

\* GET /api/auth/begin, up to its call of botonio: a 429 changes nothing else.
Begin(v, b) ==
    /\ Fresh(v)
    /\ Spend("begin")
    /\ Hit("begin")
    /\ visit' = IF Passes("begin")
                THEN [visit EXCEPT ![v] = [stage |-> "starting", browser |-> b,
                                           ticket |-> v, outcome |-> "none"]]
                ELSE visit
    /\ UNCHANGED <<now, member, jti, session, log, journal, complaints, assertion,
                   cookies, request, opened, crossed>>

\* sso_begin, and the redirect that carries the state cookie: whatever cookie the
\* browser held for another visit is gone.
BeginAnswers(v) ==
    LET b == visit[v].browser
    IN /\ visit[v].stage = "starting"
       /\ \/ /\ Go(v, "away")
             /\ stateCookie' = [stateCookie EXCEPT ![b] =
                                  [ticket |-> v, until |-> now + StateMaxAge]]
             /\ crossed' = crossed \cup Held(b)
             /\ UNCHANGED left
          \/ /\ Spend("fault")                  \* SsoUnreachable
             /\ Go(v, "unused")
             /\ UNCHANGED <<stateCookie, crossed>>
       /\ UNCHANGED <<now, member, tables, assertion, sessionCookie, request,
                      passed, opened>>

\* A callback URL is loaded once more, in any browser.
Reload(v, t, b) ==
    /\ Fresh(v)
    /\ visit[t].ticket = t /\ visit[t].stage \notin {"unused", "starting"}
    /\ Spend("reload")
    /\ visit' = [visit EXCEPT ![v] = [stage |-> "away", browser |-> b,
                                      ticket |-> t, outcome |-> "none"]]
    /\ crossed' = crossed \cup {v, t}
    /\ UNCHANGED <<now, member, tables, assertion, cookies, request, passed, opened>>

\* Any state cookie will do.
StatePresent(v) == Held(visit[v].browser) # {}

StateMatches(v) == visit[v].ticket \in Held(visit[v].browser)

\* GET /api/auth/callback, up to its call of botonio.
Callback(v) ==
    /\ visit[v].stage = "away"
    /\ Hit("callback")
    /\ \/ /\ ~ Passes("callback")
          /\ Leave(v, "limited")
          /\ UNCHANGED crossed
       \/ /\ Passes("callback") /\ ~ StateMatches(v)
          /\ Exit(v, "failed")
          /\ UNCHANGED crossed
       \/ /\ Passes("callback") /\ StateMatches(v)
          /\ Go(v, "completing")
          /\ UNCHANGED crossed
       \/ /\ Passes("callback")             \* Discord sent no code
          /\ Exit(v, "failed")
          /\ crossed' = crossed \cup {v}
    /\ UNCHANGED <<now, member, jti, session, log, journal, complaints, assertion,
                   cookies, request, opened, left>>

\* sso_complete and verify_assertion.  botonio signs one assertion per ticket; asked
\* again it refuses, or answers with the same one.
Complete(v) ==
    LET t == visit[v].ticket
    IN /\ visit[v].stage = "completing"
       /\ \/ /\ \/ Spend("fault")
                \/ assertion[t] # Nothing /\ UNCHANGED left
             /\ Exit(v, "failed")
             /\ crossed' = crossed \cup {v}
             /\ UNCHANGED assertion
          \/ /\ \/ assertion[t] # Nothing /\ UNCHANGED assertion
                \/ /\ assertion[t] = Nothing
                   /\ \E c \in Answers :
                        assertion' = [assertion EXCEPT ![t] =
                                        [claims |-> c, exp |-> now + AssertionTTL]]
             /\ IF Verifies(assertion'[t]) THEN Go(v, "claiming") ELSE Exit(v, "failed")
             /\ UNCHANGED <<crossed, left>>
       /\ UNCHANGED <<now, member, tables, cookies, request, passed, opened>>

\* On conflict the row is written again, and returned.
ClaimedAgain(t) == TRUE

\* ON CONFLICT DO NOTHING RETURNING.
Unclaimed(t) == jti[t] = Nothing

\* The jti is burned before the standing is looked at.
Claim(v) ==
    LET t == visit[v].ticket
    IN /\ visit[v].stage = "claiming"
       /\ IF Unclaimed(t)
          THEN /\ jti' = [jti EXCEPT ![t] = assertion[t].exp]
               /\ IF assertion[t].claims.standing = "member"
                  THEN Go(v, "gating") ELSE Exit(v, "denied")
          ELSE Exit(v, "denied") /\ UNCHANGED jti
       /\ UNCHANGED <<now, member, hits, session, log, journal, complaints, assertion,
                      cookies, request, passed, opened, crossed, left>>

\* gate_lookup, and what is decided on the row it read.
Gate(v) ==
    /\ visit[v].stage = "gating"
    /\ IF assertion[visit[v].ticket].claims.numeric /\ Admits(member[Owner(v)])
       THEN Go(v, "creating") ELSE Exit(v, "denied")
    /\ UNCHANGED <<now, member, tables, assertion, cookies, request,
                   passed, opened, crossed, left>>

Create(v) ==
    /\ visit[v].stage = "creating"
    /\ session' = [session EXCEPT ![v] = [created |-> now, seen |-> now]]
    /\ opened' = [opened EXCEPT ![v] = visit[v].ticket]
    /\ Exit(v, "in")
    /\ UNCHANGED <<now, member, hits, jti, log, journal, complaints, assertion,
                   cookies, request, passed, crossed, left>>

\* A row that is not written is made up for by the line.
ComplainsOfLoss(row, line) == ~ row /\ ~ line

\* What PostgresAuditSink.record raises for.
Complains(row, line) == ~ row \/ ~ line

\* PostgresAuditSink.record within record_best_effort: the row and the line are tried
\* both, either may fail, and a failure is logged and goes no further.
Record(event) ==
    \E row, line \in BOOLEAN :
       /\ IF row /\ line THEN UNCHANGED left ELSE Spend("fault")
       /\ log' = IF row THEN log \cup {event} ELSE log
       /\ journal' = IF line THEN journal \cup {event} ELSE journal
       /\ complaints' = IF Complains(row, line) THEN complaints \cup {event} ELSE complaints

Audit(v) ==
    /\ visit[v].stage = "auditing"
    /\ Record(<<visit[v].outcome, v>>)
    /\ Go(v, "answering")
    /\ UNCHANGED <<now, member, hits, jti, session, assertion, cookies, request,
                   passed, opened, crossed>>

\* The response reaches the browser, and takes the state cookie with it, whichever
\* visit the cookie is for by now.
Answer(v) ==
    LET b == visit[v].browser
    IN /\ visit[v].stage = "answering"
       /\ Go(v, "done")
       /\ stateCookie' = [stateCookie EXCEPT ![b] = Nothing]
       /\ sessionCookie' = IF visit[v].outcome = "in"
                           THEN [sessionCookie EXCEPT ![b] = v] ELSE sessionCookie
       /\ crossed' = crossed \cup (Held(b) \ {visit[v].ticket})
       /\ UNCHANGED <<now, member, tables, assertion, request, passed, opened, left>>

\* A query raises, or the service is killed: the browser is told nothing it keeps, and
\* what has been committed stands.
Break(v) ==
    /\ visit[v].stage \in InCallback
    /\ Spend("fault")
    /\ Leave(v, "broken")
    /\ UNCHANGED <<now, member, tables, assertion, cookies, request,
                   passed, opened, crossed>>

-----------------------------------------------------------------------------
(* The requests of a browser that holds a session cookie. *)

Banned(v) == member[Owner(v)].banned

Arrive(r, kind, b) ==
    /\ request[r] = Nothing
    /\ sessionCookie[b] # Nothing
    /\ Spend("request")
    /\ IF kind = "search"
       THEN Passes("search") /\ Hit("search")
       ELSE UNCHANGED <<hits, passed>>
    /\ request' = [request EXCEPT ![r] =
                     [kind |-> kind, browser |-> b, token |-> sessionCookie[b],
                      stage |-> "resolving", principal |-> FALSE,
                      shut |-> Banned(sessionCookie[b])]]
    /\ UNCHANGED <<now, member, jti, session, log, journal, complaints, assertion,
                   cookies, visit, opened, crossed>>

\* require_session, and logout's own look: one UPDATE tests both ages and refreshes.
Resolve(r) ==
    LET v == request[r].token
        next == IF request[r].kind = "logout" THEN "revoking" ELSE "reading"
    IN /\ request[r] # Nothing /\ request[r].stage = "resolving"
       /\ session' = IF Alive(v) THEN [session EXCEPT ![v].seen = now] ELSE session
       /\ request' = IF Alive(v) \/ request[r].kind = "logout"
                     THEN [request EXCEPT ![r].stage = next, ![r].principal = Alive(v)]
                     ELSE [request EXCEPT ![r] = Nothing]           \* 401
       /\ UNCHANGED <<now, member, hits, jti, log, journal, complaints, assertion,
                      cookies, visit, passed, opened, crossed, left>>

\* _resolve_member and the queries of the member's bodies, or member_by_email: the
\* search looks up the one searched for and not the one who searches.
Read(r) ==
    LET row == member[Owner(request[r].token)]
    IN /\ request[r] # Nothing /\ request[r].stage = "reading"
       /\ request' = IF request[r].kind = "search" \/ (row.known /\ ~ row.banned)
                     THEN [request EXCEPT ![r].stage = "answered"]
                     ELSE [request EXCEPT ![r] = Nothing]           \* 404
       /\ UNCHANGED <<now, member, tables, assertion, cookies, visit,
                      passed, opened, crossed, left>>

Revoke(r) ==
    /\ request[r] # Nothing /\ request[r].stage = "revoking"
    /\ session' = [session EXCEPT ![request[r].token] = Nothing]
    /\ request' = [request EXCEPT ![r].stage =
                     IF request[r].principal THEN "auditing" ELSE "answered"]
    /\ UNCHANGED <<now, member, hits, jti, log, journal, complaints, assertion,
                   cookies, visit, passed, opened, crossed, left>>

AuditLogout(r) ==
    /\ request[r] # Nothing /\ request[r].stage = "auditing"
    /\ Record(<<"logout", request[r].token>>)
    /\ request' = [request EXCEPT ![r].stage = "answered"]
    /\ UNCHANGED <<now, member, hits, jti, session, assertion, cookies, visit,
                   passed, opened, crossed>>

\* It takes both cookies.
FinishClearsBoth(r) ==
    /\ request[r] # Nothing /\ request[r].stage = "answered"
    /\ IF request[r].kind = "logout"
       THEN /\ sessionCookie' = [sessionCookie EXCEPT ![request[r].browser] = Nothing]
            /\ stateCookie' = [stateCookie EXCEPT ![request[r].browser] = Nothing]
       ELSE UNCHANGED cookies
    /\ request' = [request EXCEPT ![r] = Nothing]
    /\ UNCHANGED <<now, member, tables, assertion, visit, passed, opened, crossed, left>>

\* The response of a logout takes the session cookie with it, whichever session the
\* cookie is for by now.
Finish(r) ==
    /\ request[r] # Nothing /\ request[r].stage = "answered"
    /\ sessionCookie' = IF request[r].kind = "logout"
                        THEN [sessionCookie EXCEPT ![request[r].browser] = Nothing]
                        ELSE sessionCookie
    /\ request' = [request EXCEPT ![r] = Nothing]
    /\ UNCHANGED <<now, member, tables, assertion, stateCookie, visit,
                   passed, opened, crossed, left>>

-----------------------------------------------------------------------------
(* The clock, the sweep's housekeeping, and the records. *)

\* A browser drops a state cookie that has reached its age.
Tick ==
    LET stale == {b \in Browser : stateCookie[b] # Nothing /\ stateCookie[b].until =< now + 1}
    IN /\ now < MaxTime
       /\ now' = now + 1
       /\ stateCookie' = [b \in Browser |-> IF b \in stale THEN Nothing ELSE stateCookie[b]]
       /\ crossed' = crossed \cup UNION {Held(b) : b \in stale}
       /\ UNCHANGED <<member, tables, assertion, sessionCookie, visit, request,
                      passed, opened, left>>

\* Every window but the one that opens now.
ClosedByNow(w) == w < now

\* The windows an hour old.
Closed(w) == w < now - RateRetention

\* prune_expired, by every sweep.
Prune ==
    /\ jti' = [t \in Visit |-> IF jti[t] # Nothing /\ jti[t] < now THEN Nothing ELSE jti[t]]
    /\ hits' = [e \in Endpoint |-> [w \in 0..MaxTime |->
                  IF Closed(w) THEN 0 ELSE hits[e][w]]]
    /\ UNCHANGED <<now, member, session, log, journal, complaints, assertion, cookies,
                   visit, request, passed, opened, crossed, left>>

\* A pull or an operator writes a member's row, or a ban.
RecordsChange(m, row) ==
    /\ Spend("records")
    /\ member' = [member EXCEPT ![m] = row]
    /\ crossed' = Visit
    /\ request' = [r \in Request |->
                     IF request[r] # Nothing /\ Owner(request[r].token) = m /\ ~ row.banned
                     THEN [request[r] EXCEPT !.shut = FALSE] ELSE request[r]]
    /\ UNCHANGED <<now, tables, assertion, cookies, visit, passed, opened>>

-----------------------------------------------------------------------------

VisitStep(v) ==
    \/ BeginAnswers(v) \/ Complete(v) \/ Claim(v) \/ Gate(v) \/ Create(v)
    \/ Audit(v) \/ Answer(v)

RequestStep(r) == Resolve(r) \/ Read(r) \/ Revoke(r) \/ AuditLogout(r) \/ Finish(r)

Next ==
    \/ \E v \in Visit : VisitStep(v) \/ Callback(v) \/ Break(v)
    \/ \E v \in Visit, b \in Browser : Begin(v, b)
    \/ \E v, t \in Visit, b \in Browser : Reload(v, t, b)
    \/ \E r \in Request : RequestStep(r)
    \/ \E r \in Request, kind \in {"me", "search", "logout"}, b \in Browser :
          Arrive(r, kind, b)
    \/ Tick
    \/ Prune
    \/ \E m \in Member, row \in Rows : RecordsChange(m, row)

Spec == Init /\ [][Next]_vars
=============================================================================

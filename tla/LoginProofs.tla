----------------------------- MODULE LoginProofs -----------------------------
(***************************************************************************)
(* The login for any number of visits, browsers and requests: it           *)
(* implements Access, lands a session where it began, lets no more         *)
(* requests pass than the limit, lets an undisturbed leader in (LandInv)   *)
(* and leaves no outcome off the record without a complaint (Readers).     *)
(***************************************************************************)
EXTENDS LoginProperties, TLAPS

-----------------------------------------------------------------------------
(* The inductive invariant, in parts. *)

\* A visit that has burned its assertion and may open, or has opened, a session.
Burning(v) == visit[v].stage \in {"gating", "creating"} \/ opened[v] # Nothing

\* What the stages of a visit say of its other fields.
Stages ==
    \A v \in Visit :
       /\ visit[v].stage # "unused" => visit[v].browser \in Browser
       /\ visit[v].stage \in {"auditing", "answering"} =>
             visit[v].outcome \in {"in", "failed", "denied"}
       /\ visit[v].outcome = "in" => opened[v] # Nothing
       /\ opened[v] # Nothing =>
             /\ opened[v] = visit[v].ticket
             /\ visit[v].stage \in {"auditing", "answering", "done"}
       /\ session[v] # Nothing => opened[v] # Nothing

\* An assertion is in jti_replay while it is valid, once it has been claimed, and two
\* visits can have claimed it only after it has ceased to be.
BurnedOnce ==
    /\ \A t \in Visit : jti[t] # Nothing => assertion[t] # Nothing /\ jti[t] = assertion[t].exp
    /\ \A v \in Visit : visit[v].stage = "claiming" \/ Burning(v) =>
          assertion[visit[v].ticket] # Nothing
    /\ \A v \in Visit : Burning(v) =>
          jti[visit[v].ticket] # Nothing \/ assertion[visit[v].ticket].exp =< now
    /\ \A u, v \in Visit :
          Burning(u) /\ Burning(v) /\ u # v /\ visit[u].ticket = visit[v].ticket =>
             assertion[visit[v].ticket].exp =< now

\* The begin that a ticket is named after has happened, in the browser that holds it.
Begun(t) == visit[t].stage \notin {"unused", "starting"}

\* A visit whose state matched, up to the session it lands.
Matched(v) ==
    \/ visit[v].stage \in {"completing", "claiming", "gating", "creating"}
    \/ visit[v].outcome = "in"

SameBrowser ==
    /\ \A v \in Visit : visit[v].ticket = v \/ Begun(visit[v].ticket)
    /\ \A b \in Browser : stateCookie[b] # Nothing =>
          Begun(stateCookie[b].ticket) /\ visit[stateCookie[b].ticket].browser = b
    /\ \A v \in Visit : Matched(v) =>
          Begun(v) /\ visit[visit[v].ticket].browser = visit[v].browser
    /\ \A b \in Browser : sessionCookie[b] # Nothing =>
          Begun(sessionCookie[b]) /\ opened[sessionCookie[b]] # Nothing

\* In a window that is not over the counter has not fallen behind.
Counted ==
    \A e \in Endpoint, w \in 0..MaxTime :
       now < w + Window => passed[e][w] =< hits[e][w]

LoginInv ==
    /\ TypeOK /\ Stages /\ BurnedOnce
    /\ SameBrowser /\ LandsWhereItBegan /\ Counted /\ RateCap

-----------------------------------------------------------------------------
(* What the steps have in common. *)

\* The window of the moment has opened and is not over.
LEMMA WindowOpen ==
    ASSUME TypeOK
    PROVE  WindowStart \in 0..MaxTime /\ now < WindowStart + Window
<1>1. now \in Nat /\ MaxTime \in Nat /\ now =< MaxTime /\ Window \in Nat \ {0}
  BY LoginAssumption DEF TypeOK
<1>2. now % Window \in 0..(Window - 1) /\ now % Window =< now
  BY <1>1
<1>. QED
  BY <1>1, <1>2 DEF WindowStart

\* Bounds are spent, never created.
LEMMA SpendType ==
    ASSUME TypeOK, NEW k \in BoundKind, Spend(k)
    PROVE  left' \in [BoundKind -> Nat]
BY DEF TypeOK, Spend

\* One counter more.
LEMMA Bumped ==
    ASSUME NEW f \in [Endpoint -> [0..MaxTime -> Nat]], NEW e \in Endpoint,
           NEW w \in 0..MaxTime,
           NEW g, g = [f EXCEPT ![e][w] = @ + 1]
    PROVE  /\ g \in [Endpoint -> [0..MaxTime -> Nat]]
           /\ g[e][w] = f[e][w] + 1
           /\ \A d \in Endpoint, x \in 0..MaxTime : d # e \/ x # w => g[d][x] = f[d][x]
<1>. DEFINE h == [f[e] EXCEPT ![w] = @ + 1]
<1>1. f[e] \in [0..MaxTime -> Nat] /\ f[e][w] \in Nat
  OBVIOUS
<1>2. /\ h \in [0..MaxTime -> Nat] /\ h[w] = f[e][w] + 1
      /\ \A x \in 0..MaxTime : x # w => h[x] = f[e][x]
  BY <1>1
<1>3. g = [f EXCEPT ![e] = h]
  OBVIOUS
<1>. HIDE DEF h
<1>4. g[e] = h /\ g \in [Endpoint -> [0..MaxTime -> Nat]]
      /\ \A d \in Endpoint : d # e => g[d] = f[d]
  BY <1>2, <1>3
<1>. QED
  BY <1>2, <1>4

\* Counting keeps the counters' types, their order and the cap.
LEMMA HitKeeps ==
    ASSUME LoginInv, NEW e \in Endpoint, Hit(e), UNCHANGED now
    PROVE  /\ hits' \in [Endpoint -> [0..MaxTime -> Nat]]
           /\ passed' \in [Endpoint -> [0..MaxTime -> Nat]]
           /\ Counted' /\ RateCap'
<1>. DEFINE W == WindowStart
<1>1. W \in 0..MaxTime /\ now < W + Window
  BY WindowOpen DEF LoginInv
<1>2. /\ hits \in [Endpoint -> [0..MaxTime -> Nat]]
      /\ passed \in [Endpoint -> [0..MaxTime -> Nat]]
      /\ AuthRateLimit \in Nat
  BY LoginAssumption DEF LoginInv, TypeOK
<1>3. hits' = [hits EXCEPT ![e][W] = @ + 1]
  BY DEF Hit
<1>. HIDE DEF W
<1>4. /\ hits' \in [Endpoint -> [0..MaxTime -> Nat]]
      /\ hits'[e][W] = hits[e][W] + 1
      /\ \A d \in Endpoint, x \in 0..MaxTime : d # e \/ x # W => hits'[d][x] = hits[d][x]
  BY <1>1, <1>2, <1>3, Bumped
<1>9. \A d \in Endpoint, x \in 0..MaxTime : hits[d][x] \in Nat /\ hits'[d][x] \in Nat
  <2>1. \A d \in Endpoint : hits[d] \in [0..MaxTime -> Nat] /\ hits'[d] \in [0..MaxTime -> Nat]
    BY <1>2, <1>4
  <2>. QED
    BY <2>1
<1>5. \A d \in Endpoint, x \in 0..MaxTime : passed[d][x] \in Nat /\ passed[d][x] =< AuthRateLimit
  BY <1>2 DEF LoginInv, RateCap
<1>6. \A d \in Endpoint, x \in 0..MaxTime : now < x + Window => passed[d][x] =< hits[d][x]
  BY DEF LoginInv, Counted
<1>7. CASE ~ Passes(e)
  <2>1. passed' = passed
    BY <1>7 DEF Hit
  <2>2. Counted'
    BY <1>4, <1>5, <1>6, <1>9, <2>1 DEF Counted
  <2>. QED
    BY <1>2, <1>4, <1>5, <2>1, <2>2 DEF RateCap
<1>8. CASE Passes(e)
  <2>1. passed' = [passed EXCEPT ![e][W] = @ + 1]
    BY <1>8 DEF Hit, W
  <2>2. /\ passed' \in [Endpoint -> [0..MaxTime -> Nat]]
        /\ passed'[e][W] = passed[e][W] + 1
        /\ \A d \in Endpoint, x \in 0..MaxTime : d # e \/ x # W => passed'[d][x] = passed[d][x]
    BY <1>1, <1>2, <2>1, Bumped
  <2>3. hits[e][W] + 1 =< AuthRateLimit
    BY <1>8 DEF Passes, W
  <2>4. Counted'
    BY <1>4, <1>5, <1>6, <1>9, <2>2 DEF Counted
  <2>5. passed[e][W] + 1 =< AuthRateLimit
    BY <1>1, <1>2, <1>4, <1>5, <1>6, <1>9, <2>3
  <2>6. RateCap'
    BY <1>5, <2>2, <2>5 DEF RateCap
  <2>. QED
    BY <1>4, <2>2, <2>4, <2>6
<1>. QED
  BY <1>7, <1>8

\* Recording an event keeps the logs' types.
LEMMA RecordType ==
    ASSUME TypeOK, NEW event \in Event, Record(event)
    PROVE  /\ log' \subseteq Event /\ journal' \subseteq Event /\ complaints' \subseteq Event
           /\ left' \in [BoundKind -> Nat]
BY SpendType DEF TypeOK, Record, BoundKind

\* Moving a visit keeps the type of all visits, and moves no other.
LEMMA MoveType ==
    ASSUME TypeOK, NEW v \in Visit, NEW s \in Stage, NEW o \in Outcome,
           visit' = [visit EXCEPT ![v].stage = s, ![v].outcome = o]
    PROVE  /\ visit' \in [Visit -> Visits]
           /\ visit'[v] = [visit[v] EXCEPT !.stage = s, !.outcome = o]
           /\ visit'[v].stage = s /\ visit'[v].outcome = o
           /\ visit'[v].ticket = visit[v].ticket /\ visit'[v].browser = visit[v].browser
           /\ \A u \in Visit : u # v => visit'[u] = visit[u]
<1>1. visit[v] \in Visits
  BY DEF TypeOK
<1>2. [visit[v] EXCEPT !.stage = s, !.outcome = o] \in Visits
  BY <1>1 DEF Visits
<1>. QED
  BY <1>1, <1>2 DEF TypeOK, Visits

\* Go keeps the outcome.
LEMMA GoType ==
    ASSUME TypeOK, NEW v \in Visit, NEW s \in Stage, Go(v, s)
    PROVE  /\ visit' \in [Visit -> Visits]
           /\ visit'[v].stage = s /\ visit'[v].outcome = visit[v].outcome
           /\ visit'[v].ticket = visit[v].ticket /\ visit'[v].browser = visit[v].browser
           /\ \A u \in Visit : u # v => visit'[u] = visit[u]
<1>1. visit[v] \in Visits
  BY DEF TypeOK
<1>2. [visit[v] EXCEPT !.stage = s] \in Visits
  BY <1>1 DEF Visits
<1>. QED
  BY <1>1, <1>2 DEF TypeOK, Visits, Go

\* Exit says what became of the visit, and leaves it to be audited.
LEMMA ExitType ==
    ASSUME TypeOK, NEW v \in Visit, NEW o \in Outcome, Exit(v, o)
    PROVE  /\ visit' \in [Visit -> Visits]
           /\ visit'[v].stage = "auditing" /\ visit'[v].outcome = o
           /\ visit'[v].ticket = visit[v].ticket /\ visit'[v].browser = visit[v].browser
           /\ \A u \in Visit : u # v => visit'[u] = visit[u]
BY MoveType DEF Exit, Stage

\* Leave ends it.
LEMMA LeaveType ==
    ASSUME TypeOK, NEW v \in Visit, NEW o \in Outcome, Leave(v, o)
    PROVE  /\ visit' \in [Visit -> Visits]
           /\ visit'[v].stage = "done" /\ visit'[v].outcome = o
           /\ visit'[v].ticket = visit[v].ticket /\ visit'[v].browser = visit[v].browser
           /\ \A u \in Visit : u # v => visit'[u] = visit[u]
BY MoveType DEF Leave, Stage

\* A visit that begins, or loads a URL once more.
LEMMA EnterType ==
    ASSUME TypeOK, NEW v \in Visit, NEW t \in Visit, NEW b \in Browser, NEW s \in Stage,
           visit' = [visit EXCEPT ![v] = [stage |-> s, browser |-> b, ticket |-> t,
                                          outcome |-> "none"]]
    PROVE  /\ visit' \in [Visit -> Visits]
           /\ visit'[v].stage = s /\ visit'[v].outcome = "none"
           /\ visit'[v].ticket = t /\ visit'[v].browser = b
           /\ \A u \in Visit : u # v => visit'[u] = visit[u]
<1>1. [stage |-> s, browser |-> b, ticket |-> t, outcome |-> "none"] \in Visits
  BY DEF Visits, Outcome
<1>. QED
  BY <1>1 DEF TypeOK

\* Now and its sums are numbers.
LEMMA Clock ==
    ASSUME TypeOK
    PROVE  /\ now \in Nat /\ MaxTime \in Nat /\ now =< MaxTime
           /\ now + StateMaxAge \in Nat /\ now + AssertionTTL \in Nat
BY LoginAssumption DEF TypeOK

\* The ticket a browser holds is a visit.
LEMMA HeldType ==
    ASSUME TypeOK, NEW b \in Browser
    PROVE  /\ Held(b) \subseteq Visit
           /\ stateCookie[b] # Nothing => stateCookie[b].ticket \in Visit
BY DEF TypeOK, Held

\* What a visit's fields may hold.
LEMMA VisitFields ==
    ASSUME TypeOK, NEW v \in Visit
    PROVE  /\ visit[v] \in Visits
           /\ visit[v].stage \in Stage /\ visit[v].outcome \in Outcome
           /\ visit[v].ticket \in Visit
           /\ visit[v].browser \in Browser \cup {Nothing}
BY DEF TypeOK, Visits

\* An assertion's fields.
LEMMA AssertionFields ==
    ASSUME TypeOK, NEW t \in Visit, assertion[t] # Nothing
    PROVE  /\ assertion[t] \in [claims : Claims, exp : Nat]
           /\ assertion[t].exp \in Nat /\ assertion[t].claims.member \in Member
<1>1. assertion[t] \in [claims : Claims, exp : Nat]
  BY DEF TypeOK
<1>. QED
  BY <1>1 DEF Claims

\* The event an audit records is one.
LEMMA OutcomeEvent ==
    ASSUME LoginInv, NEW v \in Visit, visit[v].stage = "auditing"
    PROVE  <<visit[v].outcome, v>> \in Event
BY DEF LoginInv, Stages, Event

\* A request's fields, when it moves on.
LEMMA RequestType ==
    ASSUME TypeOK, NEW r \in Request, request[r] # Nothing,
           NEW s \in {"resolving", "reading", "revoking", "auditing", "answered"},
           NEW p \in BOOLEAN
    PROVE  /\ request[r] \in Requests
           /\ [request[r] EXCEPT !.stage = s] \in Requests
           /\ [request[r] EXCEPT !.stage = s, !.principal = p] \in Requests
           /\ [request[r] EXCEPT !.shut = p] \in Requests
           /\ request[r].token \in Visit
<1>1. request[r] \in Requests
  BY DEF TypeOK
<1>. QED
  BY <1>1 DEF Requests

\* The member a session cookie's session is for.
LEMMA CookieOwner ==
    ASSUME LoginInv, NEW b \in Browser, sessionCookie[b] # Nothing
    PROVE  /\ sessionCookie[b] \in Visit
           /\ Owner(sessionCookie[b]) \in Member
           /\ Banned(sessionCookie[b]) \in BOOLEAN
<1>. DEFINE v == sessionCookie[b]
<1>1. v \in Visit /\ opened[v] # Nothing
  BY DEF LoginInv, TypeOK, SameBrowser
<1>2. assertion[visit[v].ticket] # Nothing
  BY <1>1 DEF LoginInv, BurnedOnce, Burning
<1>3. Owner(v) \in Member
  BY <1>1, <1>2, VisitFields, AssertionFields DEF LoginInv, Owner
<1>. QED
  BY <1>1, <1>3 DEF LoginInv, TypeOK, Banned, GateRow

-----------------------------------------------------------------------------
(* Types. *)

LEMMA TypeInit == Init => TypeOK /\ LoginInv
<1>. SUFFICES ASSUME Init PROVE LoginInv
  BY DEF LoginInv
<1>1. TypeOK
  BY LoginAssumption, NothingAssumption
     DEF Init, TypeOK, Visits, Stage, Outcome, GateRow
<1>2. Stages
  BY DEF Init, Stages
<1>3. BurnedOnce
  BY DEF Init, BurnedOnce, Burning
<1>4. SameBrowser
  BY DEF Init, SameBrowser, Matched
<1>5. LandsWhereItBegan
  BY DEF Init, LandsWhereItBegan
<1>6. Counted /\ RateCap
  BY LoginAssumption DEF Init, Counted, RateCap
<1>. QED
  BY <1>1, <1>2, <1>3, <1>4, <1>5, <1>6 DEF LoginInv

\* The steps of a visit.
LEMMA TypeVisit ==
    ASSUME LoginInv, NEW v \in Visit, VisitStep(v) \/ Callback(v) \/ Break(v)
    PROVE  TypeOK'
<1>. USE DEF LoginInv
<1>. \A s \in {"away", "unused", "completing", "claiming", "gating", "creating",
               "answering", "done", "auditing"} : s \in Stage
  BY DEF Stage
<1>. {"failed", "denied", "in", "limited", "broken"} \subseteq Outcome
  BY DEF Outcome
<1>1. CASE BeginAnswers(v)
  <2>1. visit' \in [Visit -> Visits] /\ left' \in [BoundKind -> Nat]
    BY <1>1, GoType, SpendType DEF BeginAnswers, TypeOK, BoundKind
  <2>2. stateCookie' \in [Browser -> [ticket : Visit, until : Nat] \cup {Nothing}]
    <3>1. [ticket |-> v, until |-> now + StateMaxAge] \in [ticket : Visit, until : Nat]
      BY Clock
    <3>. QED
      BY <1>1, <3>1 DEF BeginAnswers, TypeOK
  <2>3. crossed' \subseteq Visit
    BY <1>1, HeldType DEF BeginAnswers, TypeOK, Stages
  <2>. QED
    BY <1>1, <2>1, <2>2, <2>3 DEF BeginAnswers, TypeOK, tables
<1>2. CASE Complete(v)
  <2>. DEFINE t == visit[v].ticket
  <2>0. t \in Visit
    BY VisitFields
  <2>1. visit' \in [Visit -> Visits] /\ left' \in [BoundKind -> Nat]
    BY <1>2, GoType, ExitType, SpendType DEF Complete, TypeOK, BoundKind
  <2>2. assertion' \in [Visit -> [claims : Claims, exp : Nat] \cup {Nothing}]
    <3>1. \A c \in Answers : [claims |-> c, exp |-> now + AssertionTTL]
                                \in [claims : Claims, exp : Nat]
      BY Clock, LoginAssumption
    <3>. QED
      BY <1>2, <2>0, <3>1 DEF Complete, TypeOK
  <2>3. crossed' \subseteq Visit
    BY <1>2 DEF Complete, TypeOK
  <2>. QED
    BY <1>2, <2>1, <2>2, <2>3 DEF Complete, TypeOK, tables, cookies
<1>3. CASE Claim(v)
  <2>. DEFINE t == visit[v].ticket
  <2>0. t \in Visit /\ assertion[t] # Nothing
    BY <1>3, VisitFields DEF Claim, BurnedOnce
  <2>1. visit' \in [Visit -> Visits]
    BY <1>3, GoType, ExitType DEF Claim
  <2>2. jti' \in [Visit -> Nat \cup {Nothing}]
    BY <1>3, <2>0, AssertionFields DEF Claim, TypeOK
  <2>. QED
    BY <1>3, <2>1, <2>2 DEF Claim, TypeOK, cookies
<1>4. CASE Gate(v)
  <2>1. visit' \in [Visit -> Visits]
    BY <1>4, GoType, ExitType DEF Gate
  <2>. QED
    BY <1>4, <2>1 DEF Gate, TypeOK, tables, cookies
<1>5. CASE Create(v)
  <2>1. visit' \in [Visit -> Visits]
    BY <1>5, ExitType DEF Create
  <2>2. /\ session' \in [Visit -> [created : Nat, seen : Nat] \cup {Nothing}]
        /\ opened' \in [Visit -> Visit \cup {Nothing}]
    <3>1. [created |-> now, seen |-> now] \in [created : Nat, seen : Nat]
      BY Clock
    <3>. QED
      BY <1>5, <3>1, VisitFields DEF Create, TypeOK
  <2>. QED
    BY <1>5, <2>1, <2>2 DEF Create, TypeOK, cookies
<1>6. CASE Audit(v)
  <2>1. visit' \in [Visit -> Visits]
    BY <1>6, GoType DEF Audit
  <2>2. <<visit[v].outcome, v>> \in Event
    BY <1>6, OutcomeEvent DEF Audit
  <2>3. /\ log' \subseteq Event /\ journal' \subseteq Event /\ complaints' \subseteq Event
        /\ left' \in [BoundKind -> Nat]
    BY <1>6, <2>2, RecordType DEF Audit
  <2>. QED
    BY <1>6, <2>1, <2>3 DEF Audit, TypeOK, cookies
<1>7. CASE Answer(v)
  <2>1. visit' \in [Visit -> Visits]
    BY <1>7, GoType DEF Answer
  <2>2. /\ stateCookie' \in [Browser -> [ticket : Visit, until : Nat] \cup {Nothing}]
        /\ sessionCookie' \in [Browser -> Visit \cup {Nothing}]
    BY <1>7 DEF Answer, TypeOK
  <2>3. crossed' \subseteq Visit
    BY <1>7, HeldType DEF Answer, TypeOK, Stages
  <2>. QED
    BY <1>7, <2>1, <2>2, <2>3 DEF Answer, TypeOK, tables
<1>8. CASE Callback(v)
  <2>1. visit' \in [Visit -> Visits]
    BY <1>8, GoType, ExitType, LeaveType DEF Callback
  <2>2. /\ hits' \in [Endpoint -> [0..MaxTime -> Nat]]
        /\ passed' \in [Endpoint -> [0..MaxTime -> Nat]]
    BY <1>8, HitKeeps DEF Callback, Endpoint
  <2>3. crossed' \subseteq Visit
    BY <1>8 DEF Callback, TypeOK
  <2>. QED
    BY <1>8, <2>1, <2>2, <2>3 DEF Callback, TypeOK, cookies
<1>9. CASE Break(v)
  <2>1. visit' \in [Visit -> Visits] /\ left' \in [BoundKind -> Nat]
    BY <1>9, LeaveType, SpendType DEF Break, BoundKind
  <2>. QED
    BY <1>9, <2>1 DEF Break, TypeOK, tables, cookies
<1>. QED
  BY <1>1, <1>2, <1>3, <1>4, <1>5, <1>6, <1>7, <1>8, <1>9 DEF VisitStep

\* The steps that start a visit.
LEMMA TypeEnter ==
    ASSUME LoginInv, NEW v \in Visit, NEW t \in Visit, NEW b \in Browser,
           Begin(v, b) \/ Reload(v, t, b)
    PROVE  TypeOK'
<1>. USE DEF LoginInv
<1>1. CASE Begin(v, b)
  <2>1. visit' \in [Visit -> Visits]
    BY <1>1, EnterType DEF Begin, Stage, TypeOK
  <2>2. /\ hits' \in [Endpoint -> [0..MaxTime -> Nat]]
        /\ passed' \in [Endpoint -> [0..MaxTime -> Nat]]
        /\ left' \in [BoundKind -> Nat]
    BY <1>1, HitKeeps, SpendType DEF Begin, Endpoint, BoundKind
  <2>. QED
    BY <1>1, <2>1, <2>2 DEF Begin, TypeOK, cookies
<1>2. CASE Reload(v, t, b)
  <2>1. visit' \in [Visit -> Visits] /\ left' \in [BoundKind -> Nat]
    BY <1>2, EnterType, SpendType DEF Reload, Stage, BoundKind
  <2>. QED
    BY <1>2, <2>1 DEF Reload, TypeOK, tables, cookies
<1>. QED
  BY <1>1, <1>2

\* The requests of a session.
LEMMA TypeRequest ==
    ASSUME LoginInv, NEW r \in Request,
           \/ RequestStep(r)
           \/ \E kind \in {"me", "search", "logout"}, b \in Browser : Arrive(r, kind, b)
    PROVE  TypeOK'
<1>. USE DEF LoginInv
<1>1. ASSUME NEW kind \in {"me", "search", "logout"}, NEW b \in Browser, Arrive(r, kind, b)
      PROVE  TypeOK'
  <2>1. [kind |-> kind, browser |-> b, token |-> sessionCookie[b], stage |-> "resolving",
         principal |-> FALSE, shut |-> Banned(sessionCookie[b])] \in Requests
    BY <1>1, CookieOwner DEF Arrive, Requests
  <2>2. request' \in [Request -> Requests \cup {Nothing}]
    BY <1>1, <2>1 DEF Arrive, TypeOK
  <2>3. /\ hits' \in [Endpoint -> [0..MaxTime -> Nat]]
        /\ passed' \in [Endpoint -> [0..MaxTime -> Nat]]
        /\ left' \in [BoundKind -> Nat]
    BY <1>1, HitKeeps, SpendType DEF Arrive, Endpoint, BoundKind, TypeOK
  <2>. QED
    BY <1>1, <2>2, <2>3 DEF Arrive, TypeOK, cookies
<1>2. CASE Resolve(r)
  <2>. DEFINE v == request[r].token
              p == Alive(v)
  <2>0. p \in BOOLEAN
    BY DEF Alive
  <2>1. request' \in [Request -> Requests \cup {Nothing}]
    BY <1>2, <2>0, RequestType DEF Resolve, TypeOK
  <2>2. session' \in [Visit -> [created : Nat, seen : Nat] \cup {Nothing}]
    <3>1. v \in Visit /\ now \in Nat
      BY <1>2, RequestType, Clock DEF Resolve
    <3>2. CASE ~ p
      BY <1>2, <3>2 DEF Resolve, TypeOK
    <3>3. CASE p
      <4>1. session[v] \in [created : Nat, seen : Nat]
        BY <3>1, <3>3 DEF TypeOK, Alive
      <4>2. [session[v] EXCEPT !.seen = now] \in [created : Nat, seen : Nat]
        BY <3>1, <4>1
      <4>3. session' = [session EXCEPT ![v] = [session[v] EXCEPT !.seen = now]]
        BY <1>2, <3>3 DEF Resolve
      <4>. QED
        BY <3>1, <4>2, <4>3 DEF TypeOK
    <3>. QED
      BY <3>2, <3>3
  <2>. QED
    BY <1>2, <2>1, <2>2 DEF Resolve, TypeOK, cookies
<1>3. CASE Read(r)
  <2>1. request' \in [Request -> Requests \cup {Nothing}]
    BY <1>3, RequestType DEF Read, TypeOK
  <2>. QED
    BY <1>3, <2>1 DEF Read, TypeOK, tables, cookies
<1>4. CASE Revoke(r)
  <2>1. request' \in [Request -> Requests \cup {Nothing}]
    BY <1>4, RequestType DEF Revoke, TypeOK
  <2>. QED
    BY <1>4, <2>1 DEF Revoke, TypeOK, cookies
<1>5. CASE AuditLogout(r)
  <2>1. request' \in [Request -> Requests \cup {Nothing}]
    BY <1>5, RequestType DEF AuditLogout, TypeOK
  <2>2. <<"logout", request[r].token>> \in Event
    BY <1>5, RequestType DEF AuditLogout, Event
  <2>3. /\ log' \subseteq Event /\ journal' \subseteq Event /\ complaints' \subseteq Event
        /\ left' \in [BoundKind -> Nat]
    BY <1>5, <2>2, RecordType DEF AuditLogout
  <2>. QED
    BY <1>5, <2>1, <2>3 DEF AuditLogout, TypeOK, cookies
<1>6. CASE Finish(r)
  BY <1>6 DEF Finish, TypeOK, tables
<1>. QED
  BY <1>1, <1>2, <1>3, <1>4, <1>5, <1>6 DEF RequestStep

\* Everything else.
LEMMA TypeOther ==
    ASSUME LoginInv, Tick \/ Prune \/ \E m \in Member, row \in Rows : RecordsChange(m, row)
    PROVE  TypeOK'
<1>. USE DEF LoginInv
<1>1. CASE Tick
  <2>1. now' \in 0..MaxTime
    BY <1>1, LoginAssumption DEF Tick, TypeOK
  <2>2. crossed' \subseteq Visit
    BY <1>1 DEF Tick, TypeOK, Held
  <2>3. stateCookie' \in [Browser -> [ticket : Visit, until : Nat] \cup {Nothing}]
    BY <1>1 DEF Tick, TypeOK
  <2>. QED
    BY <1>1, <2>1, <2>2, <2>3 DEF Tick, TypeOK, tables
<1>2. CASE Prune
  <2>1. jti' \in [Visit -> Nat \cup {Nothing}]
    BY <1>2 DEF Prune, TypeOK
  <2>2. hits' \in [Endpoint -> [0..MaxTime -> Nat]]
    <3>1. \A e \in Endpoint : hits[e] \in [0..MaxTime -> Nat]
      BY DEF TypeOK
    <3>2. \A e \in Endpoint, w \in 0..MaxTime : hits[e][w] \in Nat
      BY <3>1
    <3>. QED
      BY <1>2, <3>2 DEF Prune
  <2>. QED
    BY <1>2, <2>1, <2>2 DEF Prune, TypeOK, cookies
<1>3. ASSUME NEW m \in Member, NEW row \in Rows, RecordsChange(m, row)
      PROVE  TypeOK'
  <2>1. member' \in [Member -> GateRow] /\ left' \in [BoundKind -> Nat]
    BY <1>3, LoginAssumption, SpendType DEF RecordsChange, TypeOK, BoundKind
  <2>2. request' \in [Request -> Requests \cup {Nothing}]
    BY <1>3, RequestType DEF RecordsChange, TypeOK
  <2>. QED
    BY <1>3, <2>1, <2>2 DEF RecordsChange, TypeOK, tables, cookies
<1>. QED
  BY <1>1, <1>2, <1>3

-----------------------------------------------------------------------------
(* The stages of the visits, and what they have burned and opened. *)

\* No step but a visit's own touches its fields, what it opened or its session's row;
\* but a session may end, and be refreshed.
LEMMA StagesStep ==
    ASSUME LoginInv, Next
    PROVE  Stages'
<1>. USE DEF LoginInv
<1>0. \A v \in Visit : visit[v].browser \in Browser \/ visit[v].stage = "unused"
  BY DEF Stages
<1>1. ASSUME NEW v \in Visit, BeginAnswers(v) PROVE Stages'
  BY <1>1, GoType DEF BeginAnswers, Stages, tables, Stage
<1>2. ASSUME NEW v \in Visit, Complete(v) PROVE Stages'
  BY <1>2, GoType, ExitType DEF Complete, Stages, tables, Stage, Outcome
<1>3. ASSUME NEW v \in Visit, Claim(v) PROVE Stages'
  BY <1>3, GoType, ExitType DEF Claim, Stages, Stage, Outcome
<1>4. ASSUME NEW v \in Visit, Gate(v) PROVE Stages'
  BY <1>4, GoType, ExitType DEF Gate, Stages, tables, Stage, Outcome
<1>5. ASSUME NEW v \in Visit, Create(v) PROVE Stages'
  <2>1. opened'[v] = visit[v].ticket /\ visit[v].ticket # Nothing
    BY <1>5, VisitFields, LoginAssumption, NothingAssumption DEF Create, TypeOK
  <2>2. \A u \in Visit : u # v => opened'[u] = opened[u] /\ session'[u] = session[u]
    BY <1>5 DEF Create, TypeOK
  <2>. QED
    BY <1>5, <2>1, <2>2, ExitType DEF Create, Stages, Outcome
<1>6. ASSUME NEW v \in Visit, Audit(v) PROVE Stages'
  BY <1>6, GoType DEF Audit, Stages, Stage
<1>7. ASSUME NEW v \in Visit, Answer(v) PROVE Stages'
  BY <1>7, GoType DEF Answer, Stages, Stage, tables
<1>8. ASSUME NEW v \in Visit, Callback(v) PROVE Stages'
  BY <1>8, GoType, ExitType, LeaveType DEF Callback, Stages, Stage, Outcome
<1>9. ASSUME NEW v \in Visit, Break(v) PROVE Stages'
  BY <1>9, LeaveType DEF Break, Stages, Outcome, tables, InCallback
<1>10. ASSUME NEW v \in Visit, NEW b \in Browser, Begin(v, b) PROVE Stages'
  <2>1. CASE Passes("begin")
    <3>1. /\ visit'[v].stage = "starting" /\ visit'[v].outcome = "none"
          /\ visit'[v].browser = b
          /\ \A u \in Visit : u # v => visit'[u] = visit[u]
      BY <1>10, <2>1, EnterType DEF Begin, Stage
    <3>2. opened[v] = Nothing
      BY <1>10 DEF Begin, Fresh, Stages
    <3>. QED
      BY <1>10, <3>1, <3>2 DEF Begin, Stages
  <2>2. CASE ~ Passes("begin")
    BY <1>10, <2>2 DEF Begin, Stages
  <2>. QED
    BY <2>1, <2>2
<1>11. ASSUME NEW v \in Visit, NEW t \in Visit, NEW b \in Browser, Reload(v, t, b)
       PROVE  Stages'
  <2>1. /\ visit'[v].stage = "away" /\ visit'[v].outcome = "none"
        /\ visit'[v].browser = b
        /\ \A u \in Visit : u # v => visit'[u] = visit[u]
    BY <1>11, EnterType DEF Reload, Stage
  <2>2. opened[v] = Nothing
    BY <1>11 DEF Reload, Fresh, Stages
  <2>. QED
    BY <1>11, <2>1, <2>2 DEF Reload, Stages, tables
<1>12. ASSUME NEW r \in Request, RequestStep(r) PROVE Stages'
  <2>1. CASE Resolve(r)
    <3>1. request[r].token \in Visit
      BY <2>1, RequestType DEF Resolve
    <3>2. \A u \in Visit : session'[u] # Nothing => session[u] # Nothing
      BY <2>1, <3>1 DEF Resolve, Alive, TypeOK
    <3>. QED
      BY <2>1, <3>2 DEF Resolve, Stages
  <2>2. CASE Revoke(r)
    <3>1. \A u \in Visit : session'[u] # Nothing => session[u] # Nothing
      BY <2>2 DEF Revoke, TypeOK
    <3>. QED
      BY <2>2, <3>1 DEF Revoke, Stages
  <2>3. CASE Read(r) \/ AuditLogout(r) \/ Finish(r)
    BY <2>3 DEF Read, AuditLogout, Finish, Stages, tables
  <2>. QED
    BY <1>12, <2>1, <2>2, <2>3 DEF RequestStep
<1>13. ASSUME NEW r \in Request, NEW kind \in {"me", "search", "logout"},
              NEW b \in Browser, Arrive(r, kind, b)
       PROVE  Stages'
  BY <1>13 DEF Arrive, Stages
<1>14. CASE Tick \/ Prune
  BY <1>14 DEF Tick, Prune, Stages, tables
<1>15. ASSUME NEW m \in Member, NEW row \in Rows, RecordsChange(m, row) PROVE Stages'
  BY <1>15 DEF RecordsChange, Stages, tables
<1>. QED
  BY <1>1, <1>2, <1>3, <1>4, <1>5, <1>6, <1>7, <1>8, <1>9, <1>10, <1>11, <1>12, <1>13,
     <1>14, <1>15 DEF Next, VisitStep

\* No visit gets nearer to a claim, and one that has a ticket to lose keeps it.
BurnsNothing ==
    /\ UNCHANGED <<jti, assertion, opened>>
    /\ \A u \in Visit :
          /\ visit'[u].stage \in {"claiming", "gating", "creating"} =>
                visit'[u].stage = visit[u].stage
          /\ \/ visit'[u].ticket = visit[u].ticket
             \/ visit'[u].stage \in {"away", "starting"} /\ opened[u] = Nothing

\* A step that burns nothing keeps what is burned.
LEMMA BurnedKept ==
    ASSUME LoginInv, BurnsNothing, now' \in {now, now + 1}
    PROVE  BurnedOnce'
<1>1. \A u \in Visit : Burning(u)' => Burning(u) /\ visit'[u].ticket = visit[u].ticket
  BY DEF Burning, BurnsNothing
<1>2. \A u \in Visit : visit'[u].stage = "claiming" =>
         visit[u].stage = "claiming" /\ visit'[u].ticket = visit[u].ticket
  BY DEF BurnsNothing
<1>3. \A u \in Visit : Burning(u) => assertion[visit[u].ticket].exp \in Nat
  BY VisitFields, AssertionFields DEF LoginInv, BurnedOnce
<1>. QED
  <2>1. UNCHANGED <<jti, assertion>> /\ now \in Nat
    BY Clock DEF BurnsNothing, LoginInv
  <2>. QED
    BY <1>1, <1>2, <1>3, <2>1 DEF LoginInv, BurnedOnce

LEMMA BurnedStep ==
    ASSUME LoginInv, Next
    PROVE  BurnedOnce'
<1>. USE DEF LoginInv
<1>0. now \in Nat
  BY Clock
<1>1. ASSUME NEW v \in Visit, BeginAnswers(v) PROVE BurnedOnce'
  <2>1. BurnsNothing /\ now' \in {now, now + 1}
    BY <1>1, GoType DEF BurnsNothing, BeginAnswers, tables, Stage
  <2>. QED
    BY <2>1, BurnedKept
<1>2. ASSUME NEW v \in Visit, Complete(v) PROVE BurnedOnce'
  <2>. DEFINE t == visit[v].ticket
  <2>0. t \in Visit
    BY VisitFields
  <2>1. /\ \A u \in Visit : visit'[u].ticket = visit[u].ticket
        /\ \A u \in Visit : u # v => visit'[u] = visit[u]
        /\ visit'[v].stage \in {"claiming", "auditing"}
    BY <1>2, GoType, ExitType DEF Complete, Stage, Outcome
  <2>2. CASE UNCHANGED assertion /\ visit'[v].stage = "auditing"
    <3>1. BurnsNothing /\ now' \in {now, now + 1}
      BY <1>2, <2>1, <2>2 DEF BurnsNothing, Complete, tables
    <3>. QED
      BY <3>1, BurnedKept
  <2>3. CASE ~ (UNCHANGED assertion /\ visit'[v].stage = "auditing")
    <3>1. /\ assertion'[t] # Nothing
          /\ \A x \in Visit : x # t \/ assertion[t] # Nothing => assertion'[x] = assertion[x]
      <4>1. CASE assertion[t] # Nothing
        BY <1>2, <4>1 DEF Complete
      <4>2. ASSUME NEW c \in Answers, assertion[t] = Nothing,
                   assertion' = [assertion EXCEPT ![t] =
                                   [claims |-> c, exp |-> now + AssertionTTL]]
            PROVE  /\ assertion'[t] # Nothing
                   /\ \A x \in Visit : x # t => assertion'[x] = assertion[x]
        <5>1. [claims |-> c, exp |-> now + AssertionTTL] \in [claims : Claims, exp : Nat]
          BY Clock, LoginAssumption
        <5>. QED
          BY <2>0, <4>2, <5>1, NothingAssumption DEF TypeOK
      <4>3. CASE assertion[t] = Nothing
        <5>1. ~ Exit(v, "failed") \/ ~ UNCHANGED assertion
          BY <2>3, ExitType DEF Outcome
        <5>. QED
          BY <1>2, <4>2, <4>3, <5>1 DEF Complete
      <4>. QED
        BY <4>1, <4>3
    <3>2. \A u \in Visit : Burning(u)' => Burning(u)
      BY <1>2, <2>1 DEF Burning, Complete
    <3>3. \A u \in Visit : Burning(u) => assertion'[visit[u].ticket] = assertion[visit[u].ticket]
      BY <3>1, VisitFields DEF BurnedOnce
    <3>4. \A x \in Visit : jti[x] # Nothing => assertion'[x] = assertion[x]
      BY <3>1 DEF BurnedOnce
    <3>5. \A u \in Visit : visit'[u].stage = "claiming" => assertion'[visit[u].ticket] # Nothing
      BY <2>1, <3>1, VisitFields DEF BurnedOnce
    <3>. QED
      BY <1>2, <2>1, <3>2, <3>3, <3>4, <3>5, VisitFields DEF BurnedOnce, Complete, tables
  <2>. QED
    BY <2>2, <2>3
<1>3. ASSUME NEW v \in Visit, Claim(v) PROVE BurnedOnce'
  <2>. DEFINE t == visit[v].ticket
  <2>0. t \in Visit /\ assertion[t] # Nothing /\ assertion[t].exp \in Nat
    BY <1>3, VisitFields, AssertionFields DEF Claim, BurnedOnce
  <2>1. /\ \A u \in Visit : visit'[u].ticket = visit[u].ticket
        /\ \A u \in Visit : u # v => visit'[u] = visit[u]
        /\ visit'[v].stage \in {"gating", "auditing"}
    BY <1>3, GoType, ExitType DEF Claim, Stage, Outcome
  <2>2. CASE ~ Unclaimed(t)
    <3>1. BurnsNothing /\ now' \in {now, now + 1}
      BY <1>3, <2>1, <2>2, ExitType DEF BurnsNothing, Claim, Outcome
    <3>. QED
      BY <3>1, BurnedKept
  <2>3. CASE Unclaimed(t)
    <3>1. /\ jti'[t] = assertion[t].exp /\ jti'[t] # Nothing
          /\ \A x \in Visit : x # t => jti'[x] = jti[x]
      BY <1>3, <2>0, <2>3, NothingAssumption DEF Claim, TypeOK
    <3>2. \A u \in Visit : Burning(u)' => Burning(u) \/ u = v
      BY <1>3, <2>1 DEF Burning, Claim
    <3>3. \A u \in Visit : Burning(u) /\ visit[u].ticket = t => assertion[t].exp =< now
      BY <2>3 DEF BurnedOnce, Unclaimed
    <3>4. \A u \in Visit : visit'[u].stage = "claiming" => assertion[visit[u].ticket] # Nothing
      BY <2>1, VisitFields DEF BurnedOnce
    <3>5. UNCHANGED <<now, assertion, opened>>
      BY <1>3 DEF Claim
    <3>. QED
      BY <2>0, <2>1, <3>1, <3>2, <3>3, <3>4, <3>5, VisitFields DEF BurnedOnce
  <2>. QED
    BY <2>2, <2>3
<1>4. ASSUME NEW v \in Visit, Gate(v) \/ Create(v) PROVE BurnedOnce'
  <2>1. /\ \A u \in Visit : visit'[u].ticket = visit[u].ticket
        /\ \A u \in Visit : u # v => visit'[u] = visit[u]
        /\ visit'[v].stage \in {"creating", "auditing"}
    BY <1>4, GoType, ExitType DEF Gate, Create, Stage, Outcome
  <2>2. \A u \in Visit : Burning(u)' => Burning(u)
    BY <1>4, <2>1 DEF Burning, Gate, Create, TypeOK
  <2>3. \A u \in Visit : visit'[u].stage = "claiming" => visit[u].stage = "claiming"
    BY <2>1
  <2>4. UNCHANGED <<now, assertion, jti>>
    BY <1>4 DEF Gate, Create, tables
  <2>. QED
    BY <2>1, <2>2, <2>3, <2>4, VisitFields DEF BurnedOnce
<1>5. ASSUME NEW v \in Visit, Audit(v) \/ Answer(v) PROVE BurnedOnce'
  <2>1. BurnsNothing /\ now' \in {now, now + 1}
    BY <1>5, GoType DEF BurnsNothing, Audit, Answer, tables, Stage
  <2>. QED
    BY <2>1, BurnedKept
<1>6. ASSUME NEW v \in Visit, Callback(v) PROVE BurnedOnce'
  <2>1. BurnsNothing /\ now' \in {now, now + 1}
    BY <1>6, GoType, ExitType, LeaveType DEF BurnsNothing, Callback, Stage, Outcome
  <2>. QED
    BY <2>1, BurnedKept
<1>7. ASSUME NEW v \in Visit, Break(v) PROVE BurnedOnce'
  <2>1. BurnsNothing /\ now' \in {now, now + 1}
    BY <1>7, LeaveType DEF BurnsNothing, Break, Outcome, tables
  <2>. QED
    BY <2>1, BurnedKept
<1>8. ASSUME NEW v \in Visit, NEW t \in Visit, NEW b \in Browser,
             Begin(v, b) \/ Reload(v, t, b)
      PROVE  BurnedOnce'
  <2>1. opened[v] = Nothing
    BY <1>8 DEF Begin, Reload, Fresh, Stages
  <2>2. /\ \A u \in Visit : u # v => visit'[u] = visit[u]
        /\ visit'[v] = visit[v] \/ visit'[v].stage \in {"starting", "away"}
    BY <1>8, EnterType DEF Begin, Reload, Stage
  <2>. QED
    <3>1. BurnsNothing /\ now' \in {now, now + 1}
      BY <1>8, <2>1, <2>2 DEF BurnsNothing, Begin, Reload, tables
    <3>. QED
      BY <3>1, BurnedKept
<1>9. ASSUME NEW r \in Request, RequestStep(r) PROVE BurnedOnce'
  <2>1. BurnsNothing /\ now' \in {now, now + 1}
    BY <1>9 DEF BurnsNothing, RequestStep, Resolve, Read, Revoke, AuditLogout, Finish, tables
  <2>. QED
    BY <2>1, BurnedKept
<1>10. ASSUME NEW r \in Request, NEW kind \in {"me", "search", "logout"},
              NEW b \in Browser, Arrive(r, kind, b)
       PROVE  BurnedOnce'
  <2>1. BurnsNothing /\ now' \in {now, now + 1}
    BY <1>10 DEF BurnsNothing, Arrive
  <2>. QED
    BY <2>1, BurnedKept
<1>11. CASE Tick
  <2>1. BurnsNothing /\ now' \in {now, now + 1}
    BY <1>11 DEF BurnsNothing, Tick, tables
  <2>. QED
    BY <2>1, BurnedKept
<1>12. CASE Prune
  <2>1. \A x \in Visit : jti'[x] = jti[x] \/ (jti'[x] = Nothing /\ jti[x] < now)
    BY <1>12 DEF Prune, TypeOK
  <2>2. \A x \in Visit : jti'[x] # Nothing => jti'[x] = jti[x]
    BY <2>1
  <2>3. \A u \in Visit : Burning(u) =>
           jti'[visit[u].ticket] # Nothing \/ assertion[visit[u].ticket].exp =< now
    <3>. SUFFICES ASSUME NEW u \in Visit, Burning(u), jti'[visit[u].ticket] = Nothing,
                         jti[visit[u].ticket] # Nothing
                  PROVE  assertion[visit[u].ticket].exp =< now
      BY DEF BurnedOnce
    <3>1. visit[u].ticket \in Visit
      BY VisitFields
    <3>2. assertion[visit[u].ticket].exp < now
      BY <2>1, <3>1 DEF BurnedOnce
    <3>3. assertion[visit[u].ticket].exp \in Nat
      BY <3>1, AssertionFields DEF BurnedOnce
    <3>. QED
      BY <1>0, <3>2, <3>3
  <2>4. UNCHANGED <<now, assertion, visit, opened>>
    BY <1>12 DEF Prune
  <2>. QED
    BY <2>2, <2>3, <2>4 DEF BurnedOnce, Burning
<1>13. ASSUME NEW m \in Member, NEW row \in Rows, RecordsChange(m, row) PROVE BurnedOnce'
  <2>1. BurnsNothing /\ now' \in {now, now + 1}
    BY <1>13 DEF BurnsNothing, RecordsChange, tables
  <2>. QED
    BY <2>1, BurnedKept
<1>. QED
  BY <1>1, <1>2, <1>3, <1>4, <1>5, <1>6, <1>7, <1>8, <1>9, <1>10, <1>11, <1>12, <1>13
     DEF Next, VisitStep

-----------------------------------------------------------------------------
(* Where a session lands. *)

\* What is begun stays so, where it is; no visit matches that did not; and no browser
\* gets a cookie.
KeepsPlace ==
    /\ \A u \in Visit :
          /\ Begun(u) => Begun(u)'
          /\ visit'[u].ticket = visit[u].ticket /\ visit'[u].browser = visit[u].browser
          /\ Matched(u)' => Matched(u)
          /\ opened[u] # Nothing => opened'[u] # Nothing
    /\ \A b \in Browser : stateCookie'[b] # Nothing => stateCookie'[b] = stateCookie[b]
    /\ \A b \in Browser : sessionCookie'[b] # Nothing => sessionCookie'[b] = sessionCookie[b]

LEMMA PlaceKept ==
    ASSUME LoginInv, KeepsPlace
    PROVE  SameBrowser' /\ LandsWhereItBegan'
<1>. USE DEF LoginInv
<1>1. \A u \in Visit : visit[u].ticket \in Visit
  BY VisitFields
<1>2. \A b \in Browser : stateCookie[b] # Nothing => stateCookie[b].ticket \in Visit
  BY HeldType
<1>3. \A b \in Browser : sessionCookie[b] # Nothing => sessionCookie[b] \in Visit
  BY DEF TypeOK
<1>4. SameBrowser'
  BY <1>1, <1>2, <1>3 DEF SameBrowser, KeepsPlace
<1>5. LandsWhereItBegan'
  BY <1>1, <1>3 DEF LandsWhereItBegan, KeepsPlace
<1>. QED
  BY <1>4, <1>5

\* What a visit that has not begun is not: it is no other's ticket and in no cookie.
LEMMA Unnamed ==
    ASSUME LoginInv, NEW v \in Visit, ~ Begun(v)
    PROVE  /\ \A u \in Visit : u # v => visit[u].ticket # v
           /\ \A b \in Browser : stateCookie[b] # Nothing => stateCookie[b].ticket # v
           /\ \A b \in Browser : sessionCookie[b] # Nothing =>
                 sessionCookie[b] # v /\ visit[sessionCookie[b]].ticket # v
           /\ ~ Matched(v) /\ opened[v] = Nothing
<1>1. \A u \in Visit : u # v => visit[u].ticket # v
  BY DEF LoginInv, SameBrowser
<1>2. \A b \in Browser : sessionCookie[b] # Nothing => sessionCookie[b] \in Visit
  BY DEF LoginInv, TypeOK
<1>. QED
  BY <1>1, <1>2 DEF LoginInv, SameBrowser, Stages, Begun

LEMMA BrowserStep ==
    ASSUME LoginInv, Next
    PROVE  SameBrowser' /\ LandsWhereItBegan'
<1>. USE DEF LoginInv
<1>1. ASSUME NEW v \in Visit, BeginAnswers(v) PROVE SameBrowser' /\ LandsWhereItBegan'
  <2>. DEFINE b == visit[v].browser
  <2>1. b \in Browser /\ ~ Begun(v)
    BY <1>1 DEF BeginAnswers, Stages, Begun
  <2>2. /\ \A u \in Visit : u # v => visit'[u] = visit[u]
        /\ visit'[v].stage \in {"away", "unused"}
        /\ visit'[v].ticket = visit[v].ticket /\ visit'[v].browser = b
        /\ visit'[v].outcome = visit[v].outcome
    BY <1>1, GoType DEF BeginAnswers, Stage
  <2>3. /\ \A c \in Browser : c # b => stateCookie'[c] = stateCookie[c]
        /\ \/ stateCookie'[b] = stateCookie[b]
           \/ stateCookie'[b].ticket = v /\ visit'[v].stage = "away"
    BY <1>1, <2>1, GoType DEF BeginAnswers, TypeOK, Stage
  <2>4. UNCHANGED <<sessionCookie, opened>>
    BY <1>1 DEF BeginAnswers
  <2>5. \A u \in Visit : u # v => Begun(u)' = Begun(u) /\ Matched(u)' = Matched(u)
    BY <2>2 DEF Begun, Matched
  <2>6. ~ Matched(v)'
    BY <2>1, <2>2, Unnamed DEF Matched
  <2>7. \A u \in Visit : u # v => visit[u].ticket \in Visit /\ visit[u].ticket # v
    BY <2>1, Unnamed, VisitFields
  <2>8. \A c \in Browser : stateCookie[c] # Nothing =>
           stateCookie[c].ticket \in Visit /\ stateCookie[c].ticket # v
    BY <2>1, Unnamed, HeldType
  <2>9. \A c \in Browser : sessionCookie[c] # Nothing =>
           /\ sessionCookie[c] \in Visit /\ sessionCookie[c] # v
           /\ visit[sessionCookie[c]].ticket \in Visit
           /\ visit[sessionCookie[c]].ticket # v
    BY <2>1, Unnamed, VisitFields DEF TypeOK
  <2>10. visit[v].ticket = v \/ (visit[v].ticket # v /\ Begun(visit[v].ticket))
    BY DEF SameBrowser
  <2>11. \A c \in Browser : stateCookie'[c] # Nothing =>
            Begun(stateCookie[c].ticket)' /\ visit'[stateCookie'[c].ticket].browser = c
    <3>. SUFFICES ASSUME NEW c \in Browser, stateCookie'[c] # Nothing
                  PROVE  Begun(stateCookie[c].ticket)'
                         /\ visit'[stateCookie'[c].ticket].browser = c
      OBVIOUS
    <3>1. CASE stateCookie'[c] = stateCookie[c]
      BY <2>2, <2>5, <2>8, <3>1 DEF SameBrowser
    <3>2. CASE c = b /\ stateCookie'[b].ticket = v /\ visit'[v].stage = "away"
      BY <2>2, <3>2 DEF Begun
    <3>. QED
      BY <2>3, <3>1, <3>2
  <2>12. SameBrowser'
    <3>1. \A u \in Visit : visit'[u].ticket = u \/ Begun(visit[u].ticket)'
      BY <2>2, <2>5, <2>7, <2>10, VisitFields DEF SameBrowser
    <3>2. \A u \in Visit : Matched(u)' =>
             Begun(u)' /\ visit'[visit'[u].ticket].browser = visit'[u].browser
      BY <2>2, <2>5, <2>6, <2>7 DEF SameBrowser
    <3>3. \A c \in Browser : sessionCookie'[c] # Nothing =>
             Begun(sessionCookie[c])' /\ opened'[sessionCookie'[c]] # Nothing
      BY <2>4, <2>5, <2>9 DEF SameBrowser
    <3>. QED
      BY <2>11, <3>1, <3>2, <3>3 DEF SameBrowser
  <2>13. LandsWhereItBegan'
    BY <2>2, <2>4, <2>9 DEF LandsWhereItBegan
  <2>. QED
    BY <2>12, <2>13
<1>2. ASSUME NEW v \in Visit, Complete(v) PROVE SameBrowser' /\ LandsWhereItBegan'
  <2>1. KeepsPlace
    BY <1>2, GoType, ExitType
       DEF KeepsPlace, Complete, Begun, Matched, tables, cookies, Stage, Outcome
  <2>. QED
    BY <2>1, PlaceKept
<1>3. ASSUME NEW v \in Visit, Claim(v) PROVE SameBrowser' /\ LandsWhereItBegan'
  <2>1. KeepsPlace
    BY <1>3, GoType, ExitType
       DEF KeepsPlace, Claim, Begun, Matched, cookies, Stage, Outcome
  <2>. QED
    BY <2>1, PlaceKept
<1>4. ASSUME NEW v \in Visit, Gate(v) PROVE SameBrowser' /\ LandsWhereItBegan'
  <2>1. KeepsPlace
    BY <1>4, GoType, ExitType
       DEF KeepsPlace, Gate, Begun, Matched, tables, cookies, Stage, Outcome
  <2>. QED
    BY <2>1, PlaceKept
<1>5. ASSUME NEW v \in Visit, Create(v) PROVE SameBrowser' /\ LandsWhereItBegan'
  <2>1. \A u \in Visit : opened[u] # Nothing => opened'[u] # Nothing
    BY <1>5, VisitFields, LoginAssumption, NothingAssumption DEF Create, TypeOK
  <2>2. KeepsPlace
    BY <1>5, <2>1, ExitType DEF KeepsPlace, Create, Begun, Matched, cookies, Outcome
  <2>. QED
    BY <2>2, PlaceKept
<1>6. ASSUME NEW v \in Visit, Audit(v) PROVE SameBrowser' /\ LandsWhereItBegan'
  <2>1. KeepsPlace
    BY <1>6, GoType DEF KeepsPlace, Audit, Begun, Matched, cookies, Stage
  <2>. QED
    BY <2>1, PlaceKept
<1>7. ASSUME NEW v \in Visit, Answer(v) PROVE SameBrowser' /\ LandsWhereItBegan'
  <2>. DEFINE b == visit[v].browser
  <2>1. b \in Browser /\ Begun(v)
    BY <1>7 DEF Answer, Stages, Begun
  <2>2. /\ \A u \in Visit : u # v => visit'[u] = visit[u]
        /\ visit'[v].stage = "done"
        /\ visit'[v].ticket = visit[v].ticket /\ visit'[v].browser = b
        /\ visit'[v].outcome = visit[v].outcome
    BY <1>7, GoType DEF Answer, Stage
  <2>3. \A c \in Browser : stateCookie'[c] # Nothing => stateCookie'[c] = stateCookie[c]
    BY <1>7 DEF Answer, TypeOK
  <2>4. CASE visit[v].outcome # "in"
    <3>1. KeepsPlace
      BY <1>7, <2>2, <2>3, <2>4 DEF KeepsPlace, Answer, Begun, Matched
    <3>. QED
      BY <3>1, PlaceKept
  <2>5. CASE visit[v].outcome = "in"
    <3>1. /\ sessionCookie'[b] = v
          /\ \A c \in Browser : c # b => sessionCookie'[c] = sessionCookie[c]
      BY <1>7, <2>1, <2>5 DEF Answer, TypeOK
    <3>2. UNCHANGED opened /\ opened[v] # Nothing /\ Matched(v)
      BY <1>7, <2>5 DEF Answer, Stages, Matched
    <3>3. \A u \in Visit : /\ Begun(u)' = Begun(u) /\ (Matched(u)' => Matched(u))
                           /\ visit'[u].ticket = visit[u].ticket
                           /\ visit'[u].browser = visit[u].browser
      BY <2>1, <2>2, <3>2 DEF Begun, Matched
    <3>4. \A c \in Browser : stateCookie[c] # Nothing => stateCookie[c].ticket \in Visit
      BY HeldType
    <3>5. \A c \in Browser : sessionCookie[c] # Nothing => sessionCookie[c] \in Visit
      BY DEF TypeOK
    <3>6. SameBrowser'
      BY <2>1, <2>3, <3>1, <3>2, <3>3, <3>4, <3>5, VisitFields DEF SameBrowser
    <3>7. visit[visit[v].ticket].browser = b
      BY <3>2 DEF SameBrowser
    <3>8. LandsWhereItBegan'
      BY <2>1, <3>1, <3>3, <3>5, <3>7, VisitFields DEF LandsWhereItBegan
    <3>. QED
      BY <3>6, <3>8
  <2>. QED
    BY <2>4, <2>5
<1>8. ASSUME NEW v \in Visit, Callback(v) PROVE SameBrowser' /\ LandsWhereItBegan'
  <2>0. visit[v].browser \in Browser /\ Begun(v) /\ UNCHANGED <<cookies, opened>>
    BY <1>8 DEF Callback, Stages, Begun
  <2>1. CASE ~ (StateMatches(v) /\ visit'[v].stage = "completing")
    <3>1. KeepsPlace
      BY <1>8, <2>0, <2>1, GoType, ExitType, LeaveType
         DEF KeepsPlace, Callback, Begun, Matched, cookies, Stage, Outcome
    <3>. QED
      BY <3>1, PlaceKept
  <2>2. CASE StateMatches(v) /\ visit'[v].stage = "completing"
    <3>1. stateCookie[visit[v].browser] # Nothing
          /\ visit[v].ticket = stateCookie[visit[v].browser].ticket
      BY <2>2 DEF StateMatches, Held
    <3>2. visit[visit[v].ticket].browser = visit[v].browser
      BY <2>0, <3>1 DEF SameBrowser
    <3>3. /\ \A u \in Visit : u # v => visit'[u] = visit[u]
          /\ visit'[v].ticket = visit[v].ticket /\ visit'[v].browser = visit[v].browser
      BY <1>8, GoType, ExitType, LeaveType DEF Callback, Stage, Outcome
    <3>4. \A u \in Visit : Begun(u)' = Begun(u) /\ (u # v => Matched(u)' = Matched(u))
      BY <2>0, <2>2, <3>3 DEF Begun, Matched
    <3>5. \A c \in Browser : stateCookie[c] # Nothing => stateCookie[c].ticket \in Visit
      BY HeldType
    <3>6. \A c \in Browser : sessionCookie[c] # Nothing => sessionCookie[c] \in Visit
      BY DEF TypeOK
    <3>7. SameBrowser'
      BY <2>0, <3>2, <3>3, <3>4, <3>5, <3>6, VisitFields DEF SameBrowser, cookies
    <3>8. LandsWhereItBegan'
      BY <2>0, <3>3, <3>6, VisitFields DEF LandsWhereItBegan, cookies
    <3>. QED
      BY <3>7, <3>8
  <2>. QED
    BY <2>1, <2>2
<1>9. ASSUME NEW v \in Visit, Break(v) PROVE SameBrowser' /\ LandsWhereItBegan'
  <2>1. KeepsPlace
    BY <1>9, LeaveType DEF KeepsPlace, Break, Begun, Matched, cookies, Outcome
  <2>. QED
    BY <2>1, PlaceKept
<1>10. ASSUME NEW v \in Visit, NEW t \in Visit, NEW b \in Browser,
              Begin(v, b) \/ Reload(v, t, b)
       PROVE  SameBrowser' /\ LandsWhereItBegan'
  <2>0. ~ Begun(v) /\ UNCHANGED <<cookies, opened>>
    BY <1>10 DEF Begin, Reload, Fresh, Begun
  <2>1. CASE visit' = visit
    <3>1. KeepsPlace
      BY <2>0, <2>1 DEF KeepsPlace, Begun, Matched, cookies
    <3>. QED
      BY <3>1, PlaceKept
  <2>2. CASE visit' # visit
    <3>1. /\ \A u \in Visit : u # v => visit'[u] = visit[u]
          /\ visit'[v].outcome = "none" /\ visit'[v].stage \in {"starting", "away"}
          /\ visit'[v].ticket = v \/ (visit'[v].ticket \in Visit \ {v} /\ Begun(visit'[v].ticket))
      BY <1>10, <2>0, <2>2, EnterType DEF Begin, Reload, Begun, Stage
    <3>2. \A u \in Visit : u # v => Begun(u)' = Begun(u) /\ Matched(u)' = Matched(u)
      BY <3>1 DEF Begun, Matched
    <3>3. ~ Matched(v)'
      BY <3>1 DEF Matched
    <3>4. \A u \in Visit : u # v => visit[u].ticket \in Visit /\ visit[u].ticket # v
      BY <2>0, Unnamed, VisitFields
    <3>5. \A c \in Browser : stateCookie[c] # Nothing =>
             stateCookie[c].ticket \in Visit /\ stateCookie[c].ticket # v
      BY <2>0, Unnamed, HeldType
    <3>6. \A c \in Browser : sessionCookie[c] # Nothing =>
             /\ sessionCookie[c] \in Visit /\ sessionCookie[c] # v
             /\ visit[sessionCookie[c]].ticket \in Visit
             /\ visit[sessionCookie[c]].ticket # v
      BY <2>0, Unnamed, VisitFields DEF TypeOK
    <3>7. SameBrowser'
      BY <2>0, <3>1, <3>2, <3>3, <3>4, <3>5, <3>6 DEF SameBrowser, cookies
    <3>8. LandsWhereItBegan'
      BY <2>0, <3>1, <3>6 DEF LandsWhereItBegan, cookies
    <3>. QED
      BY <3>7, <3>8
  <2>. QED
    BY <2>1, <2>2
<1>11. ASSUME NEW r \in Request, RequestStep(r) PROVE SameBrowser' /\ LandsWhereItBegan'
  <2>1. KeepsPlace
    BY <1>11
       DEF KeepsPlace, RequestStep, Resolve, Read, Revoke, AuditLogout, Finish, Begun,
           Matched, tables, cookies, TypeOK
  <2>. QED
    BY <2>1, PlaceKept
<1>12. ASSUME NEW r \in Request, NEW kind \in {"me", "search", "logout"},
              NEW b \in Browser, Arrive(r, kind, b)
       PROVE  SameBrowser' /\ LandsWhereItBegan'
  <2>1. KeepsPlace
    BY <1>12 DEF KeepsPlace, Arrive, Begun, Matched, cookies
  <2>. QED
    BY <2>1, PlaceKept
<1>13. CASE Tick \/ Prune
  <2>1. KeepsPlace
    BY <1>13 DEF KeepsPlace, Tick, Prune, Begun, Matched, tables, cookies, TypeOK
  <2>. QED
    BY <2>1, PlaceKept
<1>14. ASSUME NEW m \in Member, NEW row \in Rows, RecordsChange(m, row)
       PROVE  SameBrowser' /\ LandsWhereItBegan'
  <2>1. KeepsPlace
    BY <1>14 DEF KeepsPlace, RecordsChange, Begun, Matched, tables, cookies
  <2>. QED
    BY <2>1, PlaceKept
<1>. QED
  BY <1>1, <1>2, <1>3, <1>4, <1>5, <1>6, <1>7, <1>8, <1>9, <1>10, <1>11, <1>12, <1>13,
     <1>14 DEF Next, VisitStep

-----------------------------------------------------------------------------
(* The limiter. *)

\* Only Begin, Callback and Arrive count; housekeeping deletes no counter of a window
\* that is not over, because it keeps them longer than a window lasts.
LEMMA CountedStep ==
    ASSUME LoginInv, Next
    PROVE  Counted' /\ RateCap'
<1>. USE DEF LoginInv
<1>1. CASE UNCHANGED <<hits, passed, now>>
  BY <1>1 DEF Counted, RateCap
<1>2. ASSUME NEW e \in Endpoint, Hit(e), UNCHANGED now
      PROVE  Counted' /\ RateCap'
  BY <1>2, HitKeeps
<1>3. CASE Tick
  <2>1. \A w \in 0..MaxTime : now' < w + Window => now < w + Window
    BY <1>3, Clock, LoginAssumption DEF Tick
  <2>. QED
    BY <1>3, <2>1 DEF Tick, tables, Counted, RateCap
<1>4. CASE Prune
  <2>1. \A w \in 0..MaxTime : now < w + Window => ~ Closed(w)
    BY Clock, LoginAssumption, RetentionAssumption DEF Closed
  <2>2. \A e \in Endpoint, w \in 0..MaxTime : ~ Closed(w) => hits'[e][w] = hits[e][w]
    BY <1>4 DEF Prune
  <2>. QED
    BY <1>4, <2>1, <2>2 DEF Prune, Counted, RateCap
<1>5. ASSUME NEW v \in Visit, NEW b \in Browser, Begin(v, b) PROVE Counted' /\ RateCap'
  BY <1>2, <1>5 DEF Begin, Endpoint
<1>6. ASSUME NEW v \in Visit, Callback(v) PROVE Counted' /\ RateCap'
  BY <1>2, <1>6 DEF Callback, Endpoint
<1>7. ASSUME NEW r \in Request, NEW kind \in {"me", "search", "logout"},
             NEW b \in Browser, Arrive(r, kind, b)
      PROVE  Counted' /\ RateCap'
  BY <1>1, <1>2, <1>7 DEF Arrive, Endpoint
<1>8. ASSUME NEW v \in Visit, VisitStep(v) \/ Break(v) PROVE UNCHANGED <<hits, passed, now>>
  BY <1>8 DEF VisitStep, BeginAnswers, Complete, Claim, Gate, Create, Audit, Answer,
              Break, tables
<1>9. ASSUME NEW r \in Request, RequestStep(r) PROVE UNCHANGED <<hits, passed, now>>
  BY <1>9 DEF RequestStep, Resolve, Read, Revoke, AuditLogout, Finish, tables
<1>10. ASSUME NEW v \in Visit, NEW t \in Visit, NEW b \in Browser, Reload(v, t, b)
       PROVE  UNCHANGED <<hits, passed, now>>
  BY <1>10 DEF Reload, tables
<1>11. ASSUME NEW m \in Member, NEW row \in Rows, RecordsChange(m, row)
       PROVE  UNCHANGED <<hits, passed, now>>
  BY <1>11 DEF RecordsChange, tables
<1>. QED
  BY <1>1, <1>3, <1>4, <1>5, <1>6, <1>7, <1>8, <1>9, <1>10, <1>11 DEF Next

-----------------------------------------------------------------------------
(* The invariant, and what follows from it. *)

LEMMA TypeStep ==
    ASSUME LoginInv, Next
    PROVE  TypeOK'
BY TypeVisit, TypeEnter, TypeRequest, TypeOther DEF Next

LEMMA Unmoved ==
    ASSUME LoginInv, UNCHANGED vars
    PROVE  LoginInv'
<1>. USE DEF LoginInv, vars, tables, cookies
<1>1. TypeOK'
  BY DEF TypeOK
<1>2. Stages' /\ BurnedOnce'
  BY DEF Stages, BurnedOnce, Burning
<1>3. SameBrowser' /\ LandsWhereItBegan'
  BY DEF SameBrowser, LandsWhereItBegan, Begun, Matched
<1>4. Counted' /\ RateCap'
  BY DEF Counted, RateCap
<1>. QED
  BY <1>1, <1>2, <1>3, <1>4

LEMMA InvCorrect == Spec => []LoginInv
<1>1. Init => LoginInv
  BY TypeInit
<1>2. LoginInv /\ [Next]_vars => LoginInv'
  BY TypeStep, StagesStep, BurnedStep, BrowserStep, CountedStep, Unmoved DEF LoginInv
<1>. QED
  BY <1>1, <1>2, PTL DEF Spec

\* Every variable has its type (web/auth.py, create_infra_tables.sql).
THEOREM TypeCorrect == Spec => []TypeOK
<1>1. LoginInv => TypeOK
  BY DEF LoginInv
<1>. QED
  BY <1>1, InvCorrect, PTL

\* A session lands in the browser whose begin it answers, for any number of visits,
\* browsers and reloads (web/auth.py, callback).
THEOREM SessionLandsWhereItBegan == Spec => []LandsWhereItBegan
<1>1. LoginInv => LandsWhereItBegan
  BY DEF LoginInv
<1>. QED
  BY <1>1, InvCorrect, PTL

\* No more than the limit passes in any window of any endpoint, as long as the
\* housekeeping keeps counters for a window's length (web/rate_limit.py, db/prune.py).
THEOREM RateCapped == Spec => []RateCap
<1>1. LoginInv => RateCap
  BY DEF LoginInv
<1>. QED
  BY <1>1, InvCorrect, PTL

-----------------------------------------------------------------------------
(* Access, step by step. *)

\* The four sets of Access, and what changes them.
LEMMA SetsKept ==
    ASSUME UNCHANGED <<now, session, opened, assertion>>
    PROVE  UNCHANGED Door!vars
BY DEF Door!vars, Opened, Alive

LEMMA AccessInit == Init => Door!Init
<1>. SUFFICES ASSUME Init PROVE Door!Init
  OBVIOUS
<1>1. \A v \in Visit : session[v] = Nothing /\ opened[v] = Nothing /\ assertion[v] = Nothing
  BY DEF Init
<1>. QED
  BY <1>1 DEF Door!Init, Opened, Alive

\* Only who has opened a session has one.
LEMMA LiveAreOpened ==
    ASSUME LoginInv
    PROVE  \A v \in Visit : Alive(v) => opened[v] # Nothing
BY DEF LoginInv, Stages, Alive

\* The end of sessions and of assertions: nothing is opened, what answers has answered
\* before, and what is valid was.
LEMMA Ending ==
    ASSUME LoginInv, UNCHANGED opened,
           \A v \in Visit : Alive(v)' => Alive(v),
           \A t \in Visit : assertion'[t] # Nothing /\ now' < assertion'[t].exp =>
                               assertion[t] # Nothing /\ now < assertion[t].exp
    PROVE  Door!End
<1>1. {v \in Visit : Alive(v)'} \subseteq {v \in Visit : Alive(v)}
  OBVIOUS
<1>2. {v \in Opened : ~ Alive(v)'} =
         {v \in Opened : ~ Alive(v)}
            \cup ({v \in Visit : Alive(v)} \ {v \in Visit : Alive(v)'})
  BY LiveAreOpened DEF Opened
<1>. QED
  BY <1>1, <1>2 DEF Door!End, Opened

\* Botonio signs an assertion: it is a new one, and no session has been opened with it.
LEMMA Issuing ==
    ASSUME LoginInv, NEW v \in Visit, Complete(v)
    PROVE  UNCHANGED Door!vars \/ \E a \in Visit : Door!Issue(a)
<1>. DEFINE t == visit[v].ticket
<1>1. UNCHANGED <<now, session, opened>> /\ t \in Visit
  BY VisitFields DEF Complete, tables, LoginInv
<1>2. CASE UNCHANGED assertion
  BY <1>1, <1>2, SetsKept
<1>3. CASE ~ UNCHANGED assertion
  <2>1. PICK c \in Answers : /\ assertion[t] = Nothing
                             /\ assertion' = [assertion EXCEPT ![t] =
                                                [claims |-> c, exp |-> now + AssertionTTL]]
    BY <1>3 DEF Complete
  <2>2. [claims |-> c, exp |-> now + AssertionTTL] \in [claims : Claims, exp : Nat]
    BY Clock, LoginAssumption DEF LoginInv
  <2>3. /\ assertion'[t] # Nothing /\ now < assertion'[t].exp
        /\ \A x \in Visit : x # t => assertion'[x] = assertion[x]
    BY <1>1, <2>1, <2>2, NothingAssumption, Clock, LoginAssumption DEF LoginInv, TypeOK
  <2>4. {x \in Visit : assertion'[x] # Nothing /\ now < assertion'[x].exp}
           = {x \in Visit : assertion[x] # Nothing /\ now < assertion[x].exp} \cup {t}
    BY <1>1, <2>1, <2>3
  <2>5. t \notin {opened[u] : u \in Opened}
    <3>1. \A u \in Opened : assertion[opened[u]] # Nothing
      BY DEF Opened, LoginInv, Stages, BurnedOnce, Burning
    <3>. QED
      BY <2>1, <3>1
  <2>. QED
    BY <1>1, <2>4, <2>5 DEF Door!Issue, Opened, Alive
<1>. QED
  BY <1>2, <1>3

\* A session is opened: it is a new one, and while the assertion is valid it is the
\* first to be opened with it.
LEMMA Opening ==
    ASSUME LoginInv, NEW v \in Visit, Create(v)
    PROVE  \E s, a \in Visit : Door!Open(s, a)
<1>. DEFINE t == visit[v].ticket
<1>0. now \in Nat /\ t \in Visit
  BY Clock, VisitFields DEF LoginInv
<1>1. opened[v] = Nothing /\ session[v] = Nothing /\ Burning(v)
  BY DEF LoginInv, Stages, Burning, Create
<1>2. UNCHANGED <<now, assertion>>
  BY DEF Create
<1>3. /\ opened'[v] = t /\ opened'[v] # Nothing
      /\ \A u \in Visit : u # v => opened'[u] = opened[u]
  BY <1>0, LoginAssumption, NothingAssumption DEF Create, LoginInv, TypeOK
<1>4. session'[v] = [created |-> now, seen |-> now]
      /\ \A u \in Visit : u # v => session'[u] = session[u]
  BY DEF Create, LoginInv, TypeOK
<1>5. Alive(v)' /\ ~ Alive(v)
  <2>1. session'[v] # Nothing
    <3>1. [created |-> now, seen |-> now] \in [created : Nat, seen : Nat]
      BY <1>0
    <3>. QED
      BY <1>4, <3>1, NothingAssumption
  <2>2. now < now + AbsoluteLifetime /\ now < now + IdleTimeout
    BY <1>0, LoginAssumption
  <2>. QED
    BY <1>1, <1>2, <1>4, <2>1, <2>2 DEF Alive
<1>6. \A u \in Visit : u # v => Alive(u)' = Alive(u)
  BY <1>2, <1>4 DEF Alive
<1>7. {u \in Visit : Alive(u)'} = {u \in Visit : Alive(u)} \cup {v}
  BY <1>5, <1>6
<1>8. Opened' = Opened \cup {v} /\ v \notin Opened
  BY <1>1, <1>3 DEF Opened
<1>9. {u \in Opened : ~ Alive(u)}' = {u \in Opened : ~ Alive(u)}
  BY <1>5, <1>6, <1>8 DEF Opened
<1>10. {opened'[u] : u \in Opened'} = {opened[u] : u \in Opened} \cup {t}
  BY <1>3, <1>8 DEF Opened
<1>11. assertion[t] # Nothing /\ now < assertion[t].exp => t \notin {opened[u] : u \in Opened}
  <2>. SUFFICES ASSUME assertion[t] # Nothing, NEW u \in Opened, opened[u] = t
                PROVE  ~ (now < assertion[t].exp)
    OBVIOUS
  <2>1. u \in Visit /\ u # v /\ Burning(u) /\ visit[u].ticket = t
    BY <1>1 DEF Opened, Burning, LoginInv, Stages
  <2>2. assertion[t].exp =< now
    BY <1>1, <2>1 DEF LoginInv, BurnedOnce
  <2>3. assertion[t].exp \in Nat
    BY <1>0, AssertionFields DEF LoginInv
  <2>. QED
    BY <1>0, <2>2, <2>3
<1>12. v \notin {u \in Visit : Alive(u)} \cup {u \in Opened : ~ Alive(u)}
  BY <1>5, <1>8
<1>13. Door!Open(v, t)
  <2>1. {opened[u] : u \in Opened}' = {opened[u] : u \in Opened} \cup {t}
    BY <1>10
  <2>2. UNCHANGED {u \in Visit : assertion[u] # Nothing /\ now < assertion[u].exp}
    BY <1>2
  <2>. QED
    BY <1>0, <1>7, <1>9, <1>11, <1>12, <2>1, <2>2 DEF Door!Open
<1>. QED
  BY <1>0, <1>13 DEF Door!Open

\* The use of a session refreshes it, and a logout ends it.
LEMMA SessionUse ==
    ASSUME LoginInv, NEW r \in Request, Resolve(r) \/ Revoke(r)
    PROVE  Door!End
<1>1. UNCHANGED <<now, opened, assertion>>
  BY DEF Resolve, Revoke
<1>2. request[r].token \in Visit
  BY RequestType DEF LoginInv, Resolve, Revoke
<1>3. \A v \in Visit : Alive(v)' => Alive(v)
  <2>1. CASE Revoke(r)
    <3>1. \A v \in Visit : session'[v] = session[v] \/ session'[v] = Nothing
      BY <2>1 DEF Revoke, LoginInv, TypeOK
    <3>. QED
      BY <1>1, <3>1 DEF Alive
  <2>2. CASE Resolve(r)
    <3>1. \A v \in Visit : session'[v] = session[v] \/ Alive(v)
      BY <1>2, <2>2 DEF Resolve, LoginInv, TypeOK
    <3>. QED
      BY <1>1, <3>1 DEF Alive
  <2>. QED
    BY <2>1, <2>2
<1>. QED
  BY <1>1, <1>3, Ending

\* As time passes, sessions and assertions only end.
LEMMA Passing ==
    ASSUME LoginInv, Tick
    PROVE  Door!End
<1>1. UNCHANGED <<session, opened, assertion>> /\ now' = now + 1 /\ now \in Nat
  BY Clock DEF Tick, tables, LoginInv
<1>2. \A v \in Visit : Alive(v)' => Alive(v)
  <2>. SUFFICES ASSUME NEW v \in Visit, Alive(v)' PROVE Alive(v)
    OBVIOUS
  <2>1. session[v] # Nothing /\ session[v] \in [created : Nat, seen : Nat]
    BY <1>1 DEF Alive, LoginInv, TypeOK
  <2>2. session[v].created \in Nat /\ session[v].seen \in Nat
    BY <2>1
  <2>. QED
    BY <1>1, <2>1, <2>2, LoginAssumption DEF Alive
<1>3. \A t \in Visit : assertion'[t] # Nothing /\ now' < assertion'[t].exp =>
                          assertion[t] # Nothing /\ now < assertion[t].exp
  BY <1>1, AssertionFields DEF LoginInv
<1>. QED
  BY <1>1, <1>2, <1>3, Ending

\* Every step of the login is a step of Access, or changes nothing Access sees.
LEMMA AccessStep ==
    ASSUME LoginInv, Next
    PROVE  [Door!Next]_(Door!vars)
<1>1. ASSUME NEW v \in Visit, VisitStep(v) \/ Callback(v) \/ Break(v)
      PROVE  [Door!Next]_(Door!vars)
  <2>1. CASE Complete(v)
    BY <2>1, Issuing DEF Door!Next
  <2>2. CASE Create(v)
    BY <2>2, Opening DEF Door!Next
  <2>3. CASE BeginAnswers(v) \/ Claim(v) \/ Gate(v) \/ Audit(v) \/ Answer(v)
             \/ Callback(v) \/ Break(v)
    <3>1. UNCHANGED <<now, session, opened, assertion>>
      BY <2>3 DEF BeginAnswers, Claim, Gate, Audit, Answer, Callback, Break, tables
    <3>. QED
      BY <3>1, SetsKept
  <2>. QED
    BY <1>1, <2>1, <2>2, <2>3 DEF VisitStep
<1>2. ASSUME NEW v \in Visit, NEW t \in Visit, NEW b \in Browser,
             Begin(v, b) \/ Reload(v, t, b)
      PROVE  UNCHANGED Door!vars
  BY <1>2, SetsKept DEF Begin, Reload, tables
<1>3. ASSUME NEW r \in Request, RequestStep(r) PROVE [Door!Next]_(Door!vars)
  <2>1. CASE Resolve(r) \/ Revoke(r)
    BY <2>1, SessionUse DEF Door!Next
  <2>2. CASE Read(r) \/ AuditLogout(r) \/ Finish(r)
    BY <2>2, SetsKept DEF Read, AuditLogout, Finish, tables
  <2>. QED
    BY <1>3, <2>1, <2>2 DEF RequestStep
<1>4. ASSUME NEW r \in Request, NEW kind \in {"me", "search", "logout"},
             NEW b \in Browser, Arrive(r, kind, b)
      PROVE  UNCHANGED Door!vars
  BY <1>4, SetsKept DEF Arrive
<1>5. CASE Tick
  BY <1>5, Passing DEF Door!Next
<1>6. CASE Prune
  BY <1>6, SetsKept DEF Prune
<1>7. ASSUME NEW m \in Member, NEW row \in Rows, RecordsChange(m, row)
      PROVE  UNCHANGED Door!vars
  BY <1>7, SetsKept DEF RecordsChange, tables
<1>. QED
  BY <1>1, <1>2, <1>3, <1>4, <1>5, <1>6, <1>7 DEF Next

\* The login implements Access: an assertion opens one session at most while it is
\* valid, however its claims interleave with the housekeeping, and a session that has
\* ended answers no more (web/auth.py, db/jti.py, db/sessions.py, db/prune.py).
THEOREM ImplementsAccess == Spec => LoginImplementsAccess
<1>1. Init => Door!Init
  BY AccessInit
<1>2. LoginInv /\ [Next]_vars => [Door!Next]_(Door!vars)
  BY AccessStep, SetsKept DEF vars, tables
<1>. QED
  BY <1>1, <1>2, InvCorrect, PTL DEF Spec, Door!Spec, LoginImplementsAccess

-----------------------------------------------------------------------------
(* What comes of a visit that nothing came in the way of. *)

\* Its ticket is its own, nobody has had an assertion signed for it or burned one ahead of
\* it, and while the browser is away its state cookie waits.
Undisturbed ==
    \A v \in Visit \ crossed :
       /\ visit[v].ticket = v
       /\ \A u \in Visit : visit[u].ticket = v => u = v
       /\ visit[v].stage \in {"unused", "starting", "away", "completing"} =>
             assertion[v] = Nothing
       /\ visit[v].stage = "claiming" => jti[v] = Nothing
       /\ visit[v].stage = "away" => Held(visit[v].browser) = {v}

LandInv == LoginInv /\ Undisturbed /\ UncrossedLoginLands

\* Why the login does not take what a visit brought.
Unwelcome(v) ==
    \/ assertion[v] # Nothing /\ ~ Genuine(assertion[v].claims)
    \/ assertion[v] # Nothing /\ ~ Admits(member[assertion[v].claims.member])

\* A step that leaves the visits where they are takes no cookie from an uncrossed one.
LEMMA CourseKept ==
    ASSUME LandInv, UNCHANGED <<visit, member, assertion>>, crossed \subseteq crossed',
           \A t \in Visit : jti[t] = Nothing => jti'[t] = Nothing,
           \A v \in Visit \ crossed' : visit[v].stage = "away" =>
              Held(visit[v].browser)' = Held(visit[v].browser)
    PROVE  Undisturbed' /\ UncrossedLoginLands'
<1>1. Undisturbed'
  BY DEF LandInv, Undisturbed
<1>2. UncrossedLoginLands'
  BY DEF LandInv, UncrossedLoginLands, Genuine, Admits
<1>. QED
  BY <1>1, <1>2

\* A visit that moves on, while the others stay where they are.
LEMMA CourseMoves ==
    ASSUME LandInv, NEW v \in Visit, member' = member, crossed \subseteq crossed',
           visit'[v].ticket = visit[v].ticket,
           \A u \in Visit : u # v => visit'[u] = visit[u],
           \A t \in Visit : t # visit[v].ticket => jti'[t] = jti[t] /\ assertion'[t] = assertion[t],
           \A t \in Visit : assertion[t] # Nothing => assertion'[t] = assertion[t],
           v \notin crossed' =>
              /\ visit'[v].stage \in {"unused", "starting", "away", "completing"} =>
                    assertion'[v] = Nothing
              /\ visit'[v].stage = "claiming" => jti'[v] = Nothing
              /\ visit'[v].outcome \in {"failed", "denied"} => Unwelcome(v)',
           \A u \in Visit \ crossed' : visit'[u].stage = "away" =>
              Held(visit[u].browser)' = {u}
    PROVE  Undisturbed' /\ UncrossedLoginLands'
<1>1. ASSUME NEW u \in Visit \ crossed', u # v
      PROVE  /\ u # visit[v].ticket /\ jti'[u] = jti[u] /\ assertion'[u] = assertion[u]
             /\ visit'[u] = visit[u] /\ u \notin crossed
  BY <1>1 DEF LandInv, Undisturbed
<1>2. \A u \in Visit : visit'[u].ticket = visit[u].ticket
  OBVIOUS
<1>3. Undisturbed'
  <2>1. ASSUME NEW u \in Visit \ crossed'
        PROVE  /\ visit'[u].ticket = u
               /\ \A w \in Visit : visit'[w].ticket = u => w = u
               /\ visit'[u].stage \in {"unused", "starting", "away", "completing"} =>
                     assertion'[u] = Nothing
               /\ visit'[u].stage = "claiming" => jti'[u] = Nothing
    <3>1. CASE u = v
      BY <1>2, <3>1 DEF LandInv, Undisturbed
    <3>2. CASE u # v
      BY <1>1, <1>2, <3>2 DEF LandInv, Undisturbed
    <3>. QED
      BY <3>1, <3>2
  <2>. QED
    BY <1>2, <2>1 DEF Undisturbed
<1>4. UncrossedLoginLands'
  <2>1. ASSUME NEW u \in Visit \ crossed', visit'[u].outcome \in {"failed", "denied"}
        PROVE  Unwelcome(u)'
    <3>1. CASE u = v
      BY <3>1, <2>1
    <3>2. CASE u # v
      <4>1. Unwelcome(u)
        BY <1>1, <2>1, <3>2 DEF LandInv, UncrossedLoginLands, Unwelcome
      <4>. QED
        BY <1>1, <3>2, <4>1 DEF Unwelcome, Genuine, Admits
    <3>. QED
      BY <3>1, <3>2
  <2>. QED
    BY <2>1 DEF UncrossedLoginLands, Unwelcome
<1>. QED
  BY <1>3, <1>4

\* What waits for the browser of an uncrossed visit that is away.
LEMMA Waiting ==
    ASSUME LandInv, NEW u \in Visit \ crossed, visit[u].stage = "away"
    PROVE  /\ visit[u].ticket = u /\ visit[u].browser \in Browser
           /\ Held(visit[u].browser) = {u}
BY DEF LandInv, LoginInv, Undisturbed, Stages

LEMMA LandsBegin ==
    ASSUME LandInv, NEW v \in Visit, BeginAnswers(v)
    PROVE  Undisturbed' /\ UncrossedLoginLands'
<1>. DEFINE b == visit[v].browser
<1>1. /\ UNCHANGED <<member, jti, assertion>> /\ TypeOK /\ v \in Visit
      /\ visit[v].stage = "starting" /\ b \in Browser /\ crossed \subseteq crossed'
  BY DEF BeginAnswers, tables, LandInv, LoginInv, Stages
<1>2. /\ visit'[v].stage \in {"away", "unused"} /\ visit'[v].outcome = visit[v].outcome
      /\ visit'[v].ticket = visit[v].ticket /\ visit'[v].browser = visit[v].browser
      /\ \A u \in Visit : u # v => visit'[u] = visit[u]
  BY <1>1, GoType DEF BeginAnswers, Stage
<1>3. v \notin crossed' => assertion'[v] = Nothing /\ visit[v].ticket = v
  BY <1>1 DEF LandInv, Undisturbed
<1>4. v \notin crossed' /\ visit'[v].outcome \in {"failed", "denied"} => Unwelcome(v)'
  BY <1>1, <1>2 DEF LandInv, UncrossedLoginLands, Unwelcome
<1>5. ASSUME NEW u \in Visit \ crossed', visit'[u].stage = "away"
      PROVE  Held(visit[u].browser)' = {u}
  <2>1. CASE u = v
    <3>1. visit'[v].stage # "unused" /\ stateCookie' = [stateCookie EXCEPT ![b] =
                                                          [ticket |-> v, until |-> now + StateMaxAge]]
      BY <1>1, <1>5, <2>1, GoType DEF BeginAnswers, Stage
    <3>2. stateCookie'[b] = [ticket |-> v, until |-> now + StateMaxAge]
      BY <1>1, <3>1 DEF TypeOK
    <3>3. stateCookie'[b] # Nothing
      BY <1>1, <3>2, NothingAssumption, Clock
    <3>. QED
      BY <1>2, <2>1, <3>2, <3>3 DEF Held
  <2>2. CASE u # v
    <3>1. /\ visit'[u] = visit[u] /\ u \notin crossed /\ visit[u].browser \in Browser
          /\ Held(visit[u].browser) = {u}
      BY <1>1, <1>2, <1>5, <2>2, Waiting
    <3>2. visit[u].browser # b \/ UNCHANGED stateCookie
      BY <1>5, <3>1 DEF BeginAnswers
    <3>3. stateCookie'[visit[u].browser] = stateCookie[visit[u].browser]
      BY <1>1, <3>1, <3>2 DEF BeginAnswers, TypeOK
    <3>. QED
      BY <3>1, <3>3 DEF Held
  <2>. QED
    BY <2>1, <2>2
<1>. QED
  BY <1>1, <1>2, <1>3, <1>4, <1>5, CourseMoves

\* Who is away keeps what waits for them, while no cookie is touched.
LEMMA StillWaiting ==
    ASSUME LandInv, NEW v \in Visit, UNCHANGED stateCookie, crossed \subseteq crossed',
           visit'[v].stage # "away", \A u \in Visit : u # v => visit'[u] = visit[u]
    PROVE  \A u \in Visit \ crossed' : visit'[u].stage = "away" => Held(visit[u].browser)' = {u}
<1>. SUFFICES ASSUME NEW u \in Visit \ crossed', visit'[u].stage = "away"
              PROVE  Held(visit[u].browser)' = {u}
  OBVIOUS
<1>1. visit'[u] = visit[u] /\ u \notin crossed
  OBVIOUS
<1>. QED
  BY <1>1, Waiting DEF Held

LEMMA LandsCallback ==
    ASSUME LandInv, NEW v \in Visit, Callback(v)
    PROVE  Undisturbed' /\ UncrossedLoginLands'
<1>1. /\ UNCHANGED <<member, jti, assertion, stateCookie>> /\ TypeOK
      /\ visit[v].stage = "away" /\ crossed \subseteq crossed'
  BY DEF Callback, cookies, LandInv, LoginInv
<1>2. /\ visit'[v].ticket = visit[v].ticket
      /\ visit'[v].stage \in {"done", "auditing", "completing"}
      /\ \A u \in Visit : u # v => visit'[u] = visit[u]
  BY <1>1, GoType, ExitType, LeaveType DEF Callback, Stage, Outcome
<1>3. v \notin crossed' => assertion'[v] = Nothing
  BY <1>1 DEF LandInv, Undisturbed
<1>4. ASSUME v \notin crossed', visit'[v].outcome \in {"failed", "denied"} PROVE Unwelcome(v)'
  <2>1. StateMatches(v)
    BY <1>1, <1>4, Waiting DEF StateMatches
  <2>2. Go(v, "completing") \/ Leave(v, "limited")
    BY <1>1, <1>4, <2>1 DEF Callback
  <2>3. visit'[v].outcome = visit[v].outcome
    BY <1>1, <1>4, <2>2, GoType, LeaveType DEF Stage, Outcome
  <2>. QED
    BY <1>1, <1>4, <2>3 DEF LandInv, UncrossedLoginLands, Unwelcome
<1>5. visit'[v].stage \notin {"away", "claiming"}
  BY <1>2
<1>. QED
  BY <1>1, <1>2, <1>3, <1>4, <1>5, StillWaiting, CourseMoves

LEMMA LandsComplete ==
    ASSUME LandInv, NEW v \in Visit, Complete(v)
    PROVE  Undisturbed' /\ UncrossedLoginLands'
<1>. DEFINE t == visit[v].ticket
<1>1. /\ UNCHANGED <<member, jti, stateCookie, now>> /\ TypeOK /\ t \in Visit
      /\ visit[v].stage = "completing" /\ crossed \subseteq crossed'
  BY VisitFields DEF Complete, cookies, tables, LandInv, LoginInv
<1>2. /\ visit'[v].ticket = visit[v].ticket
      /\ visit'[v].stage \in {"claiming", "auditing"}
      /\ \A u \in Visit : u # v => visit'[u] = visit[u]
  BY <1>1, GoType, ExitType DEF Complete, Stage, Outcome
<1>3. /\ \A x \in Visit : x # t => assertion'[x] = assertion[x]
      /\ assertion[t] # Nothing => assertion' = assertion
  BY <1>1 DEF Complete, TypeOK
<1>4. ASSUME v \notin crossed'
      PROVE  /\ visit'[v].stage = "claiming" => jti'[v] = Nothing
             /\ visit'[v].outcome \in {"failed", "denied"} => Unwelcome(v)'
  <2>1. t = v /\ assertion[v] = Nothing /\ jti[v] = Nothing
    BY <1>1, <1>4 DEF LandInv, Undisturbed, LoginInv, BurnedOnce
  <2>2. PICK c \in Answers :
           assertion' = [assertion EXCEPT ![v] = [claims |-> c, exp |-> now + AssertionTTL]]
    BY <1>4, <2>1 DEF Complete
  <2>3. /\ assertion'[v] = [claims |-> c, exp |-> now + AssertionTTL]
        /\ assertion'[v].claims = c /\ assertion'[v].exp = now + AssertionTTL
    BY <1>1, <2>2 DEF TypeOK
  <2>4. now < now + AssertionTTL /\ assertion'[v] # Nothing
    <3>1. [claims |-> c, exp |-> now + AssertionTTL] \in [claims : Claims, exp : Nat]
      BY <1>1, Clock, LoginAssumption
    <3>. QED
      BY <1>1, <2>3, <3>1, Clock, LoginAssumption, NothingAssumption
  <2>5. ASSUME visit'[v].outcome \in {"failed", "denied"} PROVE Unwelcome(v)'
    <3>1. CASE Verifies(assertion'[v])
      <4>1. Go(v, "claiming")
        BY <1>4, <2>1, <3>1 DEF Complete
      <4>2. visit'[v].outcome = visit[v].outcome
        BY <1>1, <4>1, GoType DEF Stage
      <4>. QED
        BY <1>1, <1>4, <2>1, <2>5, <4>2 DEF LandInv, UncrossedLoginLands
    <3>2. CASE ~ Verifies(assertion'[v])
      <4>1. ~ Genuine(c)
        BY <2>3, <2>4, <3>2 DEF Verifies, Genuine
      <4>. QED
        BY <2>3, <2>4, <4>1 DEF Unwelcome
    <3>. QED
      BY <3>1, <3>2
  <2>. QED
    BY <1>1, <2>1, <2>5
<1>5. \A u \in Visit \ crossed' : visit'[u].stage = "away" => Held(visit[u].browser)' = {u}
  BY <1>1, <1>2, StillWaiting
<1>6. visit'[v].stage \notin {"unused", "starting", "away", "completing"}
  BY <1>2
<1>. QED
  BY <1>1, <1>2, <1>3, <1>4, <1>5, <1>6, CourseMoves

LEMMA LandsClaim ==
    ASSUME LandInv, NEW v \in Visit, Claim(v)
    PROVE  Undisturbed' /\ UncrossedLoginLands'
<1>. DEFINE t == visit[v].ticket
<1>1. /\ UNCHANGED <<member, assertion, stateCookie, crossed>> /\ TypeOK /\ t \in Visit
      /\ visit[v].stage = "claiming" /\ assertion[t] # Nothing
  BY VisitFields DEF Claim, cookies, LandInv, LoginInv, BurnedOnce
<1>2. /\ visit'[v].ticket = visit[v].ticket
      /\ visit'[v].stage \in {"gating", "auditing"}
      /\ \A u \in Visit : u # v => visit'[u] = visit[u]
  BY <1>1, GoType, ExitType DEF Claim, Stage, Outcome
<1>3. \A x \in Visit : x # t => jti'[x] = jti[x]
  BY <1>1 DEF Claim, TypeOK
<1>4. ASSUME v \notin crossed, visit'[v].outcome \in {"failed", "denied"} PROVE Unwelcome(v)'
  <2>1. t = v /\ Unclaimed(t)
    BY <1>1, <1>4 DEF LandInv, Undisturbed, Unclaimed
  <2>2. CASE assertion[v].claims.standing = "member"
    <3>1. visit'[v].outcome = visit[v].outcome
      BY <1>1, <2>1, <2>2, GoType DEF Claim, Stage
    <3>. QED
      BY <1>1, <1>4, <3>1 DEF LandInv, UncrossedLoginLands, Unwelcome
  <2>3. CASE assertion[v].claims.standing # "member"
    BY <1>1, <2>1, <2>3 DEF Unwelcome, Genuine
  <2>. QED
    BY <2>2, <2>3
<1>5. \A u \in Visit \ crossed' : visit'[u].stage = "away" => Held(visit[u].browser)' = {u}
  BY <1>1, <1>2, StillWaiting
<1>6. visit'[v].stage \notin {"unused", "starting", "away", "completing", "claiming"}
  BY <1>2
<1>. QED
  BY <1>1, <1>2, <1>3, <1>4, <1>5, <1>6, CourseMoves

LEMMA LandsGate ==
    ASSUME LandInv, NEW v \in Visit, Gate(v)
    PROVE  Undisturbed' /\ UncrossedLoginLands'
<1>. DEFINE t == visit[v].ticket
<1>1. /\ UNCHANGED <<member, assertion, stateCookie, crossed, jti>> /\ TypeOK /\ t \in Visit
      /\ visit[v].stage = "gating" /\ assertion[t] # Nothing
  BY VisitFields DEF Gate, cookies, tables, LandInv, LoginInv, BurnedOnce, Burning
<1>2. /\ visit'[v].ticket = visit[v].ticket
      /\ visit'[v].stage \in {"creating", "auditing"}
      /\ \A u \in Visit : u # v => visit'[u] = visit[u]
  BY <1>1, GoType, ExitType DEF Gate, Stage, Outcome
<1>4. ASSUME v \notin crossed, visit'[v].outcome \in {"failed", "denied"} PROVE Unwelcome(v)'
  <2>1. t = v
    BY <1>1, <1>4 DEF LandInv, Undisturbed
  <2>2. CASE assertion[v].claims.numeric /\ Admits(member[Owner(v)])
    <3>1. visit'[v].outcome = visit[v].outcome
      BY <1>1, <2>1, <2>2, GoType DEF Gate, Stage
    <3>. QED
      BY <1>1, <1>4, <3>1 DEF LandInv, UncrossedLoginLands, Unwelcome
  <2>3. CASE ~ (assertion[v].claims.numeric /\ Admits(member[Owner(v)]))
    BY <1>1, <2>1, <2>3 DEF Unwelcome, Genuine, Owner
  <2>. QED
    BY <2>2, <2>3
<1>5. \A u \in Visit \ crossed' : visit'[u].stage = "away" => Held(visit[u].browser)' = {u}
  BY <1>1, <1>2, StillWaiting
<1>6. visit'[v].stage \notin {"unused", "starting", "away", "completing", "claiming"}
  BY <1>2
<1>. QED
  BY <1>1, <1>2, <1>4, <1>5, <1>6, CourseMoves

\* The other steps of a visit tell its browser, the logs or nobody what has come of it.
LEMMA LandsOther ==
    ASSUME LandInv, NEW v \in Visit, Create(v) \/ Audit(v) \/ Break(v)
    PROVE  Undisturbed' /\ UncrossedLoginLands'
<1>1. /\ UNCHANGED <<member, assertion, stateCookie, crossed, jti>> /\ TypeOK
  BY DEF Create, Audit, Break, cookies, tables, LandInv, LoginInv
<1>2. /\ visit'[v].ticket = visit[v].ticket
      /\ visit'[v].stage \in {"auditing", "answering", "done"}
      /\ \A u \in Visit : u # v => visit'[u] = visit[u]
      /\ visit'[v].outcome \in {visit[v].outcome, "in", "broken"}
  BY <1>1, GoType, ExitType, LeaveType DEF Create, Audit, Break, Stage, Outcome
<1>4. v \notin crossed /\ visit'[v].outcome \in {"failed", "denied"} => Unwelcome(v)'
  BY <1>1, <1>2 DEF LandInv, UncrossedLoginLands, Unwelcome
<1>5. \A u \in Visit \ crossed' : visit'[u].stage = "away" => Held(visit[u].browser)' = {u}
  BY <1>1, <1>2, StillWaiting
<1>6. visit'[v].stage \notin {"unused", "starting", "away", "completing", "claiming"}
  BY <1>2
<1>. QED
  BY <1>1, <1>2, <1>4, <1>5, <1>6, CourseMoves

\* An answer takes whatever cookie its browser has by now, and crosses whose it was.
LEMMA LandsAnswer ==
    ASSUME LandInv, NEW v \in Visit, Answer(v)
    PROVE  Undisturbed' /\ UncrossedLoginLands'
<1>. DEFINE b == visit[v].browser
<1>1. /\ UNCHANGED <<member, assertion, jti>> /\ TypeOK /\ b \in Browser
      /\ visit[v].stage = "answering" /\ crossed \subseteq crossed'
      /\ stateCookie' = [stateCookie EXCEPT ![b] = Nothing]
      /\ crossed' = crossed \cup (Held(b) \ {visit[v].ticket})
  BY DEF Answer, tables, LandInv, LoginInv, Stages
<1>2. /\ visit'[v].ticket = visit[v].ticket
      /\ visit'[v].stage = "done" /\ visit'[v].outcome = visit[v].outcome
      /\ \A u \in Visit : u # v => visit'[u] = visit[u]
  BY <1>1, GoType DEF Answer, Stage
<1>4. v \notin crossed' /\ visit'[v].outcome \in {"failed", "denied"} => Unwelcome(v)'
  BY <1>1, <1>2 DEF LandInv, UncrossedLoginLands, Unwelcome
<1>5. ASSUME NEW u \in Visit \ crossed', visit'[u].stage = "away"
      PROVE  Held(visit[u].browser)' = {u}
  <2>1. /\ u # v /\ visit'[u] = visit[u] /\ u \notin crossed /\ visit[u].browser \in Browser
        /\ Held(visit[u].browser) = {u}
    BY <1>1, <1>2, <1>5, Waiting
  <2>2. visit[v].ticket # u
    BY <2>1 DEF LandInv, Undisturbed
  <2>3. visit[u].browser # b
    BY <1>1, <1>5, <2>1, <2>2
  <2>4. stateCookie'[visit[u].browser] = stateCookie[visit[u].browser]
    BY <1>1, <2>1, <2>3 DEF TypeOK
  <2>. QED
    BY <2>1, <2>4 DEF Held
<1>6. visit'[v].stage \notin {"unused", "starting", "away", "completing", "claiming"}
  BY <1>2
<1>. QED
  BY <1>1, <1>2, <1>4, <1>5, <1>6, CourseMoves

\* A visit that begins has its name for a ticket; one that loads a URL once more crosses
\* the visit whose URL it is.
LEMMA LandsEnter ==
    ASSUME LandInv, NEW v \in Visit, NEW t \in Visit, NEW b \in Browser,
           Begin(v, b) \/ Reload(v, t, b)
    PROVE  Undisturbed' /\ UncrossedLoginLands'
<1>1. /\ UNCHANGED <<member, assertion, jti, stateCookie>> /\ TypeOK /\ crossed \subseteq crossed'
      /\ visit[v].stage = "unused"
  BY DEF Begin, Reload, Fresh, tables, cookies, LandInv, LoginInv
<1>2. CASE Begin(v, b) /\ Passes("begin")
  <2>1. /\ visit'[v].ticket = v /\ visit'[v].stage = "starting" /\ visit'[v].outcome = "none"
        /\ \A u \in Visit : u # v => visit'[u] = visit[u]
        /\ crossed' = crossed
    BY <1>1, <1>2, EnterType DEF Begin, Stage
  <2>2. CASE v \notin crossed
    <3>1. visit[v].ticket = v /\ assertion'[v] = Nothing
      BY <1>1, <2>2 DEF LandInv, Undisturbed
    <3>2. \A u \in Visit \ crossed' : visit'[u].stage = "away" => Held(visit[u].browser)' = {u}
      BY <1>1, <2>1, StillWaiting
    <3>3. visit'[v].stage \notin {"away", "claiming"} /\ visit'[v].outcome \notin {"failed", "denied"}
      BY <2>1
    <3>. QED
      BY <1>1, <2>1, <3>1, <3>2, <3>3, CourseMoves
  <2>3. CASE v \in crossed
    <3>1. ASSUME NEW u \in Visit \ crossed' PROVE u # v /\ u \notin crossed /\ visit'[u] = visit[u]
      BY <2>1, <2>3, <3>1
    <3>2. Undisturbed'
      BY <1>1, <2>1, <3>1 DEF LandInv, Undisturbed, Held
    <3>3. UncrossedLoginLands'
      BY <1>1, <3>1 DEF LandInv, UncrossedLoginLands, Genuine, Admits
    <3>. QED
      BY <3>2, <3>3
  <2>. QED
    BY <2>2, <2>3
<1>3. CASE Begin(v, b) /\ ~ Passes("begin")
  <2>1. UNCHANGED <<visit, crossed>>
    BY <1>3 DEF Begin
  <2>. QED
    BY <1>1, <2>1, CourseKept DEF Held
<1>4. CASE Reload(v, t, b)
  <2>1. /\ visit'[v].ticket = t /\ crossed' = crossed \cup {v, t}
        /\ \A u \in Visit : u # v => visit'[u] = visit[u]
    BY <1>1, <1>4, EnterType DEF Reload, Stage
  <2>2. ASSUME NEW u \in Visit \ crossed' PROVE u # v /\ u # t /\ u \notin crossed /\ visit'[u] = visit[u]
    BY <2>1, <2>2
  <2>3. Undisturbed'
    BY <1>1, <2>1, <2>2 DEF LandInv, Undisturbed, Held
  <2>4. UncrossedLoginLands'
    BY <1>1, <2>2 DEF LandInv, UncrossedLoginLands, Genuine, Admits
  <2>. QED
    BY <2>3, <2>4
<1>. QED
  BY <1>2, <1>3, <1>4

\* What goes on beside the logins: it takes cookies only from who is too late with them.
LEMMA LandsBeside ==
    ASSUME LandInv,
           \/ \E r \in Request : RequestStep(r)
           \/ \E r \in Request, kind \in {"me", "search", "logout"}, b \in Browser : Arrive(r, kind, b)
           \/ Tick \/ Prune \/ UNCHANGED vars
    PROVE  Undisturbed' /\ UncrossedLoginLands'
<1>1. TypeOK
  BY DEF LandInv, LoginInv
<1>2. CASE Tick
  <2>1. UNCHANGED <<visit, member, assertion, jti>> /\ crossed \subseteq crossed'
    BY <1>2 DEF Tick, tables
  <2>2. ASSUME NEW u \in Visit \ crossed', visit[u].stage = "away"
        PROVE  Held(visit[u].browser)' = Held(visit[u].browser)
    <3>1. u \notin crossed /\ visit[u].browser \in Browser /\ Held(visit[u].browser) = {u}
      BY <2>1, <2>2, Waiting
    <3>2. stateCookie[visit[u].browser] # Nothing
      BY <3>1 DEF Held
    <3>3. ~ (stateCookie[visit[u].browser].until =< now + 1)
      BY <1>2, <2>2, <3>1, <3>2 DEF Tick
    <3>4. stateCookie'[visit[u].browser] = stateCookie[visit[u].browser]
      BY <1>2, <3>1, <3>3 DEF Tick
    <3>. QED
      BY <2>1, <3>4 DEF Held
  <2>. QED
    BY <2>1, <2>2, CourseKept
<1>3. ASSUME UNCHANGED <<visit, member, assertion, stateCookie, crossed>>,
             \A t \in Visit : jti[t] = Nothing => jti'[t] = Nothing
      PROVE  Undisturbed' /\ UncrossedLoginLands'
  BY <1>3, CourseKept DEF Held
<1>4. ASSUME NEW r \in Request, RequestStep(r)
      PROVE  UNCHANGED <<visit, member, assertion, stateCookie, crossed, jti>>
  BY <1>4 DEF RequestStep, Resolve, Read, Revoke, AuditLogout, Finish, tables, cookies
<1>5. ASSUME NEW r \in Request, NEW kind \in {"me", "search", "logout"}, NEW b \in Browser, Arrive(r, kind, b)
      PROVE  UNCHANGED <<visit, member, assertion, stateCookie, crossed, jti>>
  BY <1>5 DEF Arrive, cookies
<1>6. CASE Prune
  BY <1>3, <1>6 DEF Prune, cookies
<1>7. CASE UNCHANGED vars
  BY <1>3, <1>7 DEF vars, tables, cookies
<1>. QED
  BY <1>2, <1>3, <1>4, <1>5, <1>6, <1>7

LEMMA LandsStep == LandInv /\ [Next]_vars => Undisturbed' /\ UncrossedLoginLands'
<1>. SUFFICES ASSUME LandInv, [Next]_vars PROVE Undisturbed' /\ UncrossedLoginLands'
  OBVIOUS
<1>1. ASSUME NEW m \in Member, NEW row \in Rows, RecordsChange(m, row)
      PROVE  Undisturbed' /\ UncrossedLoginLands'
  BY <1>1 DEF RecordsChange, Undisturbed, UncrossedLoginLands
<1>. QED
  BY <1>1, LandsBegin, LandsCallback, LandsComplete, LandsClaim, LandsGate, LandsOther,
     LandsAnswer, LandsEnter, LandsBeside DEF Next, VisitStep

\* A leader whose login nothing comes in the way of is let in: every refusal has a reason
\* (web/auth.py, callback).
THEOREM UncrossedLoginsLand == Spec => []UncrossedLoginLands
<1>1. Init => Undisturbed /\ UncrossedLoginLands
  BY DEF Init, Undisturbed, UncrossedLoginLands
<1>2. LoginInv /\ LoginInv' /\ Undisturbed /\ UncrossedLoginLands /\ [Next]_vars
         => Undisturbed' /\ UncrossedLoginLands'
  BY LandsStep DEF LandInv
<1>. QED
  BY <1>1, <1>2, InvCorrect, PTL DEF Spec

-----------------------------------------------------------------------------
(* What is known of what the service has concluded. *)

Known(event) == event \in (log \cap journal) \cup complaints

LEMMA RecordTells ==
    ASSUME NEW event, Record(event)
    PROVE  /\ log \subseteq log' /\ journal \subseteq journal' /\ complaints \subseteq complaints'
           /\ Known(event)'
<1>1. PICK row \in BOOLEAN, line \in BOOLEAN :
         /\ log' = IF row THEN log \cup {event} ELSE log
         /\ journal' = IF line THEN journal \cup {event} ELSE journal
         /\ complaints' = IF Complains(row, line) THEN complaints \cup {event} ELSE complaints
  BY DEF Record
<1>. QED
  BY <1>1 DEF Known, Complains

VisitKnown(v) ==
    visit[v].stage \in {"answering", "done"} /\ visit[v].outcome \notin {"limited", "broken"}
        => Known(<<visit[v].outcome, v>>)

LogoutKnown(r) ==
    (request[r] # Nothing /\ request[r].stage = "answered" /\ request[r].kind = "logout"
     /\ request[r].principal) => Known(<<"logout", request[r].token>>)

LEMMA OutcomesKnown == OutcomeAudited <=> /\ \A v \in Visit : VisitKnown(v)
                                          /\ \A r \in Request : LogoutKnown(r)
BY DEF OutcomeAudited, VisitKnown, LogoutKnown, Known

\* The logs only grow, so only who moves has to be looked at.
LEMMA KnownKept ==
    ASSUME OutcomeAudited, log \subseteq log', journal \subseteq journal', complaints \subseteq complaints',
           \A v \in Visit : visit'[v] = visit[v] \/ VisitKnown(v)',
           \A r \in Request : request'[r] = request[r] \/ LogoutKnown(r)'
    PROVE  OutcomeAudited'
<1>1. \A event : Known(event) => Known(event)'
  BY DEF Known
<1>2. \A v \in Visit : VisitKnown(v)'
  BY <1>1, OutcomesKnown DEF VisitKnown
<1>3. \A r \in Request : LogoutKnown(r)'
  BY <1>1, OutcomesKnown DEF LogoutKnown
<1>. QED
  BY <1>2, <1>3 DEF OutcomeAudited, VisitKnown, LogoutKnown, Known

\* A logout reads nobody's record.
Readers ==
    \A r \in Request : request[r] # Nothing /\ request[r].stage = "reading" => request[r].kind # "logout"

LEMMA ReadersStep ==
    ASSUME LoginInv, Readers, [Next]_vars
    PROVE  Readers'
<1>. USE DEF LoginInv
<1>1. ASSUME NEW r \in Request, Resolve(r) PROVE Readers'
  <2>1. request[r] \in Requests /\ \A q \in Request : q # r => request'[q] = request[q]
    BY <1>1, RequestType DEF Resolve, TypeOK
  <2>2. request'[r] = Nothing \/ request'[r].stage # "reading" \/ request'[r].kind # "logout"
    BY <1>1, <2>1 DEF Resolve, Requests, TypeOK
  <2>. QED
    BY <2>1, <2>2 DEF Readers
<1>2. ASSUME NEW r \in Request, Read(r) \/ Revoke(r) \/ AuditLogout(r) \/ Finish(r) PROVE Readers'
  <2>1. request[r] \in Requests /\ \A q \in Request : q # r => request'[q] = request[q]
    BY <1>2, RequestType DEF Read, Revoke, AuditLogout, Finish, TypeOK
  <2>2. request'[r] = Nothing \/ request'[r].stage # "reading"
    BY <1>2, <2>1 DEF Read, Revoke, AuditLogout, Finish, Requests, TypeOK
  <2>. QED
    BY <2>1, <2>2 DEF Readers
<1>3. ASSUME NEW r \in Request, NEW kind \in {"me", "search", "logout"}, NEW b \in Browser, Arrive(r, kind, b)
      PROVE  Readers'
  <2>1. /\ \A q \in Request : q # r => request'[q] = request[q]
        /\ request'[r].stage = "resolving"
    BY <1>3 DEF Arrive, TypeOK
  <2>. QED
    BY <2>1 DEF Readers
<1>4. ASSUME NEW m \in Member, NEW row \in Rows, RecordsChange(m, row) PROVE Readers'
  <2>1. ASSUME NEW r \in Request, request'[r] # request[r]
        PROVE  /\ request[r] # Nothing /\ request'[r].stage = request[r].stage
               /\ request'[r].kind = request[r].kind
    <3>1. request[r] # Nothing /\ request'[r] = [request[r] EXCEPT !.shut = FALSE]
      BY <1>4, <2>1 DEF RecordsChange
    <3>2. request[r] \in Requests
      BY <3>1 DEF TypeOK
    <3>. QED
      BY <3>1, <3>2 DEF Requests
  <2>. QED
    BY <2>1 DEF Readers
<1>5. CASE UNCHANGED request
  BY <1>5 DEF Readers
<1>6. ASSUME NEW v \in Visit, VisitStep(v) \/ Callback(v) \/ Break(v) PROVE UNCHANGED request
  BY <1>6 DEF VisitStep, BeginAnswers, Complete, Claim, Gate, Create, Audit, Answer, Callback, Break
<1>7. ASSUME NEW v \in Visit, NEW t \in Visit, NEW b \in Browser, Begin(v, b) \/ Reload(v, t, b)
      PROVE  UNCHANGED request
  BY <1>7 DEF Begin, Reload
<1>8. Tick \/ Prune \/ UNCHANGED vars => UNCHANGED request
  BY DEF Tick, Prune, vars
<1>. QED
  BY <1>1, <1>2, <1>3, <1>4, <1>5, <1>6, <1>7, <1>8 DEF Next, RequestStep

LEMMA AuditedStep ==
    ASSUME LoginInv, Readers, OutcomeAudited, [Next]_vars
    PROVE  OutcomeAudited'
<1>. USE DEF LoginInv
<1>1. ASSUME NEW v \in Visit, Audit(v) PROVE OutcomeAudited'
  <2>1. /\ visit'[v].outcome = visit[v].outcome /\ \A u \in Visit : u # v => visit'[u] = visit[u]
        /\ request' = request /\ Record(<<visit[v].outcome, v>>)
    BY <1>1, GoType DEF Audit, Stage
  <2>2. VisitKnown(v)'
    BY <2>1, RecordTells DEF VisitKnown
  <2>. QED
    BY <2>1, <2>2, RecordTells, KnownKept
<1>2. ASSUME NEW v \in Visit,
             \/ BeginAnswers(v) \/ Complete(v) \/ Claim(v) \/ Gate(v) \/ Create(v)
             \/ Callback(v) \/ Break(v)
      PROVE  OutcomeAudited'
  <2>1. UNCHANGED <<log, journal, complaints, request>>
    BY <1>2 DEF BeginAnswers, Complete, Claim, Gate, Create, Callback, Break, tables
  <2>2. /\ \A u \in Visit : u # v => visit'[u] = visit[u]
        /\ \/ visit'[v].stage \notin {"answering", "done"}
           \/ visit'[v].outcome \in {"limited", "broken"}
    BY <1>2, GoType, ExitType, LeaveType
       DEF BeginAnswers, Complete, Claim, Gate, Create, Callback, Break, Stage, Outcome
  <2>3. VisitKnown(v)'
    BY <2>2 DEF VisitKnown
  <2>. QED
    BY <2>1, <2>2, <2>3, KnownKept
<1>3. ASSUME NEW v \in Visit, Answer(v) PROVE OutcomeAudited'
  <2>1. /\ UNCHANGED <<log, journal, complaints, request>> /\ visit[v].stage = "answering"
        /\ visit'[v].outcome = visit[v].outcome /\ \A u \in Visit : u # v => visit'[u] = visit[u]
    BY <1>3, GoType DEF Answer, tables, Stage
  <2>2. VisitKnown(v)'
    BY <2>1, OutcomesKnown DEF VisitKnown, Known
  <2>. QED
    BY <2>1, <2>2, KnownKept
<1>4. ASSUME NEW v \in Visit, NEW t \in Visit, NEW b \in Browser, Begin(v, b) \/ Reload(v, t, b)
      PROVE  OutcomeAudited'
  <2>1. UNCHANGED <<log, journal, complaints, request>>
    BY <1>4 DEF Begin, Reload, tables
  <2>2. \/ visit' = visit
        \/ /\ visit'[v].stage \notin {"answering", "done"}
           /\ \A u \in Visit : u # v => visit'[u] = visit[u]
    BY <1>4, EnterType DEF Begin, Reload, Stage
  <2>3. visit' = visit \/ VisitKnown(v)'
    BY <2>2 DEF VisitKnown
  <2>. QED
    BY <2>1, <2>2, <2>3, KnownKept
<1>5. ASSUME NEW r \in Request, AuditLogout(r) PROVE OutcomeAudited'
  <2>0. request[r] \in Requests
    BY <1>5, RequestType DEF AuditLogout
  <2>1. /\ \A q \in Request : q # r => request'[q] = request[q]
        /\ request'[r].token = request[r].token
        /\ visit' = visit /\ Record(<<"logout", request[r].token>>)
    BY <1>5, <2>0 DEF AuditLogout, Requests, TypeOK
  <2>2. LogoutKnown(r)'
    BY <2>1, RecordTells DEF LogoutKnown
  <2>. QED
    BY <2>1, <2>2, RecordTells, KnownKept
<1>6. ASSUME NEW r \in Request, Resolve(r) \/ Read(r) \/ Revoke(r) \/ Finish(r) PROVE OutcomeAudited'
  <2>1. /\ UNCHANGED <<log, journal, complaints, visit>>
        /\ \A q \in Request : q # r => request'[q] = request[q]
    BY <1>6 DEF Resolve, Read, Revoke, Finish, tables, TypeOK
  <2>2. request[r] \in Requests /\ r \in DOMAIN request
    BY <1>6, RequestType DEF Resolve, Read, Revoke, Finish, TypeOK
  <2>3. LogoutKnown(r)'
    <3>1. CASE Resolve(r) \/ Finish(r)
      BY <2>2, <3>1 DEF Resolve, Finish, LogoutKnown, Requests
    <3>2. CASE Read(r)
      BY <2>2, <3>2 DEF Read, LogoutKnown, Requests, Readers
    <3>3. CASE Revoke(r)
      BY <2>2, <3>3 DEF Revoke, LogoutKnown, Requests
    <3>. QED
      BY <1>6, <3>1, <3>2, <3>3
  <2>. QED
    BY <2>1, <2>3, KnownKept
<1>7. ASSUME NEW r \in Request, NEW kind \in {"me", "search", "logout"}, NEW b \in Browser, Arrive(r, kind, b)
      PROVE  OutcomeAudited'
  <2>1. /\ UNCHANGED <<log, journal, complaints, visit>>
        /\ \A q \in Request : q # r => request'[q] = request[q]
        /\ request'[r].stage = "resolving"
    BY <1>7 DEF Arrive, TypeOK
  <2>2. LogoutKnown(r)'
    BY <2>1 DEF LogoutKnown
  <2>. QED
    BY <2>1, <2>2, KnownKept
<1>8. CASE Tick \/ Prune \/ UNCHANGED vars
  <2>1. UNCHANGED <<log, journal, complaints, visit, request>>
    BY <1>8 DEF Tick, Prune, vars, tables
  <2>. QED
    BY <2>1, KnownKept
<1>9. ASSUME NEW m \in Member, NEW row \in Rows, RecordsChange(m, row) PROVE OutcomeAudited'
  <2>1. UNCHANGED <<log, journal, complaints, visit>>
    BY <1>9 DEF RecordsChange, tables
  <2>2. ASSUME NEW r \in Request PROVE request'[r] = request[r] \/ LogoutKnown(r)'
    <3>1. request[r] \in Requests \/ request[r] = Nothing
      BY DEF TypeOK
    <3>2. CASE request'[r] # request[r]
      <4>1. request[r] \in Requests /\ request'[r] = [request[r] EXCEPT !.shut = FALSE]
        BY <1>9, <3>1, <3>2 DEF RecordsChange
      <4>2. /\ request[r] # Nothing /\ request'[r].stage = request[r].stage
            /\ request'[r].kind = request[r].kind /\ request'[r].token = request[r].token
            /\ request'[r].principal = request[r].principal
        BY <4>1, NothingAssumption DEF Requests
      <4>3. LogoutKnown(r)
        BY OutcomesKnown
      <4>. QED
        BY <2>1, <4>2, <4>3 DEF LogoutKnown, Known
    <3>. QED
      BY <3>2
  <2>. QED
    BY <2>1, <2>2, KnownKept
<1>. QED
  BY <1>1, <1>2, <1>3, <1>4, <1>5, <1>6, <1>7, <1>8, <1>9 DEF Next, VisitStep, RequestStep

\* What the service has concluded of a login or a logout is in the audit log and in the
\* journal, or its own log says that it is not (db/audit.py).
THEOREM OutcomesAreAudited == Spec => []OutcomeAudited
<1>1. Init => Readers /\ OutcomeAudited
  BY NothingAssumption DEF Init, OutcomeAudited, Readers
<1>2. LoginInv /\ Readers /\ OutcomeAudited /\ [Next]_vars => Readers' /\ OutcomeAudited'
  BY ReadersStep, AuditedStep
<1>. QED
  BY <1>1, <1>2, InvCorrect, PTL DEF Spec
====

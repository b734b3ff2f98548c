----------------------------- MODULE PanelProofs -----------------------------
(***************************************************************************)
(* The panel's writes, for any number of members, requests and groups and  *)
(* any bounds: types, the pool that outlives every task, the audit row     *)
(* that every committed write has or is owed, and the mirror of whoever    *)
(* nothing has crossed (MirrorInv).                                        *)
(***************************************************************************)
EXTENDS PanelProperties, SyncRulesProofs

-----------------------------------------------------------------------------
(* What the steps have in common. *)

\* A busy slot holds the locals of a request.
LEMMA BusyLocals ==
    ASSUME TypeOK, NEW r \in Request
    PROVE  Busy(r) <=> request[r] \in Locals
BY NothingAssumption DEF TypeOK, Busy

\* Bounds are spent, never created.
LEMMA SpendType ==
    ASSUME left \in [BoundKind -> Nat], NEW k \in BoundKind, Spend(k)
    PROVE  left' \in [BoundKind -> Nat]
BY DEF Spend

\* A call changes one group, by the address it names.
LEMMA LandedType ==
    ASSUME google \in [MailGroup -> SUBSET Address], NEW op, NEW g \in MailGroup,
           NEW a \in Address
    PROVE  Landed(op, g, a) \in [MailGroup -> SUBSET Address]
BY DEF Landed

\* A slot's new locals keep the invariants about all slots, if the slot still owes
\* what it owed and knows the address where it needs one.
LEMMA Put ==
    ASSUME PanelInv, NEW r \in Request, Busy(r),
           NEW v \in Locals \cup {NoRequest},
           v \in Locals => \/ v.stage \notin {"calling", "remembering"}
                           \/ v.address \in Address,
           request' = [request EXCEPT ![r] = v],
           unrecorded' \subseteq unrecorded \cup {r},
           r \in unrecorded' => v \in Locals /\ v.stage \in Owing,
           UNCHANGED lifespan
    PROVE  /\ request' \in [Request -> Locals \cup {NoRequest}]
           /\ unrecorded' \subseteq Request
           /\ AddressPicked' /\ CommittedWritesRecorded' /\ PoolClosedLast' /\ TasksPending'
<1>1. /\ request \in [Request -> Locals \cup {NoRequest}]
      /\ request' \in [Request -> Locals \cup {NoRequest}]
      /\ request'[r] = v
      /\ \A q \in Request \ {r} : request'[q] = request[q]
  BY DEF PanelInv, TypeOK
<1>2. unrecorded' \subseteq Request
  BY DEF PanelInv, TypeOK
<1>3. AddressPicked'
  BY <1>1, NothingAssumption DEF PanelInv, AddressPicked, Busy
<1>4. CommittedWritesRecorded'
  <2>1. SUFFICES ASSUME NEW q \in unrecorded'
                 PROVE  request'[q] # NoRequest /\ request'[q].stage \in Owing
    BY DEF CommittedWritesRecorded, Busy
  <2>2. CASE q = r
    BY <1>1, <2>1, <2>2, NothingAssumption
  <2>3. CASE q # r
    BY <1>1, <1>2, <2>1, <2>3 DEF PanelInv, CommittedWritesRecorded, Busy
  <2>. QED
    BY <2>2, <2>3
<1>5. PoolClosedLast' /\ TasksPending'
  BY <1>1 DEF PanelInv, PoolClosedLast, TasksPending, Busy, lifespan
<1>. QED
  BY <1>1, <1>2, <1>3, <1>4, <1>5

\* The same for a step to another await, with every other local as it was.
LEMMA PutStage ==
    ASSUME PanelInv, NEW r \in Request, Busy(r), NEW s \in Stage, Goto(r, s),
           s \notin {"calling", "remembering"} \/ request[r].address \in Address,
           unrecorded' \subseteq unrecorded \cup {r},
           r \in unrecorded' => s \in Owing,
           UNCHANGED lifespan
    PROVE  /\ request' \in [Request -> Locals \cup {NoRequest}]
           /\ unrecorded' \subseteq Request
           /\ AddressPicked' /\ CommittedWritesRecorded' /\ PoolClosedLast' /\ TasksPending'
<1>. DEFINE v == [request[r] EXCEPT !.stage = s]
<1>1. request[r] \in Locals
  BY BusyLocals DEF PanelInv
<1>2. v \in Locals /\ v.stage = s /\ v.address = request[r].address
  BY <1>1 DEF Locals
<1>3. request' = [request EXCEPT ![r] = v]
  BY DEF Goto
<1>. QED
  BY <1>2, <1>3, Put

\* And for a slot that is given up.
LEMMA PutNothing ==
    ASSUME PanelInv, NEW r \in Request, Busy(r), Refused(r),
           unrecorded' \subseteq unrecorded \cup {r}, r \notin unrecorded',
           UNCHANGED lifespan
    PROVE  /\ request' \in [Request -> Locals \cup {NoRequest}]
           /\ unrecorded' \subseteq Request
           /\ AddressPicked' /\ CommittedWritesRecorded' /\ PoolClosedLast' /\ TasksPending'
BY Put, NothingAssumption DEF Refused

\* The slots as they were.
LEMMA SlotsKept ==
    ASSUME PanelInv, UNCHANGED <<request, unrecorded>>,
           UNCHANGED lifespan \/ service' = "up"
    PROVE  /\ request' \in [Request -> Locals \cup {NoRequest}]
           /\ unrecorded' \subseteq Request
           /\ AddressPicked' /\ CommittedWritesRecorded' /\ PoolClosedLast' /\ TasksPending'
BY DEF PanelInv, TypeOK, AddressPicked, CommittedWritesRecorded, PoolClosedLast, TasksPending,
       Busy, lifespan

\* What a write that is lost leaves behind.
LEMMA LostType ==
    ASSUME TypeOK, NEW rs \in SUBSET Request, \A r \in rs : Busy(r), Lost(rs)
    PROVE  unrecorded' \subseteq unrecorded \ rs /\ blurred' \subseteq Member
<1>1. \A r \in rs : request[r].target \in Member
  BY BusyLocals DEF Locals
<1>. QED
  BY <1>1 DEF Lost, TypeOK

-----------------------------------------------------------------------------
(* Each action. *)

\* The initial states.
LEMMA InvInit == Init => PanelInv
<1>. SUFFICES ASSUME Init PROVE PanelInv
  OBVIOUS
<1>1. IsStatuses(NoStatuses)
  BY DEF IsStatuses, NoStatuses
<1>2. PICK start \in World : /\ role = start.role /\ member = start.member
                             /\ link = start.link /\ google = start.google
  BY PanelAssumption DEF Init
<1>3. TypeOK
  BY <1>1, <1>2, PanelAssumption DEF Init, TypeOK, World
<1>4. AddressPicked /\ CommittedWritesRecorded /\ PoolClosedLast /\ TasksPending
  BY DEF Init, AddressPicked, CommittedWritesRecorded, PoolClosedLast, TasksPending, Busy
<1>. QED
  BY <1>3, <1>4 DEF PanelInv

\* A request arrives.
LEMMA InvArrive ==
    ASSUME PanelInv, NEW r \in Request, Arrive(r)
    PROVE  PanelInv'
<1>1. PICK op \in {"add", "remove"}, actor \in Member, target \in Member :
         request' = [request EXCEPT ![r] =
            [stage |-> "resolving", op |-> op, actor |-> actor, target |-> target,
             row |-> member[target].addresses, group |-> NoGroup, address |-> NoAddress]]
  BY DEF Arrive
<1>. DEFINE v == [stage |-> "resolving", op |-> op, actor |-> actor, target |-> target,
                  row |-> member[target].addresses, group |-> NoGroup,
                  address |-> NoAddress]
<1>2. v \in Locals
  <2>1. member[target].addresses \in SyncAddresses
    BY DEF PanelInv, TypeOK, MemberRow
  <2>. QED
    BY <2>1 DEF Locals, Stage
<1>3. /\ request \in [Request -> Locals \cup {NoRequest}]
      /\ request' = [request EXCEPT ![r] = v]
  BY <1>1 DEF PanelInv, TypeOK
<1>4. request' \in [Request -> Locals \cup {NoRequest}]
  BY <1>2, <1>3
<1>5. left' \in [BoundKind -> Nat]
  BY SpendType DEF Arrive, PanelInv, TypeOK, BoundKind
<1>6. TypeOK'
  BY <1>4, <1>5 DEF Arrive, PanelInv, TypeOK, records, lifespan, IsStatuses
<1>7. request'[r] = v /\ \A q \in Request \ {r} : request'[q] = request[q]
  BY <1>3
<1>8. AddressPicked'
  BY <1>7 DEF PanelInv, AddressPicked, Busy
<1>9. CommittedWritesRecorded'
  <2>1. r \notin unrecorded
    BY DEF PanelInv, CommittedWritesRecorded, Arrive
  <2>. QED
    BY <1>7, <2>1 DEF PanelInv, TypeOK, CommittedWritesRecorded, Busy, Arrive
<1>10. PoolClosedLast' /\ TasksPending'
  BY DEF Arrive, PoolClosedLast, TasksPending, lifespan
<1>. QED
  BY <1>6, <1>8, <1>9, <1>10 DEF PanelInv

\* A request until its claim.
LEMMA InvRequest ==
    ASSUME PanelInv, NEW r \in Request,
           ResolveMember(r) \/ RequireLeader(r) \/ ReadTarget(r) \/ Claim(r)
    PROVE  PanelInv'
<1>. USE DEF records, lifespan
<1>1. ASSUME At(r, "resolving") \/ At(r, "leading") \/ At(r, "targeting") \/ At(r, "claiming")
      PROVE  Busy(r) /\ request[r] \in Locals /\ r \notin unrecorded
  BY <1>1, BusyLocals DEF At, PanelInv, CommittedWritesRecorded, Owing
<1>2. CASE ResolveMember(r)
  <2>1. Refused(r) \/ Goto(r, "leading")
    BY <1>2 DEF ResolveMember
  <2>. QED
    BY <1>1, <1>2, <2>1, PutNothing, PutStage
       DEF ResolveMember, PanelInv, TypeOK, IsStatuses, Stage
<1>3. CASE RequireLeader(r)
  <2>1. Refused(r) \/ Goto(r, "targeting")
    BY <1>3 DEF RequireLeader
  <2>. QED
    BY <1>1, <1>3, <2>1, PutNothing, PutStage
       DEF RequireLeader, PanelInv, TypeOK, IsStatuses, Stage
<1>4. CASE ReadTarget(r)
  <2>. DEFINE m == request[r].target
              v == [request[r] EXCEPT !.stage = "claiming", !.row = member[m].addresses]
  <2>1. Busy(r) /\ request[r] \in Locals /\ r \notin unrecorded
    BY <1>1, <1>4 DEF ReadTarget
  <2>2. member[m].addresses \in SyncAddresses
    BY <2>1 DEF PanelInv, TypeOK, MemberRow, Locals
  <2>3. v \in Locals /\ v.stage = "claiming"
    BY <2>1, <2>2 DEF Locals, Stage
  <2>4. CASE Refused(r)
    BY <1>4, <2>1, <2>4, PutNothing DEF ReadTarget, PanelInv, TypeOK, IsStatuses
  <2>5. CASE request' = [request EXCEPT ![r] = v]
    BY <1>4, <2>1, <2>3, <2>5, Put DEF ReadTarget, PanelInv, TypeOK, IsStatuses
  <2>6. ~ Refused(r) => request' = [request EXCEPT ![r] = v]
    BY <1>4 DEF ReadTarget
  <2>. QED
    BY <2>4, <2>5, <2>6
<1>5. CASE Claim(r)
  <2>1. Busy(r) /\ request[r] \in Locals /\ r \notin unrecorded
    BY <1>1, <1>5 DEF Claim
  <2>2. request[r].target \in Member
    BY <2>1 DEF Locals
  <2>3. CASE Refused(r) /\ UNCHANGED <<role, unrecorded, blurred>>
    BY <1>5, <2>1, <2>3, PutNothing DEF Claim, PanelInv, TypeOK, IsStatuses
  <2>4. CASE ~ (Refused(r) /\ UNCHANGED <<role, unrecorded, blurred>>)
    <3>1. /\ Goto(r, "linking")
          /\ unrecorded' = unrecorded \cup {r}
          /\ blurred' \in {blurred \cup {request[r].target}, blurred}
          /\ role' = [role EXCEPT ![request[r].target] =
                        IF request[r].op = "add" THEN "member" ELSE "none"]
          /\ UNCHANGED <<member, link, statuses, google, stray, sweep, lifespan, left>>
      BY <1>5, <2>4 DEF Claim
    <3>2. role' \in [Member -> Role] /\ blurred' \subseteq Member
      BY <2>2, <3>1 DEF PanelInv, TypeOK, Role
    <3>. QED
      BY <2>1, <3>1, <3>2, PutStage DEF PanelInv, TypeOK, IsStatuses, Stage, Owing
  <2>. QED
    BY <2>3, <2>4
<1>. QED
  BY <1>2, <1>3, <1>4, <1>5

\* The end of a slot that loses what it owes.
LEMMA InvLost ==
    ASSUME PanelInv, NEW r \in Request, Busy(r), Spend("fault"), Refused(r), Lost({r}),
           google' \in [MailGroup -> SUBSET Address],
           UNCHANGED <<records, statuses, stray, sweep, lifespan>>
    PROVE  PanelInv'
<1>1. unrecorded' \subseteq unrecorded \ {r} /\ blurred' \subseteq Member
  BY LostType DEF PanelInv
<1>2. left' \in [BoundKind -> Nat]
  BY SpendType DEF PanelInv, TypeOK, BoundKind
<1>. QED
  BY <1>1, <1>2, PutNothing DEF PanelInv, TypeOK, IsStatuses, records, lifespan

\* What the request leaves behind.
LEMMA InvTask ==
    ASSUME PanelInv, NEW r \in Request,
           ReadLink(r) \/ PickAddress(r) \/ Mirror(r) \/ Remember(r) \/ Audit(r) \/ Unwind(r)
    PROVE  PanelInv'
<1>. USE DEF records, lifespan
<1>1. Busy(r) /\ request[r] \in Locals
  BY BusyLocals DEF At, PanelInv, ReadLink, PickAddress, Mirror, Remember, Audit, Unwind
<1>2. google \in [MailGroup -> SUBSET Address]
  BY DEF PanelInv, TypeOK
<1>3. CASE ReadLink(r)
  <2>. DEFINE v == [request[r] EXCEPT !.stage = "addressing", !.group = link]
  <2>1. v \in Locals /\ v.stage = "addressing"
    BY <1>1 DEF Locals, Stage, PanelInv, TypeOK
  <2>2. CASE request' = [request EXCEPT ![r] = v] /\ UNCHANGED <<unrecorded, blurred, left>>
    BY <1>1, <1>3, <2>1, <2>2, Put DEF ReadLink, PanelInv, TypeOK, IsStatuses, Owing
  <2>3. CASE Spend("fault") /\ Refused(r) /\ Lost({r})
    BY <1>1, <1>2, <1>3, <2>3, InvLost DEF ReadLink
  <2>. QED
    BY <1>3, <2>2, <2>3 DEF ReadLink
<1>4. CASE PickAddress(r)
  <2>. DEFINE v == [request[r] EXCEPT !.stage = "calling", !.address = TargetAddress(r)]
  <2>1. TargetAddress(r) \in Address
    BY <1>1, SyncTargetOwn DEF TargetAddress, PanelInv, TypeOK, Locals
  <2>2. v \in Locals /\ v.stage = "calling" /\ v.address \in Address
    BY <1>1, <2>1 DEF Locals, Stage
  <2>3. CASE request' = [request EXCEPT ![r] = v] /\ UNCHANGED <<unrecorded, blurred, left>>
    BY <1>1, <1>4, <2>2, <2>3, Put DEF PickAddress, PanelInv, TypeOK, IsStatuses, Owing
  <2>4. CASE Spend("fault") /\ Refused(r) /\ Lost({r})
    BY <1>1, <1>2, <1>4, <2>4, InvLost DEF PickAddress
  <2>. QED
    BY <1>4, <2>3, <2>4 DEF PickAddress
<1>5. CASE Mirror(r)
  <2>. DEFINE op == request[r].op
              g  == request[r].group
              a  == request[r].address
  <2>1. a \in Address /\ g \in MailGroup \cup {NoGroup} /\ request[r].target \in Member
    BY <1>1, <1>5 DEF Mirror, At, PanelInv, AddressPicked, Locals
  <2>2. ~ Skips(g, a) => Landed(op, g, a) \in [MailGroup -> SUBSET Address]
    BY <1>2, <2>1, LandedType DEF Skips
  <2>3. CASE Skips(g, a) /\ SkipMirror(r) /\ UNCHANGED <<google, unrecorded, blurred, left>>
    BY <1>1, <1>5, <2>3, PutStage
       DEF Mirror, SkipMirror, PanelInv, TypeOK, IsStatuses, Stage, Owing
  <2>4. CASE /\ ~ Skips(g, a) /\ google' = Landed(op, g, a)
             /\ Goto(r, AfterCall(op, Verdict(op, g, a)))
             /\ UNCHANGED <<unrecorded, blurred, left>>
    <3>1. AfterCall(op, Verdict(op, g, a)) \in {"remembering", "auditing"}
      BY DEF AfterCall
    <3>2. PICK s \in {"remembering", "auditing"} : Goto(r, s)
      BY <2>4, <3>1
    <3>. QED
      BY <1>1, <1>5, <2>1, <2>2, <2>4, <3>2, PutStage
         DEF Mirror, PanelInv, TypeOK, IsStatuses, Stage, Owing
  <2>5. CASE /\ ~ Skips(g, a) /\ Spend("fault")
             /\ google' \in {google, Landed(op, g, a)}
             /\ Goto(r, "auditing") /\ blurred' = blurred \cup {request[r].target}
             /\ UNCHANGED unrecorded
    <3>1. left' \in [BoundKind -> Nat]
      BY <2>5, SpendType DEF PanelInv, TypeOK, BoundKind
    <3>. QED
      BY <1>1, <1>2, <1>5, <2>1, <2>2, <2>5, <3>1, PutStage
         DEF Mirror, PanelInv, TypeOK, IsStatuses, Stage, Owing
  <2>6. CASE /\ ~ Skips(g, a) /\ Spend("fault")
             /\ google' \in {google, Landed(op, g, a)}
             /\ Refused(r) /\ Lost({r})
    BY <1>1, <1>2, <1>5, <2>2, <2>6, InvLost DEF Mirror
  <2>. QED
    BY <1>5, <2>3, <2>4, <2>5, <2>6 DEF Mirror
<1>6. CASE Remember(r)
  <2>1. request[r].address \in Address
    BY <1>1, <1>6 DEF Remember, At, PanelInv, AddressPicked
  <2>2. IsStatuses(statuses')
    BY <1>6, <2>1, RecordAcceptedType DEF Remember, PanelInv, TypeOK, IsStatuses
  <2>3. left' \in [BoundKind -> Nat]
    BY <1>6, SpendType DEF Remember, PanelInv, TypeOK, BoundKind
  <2>. QED
    BY <1>1, <1>6, <2>2, <2>3, PutStage
       DEF Remember, PanelInv, TypeOK, IsStatuses, Stage, Owing
<1>7. CASE Audit(r)
  <2>1. Refused(r)
    BY <1>7 DEF Audit, Refused
  <2>. QED
    BY <1>1, <1>7, <2>1, PutNothing DEF Audit, PanelInv, TypeOK, IsStatuses
<1>8. CASE Unwind(r)
  <2>1. Refused(r) /\ r \notin unrecorded
    BY <1>8 DEF Unwind, Refused, At, PanelInv, CommittedWritesRecorded, Owing
  <2>. QED
    BY <1>1, <1>8, <2>1, PutNothing DEF Unwind, PanelInv, TypeOK, IsStatuses
<1>. QED
  BY <1>3, <1>4, <1>5, <1>6, <1>7, <1>8

\* Stopping and starting.
LEMMA InvService ==
    ASSUME PanelInv, Drain \/ DrainTimesOut \/ ServiceStep \/ Kill
    PROVE  PanelInv'
<1>. USE DEF records, lifespan
<1>1. ASSUME NEW rs \in SUBSET Request
      PROVE  Calls(rs) \subseteq [op : {"add", "remove"}, group : MailGroup,
                                  address : Address]
  <2>1. ASSUME NEW r \in rs, At(r, "calling"),
               ~ Skips(request[r].group, request[r].address)
        PROVE  Call(r) \in [op : {"add", "remove"}, group : MailGroup, address : Address]
    <3>1. request[r] \in Locals /\ request[r].address \in Address
      BY <2>1, BusyLocals DEF At, PanelInv, AddressPicked
    <3>. QED
      BY <2>1, <3>1 DEF Call, Skips, Locals
  <2>. QED
    BY <2>1 DEF Calls
<1>2. unrecorded \subseteq Request /\ \A r \in unrecorded : Busy(r) /\ request[r].stage \in Owing
  BY DEF PanelInv, TypeOK, CommittedWritesRecorded
<1>3. request \in [Request -> Locals \cup {NoRequest}]
  BY DEF PanelInv, TypeOK
<1>4. CASE Drain
  <2>1. left' \in [BoundKind -> Nat]
    BY <1>4, SpendType DEF Drain, PanelInv, TypeOK, BoundKind
  <2>2. TasksPending'
    BY <1>4 DEF Drain, MirrorTasks, TasksPending, Busy
  <2>3. TypeOK'
    BY <1>4, <2>1 DEF Drain, MirrorTasks, PanelInv, TypeOK, IsStatuses
  <2>. QED
    BY <1>4, <2>2, <2>3
       DEF Drain, PanelInv, AddressPicked, CommittedWritesRecorded, PoolClosedLast, Busy
<1>5. CASE DrainTimesOut
  <2>. DEFINE rs == {r \in pending : Busy(r)}
  <2>1. rs \in SUBSET Request /\ (\A r \in rs : Busy(r)) /\ Lost(rs)
    BY <1>5 DEF DrainTimesOut, PanelInv, TypeOK
  <2>2. unrecorded' \subseteq unrecorded \ rs /\ blurred' \subseteq Member
    BY <2>1, LostType DEF PanelInv
  <2>3. \A r \in Request : request'[r] = IF r \in rs
                                          THEN [request[r] EXCEPT !.stage = "unwinding"]
                                          ELSE request[r]
    BY <1>5 DEF DrainTimesOut
  <2>4. ASSUME NEW r \in rs
        PROVE  /\ request'[r] \in Locals /\ request'[r].stage = "unwinding"
    <3>1. request[r] \in Locals
      BY <2>1, BusyLocals DEF PanelInv
    <3>. QED
      BY <2>1, <2>3, <3>1 DEF Locals, Stage
  <2>5. request' \in [Request -> Locals \cup {NoRequest}]
    <3>1. request' = [r \in Request |-> request'[r]]
      BY <1>5 DEF DrainTimesOut
    <3>2. \A r \in Request : request'[r] \in Locals \cup {NoRequest}
      BY <1>3, <2>3, <2>4
    <3>. QED
      BY <3>1, <3>2
  <2>. HIDE DEF rs
  <2>6. stray' \subseteq [op : {"add", "remove"}, group : MailGroup, address : Address]
    <3>1. stray' = stray \cup Calls(rs)
      BY <1>5 DEF DrainTimesOut, rs
    <3>. QED
      BY <1>1, <2>1, <3>1 DEF PanelInv, TypeOK
  <2>7. TypeOK'
    BY <1>5, <2>2, <2>5, <2>6 DEF DrainTimesOut, PanelInv, TypeOK, IsStatuses
  <2>8. AddressPicked' /\ CommittedWritesRecorded'
    BY <1>2, <2>2, <2>3, <2>4
       DEF PanelInv, TypeOK, AddressPicked, CommittedWritesRecorded, Busy
  <2>9. PoolClosedLast' /\ TasksPending'
    BY <1>5, <2>3 DEF DrainTimesOut, PanelInv, PoolClosedLast, TasksPending, Busy, rs
  <2>. QED
    BY <2>7, <2>8, <2>9 DEF PanelInv
<1>6. CASE ClosePool
  <2>1. \A r \in Request : ~ Busy(r)
    BY <1>6 DEF ClosePool, Gathered, PanelInv, TasksPending
  <2>2. PoolClosedLast' /\ TasksPending'
    BY <1>6, <2>1 DEF ClosePool, PoolClosedLast, TasksPending, Busy
  <2>. QED
    BY <1>6, <2>2 DEF ClosePool, PanelInv, TypeOK, IsStatuses, AddressPicked,
                      CommittedWritesRecorded, Busy
<1>7. CASE StartService
  BY <1>7, SlotsKept DEF StartService, PanelInv, TypeOK, IsStatuses
<1>8. CASE StrayLands
  <2>1. PICK c \in stray : /\ stray' = stray \ {c}
                           /\ google' \in {google, Landed(c.op, c.group, c.address)}
    BY <1>8 DEF StrayLands
  <2>2. google \in [MailGroup -> SUBSET Address] /\ c.group \in MailGroup /\ c.address \in Address
    BY DEF PanelInv, TypeOK
  <2>3. Landed(c.op, c.group, c.address) \in [MailGroup -> SUBSET Address]
    BY <2>2, LandedType
  <2>4. google' \in [MailGroup -> SUBSET Address]
    BY <2>1, <2>2, <2>3
  <2>. QED
    BY <1>8, <2>1, <2>4, SlotsKept DEF StrayLands, PanelInv, TypeOK, IsStatuses
<1>9. CASE Kill
  <2>. DEFINE rs == {r \in Request : Busy(r) /\ request[r].stage \in Owing}
  <2>1. rs \in SUBSET Request /\ (\A r \in rs : Busy(r)) /\ Lost(rs)
    BY <1>9 DEF Kill
  <2>2. unrecorded' \subseteq unrecorded \ rs /\ blurred' \subseteq Member
    BY <2>1, LostType DEF PanelInv
  <2>3. unrecorded' = {}
    BY <1>2, <2>2
  <2>4. left' \in [BoundKind -> Nat]
    BY <1>9, SpendType DEF Kill, PanelInv, TypeOK, BoundKind
  <2>. HIDE DEF rs
  <2>5. TypeOK'
    BY <1>1, <1>9, <2>2, <2>3, <2>4 DEF Kill, PanelInv, TypeOK, IsStatuses
  <2>. QED
    BY <1>9, <2>3, <2>5 DEF Kill, PanelInv, AddressPicked, CommittedWritesRecorded,
                            PoolClosedLast, TasksPending, Busy
<1>. QED
  BY <1>4, <1>5, <1>6, <1>7, <1>8, <1>9 DEF ServiceStep

\* What goes on beside the panel.
LEMMA InvOutside ==
    ASSUME PanelInv, SweepStep \/ SweepDies \/ RecordsChange \/ Relink
    PROVE  PanelInv'
<1>. USE DEF records, lifespan
<1>1. UNCHANGED <<request, unrecorded, lifespan, stray>>
  BY DEF SweepStep, SweepPlans, SweepAdds, SweepRemoves, SweepRecords, SweepDies,
         RecordsChange, Relink
<1>2. /\ request' \in [Request -> Locals \cup {NoRequest}]
      /\ unrecorded' \subseteq Request
      /\ AddressPicked' /\ CommittedWritesRecorded' /\ PoolClosedLast' /\ TasksPending'
  BY <1>1, SlotsKept
<1>3. sweep # NoSweep => sweep \in Sweeps
  BY DEF PanelInv, TypeOK
<1>4. CASE SweepPlans
  <2>1. Desired \subseteq Address
    BY DesiredOfType DEF Desired, PanelInv, TypeOK, MemberRow
  <2>2. link \in MailGroup /\ google[link] \subseteq Address
    BY <1>4 DEF SweepPlans, PanelInv, TypeOK
  <2>3. sweep' \in Sweeps
    BY <1>4, <2>1, <2>2 DEF SweepPlans, Sweeps
  <2>. QED
    BY <1>1, <1>2, <1>4, <2>3 DEF SweepPlans, PanelInv, TypeOK, IsStatuses
<1>5. CASE SweepAdds
  <2>1. PICK a \in sweep.adds :
           /\ google' = Landed("add", sweep.group, a)
           /\ sweep' = IF a \in Takes
                       THEN [sweep EXCEPT !.adds = @ \ {a}, !.accepted = @ \cup {a}]
                       ELSE [sweep EXCEPT !.adds = @ \ {a}, !.refused = @ \cup {a}]
    BY <1>5 DEF SweepAdds
  <2>2. sweep \in Sweeps /\ a \in Address /\ sweep.group \in MailGroup
    BY <1>3, <1>5, <2>1 DEF SweepAdds, Sweeps
  <2>3. sweep' \in Sweeps
    BY <2>1, <2>2 DEF Sweeps
  <2>4. google' \in [MailGroup -> SUBSET Address]
    BY <2>1, <2>2, LandedType DEF PanelInv, TypeOK
  <2>. QED
    BY <1>1, <1>2, <1>5, <2>3, <2>4 DEF SweepAdds, PanelInv, TypeOK, IsStatuses
<1>6. CASE SweepRemoves
  <2>1. PICK a \in sweep.removes :
           /\ google' = Landed("remove", sweep.group, a)
           /\ sweep' = [sweep EXCEPT !.removes = @ \ {a}]
    BY <1>6 DEF SweepRemoves
  <2>2. sweep \in Sweeps /\ a \in Address /\ sweep.group \in MailGroup
    BY <1>3, <1>6, <2>1 DEF SweepRemoves, Sweeps
  <2>3. sweep' \in Sweeps
    BY <2>1, <2>2 DEF Sweeps
  <2>4. google' \in [MailGroup -> SUBSET Address]
    BY <2>1, <2>2, LandedType DEF PanelInv, TypeOK
  <2>. QED
    BY <1>1, <1>2, <1>6, <2>3, <2>4 DEF SweepRemoves, PanelInv, TypeOK, IsStatuses
<1>7. CASE SweepRecords
  <2>1. sweep \in Sweeps /\ IsStatuses(statuses)
    BY <1>3, <1>7 DEF SweepRecords, PanelInv, TypeOK
  <2>2. CASE \E a \in sweep.refused : /\ statuses' = RecordRefused(statuses, a)
                                      /\ sweep' = [sweep EXCEPT !.refused = @ \ {a}]
    <3>1. IsStatuses(statuses') /\ sweep' \in Sweeps
      BY <2>1, <2>2, RecordRefusedType DEF Sweeps
    <3>. QED
      BY <1>1, <1>2, <1>7, <3>1 DEF SweepRecords, PanelInv, TypeOK, IsStatuses
  <2>3. CASE \E a \in sweep.accepted : /\ statuses' = RecordAccepted(statuses, a)
                                       /\ sweep' = [sweep EXCEPT !.accepted = @ \ {a}]
    <3>1. IsStatuses(statuses') /\ sweep' \in Sweeps
      BY <2>1, <2>3, RecordAcceptedType DEF Sweeps
    <3>. QED
      BY <1>1, <1>2, <1>7, <3>1 DEF SweepRecords, PanelInv, TypeOK, IsStatuses
  <2>4. CASE sweep' = NoSweep /\ UNCHANGED statuses
    BY <1>1, <1>2, <1>7, <2>4 DEF SweepRecords, PanelInv, TypeOK, IsStatuses
  <2>. QED
    BY <1>7, <2>2, <2>3, <2>4 DEF SweepRecords
<1>8. left \in [BoundKind -> Nat] /\ "records" \in BoundKind /\ "relink" \in BoundKind
      /\ "sweepDeath" \in BoundKind
  BY DEF PanelInv, TypeOK, BoundKind
<1>9. CASE SweepDies
  BY <1>1, <1>2, <1>8, <1>9, SpendType DEF SweepDies, PanelInv, TypeOK, IsStatuses
<1>10. CASE Relink
  BY <1>1, <1>2, <1>8, <1>10, SpendType DEF Relink, PanelInv, TypeOK, IsStatuses
<1>11. CASE RecordsChange
  <2>1. left' \in [BoundKind -> Nat]
    BY <1>8, <1>11, SpendType DEF RecordsChange
  <2>2. PICK m \in Member :
          /\ blurred' = blurred \cup {m}
          /\ \/ /\ role' = [role EXCEPT ![m] = IF @ = "leader" THEN "none" ELSE "leader"]
                /\ UNCHANGED member
             \/ /\ \E row \in Rows[m], good, banned \in BOOLEAN :
                      member' = [member EXCEPT ![m] =
                         [addresses |-> row, good |-> good, banned |-> banned]]
                /\ UNCHANGED role
    BY <1>11 DEF RecordsChange
  <2>3. role' \in [Member -> Role] /\ blurred' \subseteq Member
    BY <2>2 DEF PanelInv, TypeOK, Role
  <2>4. member' \in [Member -> MemberRow]
    <3>1. CASE UNCHANGED member
      BY <3>1 DEF PanelInv, TypeOK
    <3>2. CASE \E row \in Rows[m], good, banned \in BOOLEAN :
                  member' = [member EXCEPT ![m] =
                     [addresses |-> row, good |-> good, banned |-> banned]]
      <4>1. PICK row \in Rows[m], good \in BOOLEAN, banned \in BOOLEAN :
                  member' = [member EXCEPT ![m] =
                     [addresses |-> row, good |-> good, banned |-> banned]]
        BY <3>2
      <4>2. row \in SyncAddresses
        BY PanelAssumption
      <4>3. [addresses |-> row, good |-> good, banned |-> banned] \in MemberRow
        BY <4>2 DEF MemberRow
      <4>. QED
        BY <4>1, <4>3 DEF PanelInv, TypeOK
    <3>. QED
      BY <2>2, <3>1, <3>2
  <2>. QED
    BY <1>1, <1>2, <1>11, <2>1, <2>3, <2>4
       DEF RecordsChange, PanelInv, TypeOK, IsStatuses
<1>. QED
  BY <1>4, <1>5, <1>6, <1>7, <1>9, <1>10, <1>11 DEF SweepStep

\* Every step, and stuttering.
LEMMA InvNext == PanelInv /\ [Next]_vars => PanelInv'
<1>. SUFFICES ASSUME PanelInv, [Next]_vars PROVE PanelInv'
  OBVIOUS
<1>1. CASE \E r \in Request : Arrive(r)
  BY <1>1, InvArrive
<1>2. CASE \E r \in Request : RequestStep(r)
  BY <1>2, InvRequest, InvTask DEF RequestStep
<1>3. CASE Drain \/ DrainTimesOut \/ Kill \/ ServiceStep
  BY <1>3, InvService
<1>4. CASE SweepStep \/ SweepDies \/ RecordsChange \/ Relink
  BY <1>4, InvOutside
<1>5. CASE UNCHANGED vars
  BY <1>5 DEF vars, records, PanelInv, TypeOK, AddressPicked, CommittedWritesRecorded,
              PoolClosedLast, TasksPending, Busy, IsStatuses
<1>. QED
  BY <1>1, <1>2, <1>3, <1>4, <1>5 DEF Next

-----------------------------------------------------------------------------
(* The theorems. *)

\* Every variable of the panel keeps its type (web/records.py).
THEOREM TypeCorrect == Spec => []TypeOK
<1>1. PanelInv => TypeOK
  BY DEF PanelInv
<1>. QED
  BY <1>1, InvInit, InvNext, PTL DEF Spec

\* A write that has been committed is in the audit log or a request or task still
\* owes it, unless an unforeseen exception or the end of the process lost it, in
\* every order of any number of requests (web/records.py, _mirror_add).
THEOREM WritesRecorded == Spec => []CommittedWritesRecorded
<1>1. PanelInv => CommittedWritesRecorded
  BY DEF PanelInv
<1>. QED
  BY <1>1, InvInit, InvNext, PTL DEF Spec

\* No request and no mirror task is left when the pool is closed, because whatever was
\* there when the drain began is waited for, to its end or to the end of its
\* cancelling, and nothing younger can be (web/records.py, drain; service.py, lifespan).
THEOREM NoTaskOutlivesPool == Spec => []PoolClosedLast
<1>1. PanelInv => PoolClosedLast
  BY DEF PanelInv
<1>. QED
  BY <1>1, InvInit, InvNext, PTL DEF Spec

\* The panel never makes or unmakes a leader row: only a change of the records does
\* (db/mutations.py, _INSERT_MEMBER, _DELETE_MEMBER).
THEOREM LeadersOutOfReach == Spec => LeaderRowsAreThePulls
<1>. DEFINE Kept == \A m \in Member : (role[m] = "leader") # (role'[m] = "leader")
                                     => left'["records"] < left["records"]
<1>1. ASSUME PanelInv, [Next]_vars PROVE [Kept]_vars
  <2>1. CASE \E r \in Request : Claim(r)
    <3>1. PICK r \in Request : Claim(r)
      BY <2>1
    <3>2. request[r] \in Locals
      BY <1>1, <3>1, BusyLocals DEF Claim, At, PanelInv
    <3>3. request[r].target \in Member
      BY <3>2 DEF Locals
    <3>4. \/ UNCHANGED role
          \/ /\ role[request[r].target] # "leader"
             /\ \E new \in {"member", "none"} :
                   role' = [role EXCEPT ![request[r].target] = new]
      BY <3>1 DEF Claim, Claims
    <3>. QED
      BY <1>1, <3>3, <3>4 DEF PanelInv, TypeOK
  <2>2. CASE RecordsChange
    <3>1. left["records"] \in Nat /\ left'["records"] = left["records"] - 1
      BY <1>1, <2>2 DEF RecordsChange, Spend, PanelInv, TypeOK, BoundKind
    <3>. QED
      BY <3>1
  <2>3. CASE ~ (RecordsChange \/ \E r \in Request : Claim(r))
    <3>1. UNCHANGED role
      BY <1>1, <2>3
         DEF Next, RequestStep, SweepStep, ServiceStep, Arrive, ResolveMember,
             RequireLeader, ReadTarget, ReadLink, PickAddress, Mirror, Remember, Audit,
             Unwind, DrainTimesOut, SweepPlans, SweepAdds, SweepRemoves, SweepRecords, SweepDies, Drain, Kill,
             ClosePool, StartService, StrayLands, Relink, records, vars
    <3>. QED
      BY <3>1
  <2>. QED
    BY <2>1, <2>2, <2>3
<1>2. LeaderRowsAreThePulls <=> [][Kept]_vars
  BY DEF LeaderRowsAreThePulls
<1>. QED
  BY <1>1, <1>2, InvInit, InvNext, PTL DEF Spec

-----------------------------------------------------------------------------
(* The panel's mirror, when nothing crosses it (MirrorInv).                 *)

Target(m) == SyncTarget(member[m].addresses, statuses)

Own(m) == CandidateSet(member[m].addresses)

Reachable(m) == Own(m) \subseteq Takes \ Example

Wanted(m) == role[m] = "member" /\ Eligible(m)

SlotsFor(m) == {r \in Request : Busy(r) /\ request[r].target = m}

\* A write that has been committed and of which Google has not been told.
Untold == {"linking", "addressing", "calling"}

Early(m) == \E r \in OwingFor(m) : request[r].stage \in Untold

\* A slot for a member knows what the records say of them, and, once it has picked one,
\* the address they are to have.
SlotFollows(q, row, eligible, held, to, target) ==
    /\ q.row = row
    /\ q.op = "add" /\ q.stage \in Owing \cup {"claiming"} => eligible
    /\ q.stage \in Owing => held = (IF q.op = "add" THEN "member" ELSE "none")
    /\ q.stage \in InTask => q.group = to
    /\ q.stage \in {"calling", "remembering"} => q.address = target

\* A sweep has nothing to do for a member but to add them at their target, where they
\* are not yet.
SweepFollows(s, own, to, in, wanted, target) ==
    /\ s.group = to
    /\ (s.adds \cup s.accepted \cup s.refused) \cap own
           \subseteq (IF wanted THEN {target} ELSE {})
    /\ (s.adds \cup s.refused) \cap in = {}
    /\ wanted => s.removes \cap own = {}

\* Of a member's addresses the target at most is in the group: after an add, where Google
\* takes it, and before a remove.
GroupFollows(in, held, eligible, reachable, early, target) ==
    /\ held = "none" => in \subseteq (IF early THEN {target} ELSE {})
    /\ held = "member" /\ early => in = {}
    /\ held = "member" /\ ~ early =>
          /\ in \subseteq {target}
          /\ eligible /\ reachable => target \in in

SlotsFollow(m) ==
    /\ \A r \in SlotsFor(m) :
          SlotFollows(request[r], member[m].addresses, Eligible(m), role[m], link, Target(m))
    /\ \A q, r \in OwingFor(m) : q = r

SweepPart(m) ==
    sweep # NoSweep =>
       /\ OwingFor(m) = {}
       /\ SweepFollows(sweep, Own(m), link, Mirrored(m), Wanted(m), Target(m))

GroupPart(m) ==
    link # NoGroup =>
       GroupFollows(Mirrored(m), role[m], Eligible(m), Reachable(m), Early(m), Target(m))

Follows(m) == SlotsFollow(m) /\ SweepPart(m) /\ GroupPart(m)

\* Whose address is whose.
OwnedSlot(q) ==
    /\ q.row \in Rows[q.target]
    /\ q.stage \in {"calling", "remembering"} => q.address \in CandidateSet(q.row)

OwnedSweep(s) ==
    s.adds \cap Example = {} /\ s.accepted \subseteq Takes /\ s.refused \cap Takes = {}

Owned ==
    /\ \A m \in Member : member[m].addresses \in Rows[m]
    /\ \A r \in Request : Busy(r) => OwnedSlot(request[r])
    /\ \A c \in stray : c.address \notin Example
                        /\ \E n \in blurred : c.address \in Addresses(n)
    /\ \A g \in MailGroup : google[g] \cap Example = {}
    /\ sweep # NoSweep => OwnedSweep(sweep)

MirrorInv == Owned /\ \A m \in Member \ blurred : Alone(m) => Follows(m)

\* What the types say of a member's addresses.
LEMMA OwnAddresses ==
    ASSUME PanelInv, Owned, NEW m \in Member
    PROVE  /\ member[m].addresses \in SyncAddresses
           /\ Own(m) \subseteq Address /\ Own(m) \subseteq Addresses(m)
           /\ Target(m) \in Own(m)
<1>1. member[m].addresses \in SyncAddresses
  BY DEF PanelInv, TypeOK, MemberRow
<1>2. member[m].addresses \in Rows[m]
  BY DEF Owned
<1>. QED
  BY <1>1, <1>2, CandidatesOwn, TargetIsCandidate DEF Own, Addresses, Target

\* Who shares no address with the member whose address it is does not have it.
LEMMA OthersAddress ==
    ASSUME PanelInv, Owned, NEW m \in Member, Alone(m), NEW n \in Member \ {m},
           NEW a \in Addresses(n)
    PROVE  a \notin Own(m)
BY OwnAddresses DEF Alone

\* The slots of a member that a step leaves alone.
LEMMA SlotsAsBefore ==
    ASSUME NEW m \in Member, SlotsFollow(m),
           role'[m] = role[m], member'[m] = member[m], link' = link,
           Target(m)' = Target(m) \/ OwingFor(m) = {},
           SlotsFor(m)' \subseteq SlotsFor(m), OwingFor(m) \subseteq SlotsFor(m)',
           \A q \in SlotsFor(m)' : request'[q] = request[q]
    PROVE  SlotsFollow(m)' /\ OwingFor(m)' = OwingFor(m) /\ Early(m)' = Early(m)
<1>1. OwingFor(m)' = OwingFor(m)
  BY DEF OwingFor, SlotsFor
<1>2. \A q \in OwingFor(m) : request'[q] = request[q]
  OBVIOUS
<1>3. Early(m)' = Early(m)
  BY <1>1, <1>2 DEF Early
<1>4. Eligible(m)' = Eligible(m)
  BY DEF Eligible
<1>5. ASSUME NEW q \in SlotsFor(m)'
      PROVE  SlotFollows(request[q], member[m].addresses, Eligible(m), role[m], link,
                         Target(m)')
  <2>1. q \in SlotsFor(m)
    OBVIOUS
  <2>2. SlotFollows(request[q], member[m].addresses, Eligible(m), role[m], link, Target(m))
    BY <2>1 DEF SlotsFollow
  <2>3. CASE Target(m)' = Target(m)
    BY <2>2, <2>3
  <2>4. CASE OwingFor(m) = {}
    <3>1. request[q].stage \notin Owing
      BY <2>1, <2>4 DEF OwingFor, SlotsFor
    <3>2. request[q].stage \notin {"calling", "remembering"}
      BY <3>1 DEF Owing
    <3>. QED
      BY <2>2, <3>2 DEF SlotFollows
  <2>. QED
    BY <2>3, <2>4
<1>6. ASSUME NEW q \in SlotsFor(m)'
      PROVE  SlotFollows(request'[q], member'[m].addresses, Eligible(m)', role'[m], link',
                         Target(m)')
  BY <1>4, <1>5, <1>6
<1>7. \A q, r \in OwingFor(m)' : q = r
  BY <1>1 DEF SlotsFollow
<1>. QED
  BY <1>1, <1>3, <1>6, <1>7 DEF SlotsFollow

\* A sweep that has to do with a member runs on the linked group.
LEMMA SweptIsLinked ==
    ASSUME PanelInv, NEW m \in Member, SweepPart(m), sweep # NoSweep
    PROVE  sweep \in Sweeps /\ link \in MailGroup /\ link # NoGroup /\ sweep.group = link
<1>1. sweep \in Sweeps
  BY DEF PanelInv, TypeOK
<1>2. sweep.group = link
  BY DEF SweepPart, SweepFollows
<1>. QED
  BY <1>1, <1>2, PanelAssumption DEF Sweeps

\* A step that leaves a member alone.
LEMMA LeftAlone ==
    ASSUME PanelInv, NEW m \in Member, Follows(m),
           role'[m] = role[m], member'[m] = member[m], link' = link,
           Target(m)' = Target(m), sweep' \in {sweep, NoSweep},
           link # NoGroup => Mirrored(m)' = Mirrored(m),
           SlotsFor(m)' \subseteq SlotsFor(m), OwingFor(m) \subseteq SlotsFor(m)',
           \A q \in SlotsFor(m)' : request'[q] = request[q]
    PROVE  Follows(m)'
<1>1. SlotsFollow(m)' /\ OwingFor(m)' = OwingFor(m) /\ Early(m)' = Early(m)
  BY SlotsAsBefore DEF Follows
<1>2. Own(m)' = Own(m) /\ Eligible(m)' = Eligible(m)
  BY DEF Own, Eligible
<1>3. Reachable(m)' = Reachable(m) /\ Wanted(m)' = Wanted(m)
  BY <1>2 DEF Reachable, Wanted
<1>4. GroupPart(m)'
  BY <1>1, <1>2, <1>3 DEF Follows, GroupPart
<1>5. SweepPart(m)'
  <2>1. SUFFICES ASSUME sweep' # NoSweep PROVE SweepPart(m)'
    BY DEF SweepPart
  <2>2. sweep' = sweep /\ SweepPart(m)
    BY <2>1 DEF Follows
  <2>3. Mirrored(m)' = Mirrored(m)
    BY <2>1, <2>2, SweptIsLinked
  <2>. QED
    BY <1>1, <1>2, <1>3, <2>2, <2>3 DEF SweepPart
<1>. QED
  BY <1>1, <1>4, <1>5 DEF Follows

\* A request that is not a committed write changes nothing for anyone.
LEMMA NotYetOwing ==
    ASSUME PanelInv, NEW m \in Member, Follows(m), NEW r \in Request, r \notin OwingFor(m),
           UNCHANGED <<records, statuses, google, sweep>>,
           \A q \in Request \ {r} : request'[q] = request[q],
           r \in SlotsFor(m)' =>
              /\ request'[r].stage \notin Owing
              /\ SlotFollows(request'[r], member[m].addresses, Eligible(m), role[m], link,
                             Target(m))
    PROVE  Follows(m)'
<1>. USE DEF records, lifespan
<1>1. OwingFor(m)' = OwingFor(m)
  BY DEF OwingFor, SlotsFor, Busy
<1>2. \A q \in OwingFor(m) : request'[q] = request[q]
  BY DEF OwingFor
<1>3. Early(m)' = Early(m)
  BY <1>1, <1>2 DEF Early
<1>4. Own(m)' = Own(m) /\ Eligible(m)' = Eligible(m) /\ Target(m)' = Target(m)
      /\ Mirrored(m)' = Mirrored(m)
  BY DEF Own, Eligible, Target, Mirrored
<1>5. Reachable(m)' = Reachable(m) /\ Wanted(m)' = Wanted(m)
  BY <1>4 DEF Reachable, Wanted
<1>6. SweepPart(m)' /\ GroupPart(m)'
  BY <1>1, <1>3, <1>4, <1>5 DEF Follows, SweepPart, GroupPart
<1>7. ASSUME NEW q \in SlotsFor(m)'
      PROVE  SlotFollows(request'[q], member[m].addresses, Eligible(m), role[m], link,
                         Target(m))
  <2>1. CASE q = r
    BY <1>7, <2>1
  <2>2. CASE q # r
    <3>1. q \in SlotsFor(m) /\ request'[q] = request[q]
      BY <1>7, <2>2 DEF SlotsFor, Busy
    <3>. QED
      BY <3>1 DEF Follows, SlotsFollow
  <2>. QED
    BY <2>1, <2>2
<1>8. ASSUME NEW q \in SlotsFor(m)'
      PROVE  SlotFollows(request'[q], member'[m].addresses, Eligible(m)', role'[m], link',
                         Target(m)')
  BY <1>4, <1>7
<1>9. \A p, q \in OwingFor(m)' : p = q
  BY <1>1 DEF Follows, SlotsFollow
<1>. QED
  BY <1>6, <1>8, <1>9 DEF Follows, SlotsFollow

\* A step of the task of a member's only committed write.
LEMMA TaskGoesOn ==
    ASSUME PanelInv, NEW m \in Member, Follows(m), NEW r \in OwingFor(m),
           NEW v \in Locals \cup {NoRequest}, request' = [request EXCEPT ![r] = v],
           v \in Locals =>
              /\ v.target = m /\ v.stage \in Owing
              /\ SlotFollows(v, member[m].addresses, Eligible(m), role[m], link, Target(m)),
           role' = role, member' = member, link' = link, sweep' = sweep,
           Target(m)' = Target(m)
    PROVE  /\ SlotsFollow(m)' /\ SweepPart(m)'
           /\ Early(m)' = (v \in Locals /\ v.stage \in Untold)
<1>1. /\ r \in Request /\ \A q \in Request : q # r => request'[q] = request[q]
      /\ request'[r] = v
  BY DEF OwingFor, PanelInv, TypeOK
<1>2. \A q \in OwingFor(m) : q = r
  BY DEF Follows, SlotsFollow
<1>3. OwingFor(m)' = IF v \in Locals THEN {r} ELSE {}
  <2>1. ASSUME NEW q \in Request, q # r PROVE q \notin OwingFor(m)'
    BY <1>1, <1>2, <2>1 DEF OwingFor, Busy
  <2>2. r \in OwingFor(m)' <=> v \in Locals
    BY <1>1, NothingAssumption DEF OwingFor, Busy
  <2>3. OwingFor(m)' \subseteq Request
    BY DEF OwingFor
  <2>. QED
    BY <1>1, <2>1, <2>2, <2>3
<1>4. Early(m)' = (v \in Locals /\ v.stage \in Untold)
  BY <1>1, <1>3 DEF Early
<1>5. Eligible(m)' = Eligible(m)
  BY DEF Eligible
<1>6. ASSUME NEW q \in SlotsFor(m)'
      PROVE  SlotFollows(request'[q], member[m].addresses, Eligible(m), role[m], link,
                         Target(m))
  <2>1. CASE q = r
    <3>1. v \in Locals
      BY <1>1, <1>6, <2>1 DEF SlotsFor, Busy
    <3>. QED
      BY <1>1, <2>1, <3>1
  <2>2. CASE q # r
    <3>1. q \in SlotsFor(m) /\ request'[q] = request[q]
      BY <1>1, <1>6, <2>2 DEF SlotsFor, Busy
    <3>. QED
      BY <3>1 DEF Follows, SlotsFollow
  <2>. QED
    BY <2>1, <2>2
<1>7. ASSUME NEW q \in SlotsFor(m)'
      PROVE  SlotFollows(request'[q], member'[m].addresses, Eligible(m)', role'[m], link',
                         Target(m)')
  BY <1>5, <1>6
<1>8. SlotsFollow(m)'
  BY <1>3, <1>7 DEF SlotsFollow
<1>9. SweepPart(m)'
  BY DEF Follows, SweepPart
<1>. QED
  BY <1>4, <1>8, <1>9

\* A step of a slot that is another member's.
LEMMA OthersSlot ==
    ASSUME PanelInv, NEW m \in Member, Follows(m), NEW r \in Request, r \notin SlotsFor(m),
           \A q \in Request \ {r} : request'[q] = request[q], r \notin SlotsFor(m)',
           role'[m] = role[m], member'[m] = member[m], link' = link, sweep' = sweep,
           Target(m)' = Target(m), link # NoGroup => Mirrored(m)' = Mirrored(m)
    PROVE  Follows(m)'
<1>1. \A q \in SlotsFor(m)' : q \in SlotsFor(m) /\ request'[q] = request[q]
  BY DEF SlotsFor, Busy
<1>2. OwingFor(m) \subseteq SlotsFor(m)'
  BY DEF OwingFor, SlotsFor, Busy
<1>. QED
  BY <1>1, <1>2, LeftAlone

\* A call by another member's address changes nothing in the group for who shares none.
LEMMA OthersCall ==
    ASSUME PanelInv, Owned, NEW m \in Member, Alone(m), NEW n \in Member \ {m},
           NEW a \in Addresses(n), NEW op, NEW g, link # NoGroup,
           member'[m] = member[m], link' = link, google' \in {google, Landed(op, g, a)}
    PROVE  Mirrored(m)' = Mirrored(m)
<1>1. a \notin Own(m)
  BY OthersAddress
<1>2. google \in [MailGroup -> SUBSET Address] /\ link \in MailGroup
  BY DEF PanelInv, TypeOK
<1>3. \A b : b # a => (b \in google'[link] <=> b \in google[link])
  BY <1>2 DEF Landed
<1>4. \A b \in Own(m) : b \in google'[link] <=> b \in google[link]
  BY <1>1, <1>3
<1>. QED
  BY <1>4 DEF Mirrored, Own

\* No call ever puts an example address into a group.
LEMMA NoExampleLands ==
    ASSUME PanelInv, Owned, NEW op, NEW g, NEW a, a \notin Example,
           google' \in {google, Landed(op, g, a)}
    PROVE  \A h \in MailGroup : google'[h] \cap Example = {}
<1>1. google \in [MailGroup -> SUBSET Address] /\ \A h \in MailGroup : google[h] \cap Example = {}
  BY DEF PanelInv, TypeOK, Owned
<1>. QED
  BY <1>1 DEF Landed

\* Addresses stay whose they are.
LEMMA OwnedKept ==
    ASSUME Owned, member' = member, stray' \subseteq stray, blurred \subseteq blurred',
           \A r \in Request : request'[r] # NoRequest =>
              request'[r] = request[r] \/ OwnedSlot(request'[r]),
           google' = google \/ \A g \in MailGroup : google'[g] \cap Example = {},
           sweep' = sweep \/ (sweep' # NoSweep => OwnedSweep(sweep'))
    PROVE  Owned'
<1>1. \A m \in Member : member'[m].addresses \in Rows[m]
  BY DEF Owned
<1>2. \A r \in Request : request'[r] # NoRequest => OwnedSlot(request'[r])
  BY DEF Owned, Busy
<1>3. \A c \in stray' : c.address \notin Example /\ \E n \in blurred' : c.address \in Addresses(n)
  BY DEF Owned
<1>4. \A g \in MailGroup : google'[g] \cap Example = {}
  BY DEF Owned
<1>5. sweep' # NoSweep => OwnedSweep(sweep')
  BY DEF Owned
<1>. QED
  BY <1>1, <1>2, <1>3, <1>4, <1>5 DEF Owned, Busy, OwnedSlot, OwnedSweep

\* Where the target of a slot is found among the members' addresses.
LEMMA SlotAddress ==
    ASSUME PanelInv, Owned, NEW r \in Request, Busy(r)
    PROVE  /\ request[r] \in Locals /\ request[r].target \in Member
           /\ CandidateSet(request[r].row) \subseteq Addresses(request[r].target)
           /\ request[r].stage \in {"calling", "remembering"} =>
                 /\ request[r].address \in CandidateSet(request[r].row)
                 /\ request[r].address \in Addresses(request[r].target)
                 /\ request[r].address \in Address
<1>1. request[r] \in Locals /\ OwnedSlot(request[r])
  BY BusyLocals DEF PanelInv, Owned
<1>2. request[r].row \in SyncAddresses
  BY <1>1 DEF Locals
<1>. QED
  BY <1>1, <1>2, CandidatesOwn DEF OwnedSlot, Addresses, Locals

-----------------------------------------------------------------------------
(* Each action keeps the mirror's invariant. *)

\* At first there are no requests, and Google is as a sweep leaves it.
LEMMA MirrorInit == Init => MirrorInv
<1>. SUFFICES ASSUME Init PROVE MirrorInv
  OBVIOUS
<1>1. PanelInv
  BY InvInit
<1>2. PICK start \in Starts : /\ role = start.role /\ member = start.member
                              /\ link = start.link /\ google = start.google
  BY DEF Init
<1>3. /\ \A r \in Request : ~ Busy(r)
      /\ stray = {} /\ sweep = NoSweep /\ statuses = NoStatuses
  BY DEF Init, Busy
<1>4. Owned
  BY <1>2, <1>3, StartsAssumption DEF Owned
<1>5. ASSUME NEW m \in Member PROVE Follows(m)
  <2>1. SlotsFor(m) = {} /\ OwingFor(m) = {} /\ Early(m) = FALSE
    BY <1>3 DEF SlotsFor, OwingFor, Early
  <2>2. SlotsFollow(m) /\ SweepPart(m)
    BY <1>3, <2>1 DEF SlotsFollow, SweepPart
  <2>3. ASSUME link # NoGroup
        PROVE  GroupFollows(Mirrored(m), role[m], Eligible(m), Reachable(m), FALSE, Target(m))
    <3>1. AsSwept(start, m)
      BY <1>2, <2>3, StartsAssumption
    <3>2. /\ role[m] = "none" => Mirrored(m) = {}
          /\ role[m] = "member" =>
               /\ Mirrored(m) \subseteq {Target(m)}
               /\ Eligible(m) /\ Reachable(m) => Mirrored(m) # {}
      BY <1>2, <1>3, <3>1 DEF AsSwept, Mirrored, Target, Eligible, Reachable, Own
    <3>. QED
      BY <3>2 DEF GroupFollows
  <2>4. GroupPart(m)
    BY <2>1, <2>3 DEF GroupPart
  <2>. QED
    BY <2>2, <2>4 DEF Follows
<1>. QED
  BY <1>4, <1>5 DEF MirrorInv

\* A request until its claim.
LEMMA MirrorRequest ==
    ASSUME PanelInv, MirrorInv, NEW r \in Request,
           Arrive(r) \/ ResolveMember(r) \/ RequireLeader(r) \/ ReadTarget(r)
    PROVE  MirrorInv'
<1>. DEFINE new == request'[r]
<1>1. UNCHANGED <<records, statuses, google, stray, sweep, blurred>>
  BY DEF Arrive, ResolveMember, RequireLeader, ReadTarget
<1>2. request \in [Request -> Locals \cup {NoRequest}]
  BY DEF PanelInv, TypeOK
<1>3. \A q \in Request \ {r} : request'[q] = request[q]
  BY <1>2 DEF Arrive, ResolveMember, RequireLeader, ReadTarget, Refused, Goto
<1>4. ~ (Busy(r) /\ request[r].stage \in Owing)
  BY DEF Arrive, ResolveMember, RequireLeader, ReadTarget, At, Owing
<1>5. new # NoRequest =>
         /\ new.stage \in {"resolving", "leading", "targeting", "claiming"}
         /\ \/ Busy(r) /\ new.row = request[r].row /\ new.target = request[r].target
            \/ new.target \in Member /\ new.row = member[new.target].addresses
         /\ new.op = "add" /\ new.stage = "claiming" => Eligible(new.target)
  <2>1. CASE Arrive(r)
    BY <1>2, <2>1 DEF Arrive
  <2>2. CASE ResolveMember(r)
    <3>1. request[r] \in Locals
      BY <2>2, BusyLocals DEF ResolveMember, At, PanelInv
    <3>. QED
      BY <1>2, <2>2, <3>1 DEF ResolveMember, At, Refused, Goto, Locals
  <2>3. CASE RequireLeader(r)
    <3>1. request[r] \in Locals
      BY <2>3, BusyLocals DEF RequireLeader, At, PanelInv
    <3>. QED
      BY <1>2, <2>3, <3>1 DEF RequireLeader, At, Refused, Goto, Locals
  <2>4. CASE ReadTarget(r)
    <3>1. request[r] \in Locals
      BY <2>4, BusyLocals DEF ReadTarget, At, PanelInv
    <3>2. request'[r] = NoRequest
          \/ /\ ~ (request[r].op = "add" /\ ~ Eligible(request[r].target))
             /\ request'[r] = [request[r] EXCEPT !.stage = "claiming",
                                    !.row = member[request[r].target].addresses]
      BY <1>2, <2>4 DEF ReadTarget, Refused
    <3>. QED
      BY <3>1, <3>2 DEF Locals
  <2>. QED
    BY <2>1, <2>2, <2>3, <2>4
<1>6. new # NoRequest => OwnedSlot(new)
  <2>1. Busy(r) => request[r].row \in Rows[request[r].target]
    BY DEF MirrorInv, Owned, OwnedSlot
  <2>2. \A n \in Member : member[n].addresses \in Rows[n]
    BY DEF MirrorInv, Owned
  <2>. QED
    BY <1>5, <2>1, <2>2 DEF OwnedSlot
<1>7. Owned'
  BY <1>1, <1>3, <1>6, OwnedKept DEF MirrorInv, records
<1>8. ASSUME NEW m \in Member \ blurred, Alone(m)
      PROVE  Follows(m)'
  <2>1. Follows(m) /\ r \notin OwingFor(m)
    BY <1>4, <1>8 DEF MirrorInv, OwingFor
  <2>2. ASSUME r \in SlotsFor(m)'
        PROVE  /\ new.stage \notin Owing
               /\ SlotFollows(new, member[m].addresses, Eligible(m), role[m], link, Target(m))
    <3>1. new # NoRequest /\ new.target = m
      BY <2>2 DEF SlotsFor, Busy
    <3>2. new.stage \notin Owing
      BY <1>5, <3>1 DEF Owing
    <3>3. new.row = member[m].addresses
      <4>1. CASE Busy(r) /\ new.row = request[r].row /\ new.target = request[r].target
        BY <2>1, <3>1, <4>1 DEF Follows, SlotsFollow, SlotsFor, SlotFollows
      <4>. QED
        BY <1>5, <3>1, <4>1
    <3>4. new.stage \notin InTask /\ new.stage \notin {"calling", "remembering"}
      BY <1>5, <3>1 DEF InTask
    <3>5. new.op = "add" /\ new.stage = "claiming" => Eligible(m)
      BY <1>5, <3>1
    <3>. HIDE DEF new
    <3>. QED
      BY <3>2, <3>3, <3>4, <3>5 DEF SlotFollows
  <2>. QED
    BY <1>1, <1>3, <2>1, <2>2, NotYetOwing
<1>. QED
  BY <1>1, <1>7, <1>8 DEF MirrorInv, Alone

\* A claim for a member that nothing crosses starts their only write.
LEMMA MirrorClaim ==
    ASSUME PanelInv, MirrorInv, NEW r \in Request, Claim(r)
    PROVE  MirrorInv'
<1>. DEFINE t == request[r].target
            op == request[r].op
            new == [request[r] EXCEPT !.stage = "linking"]
<1>1. /\ At(r, "claiming") /\ Busy(r)
      /\ UNCHANGED <<member, link, statuses, google, stray, sweep, lifespan, left>>
  BY DEF Claim, At
<1>2. /\ request[r] \in Locals /\ t \in Member /\ op \in {"add", "remove"}
      /\ request \in [Request -> Locals \cup {NoRequest}]
      /\ role \in [Member -> Role]
  BY <1>1, SlotAddress DEF MirrorInv, PanelInv, TypeOK, Locals
<1>3. CASE Refused(r) /\ UNCHANGED <<role, blurred>>
  <2>1. (\A q \in Request \ {r} : request'[q] = request[q]) /\ request'[r] = NoRequest
    BY <1>2, <1>3 DEF Refused
  <2>2. Owned'
    BY <1>1, <1>3, <2>1, OwnedKept DEF MirrorInv
  <2>3. ASSUME NEW m \in Member \ blurred, Alone(m)
        PROVE  Follows(m)'
    <3>1. Follows(m) /\ r \notin OwingFor(m) /\ r \notin SlotsFor(m)'
      BY <1>1, <2>1, <2>3 DEF MirrorInv, OwingFor, SlotsFor, At, Owing, Busy
    <3>. QED
      BY <1>1, <1>3, <2>1, <3>1, NotYetOwing DEF records
  <2>. QED
    BY <1>3, <2>2, <2>3 DEF MirrorInv, Alone
<1>4. CASE ~ (Refused(r) /\ UNCHANGED <<role, blurred>>)
  <2>1. /\ Claims(op, role[t])
        /\ role' = [role EXCEPT ![t] = IF op = "add" THEN "member" ELSE "none"]
        /\ request' = [request EXCEPT ![r] = new]
        /\ blurred' = IF Crossed(t) THEN blurred \cup {t} ELSE blurred
    BY <1>4 DEF Claim, Goto
  <2>2. /\ new \in Locals /\ new.stage = "linking" /\ new.target = t /\ new.op = op
        /\ new.row = request[r].row
    BY <1>2 DEF Locals, Stage
  <2>. HIDE DEF new
  <2>3. (\A q \in Request \ {r} : request'[q] = request[q]) /\ request'[r] = new
    BY <1>2, <2>1
  <2>4. OwnedSlot(new)
    BY <1>1, <2>2 DEF MirrorInv, Owned, OwnedSlot
  <2>5. Owned'
    BY <1>1, <2>1, <2>3, <2>4, OwnedKept DEF MirrorInv
  <2>6. ASSUME NEW m \in Member \ blurred', Alone(m)
        PROVE  Follows(m)'
    <3>1. Follows(m)
      BY <2>1, <2>6 DEF MirrorInv
    <3>2. Own(m)' = Own(m) /\ Eligible(m)' = Eligible(m) /\ Target(m)' = Target(m)
          /\ Mirrored(m)' = Mirrored(m) /\ Reachable(m)' = Reachable(m)
      BY <1>1 DEF Own, Eligible, Target, Mirrored, Reachable
    <3>3. CASE m # t
      <4>1. r \notin SlotsFor(m) /\ r \notin SlotsFor(m)' /\ role'[m] = role[m]
        BY <1>2, <2>1, <2>2, <2>3, <3>3 DEF SlotsFor
      <4>. QED
        BY <1>1, <2>3, <3>1, <3>2, <4>1, OthersSlot
    <3>4. CASE m = t
      <4>1. OwingFor(m) = {} /\ sweep = NoSweep /\ sweep' = NoSweep
        BY <1>1, <2>1, <2>6, <3>4 DEF Crossed
      <4>2. role'[m] = IF op = "add" THEN "member" ELSE "none"
        BY <1>2, <2>1, <3>4
      <4>3. OwingFor(m)' = {r}
        <5>1. ASSUME NEW q \in Request, q # r PROVE q \notin OwingFor(m)'
          BY <2>3, <4>1, <5>1 DEF OwingFor, Busy
        <5>2. r \in OwingFor(m)'
          BY <2>2, <2>3, <3>4, NothingAssumption DEF OwingFor, Busy, Owing
        <5>. QED
          BY <5>1, <5>2 DEF OwingFor
      <4>4. Early(m)' = TRUE
        BY <2>2, <2>3, <4>3 DEF Early, Untold
      <4>5. Early(m) = FALSE
        BY <4>1 DEF Early
      <4>6. r \in SlotsFor(m)
        BY <1>1, <3>4 DEF SlotsFor
      <4>7. request[r].row = member[m].addresses /\ (op = "add" => Eligible(m))
        BY <1>1, <3>1, <4>6 DEF Follows, SlotsFollow, SlotFollows, At
      <4>8. ASSUME NEW q \in SlotsFor(m)'
            PROVE  SlotFollows(request'[q], member[m].addresses, Eligible(m), role'[m], link,
                               Target(m))
        <5>1. CASE q = r
          BY <2>2, <2>3, <4>2, <4>7, <5>1 DEF SlotFollows, InTask
        <5>2. CASE q # r
          <6>1. q \in SlotsFor(m) /\ request'[q] = request[q]
            BY <2>3, <4>8, <5>2 DEF SlotsFor, Busy
          <6>2. request[q].stage \notin Owing
            BY <4>1, <6>1 DEF OwingFor, SlotsFor
          <6>3. SlotFollows(request[q], member[m].addresses, Eligible(m), role[m], link,
                            Target(m))
            BY <3>1, <6>1 DEF Follows, SlotsFollow
          <6>. QED
            BY <6>1, <6>2, <6>3 DEF SlotFollows
        <5>. QED
          BY <5>1, <5>2
      <4>9. ASSUME NEW q \in SlotsFor(m)'
            PROVE  SlotFollows(request'[q], member'[m].addresses, Eligible(m)', role'[m],
                               link', Target(m)')
        BY <1>1, <3>2, <4>8
      <4>10. SlotsFollow(m)'
        BY <4>3, <4>9 DEF SlotsFollow
      <4>11. SweepPart(m)'
        BY <4>1 DEF SweepPart
      <4>12. ASSUME link # NoGroup
             PROVE  GroupFollows(Mirrored(m), role'[m], Eligible(m), Reachable(m), TRUE,
                                 Target(m))
        <5>1. GroupFollows(Mirrored(m), role[m], Eligible(m), Reachable(m), FALSE, Target(m))
          BY <3>1, <4>5, <4>12 DEF Follows, GroupPart
        <5>2. role[m] = IF op = "add" THEN "none" ELSE "member"
          BY <2>1, <3>4 DEF Claims
        <5>. QED
          BY <1>2, <4>2, <5>1, <5>2 DEF GroupFollows
      <4>13. GroupPart(m)'
        BY <1>1, <3>2, <4>4, <4>12 DEF GroupPart
      <4>. QED
        BY <4>10, <4>11, <4>13 DEF Follows
    <3>. QED
      BY <3>3, <3>4
  <2>. QED
    BY <2>5, <2>6 DEF MirrorInv, Alone
<1>. QED
  BY <1>3, <1>4

\* A task that ends without its work leaves the others alone.
LEMMA MirrorLost ==
    ASSUME PanelInv, MirrorInv, NEW r \in Request, Busy(r), Refused(r), Lost({r}),
           UNCHANGED <<records, statuses, stray, sweep>>,
           \/ UNCHANGED google
           \/ /\ request[r].stage = "calling" /\ request[r].address \notin Example
              /\ google' \in {google, Landed(request[r].op, request[r].group,
                                             request[r].address)}
    PROVE  MirrorInv'
<1>. DEFINE t == request[r].target
            a == request[r].address
<1>. USE DEF records, lifespan
<1>1. /\ request \in [Request -> Locals \cup {NoRequest}]
      /\ t \in Member /\ (request[r].stage = "calling" => a \in Addresses(t))
  BY SlotAddress DEF MirrorInv, PanelInv, TypeOK
<1>2. (\A q \in Request \ {r} : request'[q] = request[q]) /\ request'[r] = NoRequest
  BY <1>1 DEF Refused
<1>3. blurred' = blurred \cup {t}
  BY DEF Lost
<1>4. google' = google \/ \A g \in MailGroup : google'[g] \cap Example = {}
  BY NoExampleLands DEF MirrorInv
<1>5. Owned'
  BY <1>2, <1>3, <1>4, OwnedKept DEF MirrorInv
<1>6. ASSUME NEW m \in Member \ blurred', Alone(m)
      PROVE  Follows(m)'
  <2>1. Follows(m) /\ m # t /\ Owned
    BY <1>3, <1>6 DEF MirrorInv
  <2>2. r \notin SlotsFor(m) /\ r \notin SlotsFor(m)'
    BY <1>2, <2>1 DEF SlotsFor, Busy
  <2>3. ASSUME link # NoGroup PROVE Mirrored(m)' = Mirrored(m)
    <3>1. CASE UNCHANGED google
      BY <3>1 DEF Mirrored
    <3>2. CASE ~ UNCHANGED google
      BY <1>1, <1>6, <2>1, <2>3, <3>2, OthersCall
    <3>. QED
      BY <3>1, <3>2
  <2>4. Target(m)' = Target(m)
    BY DEF Target
  <2>. QED
    BY <1>2, <2>1, <2>2, <2>3, <2>4, OthersSlot
<1>. QED
  BY <1>5, <1>6 DEF MirrorInv, Alone

\* A step of a task, by what it does to the member whose write it mirrors.
LEMMA MirrorTaskStep ==
    ASSUME PanelInv, MirrorInv, NEW r \in Request, Busy(r), request[r].stage \in Owing,
           NEW t \in Member, t = request[r].target,
           NEW v \in Locals \cup {NoRequest}, request' = [request EXCEPT ![r] = v],
           v \in Locals => OwnedSlot(v) /\ v.target = t /\ v.stage \in Owing,
           role' = role, member' = member, link' = link, stray' = stray, sweep' = sweep,
           blurred \subseteq blurred',
           google' = google \/ \A g \in MailGroup : google'[g] \cap Example = {},
           \A m \in Member \ blurred' : Alone(m) => Target(m)' = Target(m),
           \A m \in Member \ blurred' :
              Alone(m) /\ m # t /\ link # NoGroup => Mirrored(m)' = Mirrored(m),
           t \notin blurred' /\ Alone(t) /\ Follows(t) =>
              /\ v \in Locals => SlotFollows(v, member[t].addresses, Eligible(t), role[t], link,
                                             Target(t))
              /\ link # NoGroup =>
                    GroupFollows(Mirrored(t)', role[t], Eligible(t), Reachable(t),
                                 v \in Locals /\ v.stage \in Untold, Target(t))
    PROVE  MirrorInv'
<1>1. /\ request \in [Request -> Locals \cup {NoRequest}]
      /\ \A q \in Request \ {r} : request'[q] = request[q]
      /\ request'[r] = v
  BY DEF PanelInv, TypeOK
<1>2. Owned'
  BY <1>1, OwnedKept DEF MirrorInv
<1>3. ASSUME NEW m \in Member \ blurred', Alone(m)
      PROVE  Follows(m)'
  <2>1. Follows(m) /\ Target(m)' = Target(m)
    BY <1>3 DEF MirrorInv
  <2>2. CASE m # t
    <3>1. r \notin SlotsFor(m)
      BY <2>2 DEF SlotsFor
    <3>2. r \notin SlotsFor(m)'
      BY <1>1, <2>2, NothingAssumption DEF SlotsFor, Busy
    <3>3. link # NoGroup => Mirrored(m)' = Mirrored(m)
      BY <1>3, <2>2
    <3>. QED
      BY <1>1, <2>1, <3>1, <3>2, <3>3, OthersSlot
  <2>3. CASE m = t
    <3>1. r \in OwingFor(m)
      BY <2>3 DEF OwingFor
    <3>2. v \in Locals => SlotFollows(v, member[m].addresses, Eligible(m), role[m], link,
                                      Target(m))
      BY <1>3, <2>1, <2>3
    <3>3. /\ SlotsFollow(m)' /\ SweepPart(m)'
          /\ Early(m)' = (v \in Locals /\ v.stage \in Untold)
      BY <2>1, <2>3, <3>1, <3>2, TaskGoesOn
    <3>4. Eligible(m)' = Eligible(m) /\ Reachable(m)' = Reachable(m)
      BY DEF Eligible, Reachable, Own
    <3>5. link # NoGroup =>
             GroupFollows(Mirrored(m)', role[m], Eligible(m), Reachable(m),
                          v \in Locals /\ v.stage \in Untold, Target(m))
      BY <1>3, <2>1, <2>3
    <3>6. GroupPart(m)'
      BY <2>1, <3>3, <3>4, <3>5 DEF GroupPart
    <3>. QED
      BY <3>3, <3>6 DEF Follows
  <2>. QED
    BY <2>2, <2>3
<1>. QED
  BY <1>2, <1>3 DEF MirrorInv, Alone

\* The one write of a member that nothing crosses.
LEMMA OwnWrite ==
    ASSUME PanelInv, NEW m \in Member, Follows(m), NEW r \in Request, Busy(r),
           request[r].target = m, request[r].stage \in Owing
    PROVE  /\ SlotFollows(request[r], member[m].addresses, Eligible(m), role[m], link, Target(m))
           /\ link # NoGroup =>
                 GroupFollows(Mirrored(m), role[m], Eligible(m), Reachable(m),
                              request[r].stage \in Untold, Target(m))
<1>1. r \in SlotsFor(m) /\ r \in OwingFor(m)
  BY DEF SlotsFor, OwingFor
<1>2. OwingFor(m) = {r}
  BY <1>1 DEF Follows, SlotsFollow
<1>3. Early(m) <=> request[r].stage \in Untold
  BY <1>2 DEF Early
<1>4. link # NoGroup =>
         GroupFollows(Mirrored(m), role[m], Eligible(m), Reachable(m), Early(m), Target(m))
  BY DEF Follows, GroupPart
<1>5. link # NoGroup =>
         GroupFollows(Mirrored(m), role[m], Eligible(m), Reachable(m),
                      request[r].stage \in Untold, Target(m))
  BY <1>3, <1>4 DEF GroupFollows
<1>. QED
  BY <1>1, <1>5 DEF Follows, SlotsFollow

\* The group's address and the member's are chosen.
LEMMA MirrorChoice ==
    ASSUME PanelInv, MirrorInv, NEW r \in Request, ReadLink(r) \/ PickAddress(r)
    PROVE  MirrorInv'
<1>. USE DEF records, lifespan
<1>1. Busy(r) /\ request[r] \in Locals /\ request[r].target \in Member
      /\ request[r].stage \in {"linking", "addressing"}
  BY SlotAddress DEF ReadLink, PickAddress, At, MirrorInv
<1>2. UNCHANGED <<role, member, link, statuses, google, stray, sweep>>
  BY DEF ReadLink, PickAddress
<1>3. PICK t \in Member : t = request[r].target
  BY <1>1
<1>4. \A m \in Member : Target(m)' = Target(m) /\ Mirrored(m)' = Mirrored(m)
  BY <1>2 DEF Target, Mirrored
<1>5. request[r].row \in SyncAddresses /\ OwnedSlot(request[r])
  BY <1>1 DEF Locals, MirrorInv, Owned
<1>6. CASE Spend("fault") /\ Refused(r) /\ Lost({r})
  BY <1>1, <1>2, <1>6, MirrorLost
<1>7. CASE ReadLink(r) /\ ~ (Spend("fault") /\ Refused(r) /\ Lost({r}))
  <2>. DEFINE v == [request[r] EXCEPT !.stage = "addressing", !.group = link]
  <2>1. request' = [request EXCEPT ![r] = v] /\ blurred' = blurred
        /\ request[r].stage = "linking"
    BY <1>7 DEF ReadLink, At
  <2>2. /\ v \in Locals /\ v.stage = "addressing" /\ v.group = link /\ v.op = request[r].op
        /\ v.target = t /\ v.row = request[r].row
    BY <1>1, <1>3 DEF Locals, Stage, PanelInv, TypeOK
  <2>. HIDE DEF v
  <2>3. OwnedSlot(v) /\ v.stage \in Owing
    BY <1>3, <1>5, <2>2 DEF OwnedSlot, Owing
  <2>4. ASSUME Follows(t)
        PROVE  /\ SlotFollows(v, member[t].addresses, Eligible(t), role[t], link, Target(t))
               /\ link # NoGroup =>
                     GroupFollows(Mirrored(t)', role[t], Eligible(t), Reachable(t),
                                  v \in Locals /\ v.stage \in Untold, Target(t))
    <3>1. request[r].stage \in Owing /\ request[r].stage \in Untold
      BY <2>1 DEF Owing, Untold
    <3>2. /\ SlotFollows(request[r], member[t].addresses, Eligible(t), role[t], link, Target(t))
          /\ link # NoGroup =>
                GroupFollows(Mirrored(t), role[t], Eligible(t), Reachable(t), TRUE, Target(t))
      BY <1>1, <1>3, <2>4, <3>1, OwnWrite
    <3>3. (v \in Locals /\ v.stage \in Untold) = TRUE
      BY <2>2 DEF Untold
    <3>4. SlotFollows(v, member[t].addresses, Eligible(t), role[t], link, Target(t))
      BY <2>1, <2>2, <3>2 DEF SlotFollows, Owing
    <3>. QED
      BY <1>4, <3>2, <3>3, <3>4
  <2>5. request[r].stage \in Owing
    BY <2>1 DEF Owing
  <2>. QED
    BY <1>1, <1>2, <1>3, <1>4, <2>1, <2>2, <2>3, <2>4, <2>5, MirrorTaskStep
<1>8. CASE PickAddress(r) /\ ~ (Spend("fault") /\ Refused(r) /\ Lost({r}))
  <2>. DEFINE v == [request[r] EXCEPT !.stage = "calling", !.address = TargetAddress(r)]
  <2>1. request' = [request EXCEPT ![r] = v] /\ blurred' = blurred
        /\ request[r].stage = "addressing"
    BY <1>8 DEF PickAddress, At
  <2>2. TargetAddress(r) \in CandidateSet(request[r].row)
        /\ CandidateSet(request[r].row) \subseteq Address
    BY <1>5, TargetIsCandidate, CandidatesOwn DEF TargetAddress
  <2>3. /\ v \in Locals /\ v.stage = "calling" /\ v.group = request[r].group
        /\ v.op = request[r].op /\ v.target = t /\ v.row = request[r].row
        /\ v.address = TargetAddress(r)
    BY <1>1, <1>3, <2>2 DEF Locals, Stage
  <2>. HIDE DEF v
  <2>4. OwnedSlot(v) /\ v.stage \in Owing
    BY <1>3, <1>5, <2>2, <2>3 DEF OwnedSlot, Owing
  <2>5. ASSUME Follows(t)
        PROVE  /\ SlotFollows(v, member[t].addresses, Eligible(t), role[t], link, Target(t))
               /\ link # NoGroup =>
                     GroupFollows(Mirrored(t)', role[t], Eligible(t), Reachable(t),
                                  v \in Locals /\ v.stage \in Untold, Target(t))
    <3>1. request[r].stage \in Owing /\ request[r].stage \in Untold
      BY <2>1 DEF Owing, Untold
    <3>2. /\ SlotFollows(request[r], member[t].addresses, Eligible(t), role[t], link, Target(t))
          /\ link # NoGroup =>
                GroupFollows(Mirrored(t), role[t], Eligible(t), Reachable(t), TRUE, Target(t))
      BY <1>1, <1>3, <2>5, <3>1, OwnWrite
    <3>3. (v \in Locals /\ v.stage \in Untold) = TRUE
      BY <2>3 DEF Untold
    <3>4. v.address = Target(t)
      BY <2>3, <3>2 DEF SlotFollows, TargetAddress, Target
    <3>5. SlotFollows(v, member[t].addresses, Eligible(t), role[t], link, Target(t))
      BY <2>1, <2>3, <3>2, <3>4 DEF SlotFollows, Owing, InTask
    <3>. QED
      BY <1>4, <3>2, <3>3, <3>5
  <2>6. request[r].stage \in Owing
    BY <2>1 DEF Owing
  <2>. QED
    BY <1>1, <1>2, <1>3, <1>4, <2>1, <2>3, <2>4, <2>5, <2>6, MirrorTaskStep
<1>. QED
  BY <1>6, <1>7, <1>8

\* What one call does to the group of a member whose address it is.
LEMMA OwnCall ==
    ASSUME NEW op \in {"add", "remove"}, NEW own, NEW a \in own, NEW held, NEW eligible,
           NEW before \in SUBSET own, NEW after,
           after = IF op = "remove" THEN before \ {a}
                   ELSE IF a \in Takes THEN before \cup {a} ELSE before,
           held = (IF op = "add" THEN "member" ELSE "none"),
           GroupFollows(before, held, eligible, own \subseteq Takes \ Example, TRUE, a)
    PROVE  GroupFollows(after, held, eligible, own \subseteq Takes \ Example, FALSE, a)
<1>1. CASE op = "remove"
  BY <1>1 DEF GroupFollows
<1>2. CASE op = "add"
  BY <1>2 DEF GroupFollows
<1>. QED
  BY <1>1, <1>2

\* The call to Google.
LEMMA MirrorCalls ==
    ASSUME PanelInv, MirrorInv, NEW r \in Request, Mirror(r)
    PROVE  MirrorInv'
<1>. USE DEF records, lifespan
<1>. DEFINE op == request[r].op
            g  == request[r].group
            a  == request[r].address
<1>1. /\ Busy(r) /\ request[r] \in Locals /\ request[r].stage = "calling"
      /\ UNCHANGED <<role, member, link, statuses, stray, sweep>>
  BY BusyLocals DEF Mirror, At, PanelInv
<1>2. PICK t \in Member : t = request[r].target
  BY <1>1 DEF Locals
<1>3. /\ op \in {"add", "remove"} /\ a \in Addresses(t) /\ a \in CandidateSet(request[r].row)
      /\ OwnedSlot(request[r]) /\ Owned
  BY <1>1, <1>2, SlotAddress DEF MirrorInv, Owned, Locals
<1>4. \A m \in Member : Target(m)' = Target(m)
  BY <1>1 DEF Target
<1>5. CASE /\ ~ Skips(g, a) /\ Spend("fault")
           /\ google' \in {google, Landed(op, g, a)}
           /\ Refused(r) /\ Lost({r})
  BY <1>1, <1>5, MirrorLost DEF Skips
<1>6. ASSUME NEW s \in {"remembering", "auditing"}, Goto(r, s), blurred \subseteq blurred',
             \/ UNCHANGED google
             \/ ~ Skips(g, a) /\ google' \in {google, Landed(op, g, a)},
             \/ t \in blurred'
             \/ Skips(g, a) /\ UNCHANGED google
             \/ ~ Skips(g, a) /\ google' = Landed(op, g, a)
      PROVE  MirrorInv'
  <2>. DEFINE v == [request[r] EXCEPT !.stage = s]
  <2>1. request' = [request EXCEPT ![r] = v]
    BY <1>6 DEF Goto
  <2>2. /\ v \in Locals /\ v.stage = s /\ v.group = g /\ v.op = op /\ v.target = t
        /\ v.row = request[r].row /\ v.address = a
    BY <1>1, <1>2 DEF Locals, Stage
  <2>. HIDE DEF v
  <2>3. OwnedSlot(v) /\ v.stage \in Owing /\ request[r].stage \in Owing
        /\ request[r].stage \in Untold
    BY <1>1, <1>2, <1>3, <2>2 DEF OwnedSlot, Owing, Untold
  <2>4. google' = google \/ \A h \in MailGroup : google'[h] \cap Example = {}
    BY <1>3, <1>6, NoExampleLands DEF Skips
  <2>5. ASSUME NEW m \in Member \ blurred', Alone(m), m # t, link # NoGroup
        PROVE  Mirrored(m)' = Mirrored(m)
    <3>1. CASE UNCHANGED google
      BY <1>1, <3>1 DEF Mirrored
    <3>2. CASE google' \in {google, Landed(op, g, a)}
      BY <1>1, <1>3, <2>5, <3>2, OthersCall
    <3>. QED
      BY <1>6, <3>1, <3>2
  <2>6. ASSUME t \notin blurred', Alone(t), Follows(t)
        PROVE  /\ SlotFollows(v, member[t].addresses, Eligible(t), role[t], link, Target(t))
               /\ link # NoGroup =>
                     GroupFollows(Mirrored(t)', role[t], Eligible(t), Reachable(t),
                                  v \in Locals /\ v.stage \in Untold, Target(t))
    <3>1. /\ SlotFollows(request[r], member[t].addresses, Eligible(t), role[t], link, Target(t))
          /\ link # NoGroup =>
                GroupFollows(Mirrored(t), role[t], Eligible(t), Reachable(t), TRUE, Target(t))
      BY <1>1, <1>2, <2>3, <2>6, OwnWrite
    <3>2. /\ a = Target(t) /\ g = link /\ request[r].row = member[t].addresses
          /\ role[t] = (IF op = "add" THEN "member" ELSE "none")
      BY <1>1, <2>3, <3>1 DEF SlotFollows, InTask
    <3>3. SlotFollows(v, member[t].addresses, Eligible(t), role[t], link, Target(t))
      BY <1>1, <2>2, <2>3, <3>1, <3>2 DEF SlotFollows, Owing, InTask
    <3>4. (v \in Locals /\ v.stage \in Untold) = FALSE
      BY <2>2 DEF Untold
    <3>5. ASSUME link # NoGroup
          PROVE  GroupFollows(Mirrored(t)', role[t], Eligible(t), Reachable(t), FALSE, Target(t))
      <4>1. link \in MailGroup /\ google \in [MailGroup -> SUBSET Address]
            /\ google[link] \cap Example = {}
        BY <1>3, <3>5 DEF PanelInv, TypeOK, Owned
      <4>2. Target(t) \in Own(t) /\ a \in Own(t)
        BY <1>3, <3>2, OwnAddresses
      <4>3. Mirrored(t) = Own(t) \cap google[link] /\ Mirrored(t)' = Own(t) \cap google'[link]
        BY <1>1 DEF Mirrored, Own
      <4>4. GroupFollows(Mirrored(t), role[t], Eligible(t), Own(t) \subseteq Takes \ Example,
                         TRUE, a)
        BY <3>1, <3>2, <3>5 DEF Reachable
      <4>5. CASE ~ Skips(g, a) /\ google' = Landed(op, g, a)
        <5>1. google'[link] = IF op = "remove" THEN google[link] \ {a}
                              ELSE IF a \in Takes THEN google[link] \cup {a} ELSE google[link]
          BY <3>2, <4>1, <4>5 DEF Landed
        <5>2. Mirrored(t)' = IF op = "remove" THEN Mirrored(t) \ {a}
                             ELSE IF a \in Takes THEN Mirrored(t) \cup {a} ELSE Mirrored(t)
          BY <4>2, <4>3, <5>1
        <5>3. Mirrored(t) \in SUBSET Own(t)
          BY <4>3
        <5>. HIDE DEF op, a
        <5>4. GroupFollows(Mirrored(t)', role[t], Eligible(t), Own(t) \subseteq Takes \ Example,
                           FALSE, a)
          BY <1>3, <3>2, <4>2, <4>4, <5>2, <5>3, OwnCall
        <5>. QED
          BY <3>2, <5>4 DEF Reachable
      <4>6. CASE Skips(g, a) /\ UNCHANGED google
        <5>1. a \in Example
          BY <3>2, <3>5, <4>6 DEF Skips
        <5>2. a \notin Mirrored(t) /\ ~ (Own(t) \subseteq Takes \ Example)
          BY <4>1, <4>2, <4>3, <5>1
        <5>3. Mirrored(t)' = Mirrored(t)
          BY <4>3, <4>6
        <5>4. role[t] \in {"none", "member"}
          BY <3>2
        <5>5. Mirrored(t) = {}
          BY <4>4, <5>2, <5>4 DEF GroupFollows
        <5>. QED
          BY <5>2, <5>3, <5>5 DEF GroupFollows, Reachable
      <4>. QED
        BY <1>6, <2>6, <4>5, <4>6
    <3>. QED
      BY <3>3, <3>4, <3>5
  <2>. QED
    BY <1>1, <1>2, <1>4, <1>6, <2>1, <2>2, <2>3, <2>4, <2>5, <2>6, MirrorTaskStep
<1>7. CASE Skips(g, a) /\ SkipMirror(r) /\ UNCHANGED <<google, unrecorded, blurred, left>>
  BY <1>6, <1>7 DEF SkipMirror
<1>8. CASE /\ ~ Skips(g, a) /\ google' = Landed(op, g, a)
           /\ Goto(r, AfterCall(op, Verdict(op, g, a)))
           /\ UNCHANGED <<unrecorded, blurred, left>>
  <2>1. AfterCall(op, Verdict(op, g, a)) \in {"remembering", "auditing"}
    BY DEF AfterCall
  <2>2. PICK s \in {"remembering", "auditing"} : Goto(r, s)
    BY <1>8, <2>1
  <2>. QED
    BY <1>6, <1>8, <2>2
<1>9. CASE /\ ~ Skips(g, a) /\ google' \in {google, Landed(op, g, a)}
           /\ Goto(r, "auditing") /\ blurred' = blurred \cup {request[r].target}
  BY <1>2, <1>6, <1>9
<1>. QED
  BY <1>5, <1>7, <1>8, <1>9 DEF Mirror

\* What was accepted is remembered, and the write is in the audit log.
LEMMA MirrorEnd ==
    ASSUME PanelInv, MirrorInv, NEW r \in Request, Remember(r) \/ Audit(r)
    PROVE  MirrorInv'
<1>. USE DEF records, lifespan
<1>1. /\ Busy(r) /\ request[r] \in Locals /\ request[r].stage \in {"remembering", "auditing"}
      /\ UNCHANGED <<role, member, link, google, stray, sweep, blurred>>
  BY BusyLocals DEF Remember, Audit, At, PanelInv
<1>2. PICK t \in Member : t = request[r].target
  BY <1>1 DEF Locals
<1>3. /\ request[r].stage \in Owing /\ OwnedSlot(request[r]) /\ Owned
      /\ IsStatuses(statuses) /\ (request[r].stage \in Untold) = FALSE
  BY <1>1 DEF MirrorInv, Owned, Owing, PanelInv, TypeOK, Untold
<1>4. \A m \in Member : Mirrored(m)' = Mirrored(m)
  BY <1>1 DEF Mirrored
<1>5. ASSUME Follows(t)
      PROVE  /\ SlotFollows(request[r], member[t].addresses, Eligible(t), role[t], link,
                            Target(t))
             /\ link # NoGroup =>
                   GroupFollows(Mirrored(t), role[t], Eligible(t), Reachable(t), FALSE, Target(t))
  BY <1>1, <1>2, <1>3, <1>5, OwnWrite
<1>6. CASE Remember(r)
  <2>. DEFINE v == [request[r] EXCEPT !.stage = "auditing"]
  <2>1. request' = [request EXCEPT ![r] = v] /\ request[r].stage = "remembering"
        /\ \/ statuses' = RecordAccepted(statuses, request[r].address)
           \/ UNCHANGED statuses
    BY <1>6 DEF Remember, Goto, At
  <2>2. /\ v \in Locals /\ v.stage = "auditing" /\ v.group = request[r].group
        /\ v.op = request[r].op /\ v.target = t /\ v.row = request[r].row
    BY <1>1, <1>2 DEF Locals, Stage
  <2>. HIDE DEF v
  <2>3. OwnedSlot(v) /\ v.stage \in Owing /\ (v.stage \in Untold) = FALSE
    BY <1>2, <1>3, <2>2 DEF OwnedSlot, Owing, Untold
  <2>4. request[r].address \in Addresses(t) /\ request[r].address \in Address
    BY <1>1, <1>2, <1>3, <2>1, SlotAddress
  <2>5. ASSUME NEW m \in Member \ blurred', Alone(m)
        PROVE  Target(m)' = Target(m)
    <3>1. Target(m)' = SyncTarget(member[m].addresses, statuses')
      BY <1>1 DEF Target
    <3>2. member[m].addresses \in SyncAddresses
      BY <1>3, OwnAddresses
    <3>3. CASE UNCHANGED statuses
      BY <3>1, <3>3 DEF Target
    <3>4. CASE statuses' = RecordAccepted(statuses, request[r].address) /\ m # t
      <4>1. request[r].address \notin CandidateSet(member[m].addresses)
        BY <1>3, <2>4, <2>5, <3>4, OthersAddress DEF Own
      <4>. QED
        BY <1>3, <2>4, <3>1, <3>2, <3>4, <4>1, TargetOfOthers DEF Target
    <3>5. CASE statuses' = RecordAccepted(statuses, request[r].address) /\ m = t
      <4>1. Follows(m)
        BY <1>1, <2>5 DEF MirrorInv
      <4>2. request[r].address = Target(m)
        BY <1>5, <2>1, <3>5, <4>1 DEF SlotFollows
      <4>. QED
        BY <3>1, <3>2, <3>5, <4>2, AcceptedTargetStays DEF Target
    <3>. QED
      BY <2>1, <3>3, <3>4, <3>5
  <2>6. ASSUME Follows(t)
        PROVE  /\ SlotFollows(v, member[t].addresses, Eligible(t), role[t], link, Target(t))
               /\ link # NoGroup =>
                     GroupFollows(Mirrored(t)', role[t], Eligible(t), Reachable(t),
                                  v \in Locals /\ v.stage \in Untold, Target(t))
    <3>1. SlotFollows(v, member[t].addresses, Eligible(t), role[t], link, Target(t))
      BY <1>3, <1>5, <2>1, <2>2, <2>3, <2>6 DEF SlotFollows, InTask
    <3>2. (v \in Locals /\ v.stage \in Untold) = FALSE
      BY <2>3
    <3>. QED
      BY <1>4, <1>5, <2>6, <3>1, <3>2
  <2>. QED
    BY <1>1, <1>2, <1>3, <1>4, <2>1, <2>2, <2>3, <2>5, <2>6, MirrorTaskStep
<1>7. CASE Audit(r)
  <2>1. request' = [request EXCEPT ![r] = NoRequest] /\ UNCHANGED statuses
    BY <1>7 DEF Audit
  <2>2. \A m \in Member : Target(m)' = Target(m)
    BY <1>1, <2>1 DEF Target
  <2>3. (NoRequest \in Locals /\ NoRequest.stage \in Untold) = FALSE
    BY NothingAssumption
  <2>4. Follows(t) /\ link # NoGroup =>
           GroupFollows(Mirrored(t)', role[t], Eligible(t), Reachable(t),
                        NoRequest \in Locals /\ NoRequest.stage \in Untold, Target(t))
    BY <1>4, <1>5, <2>3
  <2>. QED
    BY <1>1, <1>2, <1>3, <1>4, <2>1, <2>2, <2>4, NothingAssumption, MirrorTaskStep
<1>. QED
  BY <1>6, <1>7

\* A cancelled task owes nothing any more.
LEMMA MirrorUnwinds ==
    ASSUME PanelInv, MirrorInv, NEW r \in Request, Unwind(r)
    PROVE  MirrorInv'
<1>. USE DEF records, lifespan
<1>1. /\ UNCHANGED <<role, member, link, statuses, google, stray, sweep, blurred>>
      /\ Busy(r) /\ request[r].stage \notin Owing
      /\ request' = [request EXCEPT ![r] = NoRequest]
  BY DEF Unwind, At, Owing
<1>2. Owned /\ request \in [Request -> Locals \cup {NoRequest}]
  BY DEF MirrorInv, PanelInv, TypeOK
<1>3. Owned'
  BY <1>1, <1>2 DEF Owned, Busy, OwnedSweep
<1>4. ASSUME NEW m \in Member \ blurred, Alone(m) PROVE Follows(m)'
  <2>1. /\ Follows(m) /\ Mirrored(m)' = Mirrored(m) /\ Target(m)' = Target(m)
    BY <1>1, <1>4 DEF MirrorInv, Mirrored, Target
  <2>2. /\ SlotsFor(m)' \subseteq SlotsFor(m)
        /\ \A q \in SlotsFor(m)' : request'[q] = request[q]
    BY <1>1, <1>2 DEF SlotsFor, Busy
  <2>3. OwingFor(m) \subseteq SlotsFor(m)'
    BY <1>1, <1>2 DEF SlotsFor, OwingFor, Busy
  <2>. QED
    BY <1>1, <2>1, <2>2, <2>3, LeftAlone
<1>. QED
  BY <1>1, <1>3, <1>4 DEF MirrorInv, Alone

\* Stopping and starting the service, and the calls that outlive it.
LEMMA MirrorService ==
    ASSUME PanelInv, MirrorInv, Drain \/ DrainTimesOut \/ ServiceStep \/ Kill
    PROVE  MirrorInv'
<1>. USE DEF records, lifespan
<1>1. UNCHANGED <<role, member, link, statuses, sweep>> /\ Owned
  BY DEF Drain, DrainTimesOut, ServiceStep, ClosePool, StartService, StrayLands, Kill, MirrorInv
<1>2. \A m \in Member : Target(m)' = Target(m)
  BY <1>1 DEF Target
<1>3. CASE Drain \/ ClosePool \/ StartService
  <2>1. UNCHANGED <<request, google, stray, blurred>>
    BY <1>3 DEF Drain, ClosePool, StartService
  <2>2. Owned'
    BY <1>1, <2>1, OwnedKept
  <2>3. ASSUME NEW m \in Member \ blurred, Alone(m) PROVE Follows(m)'
    <3>1. Follows(m) /\ Mirrored(m)' = Mirrored(m) /\ SlotsFor(m)' = SlotsFor(m)
      BY <1>1, <2>1, <2>3 DEF MirrorInv, Mirrored, SlotsFor, Busy
    <3>2. OwingFor(m) \subseteq SlotsFor(m)
      BY DEF OwingFor, SlotsFor
    <3>. QED
      BY <1>1, <1>2, <2>1, <3>1, <3>2, LeftAlone
  <2>. QED
    BY <2>1, <2>2, <2>3 DEF MirrorInv, Alone
<1>4. ASSUME NEW rs \in SUBSET Request, Lost(rs),
             \A r \in Request : Busy(r) /\ request[r].stage \in Owing
                                  /\ request'[r] # request[r] => r \in rs,
             \A r \in Request : \/ request'[r] = request[r]
                                \/ request'[r] = NoRequest
                                \/ Busy(r) /\ r \in rs
                                   /\ request'[r] = [request[r] EXCEPT !.stage = "unwinding"],
             NEW called \in SUBSET rs,
             stray' = stray \cup Calls(called), UNCHANGED google
      PROVE  MirrorInv'
  <2>1. blurred' = blurred \cup {request[r].target : r \in rs}
    BY <1>4 DEF Lost
  <2>2. ASSUME NEW c \in Calls(called)
        PROVE  c.address \notin Example /\ \E n \in blurred' : c.address \in Addresses(n)
    <3>1. PICK r \in called : /\ At(r, "calling") /\ c = Call(r)
                              /\ ~ Skips(request[r].group, request[r].address)
      BY <2>2 DEF Calls
    <3>2. r \in rs /\ Busy(r) /\ request[r].stage = "calling" /\ c.address = request[r].address
      BY <1>4, <3>1 DEF At, Call
    <3>3. c.address \in Addresses(request[r].target) /\ request[r].target \in blurred'
      BY <1>1, <2>1, <3>2, SlotAddress
    <3>. QED
      BY <3>1, <3>2, <3>3 DEF Skips
  <2>3. Owned'
    <3>1. \A c \in stray' : c.address \notin Example
                            /\ \E n \in blurred' : c.address \in Addresses(n)
      BY <1>1, <1>4, <2>1, <2>2 DEF Owned
    <3>2. ASSUME NEW r \in Request, request'[r] # NoRequest PROVE OwnedSlot(request'[r])
      <4>1. CASE request'[r] = request[r]
        BY <1>1, <3>2, <4>1 DEF Owned, Busy
      <4>2. CASE Busy(r) /\ request'[r] = [request[r] EXCEPT !.stage = "unwinding"]
        <5>1. request[r] \in Locals /\ OwnedSlot(request[r])
          BY <1>1, <4>2, BusyLocals DEF Owned, PanelInv
        <5>. DEFINE v == [request[r] EXCEPT !.stage = "unwinding"]
        <5>2. /\ v.row = request[r].row /\ v.target = request[r].target
              /\ v.stage = "unwinding"
          BY <5>1 DEF Locals
        <5>. HIDE DEF v
        <5>3. OwnedSlot(v)
          BY <5>1, <5>2 DEF OwnedSlot
        <5>. QED
          BY <4>2, <5>3 DEF v
      <4>. QED
        BY <1>4, <3>2, <4>1, <4>2
    <3>. QED
      BY <1>1, <1>4, <3>1, <3>2 DEF Owned, Busy, OwnedSweep
  <2>4. ASSUME NEW m \in Member \ blurred', Alone(m) PROVE Follows(m)'
    <3>1. Follows(m) /\ Mirrored(m)' = Mirrored(m)
      BY <1>1, <1>4, <2>1, <2>4 DEF MirrorInv, Mirrored
    <3>2. \A r \in rs : request[r].target # m
      BY <2>1, <2>4
    <3>3. ASSUME NEW r \in SlotsFor(m)' PROVE r \in SlotsFor(m) /\ request'[r] = request[r]
      <4>1. r \in Request /\ request'[r] # NoRequest /\ request'[r].target = m
        BY <3>3 DEF SlotsFor, Busy
      <4>2. CASE request'[r] = request[r]
        BY <4>1, <4>2 DEF SlotsFor, Busy
      <4>3. CASE Busy(r) /\ r \in rs /\ request'[r] = [request[r] EXCEPT !.stage = "unwinding"]
        <5>1. request[r] \in Locals
          BY <4>1, <4>3, BusyLocals DEF PanelInv
        <5>2. request'[r].target = request[r].target
          BY <4>3, <5>1 DEF Locals
        <5>. QED
          BY <3>2, <4>1, <4>3, <5>2
      <4>. QED
        BY <1>4, <4>1, <4>2, <4>3
    <3>4. OwingFor(m) \subseteq SlotsFor(m)'
      <4>1. ASSUME NEW r \in OwingFor(m) PROVE r \in SlotsFor(m)'
        <5>1. r \in Request /\ Busy(r) /\ request[r].stage \in Owing /\ request[r].target = m
          BY DEF OwingFor
        <5>2. request'[r] = request[r]
          BY <1>4, <3>2, <5>1
        <5>. QED
          BY <5>1, <5>2 DEF SlotsFor, Busy
      <4>. QED
        BY <4>1
    <3>. QED
      BY <1>1, <1>2, <1>4, <3>1, <3>3, <3>4, LeftAlone
  <2>. QED
    BY <2>1, <2>3, <2>4 DEF MirrorInv, Alone
<1>5. CASE DrainTimesOut
  <2>. DEFINE rs == {r \in pending : Busy(r)}
  <2>1. rs \in SUBSET Request /\ Lost(rs) /\ stray' = stray \cup Calls(rs)
        /\ UNCHANGED google
    BY <1>5 DEF DrainTimesOut, PanelInv, TypeOK
  <2>2. \A r \in Request : request'[r] = IF r \in rs
                                          THEN [request[r] EXCEPT !.stage = "unwinding"]
                                          ELSE request[r]
    BY <1>5 DEF DrainTimesOut
  <2>3. \A r \in rs : Busy(r)
    OBVIOUS
  <2>. HIDE DEF rs
  <2>. QED
    BY <1>4, <2>1, <2>2, <2>3
<1>6. CASE Kill
  <2>. DEFINE rs == {r \in Request : Busy(r) /\ request[r].stage \in Owing}
  <2>1. rs \in SUBSET Request /\ Lost(rs) /\ UNCHANGED google
    BY <1>6 DEF Kill
  <2>2. \A r \in Request : request'[r] = NoRequest
    BY <1>6 DEF Kill
  <2>3. Calls(Request) = Calls(rs)
    BY DEF Calls, At, Owing
  <2>4. stray' = stray \cup Calls(rs)
    BY <1>6, <2>3 DEF Kill
  <2>5. \A r \in Request : Busy(r) /\ request[r].stage \in Owing => r \in rs
    OBVIOUS
  <2>. HIDE DEF rs
  <2>. QED
    BY <1>4, <2>1, <2>2, <2>4, <2>5
<1>7. CASE StrayLands
  <2>1. PICK c \in stray : /\ stray' = stray \ {c}
                           /\ google' \in {google, Landed(c.op, c.group, c.address)}
    BY <1>7 DEF StrayLands
  <2>2. UNCHANGED <<request, blurred>>
    BY <1>7 DEF StrayLands
  <2>3. c.address \notin Example /\ \E n \in blurred : c.address \in Addresses(n)
    BY <1>1, <2>1 DEF Owned
  <2>4. \A g \in MailGroup : google'[g] \cap Example = {}
    BY <1>1, <2>1, <2>3, NoExampleLands
  <2>5. Owned'
    BY <1>1, <2>1, <2>2, <2>4, OwnedKept
  <2>6. ASSUME NEW m \in Member \ blurred, Alone(m) PROVE Follows(m)'
    <3>1. Follows(m) /\ SlotsFor(m)' = SlotsFor(m)
      BY <2>2, <2>6 DEF MirrorInv, SlotsFor, Busy
    <3>2. OwingFor(m) \subseteq SlotsFor(m)
      BY DEF OwingFor, SlotsFor
    <3>3. PICK n \in Member \ {m} : c.address \in Addresses(n)
      BY <2>3, <2>6 DEF PanelInv, TypeOK
    <3>4. link # NoGroup => Mirrored(m)' = Mirrored(m)
      BY <1>1, <2>1, <2>6, <3>3, OthersCall
    <3>. QED
      BY <1>1, <1>2, <2>2, <3>1, <3>2, <3>4, LeftAlone
  <2>. QED
    BY <2>2, <2>5, <2>6 DEF MirrorInv, Alone
<1>. QED
  BY <1>3, <1>5, <1>6, <1>7 DEF ServiceStep

\* A relink, or a sweep that dies, crosses everybody, a change of the records one member.
LEMMA MirrorCrossed ==
    ASSUME PanelInv, MirrorInv, SweepDies \/ RecordsChange \/ Relink
    PROVE  MirrorInv'
<1>. USE DEF records, lifespan
<1>1. UNCHANGED <<statuses, google, request, stray>> /\ Owned
  BY DEF SweepDies, RecordsChange, Relink, MirrorInv
<1>2. CASE SweepDies \/ Relink
  <2>1. blurred' = Member /\ UNCHANGED member /\ sweep' \in {sweep, NoSweep}
    BY <1>2 DEF SweepDies, Relink
  <2>2. blurred \subseteq blurred'
    BY <2>1 DEF PanelInv, TypeOK
  <2>3. Owned'
    BY <1>1, <2>1, <2>2, OwnedKept
  <2>. QED
    BY <2>1, <2>3 DEF MirrorInv
<1>3. CASE RecordsChange
  <2>1. UNCHANGED <<link, sweep>>
    BY <1>3 DEF RecordsChange
  <2>2. PICK n \in Member :
          /\ blurred' = blurred \cup {n}
          /\ \/ /\ role' = [role EXCEPT ![n] = IF @ = "leader" THEN "none" ELSE "leader"]
                /\ UNCHANGED member
             \/ /\ \E row \in Rows[n], good, banned \in BOOLEAN :
                      member' = [member EXCEPT ![n] =
                         [addresses |-> row, good |-> good, banned |-> banned]]
                /\ UNCHANGED role
    BY <1>3 DEF RecordsChange
  <2>3. role \in [Member -> Role] /\ member \in [Member -> MemberRow]
    BY DEF PanelInv, TypeOK
  <2>4. \A m \in Member \ {n} : role'[m] = role[m] /\ member'[m] = member[m]
    BY <2>2, <2>3
  <2>5. \A m \in Member : member'[m].addresses \in Rows[m]
    <3>1. \A m \in Member : member[m].addresses \in Rows[m]
      BY <1>1 DEF Owned
    <3>2. CASE UNCHANGED member
      BY <3>1, <3>2
    <3>3. CASE ~ UNCHANGED member
      <4>1. PICK row \in Rows[n], good \in BOOLEAN, banned \in BOOLEAN :
               member' = [member EXCEPT ![n] =
                  [addresses |-> row, good |-> good, banned |-> banned]]
        BY <2>2, <3>3
      <4>2. member'[n].addresses \in Rows[n]
        BY <2>3, <4>1
      <4>. QED
        BY <2>4, <3>1, <4>2
    <3>. QED
      BY <3>2, <3>3
  <2>6. Owned'
    <3>1. \A c \in stray' : c.address \notin Example
                            /\ \E m \in blurred' : c.address \in Addresses(m)
      BY <1>1, <2>2 DEF Owned
    <3>. QED
      BY <1>1, <2>1, <2>5, <3>1 DEF Owned, Busy, OwnedSlot, OwnedSweep
  <2>7. ASSUME NEW m \in Member \ blurred', Alone(m) PROVE Follows(m)'
    <3>1. Follows(m) /\ m # n /\ SlotsFor(m)' = SlotsFor(m)
      BY <1>1, <2>2, <2>7 DEF MirrorInv, SlotsFor, Busy
    <3>2. OwingFor(m) \subseteq SlotsFor(m)
      BY DEF OwingFor, SlotsFor
    <3>3. role'[m] = role[m] /\ member'[m] = member[m]
      BY <2>4, <3>1
    <3>4. Mirrored(m)' = Mirrored(m) /\ Target(m)' = Target(m)
      BY <1>1, <2>1, <3>3 DEF Mirrored, Target
    <3>. QED
      BY <1>1, <2>1, <3>1, <3>2, <3>3, <3>4, LeftAlone
  <2>. QED
    BY <2>2, <2>6, <2>7 DEF MirrorInv, Alone
<1>. QED
  BY <1>2, <1>3

\* What a step of a sweep owes a member for whom nothing else goes on.
LEMMA SweptFollows ==
    ASSUME PanelInv, NEW m \in Member, Follows(m), OwingFor(m) = {},
           UNCHANGED <<role, member, link, request>>,
           sweep' # NoSweep =>
              SweepFollows(sweep', Own(m), link, Mirrored(m)', Wanted(m), Target(m)'),
           link # NoGroup => GroupFollows(Mirrored(m)', role[m], Eligible(m), Reachable(m),
                                          FALSE, Target(m)')
    PROVE  Follows(m)'
<1>1. /\ SlotsFor(m)' = SlotsFor(m) /\ OwingFor(m) \subseteq SlotsFor(m)
      /\ \A q \in SlotsFor(m)' : request'[q] = request[q]
  BY DEF SlotsFor, OwingFor, Busy
<1>2. SlotsFollow(m)' /\ OwingFor(m)' = {}
  BY <1>1, SlotsAsBefore DEF Follows
<1>3. Early(m)' = FALSE
  BY <1>2 DEF Early
<1>4. Own(m)' = Own(m) /\ Eligible(m)' = Eligible(m)
  BY DEF Own, Eligible
<1>5. Reachable(m)' = Reachable(m) /\ Wanted(m)' = Wanted(m)
  BY <1>4 DEF Reachable, Wanted
<1>6. SweepPart(m)'
  BY <1>2, <1>4, <1>5 DEF SweepPart
<1>7. GroupPart(m)'
  BY <1>3, <1>4, <1>5 DEF GroupPart
<1>. QED
  BY <1>2, <1>6, <1>7 DEF Follows

\* What the group holds for a member of whom Google owes nothing.
LEMMA Settled ==
    ASSUME PanelInv, Owned, NEW m \in Member, Follows(m), OwingFor(m) = {}, link # NoGroup
    PROVE  /\ GroupFollows(Mirrored(m), role[m], Eligible(m), Reachable(m), FALSE, Target(m))
           /\ link \in MailGroup /\ google \in [MailGroup -> SUBSET Address]
           /\ google[link] \cap Example = {}
           /\ Mirrored(m) = Own(m) \cap google[link]
<1>1. Early(m) = FALSE
  BY DEF Early
<1>2. link \in MailGroup /\ google \in [MailGroup -> SUBSET Address]
  BY DEF PanelInv, TypeOK
<1>. QED
  BY <1>1, <1>2 DEF Follows, GroupPart, Owned, Mirrored, Own

\* What a sweep wants of the group for one member is that member's target.
LEMMA WantedOnly ==
    ASSUME PanelInv, Owned, NEW m \in Member, Alone(m)
    PROVE  /\ Desired \cap Own(m) \subseteq (IF Wanted(m) THEN {Target(m)} ELSE {})
           /\ Wanted(m) /\ Target(m) \notin Example => Target(m) \in Desired
           /\ Desired \cap Example = {}
<1>1. Desired = {SyncTarget(member[n].addresses, statuses) :
                    n \in {k \in Member : role[k] = "member" /\ Eligible(k)}} \ Example
  BY DEF Desired, DesiredOf
<1>2. ASSUME NEW a \in Desired \cap Own(m) PROVE Wanted(m) /\ a = Target(m)
  <2>1. PICK n \in Member : Wanted(n) /\ a = Target(n)
    BY <1>1, <1>2 DEF Wanted, Target
  <2>2. a \in Addresses(n)
    BY <2>1, OwnAddresses
  <2>3. n = m
    BY <1>2, <2>2, OthersAddress
  <2>. QED
    BY <2>1, <2>3
<1>3. Wanted(m) /\ Target(m) \notin Example => Target(m) \in Desired
  BY <1>1 DEF Wanted, Target
<1>. QED
  BY <1>1, <1>2, <1>3

\* A sweep plans.
LEMMA MirrorPlans ==
    ASSUME PanelInv, MirrorInv, SweepPlans
    PROVE  MirrorInv'
<1>. USE DEF records, lifespan
<1>1. /\ sweep = NoSweep /\ link # NoGroup /\ Owned
      /\ UNCHANGED <<role, member, link, statuses, google, request, stray>>
      /\ blurred' = blurred \cup {m \in Member : OwingFor(m) # {}}
  BY DEF SweepPlans, MirrorInv
<1>2. PICK s : s = [group |-> link, adds |-> (Desired \ google[link]) \ statuses.live,
                    removes |-> google[link] \ Desired, refused |-> {}, accepted |-> {}]
  OBVIOUS
<1>3. sweep' = s
  BY <1>2 DEF SweepPlans
<1>4. /\ s.group = link /\ s.adds \subseteq Desired \ google[link]
      /\ s.removes = google[link] \ Desired /\ s.refused = {} /\ s.accepted = {}
  BY <1>2
<1>5. Desired \cap Example = {}
  BY DEF Desired, DesiredOf
<1>6. OwnedSweep(s)
  BY <1>4, <1>5 DEF OwnedSweep
<1>7. Owned'
  BY <1>1, <1>3, <1>6, OwnedKept
<1>8. ASSUME NEW m \in Member \ blurred', Alone(m) PROVE Follows(m)'
  <2>1. Follows(m) /\ OwingFor(m) = {}
    BY <1>1, <1>8 DEF MirrorInv
  <2>2. Mirrored(m)' = Mirrored(m) /\ Target(m)' = Target(m)
    BY <1>1 DEF Mirrored, Target
  <2>3. /\ GroupFollows(Mirrored(m), role[m], Eligible(m), Reachable(m), FALSE, Target(m))
        /\ google[link] \cap Example = {} /\ Mirrored(m) = Own(m) \cap google[link]
    BY <1>1, <2>1, Settled
  <2>4. /\ Desired \cap Own(m) \subseteq (IF Wanted(m) THEN {Target(m)} ELSE {})
        /\ Wanted(m) /\ Target(m) \notin Example => Target(m) \in Desired
    BY <1>1, <1>8, WantedOnly
  <2>5. Wanted(m) => s.removes \cap Own(m) = {}
    <3>1. SUFFICES ASSUME Wanted(m), NEW a \in Own(m), a \in google[link], a \notin Desired
                   PROVE  FALSE
      BY <1>4
    <3>2. a \in Mirrored(m) /\ a \notin Example
      BY <2>3, <3>1
    <3>3. Mirrored(m) \subseteq {Target(m)}
      BY <2>3, <3>1 DEF GroupFollows, Wanted
    <3>. QED
      BY <2>4, <3>1, <3>2, <3>3
  <2>6. (s.adds \cup s.accepted \cup s.refused) \cap Own(m)
           \subseteq (IF Wanted(m) THEN {Target(m)} ELSE {})
    BY <1>4, <2>4
  <2>7. (s.adds \cup s.refused) \cap Mirrored(m) = {}
    BY <1>4, <2>3
  <2>8. SweepFollows(s, Own(m), link, Mirrored(m), Wanted(m), Target(m))
    BY <1>4, <2>5, <2>6, <2>7 DEF SweepFollows
  <2>. QED
    BY <1>1, <1>3, <2>1, <2>2, <2>3, <2>8, SweptFollows
<1>. QED
  BY <1>1, <1>7, <1>8 DEF MirrorInv, Alone

\* A sweep adds.
LEMMA MirrorAdds ==
    ASSUME PanelInv, MirrorInv, SweepAdds
    PROVE  MirrorInv'
<1>. USE DEF records, lifespan
<1>1. /\ sweep # NoSweep /\ Owned /\ OwnedSweep(sweep)
      /\ UNCHANGED <<role, member, link, statuses, request, stray, blurred>>
  BY DEF SweepAdds, MirrorInv, Owned
<1>2. PICK a \in sweep.adds :
         /\ google' = Landed("add", sweep.group, a)
         /\ sweep' = IF a \in Takes
                     THEN [sweep EXCEPT !.adds = @ \ {a}, !.accepted = @ \cup {a}]
                     ELSE [sweep EXCEPT !.adds = @ \ {a}, !.refused = @ \cup {a}]
  BY DEF SweepAdds
<1>3. sweep \in Sweeps /\ sweep.group \in MailGroup /\ sweep' # NoSweep
      /\ google \in [MailGroup -> SUBSET Address]
  <2>1. sweep \in Sweeps /\ google \in [MailGroup -> SUBSET Address]
    BY <1>1 DEF PanelInv, TypeOK
  <2>2. sweep.group \in MailGroup /\ a \in Address
    BY <1>2, <2>1 DEF Sweeps
  <2>3. sweep' \in Sweeps
    BY <1>2, <2>1, <2>2 DEF Sweeps
  <2>. QED
    BY <2>1, <2>2, <2>3, NothingAssumption
<1>4. a \notin Example /\ sweep.refused \cap Takes = {}
  BY <1>1, <1>2 DEF OwnedSweep
<1>5. \A g \in MailGroup : google'[g] \cap Example = {}
  BY <1>1, <1>2, <1>4, NoExampleLands
<1>6. OwnedSweep(sweep')
  BY <1>1, <1>2, <1>3 DEF OwnedSweep, Sweeps
<1>7. Owned'
  BY <1>1, <1>5, <1>6, OwnedKept
<1>8. ASSUME NEW m \in Member \ blurred, Alone(m) PROVE Follows(m)'
  <2>1. /\ Follows(m) /\ OwingFor(m) = {} /\ Target(m)' = Target(m)
        /\ SweepFollows(sweep, Own(m), link, Mirrored(m), Wanted(m), Target(m))
    BY <1>1, <1>8 DEF MirrorInv, Follows, SweepPart, Target
  <2>2. link # NoGroup /\ sweep.group = link
    BY <1>1, <2>1, SweptIsLinked DEF Follows
  <2>3. /\ GroupFollows(Mirrored(m), role[m], Eligible(m), Reachable(m), FALSE, Target(m))
        /\ Mirrored(m) = Own(m) \cap google[link]
    BY <1>1, <2>1, <2>2, Settled
  <2>4. Mirrored(m)' = Own(m) \cap google'[link]
    BY <1>1 DEF Mirrored, Own
  <2>5. google'[link] = IF a \in Takes THEN google[link] \cup {a} ELSE google[link]
    BY <1>2, <1>3, <2>2 DEF Landed
  <2>6. Mirrored(m)' = IF a \in Takes /\ a \in Own(m) THEN Mirrored(m) \cup {a}
                       ELSE Mirrored(m)
    BY <2>3, <2>4, <2>5
  <2>7. /\ sweep'.group = sweep.group /\ sweep'.removes = sweep.removes
        /\ sweep'.adds = sweep.adds \ {a}
        /\ sweep'.accepted = IF a \in Takes THEN sweep.accepted \cup {a} ELSE sweep.accepted
        /\ sweep'.refused = IF a \in Takes THEN sweep.refused ELSE sweep.refused \cup {a}
    BY <1>2, <1>3 DEF Sweeps
  <2>8. SweepFollows(sweep', Own(m), link, Mirrored(m)', Wanted(m), Target(m))
    <3>1. sweep'.adds \cup sweep'.accepted \cup sweep'.refused
             = sweep.adds \cup sweep.accepted \cup sweep.refused
      BY <1>2, <2>7
    <3>2. (sweep'.adds \cup sweep'.refused) \cap Mirrored(m)' = {}
      BY <1>2, <1>4, <2>1, <2>6, <2>7 DEF SweepFollows
    <3>. QED
      BY <2>1, <2>7, <3>1, <3>2 DEF SweepFollows
  <2>9. a \in Own(m) => role[m] = "member" /\ a = Target(m)
    BY <1>2, <2>1 DEF SweepFollows, Wanted
  <2>10. GroupFollows(Mirrored(m)', role[m], Eligible(m), Reachable(m), FALSE, Target(m))
    BY <2>3, <2>6, <2>9 DEF GroupFollows
  <2>. QED
    BY <1>1, <2>1, <2>8, <2>10, SweptFollows
<1>. QED
  BY <1>1, <1>7, <1>8 DEF MirrorInv, Alone

\* A sweep removes.
LEMMA MirrorRemoves ==
    ASSUME PanelInv, MirrorInv, SweepRemoves
    PROVE  MirrorInv'
<1>. USE DEF records, lifespan
<1>1. /\ sweep # NoSweep /\ Owned /\ OwnedSweep(sweep)
      /\ UNCHANGED <<role, member, link, statuses, request, stray, blurred>>
  BY DEF SweepRemoves, MirrorInv, Owned
<1>2. PICK a \in sweep.removes : /\ google' = Landed("remove", sweep.group, a)
                                 /\ sweep' = [sweep EXCEPT !.removes = @ \ {a}]
  BY DEF SweepRemoves
<1>3. sweep \in Sweeps /\ sweep.group \in MailGroup
      /\ google \in [MailGroup -> SUBSET Address]
  BY <1>1 DEF PanelInv, TypeOK, Sweeps
<1>4. /\ sweep'.group = sweep.group /\ sweep'.adds = sweep.adds
      /\ sweep'.accepted = sweep.accepted /\ sweep'.refused = sweep.refused
      /\ sweep'.removes = sweep.removes \ {a}
  BY <1>2, <1>3 DEF Sweeps
<1>5. \A g \in MailGroup : google'[g] \cap Example = {}
  <2>1. \A g \in MailGroup : google[g] \cap Example = {}
    BY <1>1 DEF Owned
  <2>. QED
    BY <1>2, <1>3, <2>1 DEF Landed
<1>6. Owned'
  BY <1>1, <1>4, <1>5, OwnedKept DEF OwnedSweep
<1>7. ASSUME NEW m \in Member \ blurred, Alone(m) PROVE Follows(m)'
  <2>1. /\ Follows(m) /\ OwingFor(m) = {} /\ Target(m)' = Target(m)
        /\ SweepFollows(sweep, Own(m), link, Mirrored(m), Wanted(m), Target(m))
    BY <1>1, <1>7 DEF MirrorInv, Follows, SweepPart, Target
  <2>2. link # NoGroup /\ sweep.group = link
    BY <1>1, <2>1, SweptIsLinked DEF Follows
  <2>3. /\ GroupFollows(Mirrored(m), role[m], Eligible(m), Reachable(m), FALSE, Target(m))
        /\ Mirrored(m) = Own(m) \cap google[link]
    BY <1>1, <2>1, <2>2, Settled
  <2>4. Mirrored(m)' = Own(m) \cap google'[link]
    BY <1>1 DEF Mirrored, Own
  <2>5. google'[link] = google[link] \ {a}
    BY <1>2, <1>3, <2>2 DEF Landed
  <2>6. Mirrored(m)' = Mirrored(m) \ {a}
    BY <2>3, <2>4, <2>5
  <2>7. SweepFollows(sweep', Own(m), link, Mirrored(m)', Wanted(m), Target(m))
    BY <1>4, <2>1, <2>6 DEF SweepFollows
  <2>8. a \in Mirrored(m) => ~ (role[m] = "member" /\ Eligible(m))
    BY <1>2, <2>1, <2>3 DEF SweepFollows, Wanted
  <2>9. GroupFollows(Mirrored(m)', role[m], Eligible(m), Reachable(m), FALSE, Target(m))
    BY <2>3, <2>6, <2>8 DEF GroupFollows
  <2>. QED
    BY <1>1, <2>1, <2>7, <2>9, SweptFollows
<1>. QED
  BY <1>1, <1>6, <1>7 DEF MirrorInv, Alone

\* A sweep writes down what it has learned.
LEMMA MirrorRecords ==
    ASSUME PanelInv, MirrorInv, SweepRecords
    PROVE  MirrorInv'
<1>. USE DEF records, lifespan
<1>1. /\ sweep # NoSweep /\ Owned /\ OwnedSweep(sweep) /\ sweep \in Sweeps
      /\ sweep.adds = {} /\ sweep.removes = {} /\ IsStatuses(statuses)
      /\ UNCHANGED <<role, member, link, google, request, stray, blurred>>
  BY DEF SweepRecords, MirrorInv, Owned, PanelInv, TypeOK
<1>2. \A m \in Member : Mirrored(m)' = Mirrored(m)
  BY <1>1 DEF Mirrored
<1>3. ASSUME NEW m \in Member \ blurred, Alone(m)
      PROVE  /\ Follows(m) /\ OwingFor(m) = {} /\ link # NoGroup
             /\ SweepFollows(sweep, Own(m), link, Mirrored(m), Wanted(m), Target(m))
             /\ GroupFollows(Mirrored(m), role[m], Eligible(m), Reachable(m), FALSE, Target(m))
             /\ member[m].addresses \in SyncAddresses
             /\ Target(m)' = SyncTarget(member[m].addresses, statuses')
  <2>1. /\ Follows(m) /\ OwingFor(m) = {}
        /\ SweepFollows(sweep, Own(m), link, Mirrored(m), Wanted(m), Target(m))
    BY <1>1, <1>3 DEF MirrorInv, Follows, SweepPart
  <2>2. link # NoGroup
    BY <1>1, <2>1, SweptIsLinked DEF Follows
  <2>. QED
    BY <1>1, <2>1, <2>2, Settled, OwnAddresses DEF Target
<1>4. CASE \E a \in sweep.refused : /\ statuses' = RecordRefused(statuses, a)
                                    /\ sweep' = [sweep EXCEPT !.refused = @ \ {a}]
  <2>1. PICK a \in sweep.refused : /\ statuses' = RecordRefused(statuses, a)
                                   /\ sweep' = [sweep EXCEPT !.refused = @ \ {a}]
    BY <1>4
  <2>2. /\ sweep'.group = sweep.group /\ sweep'.adds = {} /\ sweep'.removes = {}
        /\ sweep'.accepted = sweep.accepted /\ sweep'.refused = sweep.refused \ {a}
        /\ a \in Address /\ a \notin Takes
    BY <1>1, <2>1 DEF Sweeps, OwnedSweep
  <2>3. Owned'
    BY <1>1, <2>2, OwnedKept DEF OwnedSweep
  <2>4. ASSUME NEW m \in Member \ blurred, Alone(m) PROVE Follows(m)'
    <3>1. CASE a \notin Own(m)
      <4>1. Target(m)' = Target(m)
        BY <1>1, <1>3, <2>1, <2>2, <2>4, <3>1, TargetOfOthers DEF Own, Target
      <4>2. SweepFollows(sweep', Own(m), link, Mirrored(m), Wanted(m), Target(m))
        BY <1>1, <1>3, <2>2, <2>4 DEF SweepFollows
      <4>. QED
        BY <1>1, <1>2, <1>3, <2>4, <4>1, <4>2, SweptFollows
    <3>2. CASE a \in Own(m)
      <4>1. /\ a = Target(m) /\ a \notin Mirrored(m) /\ Wanted(m)
            /\ (sweep.accepted \cup sweep.refused) \cap Own(m) \subseteq {a}
        BY <1>3, <2>1, <2>4, <3>2 DEF SweepFollows
      <4>2. Mirrored(m) = {}
        BY <1>3, <2>4, <4>1 DEF GroupFollows, Wanted
      <4>3. a \notin sweep.accepted
        BY <1>1, <2>2 DEF OwnedSweep
      <4>4. (sweep'.adds \cup sweep'.accepted \cup sweep'.refused) \cap Own(m) = {}
        BY <2>2, <4>1, <4>3
      <4>5. SweepFollows(sweep', Own(m), link, Mirrored(m), Wanted(m), Target(m)')
        BY <1>3, <2>2, <2>4, <4>2, <4>4 DEF SweepFollows
      <4>6. ~ Reachable(m)
        BY <2>2, <3>2 DEF Reachable
      <4>7. GroupFollows(Mirrored(m), role[m], Eligible(m), Reachable(m), FALSE, Target(m)')
        BY <4>2, <4>6 DEF GroupFollows
      <4>. QED
        BY <1>1, <1>2, <1>3, <2>4, <4>5, <4>7, SweptFollows
    <3>. QED
      BY <3>1, <3>2
  <2>. QED
    BY <1>1, <2>3, <2>4 DEF MirrorInv, Alone
<1>5. CASE \E a \in sweep.accepted : /\ statuses' = RecordAccepted(statuses, a)
                                     /\ sweep' = [sweep EXCEPT !.accepted = @ \ {a}]
  <2>1. PICK a \in sweep.accepted : /\ statuses' = RecordAccepted(statuses, a)
                                    /\ sweep' = [sweep EXCEPT !.accepted = @ \ {a}]
    BY <1>5
  <2>2. /\ sweep'.group = sweep.group /\ sweep'.adds = {} /\ sweep'.removes = {}
        /\ sweep'.accepted = sweep.accepted \ {a} /\ sweep'.refused = sweep.refused
        /\ a \in Address
    BY <1>1, <2>1 DEF Sweeps
  <2>3. Owned'
    BY <1>1, <2>2, OwnedKept DEF OwnedSweep
  <2>4. ASSUME NEW m \in Member \ blurred, Alone(m) PROVE Follows(m)'
    <3>1. Target(m)' = Target(m)
      <4>1. CASE a \notin Own(m)
        BY <1>1, <1>3, <2>1, <2>2, <2>4, <4>1, TargetOfOthers DEF Own, Target
      <4>2. CASE a \in Own(m)
        <5>1. a = Target(m)
          BY <1>3, <2>1, <2>4, <4>2 DEF SweepFollows
        <5>. QED
          BY <1>3, <2>1, <2>4, <5>1, AcceptedTargetStays DEF Target
      <4>. QED
        BY <4>1, <4>2
    <3>2. SweepFollows(sweep', Own(m), link, Mirrored(m), Wanted(m), Target(m))
      BY <1>1, <1>3, <2>2, <2>4 DEF SweepFollows
    <3>. QED
      BY <1>1, <1>2, <1>3, <2>4, <3>1, <3>2, SweptFollows
  <2>. QED
    BY <1>1, <2>3, <2>4 DEF MirrorInv, Alone
<1>6. CASE sweep' = NoSweep /\ UNCHANGED statuses
  <2>1. Owned'
    BY <1>1, <1>6, OwnedKept
  <2>2. ASSUME NEW m \in Member \ blurred, Alone(m) PROVE Follows(m)'
    <3>1. Target(m)' = Target(m)
      BY <1>1, <1>6 DEF Target
    <3>. QED
      BY <1>1, <1>2, <1>3, <1>6, <2>2, <3>1, SweptFollows
  <2>. QED
    BY <1>1, <2>1, <2>2 DEF MirrorInv, Alone
<1>. QED
  BY <1>4, <1>5, <1>6 DEF SweepRecords

\* Every step, and stuttering.
LEMMA MirrorNext == PanelInv /\ MirrorInv /\ [Next]_vars => MirrorInv'
<1>. SUFFICES ASSUME PanelInv, MirrorInv, [Next]_vars PROVE MirrorInv'
  OBVIOUS
<1>1. CASE \E r \in Request : Arrive(r)
  BY <1>1, MirrorRequest
<1>2. CASE \E r \in Request : RequestStep(r)
  BY <1>2, MirrorRequest, MirrorClaim, MirrorChoice, MirrorCalls, MirrorEnd,
     MirrorUnwinds DEF RequestStep
<1>3. CASE Drain \/ DrainTimesOut \/ Kill \/ ServiceStep
  BY <1>3, MirrorService
<1>4. CASE SweepStep
  BY <1>4, MirrorPlans, MirrorAdds, MirrorRemoves, MirrorRecords DEF SweepStep
<1>5. CASE SweepDies \/ RecordsChange \/ Relink
  BY <1>5, MirrorCrossed
<1>6. CASE UNCHANGED vars
  <2>1. UNCHANGED <<role, member, link, statuses, google, request, stray, sweep, blurred>>
    BY <1>6 DEF vars, records
  <2>2. Owned'
    BY <2>1, OwnedKept DEF MirrorInv
  <2>3. ASSUME NEW m \in Member \ blurred, Alone(m) PROVE Follows(m)'
    <3>1. /\ Follows(m) /\ SlotsFor(m)' = SlotsFor(m) /\ OwingFor(m) \subseteq SlotsFor(m)
          /\ Target(m)' = Target(m) /\ Mirrored(m)' = Mirrored(m)
      BY <2>1, <2>3 DEF MirrorInv, SlotsFor, OwingFor, Busy, Target, Mirrored
    <3>. QED
      BY <2>1, <3>1, LeftAlone
  <2>. QED
    BY <2>1, <2>2, <2>3 DEF MirrorInv, Alone
<1>. QED
  BY <1>1, <1>2, <1>3, <1>4, <1>5, <1>6 DEF Next

\* A member whose mirror nothing crosses is in the linked group after an add and out of
\* it after a remove, under whichever address the statuses choose at the time, with any
\* number of other members, requests and sweeps beside them (web/records.py,
\* _mirror_add, _mirror_remove, _target_address).
THEOREM UncrossedMirrors == Spec => []UncrossedMirrorFollows
<1>1. PanelInv /\ MirrorInv => UncrossedMirrorFollows
  <2>1. SUFFICES ASSUME PanelInv, MirrorInv, link # NoGroup, NEW m \in Member \ blurred,
                        Alone(m), OwingFor(m) = {}
                 PROVE  /\ role[m] = "none" => Mirrored(m) = {}
                        /\ (role[m] = "member" /\ Eligible(m)
                            /\ CandidateSet(member[m].addresses) \subseteq Takes \ Example)
                              => Mirrored(m) # {}
    BY DEF UncrossedMirrorFollows
  <2>2. GroupFollows(Mirrored(m), role[m], Eligible(m), Reachable(m), FALSE, Target(m))
    BY <2>1, Settled DEF MirrorInv
  <2>. QED
    BY <2>1, <2>2 DEF GroupFollows, Reachable, Own
<1>. QED
  BY <1>1, InvInit, InvNext, MirrorInit, MirrorNext, PTL DEF Spec
=============================================================================

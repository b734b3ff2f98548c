-------------------------------- MODULE Panel --------------------------------
(***************************************************************************)
(* The panel's writes (web/records.py, db/mutations.py): a leader adds a   *)
(* member to the body they lead, or removes one.  The row is claimed and   *)
(* written in one transaction; what Google has to be told of it is done    *)
(* afterwards by a task of its own, in no order with the other tasks.      *)
(*                                                                         *)
(* One body and its editors' group.  Each request is a process with one    *)
(* action per await, the task it leaves behind included.  The sweep is     *)
(* here as the panel meets it, coarser than in Sweep.                      *)
(***************************************************************************)
EXTENDS SyncRules

CONSTANTS
    Member,
    Request,        \* the slots for requests and their tasks
    NoRequest,
    NoSweep,
    MailGroup,      \* the group addresses the body may be linked to
    NoGroup,
    Takes,          \* the addresses Google has an account for
    Rows,           \* per member, the addresses a pull may store
    Starts,         \* what the records and Google may hold at first
    Bounds          \* how often each thing of BoundKind may happen

BoundKind == {"request", "records", "relink", "fault", "stop", "sweepDeath"}

Role == {"none", "leader", "member"}

MemberRow == [addresses : SyncAddresses, good : BOOLEAN, banned : BOOLEAN]

World == [role : [Member -> Role], member : [Member -> MemberRow],
          link : MailGroup \cup {NoGroup}, google : [MailGroup -> SUBSET Address]]

ASSUME PanelAssumption ==
    /\ NoGroup \notin MailGroup
    /\ Takes \subseteq Address
    /\ Rows \in [Member -> SUBSET SyncAddresses]
    /\ Starts \subseteq World
    /\ Bounds \subseteq [BoundKind -> Nat]

\* The addresses that records may ever give a member.
Addresses(m) == UNION {CandidateSet(row) : row \in Rows[m]}

\* At first Google is as a sweep leaves it: no example address is in a group, and in the
\* linked one a member is listed at their target at most, and there if they may be.
AsSwept(start, m) ==
    LET row == start.member[m].addresses
        in  == CandidateSet(row) \cap start.google[start.link]
    IN  /\ start.role[m] = "none" => in = {}
        /\ start.role[m] = "member" =>
              /\ in \subseteq {SyncTarget(row, NoStatuses)}
              /\ (start.member[m].good /\ ~ start.member[m].banned
                  /\ CandidateSet(row) \subseteq Takes \ Example) => in # {}

ASSUME StartsAssumption ==
    \A start \in Starts :
       /\ \A m \in Member : start.member[m].addresses \in Rows[m]
       /\ \A g \in MailGroup : start.google[g] \cap Example = {}
       /\ start.link # NoGroup => \A m \in Member : AsSwept(start, m)

VARIABLES
    role,       \* body_memberships of the body
    member,     \* members and member_bans
    link,       \* the body's member_google_group_email
    statuses,   \* google_email_status
    google,     \* who is in which group
    request,    \* per slot, the locals of a request and of its task
    stray,      \* calls whose task was cancelled and whose thread goes on
    sweep,      \* what the sweep has still to send to the linked group
    service,    \* "up", "draining", "cancelling", or "closed" with the pool
    pending,    \* the tasks the drain waits for
    unrecorded, \* history: slots whose write is committed and not in the audit log
    blurred,    \* history: members for whom the mirror was crossed by something
    left        \* what is left of the behaviour's bounds

records == <<role, member, link>>
lifespan == <<service, pending>>
vars == <<role, member, link, statuses, google, request, stray, sweep, service, pending,
          unrecorded, blurred, left>>

Spend(kind) == left[kind] > 0 /\ left' = [left EXCEPT ![kind] = @ - 1]

-----------------------------------------------------------------------------

Stage == {"resolving", "leading", "targeting", "claiming", "linking",   \* request
          "addressing", "calling", "remembering", "auditing",           \* task
          "unwinding"}                                                  \* cancelled

\* From the commit of the claim on, the write stands and the mirror owes.
Owing == {"linking", "addressing", "calling", "remembering", "auditing"}

\* What the mirror tasks have to do.
InTask == {"addressing", "calling", "remembering", "auditing"}

Locals == [stage : Stage, op : {"add", "remove"}, actor : Member, target : Member,
           row : SyncAddresses, group : MailGroup \cup {NoGroup},
           address : Address \cup {NoAddress}]

Sweeps == [group : MailGroup, adds : SUBSET Address, removes : SUBSET Address,
           refused : SUBSET Address, accepted : SUBSET Address]

ASSUME NothingAssumption == NoRequest \notin Locals /\ NoSweep \notin Sweeps

Busy(r) == request[r] # NoRequest

At(r, stage) == Busy(r) /\ request[r].stage = stage

OwingFor(m) == {r \in Request : Busy(r) /\ request[r].target = m
                                        /\ request[r].stage \in Owing}

Eligible(m) == member[m].good /\ ~ member[m].banned

Init ==
    /\ \E start \in Starts :
          /\ role = start.role
          /\ member = start.member
          /\ link = start.link
          /\ google = start.google
    /\ statuses = NoStatuses
    /\ request = [r \in Request |-> NoRequest]
    /\ stray = {}
    /\ sweep = NoSweep
    /\ service = "up"
    /\ pending = {}
    /\ unrecorded = {}
    /\ blurred = {}
    /\ left \in Bounds

-----------------------------------------------------------------------------
(* A request. *)

Arrive(r) ==
    /\ service = "up" /\ ~ Busy(r)
    /\ Spend("request")
    /\ \E op \in {"add", "remove"}, actor, target \in Member :
          request' = [request EXCEPT ![r] =
             [stage |-> "resolving", op |-> op, actor |-> actor, target |-> target,
              row |-> member[target].addresses, group |-> NoGroup, address |-> NoAddress]]
    /\ UNCHANGED <<records, statuses, google, stray, sweep, lifespan, unrecorded, blurred>>

Goto(r, stage) == request' = [request EXCEPT ![r].stage = stage]

Refused(r) == request' = [request EXCEPT ![r] = NoRequest]

\* The session's member: nobody, for one who is banned.
ResolveMember(r) ==
    /\ At(r, "resolving")
    /\ IF member[request[r].actor].banned THEN Refused(r) ELSE Goto(r, "leading")
    /\ UNCHANGED <<records, statuses, google, stray, sweep, lifespan, unrecorded, blurred, left>>

RequireLeader(r) ==
    /\ At(r, "leading")
    /\ IF role[request[r].actor] = "leader" THEN Goto(r, "targeting") ELSE Refused(r)
    /\ UNCHANGED <<records, statuses, google, stray, sweep, lifespan, unrecorded, blurred, left>>

\* The target's row, kept for the mirror; only an add asks for their standing.
ReadTarget(r) ==
    /\ At(r, "targeting")
    /\ LET m == request[r].target IN
       IF request[r].op = "add" /\ ~ Eligible(m) THEN Refused(r)
       ELSE request' = [request EXCEPT ![r].stage = "claiming",
                                       ![r].row = member[m].addresses]
    /\ UNCHANGED <<records, statuses, google, stray, sweep, lifespan, unrecorded, blurred, left>>

\* Deletes whatever row there is.
ClaimsAnyRole(op, held) ==
    IF op = "add" THEN held = "none" ELSE held # "none"

\* An insert conflicts with any row, a delete reaches a member's only.
Claims(op, held) == IF op = "add" THEN held = "none" ELSE held = "member"

\* What else goes on for a member crosses their mirror.
Crossed(m) == OwingFor(m) # {} \/ sweep # NoSweep \/ stray # {}

\* claim_and_add_member, claim_and_remove_member: under the lock on the body.
Claim(r) ==
    /\ At(r, "claiming")
    /\ LET op == request[r].op
           m  == request[r].target
       IN  IF Claims(op, role[m])
           THEN /\ role' = [role EXCEPT ![m] = IF op = "add" THEN "member" ELSE "none"]
                /\ Goto(r, "linking")
                /\ unrecorded' = unrecorded \cup {r}
                /\ blurred' = IF Crossed(m) THEN blurred \cup {m} ELSE blurred
           ELSE Refused(r) /\ UNCHANGED <<role, unrecorded, blurred>>
    /\ UNCHANGED <<member, link, statuses, google, stray, sweep, lifespan, left>>

\* What r still owes is never done: an exception nobody expected, which the net
\* around the task logs, a failing read before the task, the end of the process.
Lost(rs) ==
    /\ unrecorded' = unrecorded \ rs
    /\ blurred' = blurred \cup {request[r].target : r \in rs}

\* The group's address goes to the task by value, and the request is answered.
ReadLink(r) ==
    /\ At(r, "linking")
    /\ \/ /\ request' = [request EXCEPT ![r].stage = "addressing", ![r].group = link]
          /\ UNCHANGED <<unrecorded, blurred, left>>
       \/ Spend("fault") /\ Refused(r) /\ Lost({r})
    /\ UNCHANGED <<records, statuses, google, stray, sweep, lifespan>>

-----------------------------------------------------------------------------
(* The mirror task. *)

\* Tells Google the member's first address.
TargetAddressPrimary(r) == request[r].row.email

\* The member's Google-side address, by the same rule the sweep uses.
TargetAddress(r) == SyncTarget(request[r].row, statuses)

PickAddress(r) ==
    /\ At(r, "addressing")
    /\ \/ /\ request' = [request EXCEPT ![r].stage = "calling", ![r].address = TargetAddress(r)]
          /\ UNCHANGED <<unrecorded, blurred, left>>
       \/ Spend("fault") /\ Refused(r) /\ Lost({r})
    /\ UNCHANGED <<records, statuses, google, stray, sweep, lifespan>>

\* The groups once a call has done what it can.
Landed(op, g, a) ==
    [google EXCEPT ![g] = IF op = "remove" THEN @ \ {a}
                          ELSE IF a \in Takes THEN @ \cup {a} ELSE @]

\* What Google answers.
Verdict(op, g, a) ==
    IF op = "add" /\ a \notin Takes THEN "NoGoogleAccount"
    ELSE IF (a \in google[g]) = (op = "add") THEN "AlreadyConverged" ELSE "Applied"

\* The gates that answer without a call.
Skips(g, a) == g = NoGroup \/ a \in Example

\* Only an accepted add is remembered.
AfterCall(op, outcome) ==
    IF op = "add" /\ outcome \in ACCEPTED THEN "remembering" ELSE "auditing"

\* Ends a skipped task without a word.
SkipUnrecorded(r) == request' = [request EXCEPT ![r] = NoRequest]

\* A skip is an outcome like any other, and recorded.
SkipMirror(r) == Goto(r, "auditing")

\* GroupSync.add or .remove: skipped, answered, failed with or without effect, or
\* ended by an exception that is no HttpError.
Mirror(r) ==
    /\ At(r, "calling")
    /\ LET op == request[r].op
           g  == request[r].group
           a  == request[r].address
       IN  \/ Skips(g, a) /\ SkipMirror(r) /\ UNCHANGED <<google, unrecorded, blurred, left>>
           \/ /\ ~ Skips(g, a)
              /\ google' = Landed(op, g, a)
              /\ Goto(r, AfterCall(op, Verdict(op, g, a)))
              /\ UNCHANGED <<unrecorded, blurred, left>>
           \/ /\ ~ Skips(g, a) /\ Spend("fault")
              /\ google' \in {google, Landed(op, g, a)}
              /\ \/ /\ Goto(r, "auditing")
                    /\ blurred' = blurred \cup {request[r].target}
                    /\ UNCHANGED unrecorded
                 \/ Refused(r) /\ Lost({r})
    /\ UNCHANGED <<records, statuses, stray, sweep, lifespan>>

\* Best effort: a write that fails is logged.
Remember(r) ==
    /\ At(r, "remembering")
    /\ \/ statuses' = RecordAccepted(statuses, request[r].address) /\ UNCHANGED left
       \/ Spend("fault") /\ UNCHANGED statuses
    /\ Goto(r, "auditing")
    /\ UNCHANGED <<records, google, stray, sweep, lifespan, unrecorded, blurred>>

\* The audit row, or the line that says that it could not be written.
Audit(r) ==
    /\ At(r, "auditing")
    /\ unrecorded' = unrecorded \ {r}
    /\ request' = [request EXCEPT ![r] = NoRequest]
    /\ UNCHANGED <<records, statuses, google, stray, sweep, lifespan, blurred, left>>

-----------------------------------------------------------------------------
(* Stopping and starting the service. *)

Call(r) ==
    [op |-> request[r].op, group |-> request[r].group, address |-> request[r].address]

\* The calls of a mirror without its gates.
UngatedCalls(rs) == {Call(r) : r \in {q \in rs : At(q, "calling")}}

\* The calls that are on their way.
Calls(rs) ==
    {Call(r) : r \in {q \in rs : At(q, "calling")
                                  /\ ~ Skips(request[q].group, request[q].address)}}

\* The mirror tasks in flight right now.
MirrorTasks == {r \in Request : Busy(r) /\ request[r].stage \in InTask}

\* uvicorn has answered the requests it had when the lifespan ends.
Drain ==
    /\ service = "up" /\ Spend("stop")
    /\ \A r \in Request : Busy(r) => request[r].stage \in InTask
    /\ service' = "draining"
    /\ pending' = MirrorTasks
    /\ UNCHANGED <<records, statuses, google, request, stray, sweep, unrecorded, blurred>>

\* A drain that gives up without waiting for what it has cancelled.
GatheredOrGivenUp == service = "cancelling" \/ \A r \in pending : ~ Busy(r)

\* gather(): every task that was pending has ended.
Gathered == \A r \in pending : ~ Busy(r)

\* wait_for's 30 seconds are over: what is still pending is cancelled. A cancelled
\* task rolls back what it had open; the call it made goes on in its thread.
DrainTimesOut ==
    /\ service = "draining" /\ ~ Gathered
    /\ service' = "cancelling"
    /\ LET cancelled == {r \in pending : Busy(r)} IN
       /\ Lost(cancelled)
       /\ stray' = stray \cup Calls(cancelled)
       /\ request' = [r \in Request |-> IF r \in cancelled
                                        THEN [request[r] EXCEPT !.stage = "unwinding"]
                                        ELSE request[r]]
    /\ UNCHANGED <<records, statuses, google, sweep, pending, left>>

\* The cancelled task ends.
Unwind(r) ==
    /\ At(r, "unwinding")
    /\ request' = [request EXCEPT ![r] = NoRequest]
    /\ UNCHANGED <<records, statuses, google, stray, sweep, lifespan, unrecorded, blurred, left>>

\* The drain has ended, in time or by cancelling, and the pool is closed.
ClosePool ==
    /\ service \in {"draining", "cancelling"} /\ Gathered
    /\ service' = "closed" /\ pending' = {}
    /\ UNCHANGED <<records, statuses, google, request, stray, sweep, unrecorded, blurred, left>>

\* The process has gone: no call of its threads is left.
StartService ==
    /\ service = "closed" /\ stray = {}
    /\ service' = "up"
    /\ UNCHANGED <<pending, records, statuses, google, request, stray, sweep, unrecorded, blurred, left>>

StrayLands ==
    /\ \E c \in stray :
          /\ stray' = stray \ {c}
          /\ google' \in {google, Landed(c.op, c.group, c.address)}
    /\ UNCHANGED <<records, statuses, request, sweep, lifespan, unrecorded, blurred, left>>

\* Killed, with everything in flight; a call that was made may have landed.
Kill ==
    /\ service # "closed" /\ Spend("stop")
    /\ service' = "closed" /\ pending' = {}
    /\ Lost({r \in Request : Busy(r) /\ request[r].stage \in Owing})
    /\ stray' = stray \cup Calls(Request)
    /\ request' = [r \in Request |-> NoRequest]
    /\ UNCHANGED <<records, statuses, google, sweep>>

-----------------------------------------------------------------------------
(* What goes on beside the panel. *)

\* Banned members too.
DesiredBannedToo ==
    DesiredOf({member[m].addresses :
                 m \in {n \in Member : role[n] = "member" /\ member[n].good}}, statuses)

\* Whom the records want in the group, under the addresses the statuses choose.
Desired ==
    DesiredOf({member[m].addresses :
                 m \in {n \in Member : role[n] = "member" /\ Eligible(n)}}, statuses)

\* A sweep reads the records, the statuses and the group.
SweepPlans ==
    /\ sweep = NoSweep /\ link # NoGroup
    /\ sweep' = [group |-> link, adds |-> (Desired \ google[link]) \ statuses.live,
                 removes |-> google[link] \ Desired, refused |-> {}, accepted |-> {}]
    /\ blurred' = blurred \cup {m \in Member : OwingFor(m) # {}}
    /\ UNCHANGED <<records, statuses, google, request, stray, lifespan, unrecorded, left>>

SweepAdds ==
    /\ sweep # NoSweep
    /\ \E a \in sweep.adds :
          /\ google' = Landed("add", sweep.group, a)
          /\ sweep' = IF a \in Takes
                      THEN [sweep EXCEPT !.adds = @ \ {a}, !.accepted = @ \cup {a}]
                      ELSE [sweep EXCEPT !.adds = @ \ {a}, !.refused = @ \cup {a}]
    /\ UNCHANGED <<records, statuses, request, stray, lifespan, unrecorded, blurred, left>>

SweepRemoves ==
    /\ sweep # NoSweep /\ sweep.adds = {}
    /\ \E a \in sweep.removes :
          /\ google' = Landed("remove", sweep.group, a)
          /\ sweep' = [sweep EXCEPT !.removes = @ \ {a}]
    /\ UNCHANGED <<records, statuses, request, stray, lifespan, unrecorded, blurred, left>>

\* What the run learned is written down, one address at a time.
SweepRecords ==
    /\ sweep # NoSweep /\ sweep.adds \cup sweep.removes = {}
    /\ IF sweep.refused # {}
       THEN \E a \in sweep.refused :
               /\ statuses' = RecordRefused(statuses, a)
               /\ sweep' = [sweep EXCEPT !.refused = @ \ {a}]
       ELSE IF sweep.accepted # {}
       THEN \E a \in sweep.accepted :
               /\ statuses' = RecordAccepted(statuses, a)
               /\ sweep' = [sweep EXCEPT !.accepted = @ \ {a}]
       ELSE sweep' = NoSweep /\ UNCHANGED statuses
    /\ UNCHANGED <<records, google, request, stray, lifespan, unrecorded, blurred, left>>

SweepDies ==
    /\ sweep # NoSweep /\ Spend("sweepDeath")
    /\ sweep' = NoSweep
    /\ blurred' = Member
    /\ UNCHANGED <<records, statuses, google, request, stray, lifespan, unrecorded>>

\* A pull makes a member a leader or ends that, stores their new addresses or
\* standing; an operator bans them or lifts the ban.
RecordsChange ==
    /\ Spend("records")
    /\ \E m \in Member :
          /\ blurred' = blurred \cup {m}
          /\ \/ /\ role' = [role EXCEPT ![m] = IF @ = "leader" THEN "none" ELSE "leader"]
                /\ UNCHANGED member
             \/ /\ \E row \in Rows[m], good, banned \in BOOLEAN :
                      member' = [member EXCEPT ![m] =
                         [addresses |-> row, good |-> good, banned |-> banned]]
                /\ UNCHANGED role
    /\ UNCHANGED <<link, statuses, google, request, stray, sweep, lifespan, unrecorded>>

\* An operator links the body to another group, or to none.
Relink ==
    /\ Spend("relink")
    /\ link' \in (MailGroup \cup {NoGroup}) \ {link}
    /\ blurred' = Member
    /\ UNCHANGED <<role, member, statuses, google, request, stray, sweep, lifespan, unrecorded>>

-----------------------------------------------------------------------------

RequestStep(r) ==
    \/ ResolveMember(r) \/ RequireLeader(r) \/ ReadTarget(r) \/ Claim(r) \/ ReadLink(r)
    \/ PickAddress(r) \/ Mirror(r) \/ Remember(r) \/ Audit(r) \/ Unwind(r)

SweepStep == SweepPlans \/ SweepAdds \/ SweepRemoves \/ SweepRecords

ServiceStep == ClosePool \/ StartService \/ StrayLands

Next ==
    \/ \E r \in Request : Arrive(r) \/ RequestStep(r)
    \/ SweepStep \/ SweepDies
    \/ Drain \/ DrainTimesOut \/ Kill \/ ServiceStep
    \/ RecordsChange \/ Relink

Spec == Init /\ [][Next]_vars

\* Requests and tasks go on, the timer starts one sweep after the other, and a
\* service that stops is started again.
FairSpec ==
    /\ Spec
    /\ \A r \in Request : WF_vars(RequestStep(r))
    /\ WF_vars(SweepStep)
    /\ WF_vars(ServiceStep)
=============================================================================

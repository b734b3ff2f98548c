------------------------------ MODULE Provision ------------------------------
(***************************************************************************)
(* Provisioning, the sweep's second phase (reconcile.py, _provision): each *)
(* leadership body that has no groups yet gets its leaders' and its        *)
(* editors' group, minted or adopted, and is linked to them; the main      *)
(* group is made sure of as well.                                          *)
(*                                                                         *)
(* Minting a group is four calls in a row and takes minutes when Google is *)
(* slow.  Between any two of them the process may die, an operator may     *)
(* link or unlink a body, another pull may add one, and an administrator   *)
(* may create, change or delete a group.                                   *)
(***************************************************************************)
EXTENDS Integers, FiniteSets

CONSTANTS
    Body,               \* leadership bodies, numbered in the order of all_bodies
    Address,
    Main,               \* the address of the main group
    NoAddress,
    LeadersAddress,     \* the address the naming rules give a body's groups
    EditorsAddress,
    Unnamable,          \* the bodies whose name overflows Google's caps
    Cap,                \* ROSADMIN_MASS_CREATION_TRIPWIRE
    NoGroup,            \* what an address holds that has no group
    HandLinks,          \* the pairs of addresses an operator may link
    Starts,             \* what the records and Google may hold at first
    Bounds              \* how often each thing of BoundKind may happen

BoundKind == {"body", "link", "outside", "fault", "crash", "rehearsal"}

Link == [leaders : Address \cup {NoAddress}, editors : Address \cup {NoAddress}]

Unlinked == [leaders |-> NoAddress, editors |-> NoAddress]

\* A group by what of the secure defaults it has: the security label and the
\* settings, which are patched by two calls.
Group == [labels : BOOLEAN, settings : BOOLEAN]

Bare   == [labels |-> FALSE, settings |-> FALSE]
Secure == [labels |-> TRUE, settings |-> TRUE]

World == [bodies : SUBSET Body, link : [Body -> Link], marker : BOOLEAN,
          group : [Address -> Group \cup {NoGroup}]]

ASSUME ProvisionAssumption ==
    /\ Body \subseteq Nat \ {0} /\ IsFiniteSet(Body)
    /\ Main \in Address
    /\ NoAddress \notin Address
    /\ LeadersAddress \in [Body -> Address]
    /\ EditorsAddress \in [Body -> Address]
    /\ Unnamable \subseteq Body
    /\ Cap \in Nat
    /\ NoGroup \notin Group
    /\ HandLinks \subseteq Address \X Address
    /\ Starts \subseteq World
    /\ Bounds \subseteq [BoundKind -> Nat]

VARIABLES
    bodies,     \* the bodies in the records
    link,       \* their two address columns
    marker,     \* bootstrapped_group_provisioning
    group,      \* what Google has at each address
    pc,         \* the next await of the run
    run,        \* the locals of _provision
    touched,    \* history: addresses and bodies others changed during the run
    minted,     \* history: the addresses this run created a group at
    ours,       \* history: those of groups that runs created and nobody else changed
    left        \* what is left of the behaviour's bounds

history == <<touched, minted, ours>>
vars == <<bodies, link, marker, group, pc, run, touched, minted, ours, left>>

-----------------------------------------------------------------------------
(* The plan. *)

IsLinked(b) == link[b].leaders # NoAddress /\ link[b].editors # NoAddress

\* A planned group by its place in the plan: the main group, or a body's.
Place == {<<0, "main">>} \cup Body \X {"leaders", "editors"}

AddressOf(p) == CASE p[2] = "main"    -> Main
                  [] p[2] = "leaders" -> LeadersAddress[p[1]]
                  [] p[2] = "editors" -> EditorsAddress[p[1]]

Before(p, q) == p[1] < q[1] \/ (p[1] = q[1] /\ p[2] = "leaders")

FirstPlace(S) == CHOOSE p \in S : \A q \in S \ {p} : Before(p, q)

Pending == {<<0, "main">>} \cup
           {b \in bodies : ~ IsLinked(b) /\ b \notin Unnamable} \X {"leaders", "editors"}

NameFailures == {b \in bodies : ~ IsLinked(b) /\ b \in Unnamable}

\* Looks at the plan's size before it has learned which groups exist.
TripwireOff(armed, creations) == FALSE

TripwireRefuses(armed, creations) == armed /\ creations > Cap

\* Looks at the label only.
DivergedByLabel(seen) == ~ seen.labels

Diverged(seen) == ~ (seen.settings /\ seen.labels)

-----------------------------------------------------------------------------

NoRun == [dryRun |-> FALSE, places |-> {}, todo |-> {}, missing |-> {},
          armed |-> FALSE, created |-> {}, adopted |-> {}, diverged |-> {},
          failedPlaces |-> {}, failedBodies |-> {}]

Init ==
    /\ \E start \in Starts :
          /\ bodies = start.bodies
          /\ link = start.link
          /\ marker = start.marker
          /\ group = start.group
    /\ pc = "idle"
    /\ run = NoRun
    /\ touched = {}
    /\ minted = {}
    /\ ours = {}
    /\ left \in Bounds

Spend(kind) == left[kind] > 0 /\ left' = [left EXCEPT ![kind] = @ - 1]

\* The plan is made from one read of the bodies.
Start(dryRun) ==
    /\ pc = "idle"
    /\ pc' = "sizing"
    /\ run' = [NoRun EXCEPT !.dryRun = dryRun, !.places = Pending, !.todo = Pending,
                            !.failedBodies = NameFailures]
    /\ touched' = {} /\ minted' = {}
    /\ UNCHANGED <<bodies, link, marker, group, ours>>

TimerStarts == Start(FALSE) /\ UNCHANGED left

OperatorRehearses == Spend("rehearsal") /\ Start(TRUE)

RunOver ==
    /\ pc' = "idle" /\ run' = NoRun
    /\ touched' = {} /\ minted' = {} /\ ours' = ours

Next1 == FirstPlace(run.todo)

\* Whether the next planned group is there.  An error here is caught by nobody.
SizeNext ==
    /\ pc = "sizing" /\ run.todo # {}
    /\ \/ /\ run' = [run EXCEPT !.todo = @ \ {Next1},
                       !.missing = IF group[AddressOf(Next1)] = NoGroup
                                   THEN @ \cup {Next1} ELSE @]
          /\ UNCHANGED <<pc, history, left>>
       \/ Spend("fault") /\ RunOver
    /\ UNCHANGED <<bodies, link, marker, group>>

\* The tripwire, with the marker as it is now.
JudgePlan ==
    /\ pc = "sizing" /\ run.todo = {}
    /\ IF TripwireRefuses(marker, Cardinality(run.missing))
       THEN RunOver
       ELSE /\ pc' = "ensuring"
            /\ run' = [run EXCEPT !.armed = marker, !.todo = run.places]
            /\ UNCHANGED history
    /\ UNCHANGED <<bodies, link, marker, group, left>>

-----------------------------------------------------------------------------
(* One planned group, GoogleGroupProvisioner.ensure. *)

\* What _provision counts by is whether the group's address was missing when the
\* plan was sized.
Ensured(seen) ==
    LET isNew == AddressOf(Next1) \in {AddressOf(p) : p \in run.missing} IN
    /\ pc' = "ensuring"
    /\ run' = [run EXCEPT
          !.todo = @ \ {Next1},
          !.created = IF isNew THEN @ \cup {Next1} ELSE @,
          !.adopted = IF isNew THEN @ ELSE @ \cup {Next1},
          !.diverged = IF ~ isNew /\ Diverged(seen) THEN @ \cup {Next1} ELSE @]

EnsureFails ==
    /\ pc' = "ensuring"
    /\ run' = [run EXCEPT !.todo = @ \ {Next1}, !.failedPlaces = @ \cup {Next1}]

\* A call whose change is `now` fails: an error answer or a poll that gives up,
\* and the change may have landed all the same.
CallFails(now) ==
    /\ Spend("fault")
    /\ EnsureFails
    /\ group' \in {group, now}

Rehearse ==
    /\ pc = "ensuring" /\ run.todo # {} /\ run.dryRun
    /\ Ensured(Secure)
    /\ UNCHANGED <<bodies, link, marker, group, history, left>>

Made == [group EXCEPT ![AddressOf(Next1)] = Bare]

\* The insert: made, or the address is taken.
CreateGroup ==
    /\ pc = "ensuring" /\ run.todo # {} /\ ~ run.dryRun
    /\ IF group[AddressOf(Next1)] # NoGroup
       THEN /\ \/ pc' = "adopting" /\ UNCHANGED <<group, run, left>>
               \/ CallFails(group)
            /\ UNCHANGED <<minted, ours>>
       ELSE /\ \/ pc' = "labelling" /\ group' = Made /\ UNCHANGED <<run, left>>
               \/ CallFails(Made)
            /\ LET new == {a \in {AddressOf(Next1)} : group'[a] # NoGroup} IN
               minted' = minted \cup new /\ ours' = ours \cup new
    /\ UNCHANGED <<bodies, link, marker, touched>>

\* A taken address is an error, as it is by default.
AdoptingRaises(a) == FALSE

\* The group behind a taken address is accepted as it is found.
Adoptable(a) == group[a] # NoGroup

Adopt ==
    /\ pc = "adopting"
    /\ \/ /\ Adoptable(AddressOf(Next1))
          /\ Ensured(group[AddressOf(Next1)])
          /\ UNCHANGED <<group, left>>
       \/ ~ Adoptable(AddressOf(Next1)) /\ EnsureFails /\ UNCHANGED <<group, left>>
       \/ CallFails(group)
    /\ UNCHANGED <<bodies, link, marker, history>>

\* A patch of one part of the new group, and what comes after it.
Patch(part, next) ==
    LET a == AddressOf(Next1)
        now == [group EXCEPT ![a][part] = TRUE] IN
    /\ IF group[a] = NoGroup
       THEN EnsureFails /\ UNCHANGED <<group, left>>
       ELSE \/ pc' = next /\ group' = now /\ UNCHANGED <<run, left>>
            \/ CallFails(now)
    /\ UNCHANGED <<bodies, link, marker, history>>

PatchLabels == pc = "labelling" /\ Patch("labels", "setting")

PatchSettings == pc = "setting" /\ Patch("settings", "settling")

\* Waits until Google shows what was patched.
Settle ==
    /\ pc = "settling"
    /\ IF group[AddressOf(Next1)] = Secure
       THEN \/ Ensured(Secure) /\ UNCHANGED <<group, left>>
            \/ CallFails(group)
       ELSE EnsureFails /\ UNCHANGED <<group, left>>
    /\ UNCHANGED <<bodies, link, marker, history>>

-----------------------------------------------------------------------------
(* Links. *)

\* An address may be in each column only once.
LinkTaken(b, l, e) ==
    \E c \in bodies \ {b} : link[c].leaders = l \/ link[c].editors = e

\* set_body_link
Relinked(b, l, e) == [link EXCEPT ![b] = [leaders |-> l, editors |-> e]]

Resolved == run.created \cup run.adopted

\* The bodies with a group that was made or adopted.
BodiesToLink == {p[1] : p \in {q \in Resolved : q[2] # "main"}}

StartLinking ==
    /\ pc = "ensuring" /\ run.todo = {}
    /\ pc' = "linking"
    /\ run' = [run EXCEPT !.todo = BodiesToLink \X {"leaders"}]
    /\ UNCHANGED <<bodies, link, marker, group, history, left>>

Complete(b) == {<<b, "leaders">>, <<b, "editors">>} \subseteq Resolved

BodyDone(b)  == [run EXCEPT !.todo = @ \ {<<b, "leaders">>}]

\* Logged, and not counted.
FailsUncounted(b) == BodyDone(b)

BodyFails(b) == [run EXCEPT !.todo = @ \ {<<b, "leaders">>}, !.failedBodies = @ \cup {b}]

LinkBody ==
    /\ pc = "linking" /\ run.todo # {}
    /\ LET b == Next1[1]
           l == LeadersAddress[b]
           e == EditorsAddress[b]
       IN  \/ ~ Complete(b) /\ run' = BodyFails(b) /\ link' = link
           \/ Complete(b) /\ run.dryRun /\ run' = BodyDone(b) /\ link' = link
           \/ /\ Complete(b) /\ ~ run.dryRun
              /\ IF LinkTaken(b, l, e)
                 THEN run' = BodyFails(b) /\ link' = link
                 ELSE run' = BodyDone(b) /\ link' = Relinked(b, l, e)
    /\ UNCHANGED <<bodies, marker, group, pc, history, left>>

\* The first run that made something arms the cap.
Arms == ~ run.armed /\ run.created # {} /\ ~ run.dryRun

EndRun ==
    /\ pc = "linking" /\ run.todo = {}
    /\ marker' = (marker \/ Arms)
    /\ RunOver
    /\ UNCHANGED <<bodies, link, group, left>>

Crash == pc # "idle" /\ Spend("crash") /\ RunOver /\ UNCHANGED <<bodies, link, marker, group>>

-----------------------------------------------------------------------------
(* Outside the run. *)

Touch(x) == touched' = IF pc = "idle" THEN {} ELSE touched \cup {x}

\* A pull stores a body it has not seen.
PullAddsBody ==
    /\ Spend("body")
    /\ \E b \in Body \ bodies : bodies' = bodies \cup {b}
    /\ UNCHANGED <<link, marker, group, pc, run, history>>

\* The admin socket's link route.
OperatorLinks ==
    /\ Spend("link")
    /\ \E b \in bodies, pair \in HandLinks :
          /\ ~ LinkTaken(b, pair[1], pair[2])
          /\ link' = Relinked(b, pair[1], pair[2])
          /\ Touch(b)
    /\ UNCHANGED <<bodies, marker, group, pc, run, minted, ours>>

OperatorUnlinks ==
    /\ Spend("link")
    /\ \E b \in bodies :
          /\ link' = Relinked(b, NoAddress, NoAddress)
          /\ Touch(b)
    /\ UNCHANGED <<bodies, marker, group, pc, run, minted, ours>>

\* An administrator makes, changes or deletes a group.
OutsideEdit ==
    /\ Spend("outside")
    /\ \E a \in Address, now \in Group \cup {NoGroup} :
          /\ now # group[a]
          /\ group' = [group EXCEPT ![a] = now]
          /\ Touch(a)
          /\ ours' = ours \ {a}
    /\ UNCHANGED <<bodies, link, marker, pc, run, minted>>

-----------------------------------------------------------------------------

RunStep == SizeNext \/ JudgePlan \/ Rehearse \/ CreateGroup \/ Adopt \/ PatchLabels
           \/ PatchSettings \/ Settle \/ StartLinking \/ LinkBody \/ EndRun

Outside == PullAddsBody \/ OperatorLinks \/ OperatorUnlinks \/ OutsideEdit

Next == TimerStarts \/ OperatorRehearses \/ RunStep \/ Crash \/ Outside

Spec == Init /\ [][Next]_vars

\* The timer goes off again and again, and a run that is not killed goes on: every
\* call ends within its timeout.
FairSpec == Spec /\ WF_vars(TimerStarts) /\ WF_vars(RunStep)
=============================================================================

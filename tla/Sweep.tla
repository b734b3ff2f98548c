-------------------------------- MODULE Sweep --------------------------------
(***************************************************************************)
(* One reconcile run after another (run_sweep and what it calls in         *)
(* reconcile.py), with everything that can happen between two of its       *)
(* awaits: the records change, somebody edits a Google group, a group is   *)
(* deleted or comes back, an account appears or disappears, a panel task   *)
(* records an address, a refusal's window passes, a call fails, the        *)
(* process dies.                                                           *)
(*                                                                         *)
(* One action per await of the code: a read of Postgres or of Google and   *)
(* the use of its answer are atomic, two reads are not.  At most one run   *)
(* is in progress, which is what the advisory lock gives: a second one     *)
(* raises SweepAlreadyRunning and changes nothing.                         *)
(***************************************************************************)
EXTENDS SyncRules, Integers

CONSTANTS
    Member,             \* the members of the records
    Group,              \* the linked groups; "<" is the order of their addresses
    Labelled,           \* the groups that carry the security label
    RetriesPerRun,      \* 25 in the code
    RefusalFuseCeiling, \* 25 in the code
    Audiences,          \* whom the records may want where: [Group -> SUBSET Member]
    Rows,               \* the address pairs the records may hold: [Member -> ...]
    Listings,           \* what the groups may hold when the sweep is installed
    Verdicts,           \* what Google may think of the addresses at that time
    Bounds              \* how often each thing outside the sweep may happen

BoundKind == {"records", "rows", "outside", "panel", "delete", "restore",
              "account", "fault", "crash", "operator"}

Account == {"held", "noAccount", "unknown"}

Listing == [Address -> Kind]

ASSUME SweepAssumption ==
    /\ Group \subseteq Nat
    /\ IsFiniteSet(Group)
    /\ Labelled \subseteq Group
    /\ RetriesPerRun \in Nat
    /\ RefusalFuseCeiling \in Nat
    /\ Audiences \subseteq [Group -> SUBSET Member]
    /\ Rows \subseteq [Member -> SyncAddresses]
    /\ Listings \subseteq [Group -> Listing]
    /\ Verdicts \subseteq [Address -> Account]
    /\ Bounds \subseteq [BoundKind -> Nat]

VARIABLES
    \* Postgres
    audience,   \* which members the records put in each group
    row,        \* each member's two addresses
    statuses,   \* google_email_status
    learned,    \* bootstrap_state.bootstrapped_refusal_learning
    \* Google Workspace
    up,         \* whether each group exists
    entries,    \* how each address is listed in each group
    account,    \* what Google thinks of each address
    \* the sweep process
    pc,
    run,        \* the locals of _sweep_locked
    job,        \* the locals of _apply, and the group's plan and listing
    commit,     \* the locals of commit_refusals and remember_accepted
    report,     \* how the last run ended
    \* history: not in the code, read by properties only
    steady,     \* members desired, at the same addresses, since the recheck
    sound,      \* addresses Google has held since the run began
    revived,    \* whether a group came back while the run was in progress
    calm,       \* whether nothing outside the sweep happened during the run
    \* bounds
    left        \* what is left of the behaviour's bounds

recordVars  == <<audience, row>>
statusVars  == <<statuses, learned>>
googleVars  == <<up, entries, account>>
historyVars == <<steady, sound, revived, calm>>
vars == <<recordVars, statusVars, googleVars, pc, run, job, commit, report,
          historyVars, left>>

-----------------------------------------------------------------------------
\* The one address or group that is first in sorted order.
FirstOf(S) == {x \in S : \A y \in S : x <= y}

Spend(kind) ==
    /\ left[kind] > 0
    /\ left' = [left EXCEPT ![kind] = @ - 1]

\* Counts of one group's slice of the report (GroupOutcome).
Outcome == [planned : Nat, applied : Nat, converged : Nat, skipped : Nat,
            unmirrorable : Nat, refused : Nat, failed : Int]

NoOutcome == [planned |-> 0, applied |-> 0, converged |-> 0, skipped |-> 0,
              unmirrorable |-> 0, refused |-> 0, failed |-> 0]

Refusal == [address : Address, group : Group, outcome : UNMIRRORABLE]

Tally == [SyncOutcome -> Nat]
NoTally == [o \in SyncOutcome |-> 0]

Mode == [dryRun : BOOLEAN, allowMassRemoval : BOOLEAN, reads : BOOLEAN]
TimerMode == [dryRun |-> FALSE, allowMassRemoval |-> FALSE, reads |-> TRUE]

NoRun == [mode |-> TimerMode, snap |-> NoStatuses,
          wanted |-> [g \in Group |-> {}], todo |-> {}, unmirrorable |-> {},
          lapsed |-> {}, slots |-> 0, refusals |-> {}, accepted |-> {},
          outcome |-> [g \in Group |-> NoOutcome]]

NoListing == [a \in Address |-> "absent"]

NoJob == [group |-> 0, actual |-> NoListing, plan |-> NoPlan, adds |-> {},
          removes |-> {}, tally |-> NoTally, presence |-> "Unasked",
          found |-> {}, removesConverged |-> 0]

NoCommit == [armed |-> FALSE, unwritten |-> {}, unremembered |-> {},
             recorded |-> 0, fuseRefused |-> FALSE]

\* The desired set of a group, read now, under the run's view of the statuses.
DesiredForGroup(g) == DesiredOf({row[m] : m \in audience[g]}, run.snap)

-----------------------------------------------------------------------------
(* Google's answers (external): each is an outcome and whether the call     *)
(* took effect.  A call whose reply is lost is repeated by the client, and  *)
(* then finds its own effect; or every repetition fails.                    *)

Reply(outcome, landed) == [outcome |-> outcome, landed |-> landed]

InsertVerdict(g, a) ==
    IF ~up[g] THEN "AddressNotFound"
    ELSE IF entries[g][a] # "absent" THEN "AlreadyConverged"
    ELSE IF account[a] = "unknown" THEN "AddressNotFound"
    ELSE IF account[a] = "noAccount" /\ g \in Labelled THEN "NoGoogleAccount"
    ELSE "Applied"

InsertReplies(g, a) ==
    LET verdict == InsertVerdict(g, a)
        works   == verdict = "Applied"
    IN  [sound |-> {Reply(verdict, works)},
         faulty |-> {Reply("Failed", FALSE)} \cup
                    (IF works THEN {Reply("Failed", TRUE),
                                    Reply("AlreadyConverged", TRUE)} ELSE {})]

DeleteReplies(g, a) ==
    LET works == up[g] /\ entries[g][a] # "absent"
    IN  [sound |-> {IF works THEN Reply("Applied", TRUE)
                             ELSE Reply("AlreadyConverged", FALSE)},
         faulty |-> {Reply("Failed", FALSE)} \cup
                    (IF works THEN {Reply("Failed", TRUE),
                                    Reply("AlreadyConverged", TRUE)} ELSE {})]

\* One of a call's replies, paying for a faulty one.
Answered(replies, reply) ==
    \/ reply \in replies.sound /\ UNCHANGED left
    \/ reply \in replies.faulty /\ Spend("fault")

\* lister.exists: the answer, or an HttpError read as Unknown.
PresenceAnswered(g, presence) ==
    \/ presence = (IF up[g] THEN "Present" ELSE "Gone") /\ UNCHANGED left
    \/ presence = "Unknown" /\ Spend("fault")

\* _skip_gate and DryRunGroupSync come before any call.
Gated(a, replies) ==
    IF a \in Example
    THEN [sound |-> {Reply("SkippedExampleEmail", FALSE)}, faulty |-> {}]
    ELSE IF run.mode.dryRun
         THEN [sound |-> {Reply("SkippedDryRun", FALSE)}, faulty |-> {}]
         ELSE replies

-----------------------------------------------------------------------------
(* The run's opening: the lock, the pull, the two reads.                    *)

Begin(mode) ==
    /\ pc = "idle"
    /\ pc' = "pull"
    /\ run' = [NoRun EXCEPT !.mode = mode]
    /\ report' = "none"
    /\ sound' = {a \in Address : account[a] = "held"}
    /\ revived' = FALSE
    /\ calm' = TRUE
    /\ UNCHANGED <<recordVars, statusVars, googleVars, job, commit, steady>>

\* The timer's run.  A pull's own effect on the records is RecordsChange.
TimerStarts == Begin(TimerMode) /\ UNCHANGED left

\* A rehearsal, a run with Google reads forbidden, or one let past the fuse.
OperatorStarts ==
    /\ \E mode \in Mode \ {TimerMode} : Begin(mode)
    /\ Spend("operator")

Stop(how) ==
    /\ pc' = "idle"
    /\ report' = how
    /\ run' = NoRun
    /\ job' = NoJob
    /\ commit' = NoCommit
    /\ steady' = [g \in Group |-> {}]
    /\ sound' = {}
    /\ revived' = FALSE
    /\ calm' = FALSE

\* The pull refused to lapse too many members: RosterPullUnsafe, before any
\* call to Google.
PullUnsafe ==
    /\ pc = "pull"
    /\ Stop("raised")
    /\ Spend("fault")
    /\ UNCHANGED <<recordVars, statusVars, googleVars>>

ReadStatuses ==
    /\ pc = "pull"
    /\ pc' = "audiences"
    /\ run' = [run EXCEPT !.snap = statuses]
    /\ UNCHANGED <<recordVars, statusVars, googleVars, job, commit, report,
                   historyVars, left>>

ReadAudiences ==
    /\ pc = "audiences"
    /\ run.mode.reads
    /\ pc' = "groups"
    /\ run' = [run EXCEPT !.wanted       = [g \in Group |-> DesiredForGroup(g)],
                          !.todo         = Group,
                          !.unmirrorable = run.snap.live,
                          !.lapsed       = Lapsed(run.snap),
                          !.slots        = RetriesPerRun]
    /\ UNCHANGED <<recordVars, statusVars, googleVars, job, commit, report,
                   historyVars, left>>

ReportDesiredOnly ==
    /\ pc = "audiences"
    /\ ~run.mode.reads
    /\ Stop("green")
    /\ UNCHANGED <<recordVars, statusVars, googleVars, left>>

-----------------------------------------------------------------------------
(* One group: list and plan, recheck, add, remove, report.                  *)

ListFails ==
    /\ pc = "groups"
    /\ \E g \in FirstOf(run.todo) :
         /\ IF up[g] THEN Spend("fault") ELSE UNCHANGED left
         /\ run' = [run EXCEPT !.todo = @ \ {g},
                               !.outcome[g] = [NoOutcome EXCEPT !.failed = 1]]
    /\ UNCHANGED <<recordVars, statusVars, googleVars, pc, job, commit, report,
                   historyVars>>

PlannedFor(g) ==
    PlanGroup(run.wanted[g], entries[g], run.unmirrorable, run.lapsed,
              run.slots, run.mode.allowMassRemoval)

ListAndPlan ==
    /\ pc = "groups"
    /\ \E g \in FirstOf(run.todo) :
       LET plan == PlannedFor(g)
           busy == PlansSomething(plan)
       IN  /\ up[g]
           /\ pc' = IF busy THEN "recheck" ELSE "groups"
           /\ job' = IF busy
                     THEN [NoJob EXCEPT !.group = g, !.actual = entries[g],
                                        !.plan = plan]
                     ELSE NoJob
           /\ run' = [run EXCEPT
                        !.lapsed = @ \ plan.retried,
                        !.slots = @ - Cardinality(plan.retried),
                        !.todo = IF busy THEN @ ELSE @ \ {g},
                        !.outcome[g] = [NoOutcome EXCEPT !.refused = plan.refused]]
    /\ UNCHANGED <<recordVars, statusVars, googleVars, commit, report,
                   historyVars, left>>

RecheckPlan ==
    /\ pc = "recheck"
    /\ pc' = "adding"
    /\ LET plan == Recheck(job.plan, DesiredForGroup(job.group))
       IN  job' = [job EXCEPT !.plan = plan, !.adds = plan.adds,
                              !.removes = plan.removes]
    /\ steady' = [steady EXCEPT ![job.group] = audience[job.group]]
    /\ UNCHANGED <<recordVars, statusVars, googleVars, run, commit, report,
                   sound, revived, calm, left>>

\* What _apply does with the outcome of one add.
Tallied(tally, outcome) == [tally EXCEPT ![outcome] = @ + 1]

Settled(j, a, outcome) ==
    [j EXCEPT !.tally = Tallied(@, outcome),
              !.adds  = @ \ {a},
              !.found = IF outcome \in UNMIRRORABLE
                        THEN @ \cup {[address |-> a, group |-> j.group,
                                      outcome |-> outcome]}
                        ELSE @]

\* Learns of refusals only where the group is swept, not for the run.
LearnedNothing(r, a, outcome) ==
    [r EXCEPT !.accepted = IF outcome \in ACCEPTED THEN @ \cup {a} ELSE @]

Learned(r, a, outcome) ==
    [r EXCEPT !.accepted = IF outcome \in ACCEPTED THEN @ \cup {a} ELSE @,
              !.unmirrorable = IF outcome \in UNMIRRORABLE THEN @ \cup {a} ELSE @]

\* A 404 nobody may read: counted as a failure, not recorded.
Unreadable(j, a) ==
    [j EXCEPT !.tally = Tallied(@, "Failed"), !.adds = @ \ {a}]

OfferAdd ==
    /\ pc = "adding"
    /\ \E a \in FirstOf(job.adds) :
       LET g       == job.group
           replies == Gated(a, InsertReplies(g, a))
       IN  \E reply \in replies.sound \cup replies.faulty :
             /\ Answered(replies, reply)
             /\ entries' = IF reply.landed
                           THEN [entries EXCEPT ![g][a] = "member"] ELSE entries
             /\ IF reply.outcome = "AddressNotFound" /\ job.presence # "Present"
                THEN IF job.presence = "Unasked"
                     THEN pc' = "asking" /\ UNCHANGED <<run, job>>
                     ELSE /\ job' = Unreadable(job, a)
                          /\ UNCHANGED <<pc, run>>
                ELSE /\ job' = Settled(job, a, reply.outcome)
                     /\ run' = Learned(run, a, reply.outcome)
                     /\ UNCHANGED pc
    /\ UNCHANGED <<recordVars, statusVars, up, account, commit, report,
                   historyVars>>

\* How many of a plan's adds an abandoned group counts as settled.
SettledCount(tally) ==
    tally["Applied"] + tally["AlreadyConverged"] + tally["SkippedExampleEmail"]
    + tally["SkippedDryRun"] + tally["NoGoogleAccount"]
    + tally["AddressNotFound"]

\* Leaves out the removals that were not made.
AbandonedOutcomeAddsOnly(j) ==
    [planned      |-> Cardinality(j.plan.adds) + Cardinality(j.plan.removes),
     applied      |-> j.tally["Applied"],
     converged    |-> j.tally["AlreadyConverged"],
     skipped      |-> j.tally["SkippedExampleEmail"] + j.tally["SkippedDryRun"],
     unmirrorable |-> j.tally["NoGoogleAccount"] + j.tally["AddressNotFound"],
     refused      |-> j.plan.refused,
     failed       |-> Cardinality(j.plan.adds) - SettledCount(j.tally)]

AbandonedOutcome(j) ==
    [planned      |-> Cardinality(j.plan.adds) + Cardinality(j.plan.removes),
     applied      |-> j.tally["Applied"],
     converged    |-> j.tally["AlreadyConverged"],
     skipped      |-> j.tally["SkippedExampleEmail"] + j.tally["SkippedDryRun"],
     unmirrorable |-> j.tally["NoGoogleAccount"] + j.tally["AddressNotFound"],
     refused      |-> j.plan.refused,
     failed       |-> Cardinality(j.plan.adds) - SettledCount(j.tally)
                      + Cardinality(j.plan.removes)]

\* The group is left as it is, and what it refused is dropped.
Abandon ==
    /\ pc' = "groups"
    /\ job' = NoJob
    /\ run' = [run EXCEPT !.todo = @ \ {job.group},
                          !.outcome[job.group] = AbandonedOutcome(job)]

AskPresence ==
    /\ pc = "asking"
    /\ \E a \in FirstOf(job.adds), p \in {"Present", "Gone", "Unknown"} :
       LET asked == [job EXCEPT !.presence = p]
       IN  /\ PresenceAnswered(job.group, p)
           /\ \/ p = "Gone" /\ Abandon
              \/ /\ p = "Unknown"
                 /\ pc' = "adding"
                 /\ job' = Unreadable(asked, a)
                 /\ UNCHANGED run
              \/ /\ p = "Present"
                 /\ pc' = "adding"
                 /\ job' = Settled(asked, a, "AddressNotFound")
                 /\ run' = Learned(run, a, "AddressNotFound")
    /\ UNCHANGED <<recordVars, statusVars, googleVars, commit, report,
                   historyVars>>

\* Never asks again: trusts the answer the first 404 got.
DoubtfulNever(found) == FALSE

\* A refusal that may have been about the group and not about the address.
Doubtful(found) == \E r \in found : r.outcome = "AddressNotFound"

BelieveRefusals ==
    /\ run' = [run EXCEPT !.refusals = @ \cup job.found]
    /\ pc' = "removing"

AddsSettled ==
    /\ pc = "adding"
    /\ job.adds = {}
    /\ ~Doubtful(job.found)
    /\ BelieveRefusals
    /\ UNCHANGED <<recordVars, statusVars, googleVars, job, commit, report,
                   historyVars, left>>

AskPresenceAgain ==
    /\ pc = "adding"
    /\ job.adds = {}
    /\ Doubtful(job.found)
    /\ \E p \in {"Present", "Gone", "Unknown"} :
         /\ PresenceAnswered(job.group, p)
         /\ IF p = "Present"
            THEN BelieveRefusals /\ job' = [job EXCEPT !.presence = p]
            ELSE Abandon
    /\ UNCHANGED <<recordVars, statusVars, googleVars, commit, report,
                   historyVars>>

SendRemove ==
    /\ pc = "removing"
    /\ \E a \in job.removes :
         LET g       == job.group
             replies == Gated(a, DeleteReplies(g, a))
         IN  \E reply \in replies.sound \cup replies.faulty :
               /\ Answered(replies, reply)
               /\ entries' = IF reply.landed
                             THEN [entries EXCEPT ![g][a] = "absent"]
                             ELSE entries
               /\ job' = [job EXCEPT
                            !.removes = @ \ {a},
                            !.tally   = Tallied(@, reply.outcome),
                            !.removesConverged =
                                IF reply.outcome = "AlreadyConverged"
                                THEN @ + 1 ELSE @]
    /\ UNCHANGED <<recordVars, statusVars, up, account, pc, run, commit, report,
                   historyVars>>

SettledOutcome(j) ==
    [planned      |-> Cardinality(j.plan.adds) + Cardinality(j.plan.removes),
     applied      |-> j.tally["Applied"],
     converged    |-> j.tally["AlreadyConverged"],
     skipped      |-> j.tally["SkippedExampleEmail"] + j.tally["SkippedDryRun"],
     unmirrorable |-> j.tally["NoGoogleAccount"] + j.tally["AddressNotFound"],
     refused      |-> j.plan.refused,
     failed       |-> j.tally["Failed"]]

\* The group that converged with nothing because it is gone.
MissingOutcome(j) ==
    [planned      |-> Cardinality(j.plan.adds) + Cardinality(j.plan.removes),
     applied      |-> 0,
     converged    |-> 0,
     skipped      |-> j.tally["SkippedExampleEmail"] + j.tally["SkippedDryRun"],
     unmirrorable |-> 0,
     refused      |-> j.plan.refused,
     failed       |-> Cardinality(j.plan.removes)]

\* Every removal answered "already gone", and nothing proved the group alive.
LooksDeleted(j) ==
    /\ j.plan.removes # {}
    /\ j.removesConverged = Cardinality(j.plan.removes)
    /\ j.tally["Applied"] = 0

FinishGroup ==
    /\ pc = "removing"
    /\ job.removes = {}
    /\ \E p \in {"Present", "Gone", "Unknown"} :
         /\ IF LooksDeleted(job)
            THEN PresenceAnswered(job.group, p)
            ELSE p = "Present" /\ UNCHANGED left
         /\ run' = [run EXCEPT
                      !.todo = @ \ {job.group},
                      !.outcome[job.group] =
                          IF p = "Gone" THEN MissingOutcome(job)
                                        ELSE SettledOutcome(job)]
    /\ pc' = "groups"
    /\ job' = NoJob
    /\ UNCHANGED <<recordVars, statusVars, googleVars, commit, report,
                   historyVars>>

-----------------------------------------------------------------------------
(* The run's close: what it learned is written down.                        *)

\* Counts only the refusals this run had never seen, so a retry is not news.
News(refusals, known) == {r \in refusals : r.address \notin known}

RefusalFuseOff(bootstrapped, refusals, known) == FALSE

RefusalFuse(bootstrapped, refusals, known) ==
    /\ bootstrapped
    /\ Cardinality(News(refusals, known)) > RefusalFuseCeiling

ToRemember == run.accepted \ run.snap.accepted

StartCommit ==
    /\ pc = "groups"
    /\ run.todo = {}
    /\ ~run.mode.dryRun
    /\ LET blown == RefusalFuse(learned, run.refusals, Lapsed(run.snap))
       IN  /\ pc' = IF blown THEN "remembering" ELSE "recording"
           /\ commit' = [NoCommit EXCEPT
                           !.armed = learned,
                           !.fuseRefused = blown,
                           !.unwritten = IF blown THEN {} ELSE run.refusals,
                           !.unremembered = IF blown THEN ToRemember ELSE {}]
    /\ UNCHANGED <<recordVars, statusVars, googleVars, run, job, report,
                   historyVars, left>>

\* _remember_refusal: a write that fails is counted by its absence.
WriteRefusal ==
    /\ pc = "recording"
    /\ \E r \in commit.unwritten :
         \/ /\ statuses' = RecordRefused(statuses, r.address)
            /\ commit' = [commit EXCEPT !.unwritten = @ \ {r},
                                        !.recorded = @ + 1]
            /\ UNCHANGED left
         \/ /\ Spend("fault")
            /\ commit' = [commit EXCEPT !.unwritten = @ \ {r}]
            /\ UNCHANGED statuses
    /\ UNCHANGED <<recordVars, learned, googleVars, pc, run, job, report,
                   historyVars>>

MarkLearned ==
    /\ pc = "recording"
    /\ commit.unwritten = {}
    /\ pc' = "remembering"
    /\ learned' = (learned \/ commit.recorded > 0)
    /\ commit' = [commit EXCEPT !.unremembered = ToRemember]
    /\ UNCHANGED <<recordVars, statuses, googleVars, run, job, report,
                   historyVars, left>>

\* remember_accepted: best effort.
RememberAccepted ==
    /\ pc = "remembering"
    /\ \E a \in commit.unremembered :
         /\ \/ statuses' = RecordAccepted(statuses, a) /\ UNCHANGED left
            \/ Spend("fault") /\ UNCHANGED statuses
         /\ commit' = [commit EXCEPT !.unremembered = @ \ {a}]
    /\ UNCHANGED <<recordVars, learned, googleVars, pc, run, job, report,
                   historyVars>>

\* Does not count what the removal fuse refused.
HasFailuresIgnoringFuse ==
    \/ commit.fuseRefused
    \/ commit.recorded < Cardinality(run.refusals)
    \/ \E g \in Group : run.outcome[g].failed > 0

\* SweepReport.has_failures
HasFailures ==
    \/ commit.fuseRefused
    \/ commit.recorded < Cardinality(run.refusals)
    \/ \E g \in Group : run.outcome[g].failed > 0 \/ run.outcome[g].refused > 0

EndRun ==
    /\ pc = "remembering"
    /\ commit.unremembered = {}
    /\ Stop(IF HasFailures THEN "red" ELSE "green")
    /\ UNCHANGED <<recordVars, statusVars, googleVars, left>>

\* A rehearsal writes nothing: commit_refusals returns early and
\* remember_accepted is not reached.
EndDryRun ==
    /\ pc = "groups"
    /\ run.todo = {}
    /\ run.mode.dryRun
    /\ Stop(IF HasFailures THEN "red" ELSE "green")
    /\ UNCHANGED <<recordVars, statusVars, googleVars, left>>

\* The process is killed, or a database error ends it; the lock goes with its
\* connection and nothing else is undone.
Crash ==
    /\ pc # "idle"
    /\ Stop("raised")
    /\ Spend("crash")
    /\ UNCHANGED <<recordVars, statusVars, googleVars>>

-----------------------------------------------------------------------------
(* Everything outside the sweep (external).                                 *)

sweepVars == <<pc, run, job, commit, report>>

Elsewhere(kind) ==
    /\ Spend(kind)
    /\ calm' = FALSE
    /\ UNCHANGED sweepVars

\* The panel, a pull, a ban or a lapse moves a member in or out of a group.
RecordsChange ==
    /\ \E g \in Group, m \in Member :
         /\ audience' = [audience EXCEPT ![g] = IF m \in @ THEN @ \ {m}
                                                           ELSE @ \cup {m}]
         /\ steady' = [steady EXCEPT ![g] = @ \ {m}]
    /\ Elsewhere("records")
    /\ UNCHANGED <<row, statusVars, googleVars, sound, revived>>

\* A pull stores other addresses for a member.
RowChange ==
    /\ \E m \in Member, r \in Rows :
         /\ r[m] # row[m]
         /\ row' = [row EXCEPT ![m] = r[m]]
         /\ steady' = [g \in Group |-> steady[g] \ {m}]
    /\ Elsewhere("rows")
    /\ UNCHANGED <<audience, statusVars, googleVars, sound, revived>>

\* A panel's mirror task or a Workspace administrator edits a group.
OutsideEdit ==
    /\ \E g \in Group, a \in Address, k \in Kind :
         /\ up[g]
         /\ entries[g][a] # k
         /\ k # "absent" => account[a] = "held"
         /\ entries' = [entries EXCEPT ![g][a] = k]
    /\ Elsewhere("outside")
    /\ UNCHANGED <<recordVars, statusVars, up, account, steady, sound, revived>>

\* The panel's own remember_accepted.
PanelAccepts ==
    /\ \E a \in Address :
         /\ \E g \in Group : up[g] /\ entries[g][a] # "absent"
         /\ a \notin statuses.accepted
         /\ statuses' = RecordAccepted(statuses, a)
    /\ Elsewhere("panel")
    /\ UNCHANGED <<recordVars, learned, googleVars, steady, sound, revived>>

GroupDeleted ==
    /\ \E g \in Group :
         /\ up[g]
         /\ up' = [up EXCEPT ![g] = FALSE]
         /\ entries' = [entries EXCEPT ![g] = NoListing]
    /\ Elsewhere("delete")
    /\ UNCHANGED <<recordVars, statusVars, account, steady, sound, revived>>

GroupRestored ==
    /\ \E g \in Group :
         /\ ~up[g]
         /\ up' = [up EXCEPT ![g] = TRUE]
    /\ revived' = (revived \/ pc # "idle")
    /\ Elsewhere("restore")
    /\ UNCHANGED <<recordVars, statusVars, entries, account, steady, sound>>

AccountChange ==
    /\ \E a \in Address, v \in Account :
         /\ v # account[a]
         /\ account' = [account EXCEPT ![a] = v]
         /\ sound' = sound \ {a}
    /\ Elsewhere("account")
    /\ UNCHANGED <<recordVars, statusVars, up, entries, steady, revived>>

\* Ninety days pass for the refusal written first among the live ones.
RefusalLapses ==
    /\ \E a \in statuses.live :
         /\ \A b \in statuses.live : statuses.refusedAt[a] <= statuses.refusedAt[b]
         /\ statuses' = [statuses EXCEPT !.live = @ \ {a}]
    /\ calm' = FALSE
    /\ UNCHANGED <<recordVars, learned, googleVars, sweepVars, steady, sound,
                   revived, left>>

-----------------------------------------------------------------------------
SweepStep ==
    \/ ReadStatuses \/ ReadAudiences \/ ReportDesiredOnly
    \/ ListFails \/ ListAndPlan \/ RecheckPlan
    \/ OfferAdd \/ AskPresence \/ AddsSettled \/ AskPresenceAgain
    \/ SendRemove \/ FinishGroup
    \/ StartCommit \/ WriteRefusal \/ MarkLearned \/ RememberAccepted
    \/ EndRun \/ EndDryRun

Outside ==
    \/ RecordsChange \/ RowChange \/ OutsideEdit \/ PanelAccepts
    \/ GroupDeleted \/ GroupRestored \/ AccountChange \/ RefusalLapses

Init ==
    /\ audience \in Audiences
    /\ row \in Rows
    /\ statuses = NoStatuses
    /\ learned \in BOOLEAN
    /\ up = [g \in Group |-> TRUE]
    /\ entries \in Listings
    /\ account \in Verdicts
    /\ pc = "idle"
    /\ run = NoRun
    /\ job = NoJob
    /\ commit = NoCommit
    /\ report = "none"
    /\ steady = [g \in Group |-> {}]
    /\ sound = {}
    /\ revived = FALSE
    /\ calm = FALSE
    /\ left \in Bounds

Next ==
    \/ TimerStarts \/ OperatorStarts \/ SweepStep \/ PullUnsafe \/ Crash
    \/ Outside

Spec == Init /\ [][Next]_vars

\* The timer fires again and again, a run that is not killed goes on, and time
\* passes.
FairSpec ==
    Spec /\ WF_vars(TimerStarts) /\ WF_vars(SweepStep) /\ WF_vars(RefusalLapses)
-----------------------------------------------------------------------------
(* Types. *)

IsRun(r) ==
    /\ r = [mode |-> r.mode, snap |-> r.snap, wanted |-> r.wanted,
            todo |-> r.todo, unmirrorable |-> r.unmirrorable,
            lapsed |-> r.lapsed, slots |-> r.slots, refusals |-> r.refusals,
            accepted |-> r.accepted, outcome |-> r.outcome]
    /\ r.mode \in Mode
    /\ IsStatuses(r.snap)
    /\ r.wanted \in [Group -> SUBSET Address]
    /\ r.todo \subseteq Group
    /\ r.unmirrorable \subseteq Address
    /\ r.lapsed \subseteq Address
    /\ r.slots \in Int
    /\ r.refusals \subseteq Refusal
    /\ r.accepted \subseteq Address
    /\ r.outcome \in [Group -> Outcome]

IsJob(j) ==
    /\ j = [group |-> j.group, actual |-> j.actual, plan |-> j.plan,
            adds |-> j.adds, removes |-> j.removes, tally |-> j.tally,
            presence |-> j.presence, found |-> j.found,
            removesConverged |-> j.removesConverged]
    /\ j.group \in Group \cup {0}
    /\ j.actual \in Listing
    /\ j.plan \in GroupPlan
    /\ j.adds \subseteq Address
    /\ j.removes \subseteq Address
    /\ j.tally \in Tally
    /\ j.presence \in {"Unasked", "Present", "Gone", "Unknown"}
    /\ j.found \subseteq Refusal
    /\ j.removesConverged \in Nat

Commit == [armed : BOOLEAN, unwritten : SUBSET Refusal,
           unremembered : SUBSET Address, recorded : Nat,
           fuseRefused : BOOLEAN]

TypeOK ==
    /\ audience \in [Group -> SUBSET Member]
    /\ row \in [Member -> SyncAddresses]
    /\ IsStatuses(statuses)
    /\ learned \in BOOLEAN
    /\ up \in [Group -> BOOLEAN]
    /\ entries \in [Group -> Listing]
    /\ account \in [Address -> Account]
    /\ pc \in {"idle", "pull", "audiences", "groups", "recheck", "adding",
               "asking", "removing", "recording", "remembering"}
    /\ IsRun(run)
    /\ IsJob(job)
    /\ commit \in Commit
    /\ report \in {"none", "green", "red", "raised"}
    /\ steady \in [Group -> SUBSET Member]
    /\ sound \subseteq Address
    /\ revived \in BOOLEAN
    /\ calm \in BOOLEAN
    /\ left \in [BoundKind -> Nat]
=============================================================================

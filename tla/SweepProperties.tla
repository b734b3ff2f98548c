--------------------------- MODULE SweepProperties ---------------------------
(***************************************************************************)
(* What the reconcile sweep promises, over the behaviours of Sweep.        *)
(***************************************************************************)
EXTENDS Sweep

GroupLeft == pc \in {"asking", "adding", "removing"} /\ pc' = "groups"
Abandoned == pc \in {"asking", "adding"} /\ pc' = "groups"
RunEnded  == pc = "remembering" /\ pc' = "idle" /\ report' # "raised"

-----------------------------------------------------------------------------
(* Invariants. *)

\* A run meets each refused address once, not once per group it is wanted in
\* (reconcile.py, the comment on `unmirrorable` in _sweep_locked): no two of the
\* refusals it holds are of the same address, whichever groups they came from.
RefusalMetOnce ==
    \A r1, r2 \in run.refusals \cup job.found :
        r1.address = r2.address => r1 = r2

\* A member the records have wanted in a group ever since the recheck, at the
\* same addresses, is never about to be removed from it (plan_group, _recheck):
\* what a panel write or a pull changed before the recheck is honoured.
DesiredSinceRecheckKept ==
    pc = "removing" =>
        job.removes \cap DesiredOf({row[m] : m \in steady[job.group]}, run.snap)
            = {}

\* An address Google has held throughout the run is not believed refused, so its
\* member is not withheld from every group for a season because one group was
\* deleted under the sweep (_apply's two questions about the group's presence).
\* The one exception is a group that came back during the run: it can be there
\* at both questions and away in between.
GoodAddressNotWrittenOff ==
    ~revived => \A r \in run.refusals : r.address \notin sound

\* One run asks Google again about at most RETRIES_PER_RUN lapsed refusals, over
\* all of its groups, and what it withholds it does not offer (plan_group's retry
\* slots, spent group by group in _sweep_locked).
RetryAllowance ==
    pc \notin {"idle", "pull", "audiences"} =>
        /\ Cardinality(Lapsed(run.snap) \ run.lapsed) <= RetriesPerRun
        /\ job.adds \cap run.lapsed = {}

\* Once the standing cohort has been learned, no run marks more than
\* REFUSAL_FUSE_CEILING addresses refused that were not when it began
\* (commit_refusals): beyond it nothing at all is written.
ArmedRunLearnsLittle ==
    pc \in {"recording", "remembering"} /\ commit.armed =>
        Cardinality(DOMAIN statuses.refusedAt \ DOMAIN run.snap.refusedAt)
            <= RefusalFuseCeiling

-----------------------------------------------------------------------------
(* Action properties. *)

\* Every planned change is in exactly one column of its group's outcome, also
\* when the group is abandoned half way (_abandoned's arithmetic).  The one
\* report that drops columns is that of a group found gone, which is red.
EveryPlannedChangeReported ==
    [][GroupLeft =>
        LET o == run'.outcome[job.group]
        IN  \/ o.applied + o.converged + o.skipped + o.unmirrorable + o.failed
                 = o.planned
            \/ ~up[job.group] /\ o.failed > 0]_vars

\* A green run means that Google and the records agree: when nothing outside the
\* sweep happened during the run, every member the records want is in the group
\* unless Google refuses the address or its retry waits for a slot, and no plain
\* member is there whom the records do not want (has_failures).
GreenMeansMirrored ==
    [][(RunEnded /\ report' = "green" /\ calm) =>
        \A g \in Group :
            /\ \A m \in audience[g] :
                 LET a == SyncTarget(row[m], run.snap)
                 IN  \/ a \in Example
                     \/ entries[g][a] # "absent"
                     \/ a \in run.unmirrorable \cup run.lapsed
            /\ \A a \in Address \ Example :
                 entries[g][a] = "member" =>
                     \E m \in audience[g] : SyncTarget(row[m], run.snap) = a]_vars

-----------------------------------------------------------------------------
(* Liveness. *)

\* Mirrored as far as Google allows: every wanted member one of whose addresses
\* Google holds is in the group, and every plain member is a wanted member's.
Converged ==
    \A g \in Group :
        /\ \A m \in audience[g] :
             row[m].email \in Example
             \/ (\A a \in CandidateSet(row[m]) : account[a] # "held")
             \/ (\E a \in CandidateSet(row[m]) : entries[g][a] # "absent")
        /\ \A a \in Address \ Example :
             entries[g][a] = "member" =>
                 \E m \in audience[g] : a \in CandidateSet(row[m])

\* Runs converge: once the failures, the crashes and the changes outside stop,
\* the four-hourly runs bring every group to the records and keep it there,
\* working through a member's other address when Google refuses the first.
EventuallyConverged == <>[]Converged

-----------------------------------------------------------------------------
(* What the source says of itself and the code does not do: TLC refutes each.  *)

\* _abandoned: everything left undone is counted as failed, and "that is what
\* makes the run red".
AbandonedTurnsRunRed ==
    [][Abandoned => run'.outcome[job.group].failed > 0]_vars

\* _abandoned: "Nothing this group refused is carried out of here".
NothingCarriedOutOfAbandoned ==
    [][Abandoned => \A r \in job.found : r.address \notin run'.unmirrorable]_vars

\* _sweep_locked: "an address accepted in one group outranks a refusal met for
\* it in another".
AcceptedOutranksRefusal ==
    [][RunEnded => run.accepted \subseteq statuses.accepted]_vars

\* plan_group: "owners, managers, and nested groups are structurally
\* untouchable".
ProtectedNeverSwept ==
    [][(pc = "removing" /\ job'.removes # job.removes) =>
        \A a \in Address : entries[job.group][a] = "protected" =>
            pc' = "groups" \/ entries'[job.group][a] = "protected"]_vars

\* _apply: "Adds first, then removes - a transient inconsistency errs toward
\* access": a wanted member listed in the group when it was planned is still
\* listed, under one of their addresses, when the sweep leaves it.
ErrsTowardAccess ==
    [][(pc = "removing" /\ pc' = "groups") =>
        \A m \in steady[job.group] :
            (\E a \in CandidateSet(row[m]) : job.actual[a] # "absent") =>
                \E a \in CandidateSet(row[m]) :
                    entries[job.group][a] # "absent"]_vars

\* GroupOutcome.unmirrorable: refusals "counted as they are received", so that
\* the alarm that reads the count cannot be quieted.
RefusalsCounted ==
    pc = "groups" =>
        \A g \in Group \ run.todo :
            Cardinality({r \in run.refusals : r.group = g})
                <= run.outcome[g].unmirrorable

-----------------------------------------------------------------------------
(* What the proofs carry from step to step besides the invariants above.      *)

Working == {"recheck", "adding", "asking", "removing"}

\* Between two groups nothing is left of the last one; while one is in hand it is
\* the group whose turn it is.
GroupInHand ==
    IF pc \in Working
    THEN job.group \in run.todo
    ELSE job = NoJob

TypeInv == TypeOK /\ GroupInHand

\* DesiredSinceRecheckKept from the recheck on, not only while removing.
KeptInv ==
    pc \in {"adding", "asking", "removing"} =>
        job.removes \cap DesiredOf({row[m] : m \in steady[job.group]}, run.snap)
            = {}

\* A run starts with no refusals, and a group's turn with none of its own.
Cleared ==
    /\ pc \in {"idle", "pull", "audiences"} => run.refusals = {}
    /\ pc = "recheck" => job.found = {}

\* Every refusal the run holds is one it withholds from then on, and it offers
\* only what it does not withhold.
MetInv ==
    /\ RefusalMetOnce
    /\ \A r \in run.refusals \cup job.found : r.address \in run.unmirrorable
    /\ pc \in {"adding", "asking"} => job.adds \cap run.unmirrorable = {}
    /\ pc = "recheck" => job.plan.adds \cap run.unmirrorable = {}

\* An address Google has held all along is in the group's found only as a 404 of
\* a group that is gone; with the group there it is not about to be one.
SoundInv ==
    /\ \A a \in sound : account[a] = "held"
    /\ ~revived =>
         /\ \A r \in run.refusals : r.address \notin sound
         /\ \A r \in job.found :
              r.address \in sound => r.outcome = "AddressNotFound" /\ ~up[job.group]
         /\ pc = "asking" /\ up[job.group] => FirstOf(job.adds) \cap sound = {}
=============================================================================

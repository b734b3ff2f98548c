------------------------ MODULE ProvisionProperties ------------------------
(***************************************************************************)
(* What provisioning promises, and what the source says of it and does not *)
(* keep.                                                                   *)
(***************************************************************************)
EXTENDS Provision

Pcs == {"idle", "sizing", "ensuring", "adopting", "labelling", "setting",
        "settling", "linking"}

Runs == [dryRun : BOOLEAN, places : SUBSET Place, todo : SUBSET Place,
         missing : SUBSET Place, armed : BOOLEAN, created : SUBSET Place,
         adopted : SUBSET Place, diverged : SUBSET Place,
         failedPlaces : SUBSET Place, failedBodies : SUBSET Body]

\* Every variable has its type (reconcile.py, _provision).
TypeOK ==
    /\ bodies \subseteq Body
    /\ link \in [Body -> Link]
    /\ marker \in BOOLEAN
    /\ group \in [Address -> Group \cup {NoGroup}]
    /\ pc \in Pcs
    /\ run \in Runs
    /\ touched \subseteq Body \cup Address
    /\ minted \subseteq Address
    /\ ours \subseteq Address
    /\ left \in [BoundKind -> Nat]

\* The run reports a failure (ProvisionReport.has_failures; a refusal over the cap
\* ends the run before this is asked).
HasFailures == run.failedPlaces # {} \/ run.failedBodies # {}

Ending == pc = "linking" /\ pc' = "idle" /\ left' = left

-----------------------------------------------------------------------------
(* Safety. *)

\* Once armed, a run mints no more groups than the cap, whatever failed before it
\* and whatever is created meanwhile; only a group that somebody deletes between
\* the sizing and its turn is minted beyond it (_tripwire_refuses).
ArmedRunMintsWithinCap ==
    run.armed => Cardinality(minted \ touched) <= Cap

\* A real run that reports no failure has linked every body it planned for, and
\* every group it planned for is there, unless somebody else changed it
\* (ProvisionReport.has_failures).
GreenMeansLinked ==
    [][(Ending /\ ~ run.dryRun /\ ~ HasFailures) =>
          /\ \A p \in run.places :
                \/ p[2] = "main" \/ p[1] \in touched \/ IsLinked(p[1])
          /\ \A p \in run.places :
                AddressOf(p) \in touched \/ group[AddressOf(p)] # NoGroup]_vars

Shared(p) == \E q \in Place \ {p} : AddressOf(q) = AddressOf(p)

\* No body is linked to a group that lacks a secure default without the run saying
\* so: not to one that a dead or failed run left half configured, and not to one
\* that was there before.  Excepted are groups changed behind the run's back and
\* addresses that two bodies' names share (_diverged, ensure).
InsecureLinkIsReported ==
    [][\A b \in Body :
          (pc = "linking" /\ run' # run /\ link'[b] # link[b]) =>
             \A p \in {b} \X {"leaders", "editors"} :
                \/ AddressOf(p) \in touched \/ Shared(p)
                \/ group[AddressOf(p)] = Secure
                \/ p \in run.diverged]_vars

-----------------------------------------------------------------------------
(* Liveness. *)

\* Some other body has an address of the body's in the same column.
Clashes(b) == LinkTaken(b, LeadersAddress[b], EditorsAddress[b])

MissingNow == {p \in Pending : group[AddressOf(p)] = NoGroup}

\* In the end every body that can be named is linked, unless its address backs
\* another body or the cap holds the whole batch back: what a failed or dead run
\* leaves behind does not keep a later one from going on (ensure, Link; _provision).
EventuallyLinked ==
    <>[]( \/ TripwireRefuses(marker, Cardinality(MissingNow))
          \/ \A b \in bodies \ Unnamable : IsLinked(b) \/ Clashes(b) )

-----------------------------------------------------------------------------
(* What the source says of itself and does not keep. *)

\* "a hand-linked body keeps its existing groups instead of being re-minted and
\* silently repointed" (reconcile.py, _is_linked): a run never changes the link of
\* a body that has one.
NeverRepointed ==
    [][run' # run => \A b \in Body : IsLinked(b) => link'[b] = link[b]]_vars

\* "mints a missing group with secure defaults" (group_sync.py, GroupProvisioner):
\* no body is linked to a group that a run minted, and nobody else changed, but
\* that is not secure.
MintedSecure ==
    [][\A b \in Body :
          (pc = "linking" /\ run' # run /\ link'[b] # link[b]) =>
             \A a \in {LeadersAddress[b], EditorsAddress[b]} \cap ours :
                group[a] = Secure]_vars

\* "An address backs exactly one body" (create_bootstrap_state.sql).
AddressBacksOneBody ==
    \A b, c \in bodies : b # c =>
       {link[b].leaders, link[b].editors} \cap {link[c].leaders, link[c].editors}
          \subseteq {NoAddress}
=============================================================================

--------------------------- MODULE ProvisionProofs ---------------------------
(***************************************************************************)
(* Provisioning for any set of bodies, any names and any cap: the types of *)
(* its variables, that an armed run mints no more than the cap, and what a *)
(* run that reports no failure has done (ReportInv).                       *)
(***************************************************************************)
EXTENDS ProvisionProperties, FiniteSetTheorems, WellFoundedInduction, TLAPS

-----------------------------------------------------------------------------
(* Places.                                                                  *)

LEMMA AddressOfType == \A p \in Place : AddressOf(p) \in Address
BY ProvisionAssumption DEF Place, AddressOf

\* Some number of a set of naturals is the least.
LEMMA LeastOf ==
    ASSUME NEW N \in SUBSET Nat, N # {}
    PROVE  \E n \in N : \A m \in N : n =< m
<1>. DEFINE below == {ss \in Nat \X Nat : ss[1] < ss[2]}
<1>1. IsWellFoundedOn(below, Nat)
  BY NatLessThanWellFounded DEF OpToRel
<1>. HIDE DEF below
<1>2. PICK n \in N : \A m \in N : ~ (<<m, n>> \in below)
  BY <1>1, WFMin
<1>3. ASSUME NEW m \in N PROVE n =< m
  <2>1. n \in Nat /\ m \in Nat
    OBVIOUS
  <2>2. m < n => <<m, n>> \in below
    BY <2>1 DEF below
  <2>. QED
    BY <1>2, <1>3, <2>1, <2>2
<1>. QED
  BY <1>3

\* A plan that is not done has a first place.
LEMMA FirstPlaceIn ==
    ASSUME NEW S \in SUBSET Place, S # {}
    PROVE  FirstPlace(S) \in S
<1>1. ASSUME NEW p \in Place PROVE p[1] \in Nat
  <2>1. p = <<0, "main">> \/ p \in Body \X {"leaders", "editors"}
    BY DEF Place
  <2>2. CASE p = <<0, "main">>
    <3>1. p[1] = 0
      BY <2>2
    <3>. QED
      BY <3>1
  <2>3. CASE p \in Body \X {"leaders", "editors"}
    <3>1. p[1] \in Body
      BY <2>3
    <3>. QED
      BY <3>1, ProvisionAssumption
  <2>. QED
    BY <2>1, <2>2, <2>3
<1>2. PICK n \in {p[1] : p \in S} : \A m \in {p[1] : p \in S} : n =< m
  <2>1. {p[1] : p \in S} \in SUBSET Nat /\ {p[1] : p \in S} # {}
    BY <1>1
  <2>. QED
    BY <2>1, LeastOf
<1>3. \A q \in S : q[1] \in Nat /\ n =< q[1] /\ n \in Nat
  BY <1>1, <1>2
<1>4. PICK o \in S : o[1] = n
  BY <1>2
<1>5. \E p \in S : \A q \in S \ {p} : Before(p, q)
  <2>1. CASE <<n, "leaders">> \in S
    <3>1. \A q \in S \ {<<n, "leaders">>} : Before(<<n, "leaders">>, q)
      BY <1>3 DEF Before
    <3>. QED
      BY <2>1, <3>1
  <2>2. CASE <<n, "leaders">> \notin S
    <3>1. \A q \in S \ {o} : q[1] # n
      <4>1. CASE n = 0
        BY <4>1, <1>4, ProvisionAssumption DEF Place
      <4>2. CASE n # 0
        BY <4>2, <2>2, <1>4 DEF Place
      <4>. QED
        BY <4>1, <4>2
    <3>2. \A q \in S \ {o} : Before(o, q)
      BY <3>1, <1>3, <1>4 DEF Before
    <3>. QED
      BY <3>2
  <2>. QED
    BY <2>1, <2>2
<1>. QED
  BY <1>5 DEF FirstPlace

-----------------------------------------------------------------------------
(* The inductive invariant.                                                 *)

Working == {"ensuring", "adopting", "labelling", "setting", "settling"}

\* Where a run is says what of its locals is set: an idle one has none, one that
\* sizes its plan is not armed and has minted nothing, and what is to do is of the
\* plan, or of the bodies that are to be linked.
Stages ==
    /\ pc = "idle" => run = NoRun /\ minted = {}
    /\ pc = "sizing" => ~ run.armed /\ minted = {}
    /\ run.missing \subseteq run.places
    /\ pc \in {"sizing"} \cup Working => run.todo \subseteq run.places
    /\ pc \in Working \ {"ensuring"} => run.todo # {}
    /\ pc = "linking" => run.todo \subseteq Body \X {"leaders"}

\* A place is known to be missing, or has its group unless somebody else changed it.
Sized(p) ==
    \/ p \in run.missing
    \/ AddressOf(p) \in touched
    \/ group[AddressOf(p)] # NoGroup

\* What was sized stays so, and only what is missing is minted.
Counted ==
    /\ pc = "sizing" => \A p \in run.places \ run.todo : Sized(p)
    /\ pc \in Working => \A p \in run.places : Sized(p)
    /\ run.armed => Cardinality(run.missing) =< Cap
    /\ minted \ touched \subseteq {AddressOf(p) : p \in run.missing}

ProvisionInv == TypeOK /\ Stages /\ Counted

LEMMA RunType == NoRun \in Runs
BY DEF NoRun, Runs

LEMMA NextPlace ==
    ASSUME TypeOK, run.todo # {}
    PROVE  Next1 \in run.todo /\ Next1 \in Place /\ AddressOf(Next1) \in Address
<1>1. run.todo \in SUBSET Place
  BY DEF TypeOK, Runs
<1>. QED
  BY <1>1, FirstPlaceIn, AddressOfType DEF Next1

LEMMA SpendType ==
    ASSUME TypeOK, NEW kind \in BoundKind, Spend(kind)
    PROVE  left' \in [BoundKind -> Nat]
BY DEF TypeOK, Spend

LEMMA InitInv == Init => ProvisionInv
<1>. SUFFICES ASSUME Init PROVE ProvisionInv
  OBVIOUS
<1>1. PICK start \in Starts : /\ bodies = start.bodies /\ link = start.link
                              /\ marker = start.marker /\ group = start.group
  BY DEF Init
<1>2. start \in World
  BY ProvisionAssumption
<1>3. TypeOK
  BY <1>1, <1>2, RunType, ProvisionAssumption DEF Init, TypeOK, World, Pcs
<1>. QED
  BY <1>3 DEF Init, ProvisionInv, Stages, Counted, NoRun, Working

-----------------------------------------------------------------------------
(* Steps that several actions share.                                        *)

\* The end of a run, however it comes.
LEMMA OverInv ==
    ASSUME TypeOK, RunOver, UNCHANGED <<bodies, link, group>>, marker' \in BOOLEAN,
           left' \in [BoundKind -> Nat]
    PROVE  ProvisionInv'
<1>1. TypeOK'
  BY RunType DEF TypeOK, RunOver, Pcs
<1>2. Stages' /\ Counted'
  BY DEF RunOver, Stages, Counted, NoRun, Working
<1>. QED
  BY <1>1, <1>2 DEF ProvisionInv

\* A step of the work on one place that keeps what the plan was sized to, destroys no
\* group, and mints one at most, where there was none.
LEMMA WorkInv ==
    ASSUME ProvisionInv, pc \in Working, run.todo # {}, pc' \in Working,
           UNCHANGED <<bodies, link, marker, touched>>,
           left' \in [BoundKind -> Nat], ours' \subseteq Address,
           group' \in [Address -> Group \cup {NoGroup}],
           \A a \in Address : group[a] # NoGroup => group'[a] # NoGroup,
           minted' \subseteq minted \cup {a \in {AddressOf(Next1)} : group[a] = NoGroup},
           run' \in Runs, run'.places = run.places, run'.missing = run.missing,
           run'.armed = run.armed, run'.todo \subseteq run.todo,
           pc' # "ensuring" => run' = run
    PROVE  ProvisionInv'
<1>. USE DEF ProvisionInv
<1>1. Next1 \in run.todo /\ AddressOf(Next1) \in Address
  BY NextPlace
<1>2. TypeOK'
  BY <1>1 DEF TypeOK, Working, Pcs
<1>3. Stages'
  BY DEF Stages, Working
<1>4. \A p \in run.places : AddressOf(p) \in Address
  BY AddressOfType DEF TypeOK, Runs
<1>5. \A p \in run.places : Sized(p) => Sized(p)'
  BY <1>4 DEF Sized
<1>6. Next1 \in run.places /\ Sized(Next1)
  BY <1>1 DEF Stages, Counted, Working
<1>7. (minted \ touched)' \subseteq {AddressOf(p) : p \in run'.missing}
  <2>1. minted \ touched \subseteq {AddressOf(p) : p \in run'.missing}
    BY DEF Counted
  <2>2. \A a \in {AddressOf(Next1)} :
           group[a] = NoGroup => a \in touched \/ a \in {AddressOf(p) : p \in run'.missing}
    BY <1>6 DEF Sized
  <2>. QED
    BY <2>1, <2>2
<1>8. Counted'
  BY <1>5, <1>7 DEF Counted, Working
<1>. QED
  BY <1>2, <1>3, <1>8

\* What became of a place changes neither the plan nor its size.
LEMMA EnsuredRun ==
    ASSUME TypeOK, run.todo # {}, NEW seen, Ensured(seen)
    PROVE  /\ run' \in Runs /\ run'.places = run.places /\ run'.missing = run.missing
           /\ run'.armed = run.armed /\ run'.todo \subseteq run.todo
           /\ pc' = "ensuring"
<1>1. Next1 \in Place
  BY NextPlace
<1>2. run \in Runs
  BY DEF TypeOK
<1>. DEFINE isNew == AddressOf(Next1) \in {AddressOf(p) : p \in run.missing}
            created == IF isNew THEN run.created \cup {Next1} ELSE run.created
            adopted == IF isNew THEN run.adopted ELSE run.adopted \cup {Next1}
            diverged == IF ~ isNew /\ Diverged(seen) THEN run.diverged \cup {Next1}
                                                     ELSE run.diverged
<1>3. /\ pc' = "ensuring"
      /\ run' = [run EXCEPT !.todo = @ \ {Next1}, !.created = created,
                            !.adopted = adopted, !.diverged = diverged]
  BY DEF Ensured
<1>4. /\ created \subseteq Place /\ adopted \subseteq Place
      /\ diverged \subseteq Place
  BY <1>1, <1>2 DEF Runs
<1>. HIDE DEF created, adopted, diverged
<1>. QED
  BY <1>2, <1>3, <1>4 DEF Runs

LEMMA FailedRun ==
    ASSUME TypeOK, run.todo # {}, EnsureFails
    PROVE  /\ run' \in Runs /\ run'.places = run.places /\ run'.missing = run.missing
           /\ run'.armed = run.armed /\ run'.todo \subseteq run.todo
           /\ pc' = "ensuring"
<1>1. Next1 \in Place
  BY NextPlace
<1>. QED
  BY <1>1 DEF EnsureFails, TypeOK, Runs

\* A call on a place that changes no group it does not hold, and mints none.
LEMMA CallInv ==
    ASSUME ProvisionInv, pc \in Working, run.todo # {},
           NEW now \in [Address -> Group \cup {NoGroup}],
           \A a \in Address : group[a] # NoGroup => now[a] # NoGroup,
           UNCHANGED <<bodies, link, marker, history>>,
           \/ EnsureFails /\ UNCHANGED <<group, left>>
           \/ CallFails(now)
           \/ (\E seen \in Group : Ensured(seen)) /\ UNCHANGED <<group, left>>
           \/ pc' \in Working /\ group' = now /\ UNCHANGED <<run, left>>
    PROVE  ProvisionInv'
<1>. USE DEF history, ProvisionInv
<1>1. CASE EnsureFails /\ UNCHANGED <<group, left>>
  BY <1>1, FailedRun, WorkInv DEF TypeOK, Working
<1>2. CASE CallFails(now)
  <2>1. "fault" \in BoundKind
    BY DEF BoundKind
  <2>. QED
    BY <1>2, <2>1, FailedRun, SpendType, WorkInv DEF TypeOK, Working, CallFails
<1>3. CASE (\E seen \in Group : Ensured(seen)) /\ UNCHANGED <<group, left>>
  BY <1>3, EnsuredRun, WorkInv DEF TypeOK, Working
<1>4. CASE pc' \in Working /\ group' = now /\ UNCHANGED <<run, left>>
  BY <1>4, WorkInv DEF TypeOK
<1>. QED
  BY <1>1, <1>2, <1>3, <1>4

-----------------------------------------------------------------------------
(* One lemma per action.                                                    *)

LEMMA StartInv ==
    ASSUME ProvisionInv, NEW dryRun \in BOOLEAN, Start(dryRun),
           left' \in [BoundKind -> Nat]
    PROVE  ProvisionInv'
<1>. USE DEF ProvisionInv
<1>1. Pending \in SUBSET Place /\ NameFailures \in SUBSET Body
  BY DEF Pending, NameFailures, Place, TypeOK
<1>2. run' = [NoRun EXCEPT !.dryRun = dryRun, !.places = Pending, !.todo = Pending,
                           !.failedBodies = NameFailures]
  BY DEF Start
<1>3. /\ run' \in Runs /\ run'.places = Pending /\ run'.todo = Pending
      /\ run'.missing = {} /\ run'.armed = FALSE
  BY <1>1, <1>2 DEF NoRun, Runs
<1>4. TypeOK'
  BY <1>3 DEF Start, TypeOK, Pcs
<1>5. Stages' /\ Counted'
  BY <1>3 DEF Start, Stages, Counted, Working
<1>. QED
  BY <1>4, <1>5

LEMMA SizeInv == ASSUME ProvisionInv, SizeNext PROVE ProvisionInv'
<1>. USE DEF ProvisionInv
<1>. DEFINE found == IF group[AddressOf(Next1)] = NoGroup
                     THEN run.missing \cup {Next1} ELSE run.missing
<1>1. CASE Spend("fault") /\ RunOver
  <2>1. "fault" \in BoundKind
    BY DEF BoundKind
  <2>. QED
    BY <1>1, <2>1, SpendType, OverInv DEF SizeNext, TypeOK
<1>2. CASE run' = [run EXCEPT !.todo = @ \ {Next1}, !.missing = found]
           /\ UNCHANGED <<pc, history, left>>
  <2>1. Next1 \in run.todo /\ Next1 \in Place /\ AddressOf(Next1) \in Address
    BY NextPlace DEF SizeNext
  <2>2. run \in Runs /\ found \subseteq Place /\ run.missing \subseteq found
    BY <2>1 DEF TypeOK, Runs
  <2>3. group[AddressOf(Next1)] = NoGroup => Next1 \in found
    OBVIOUS
  <2>4. found \subseteq run.missing \cup {Next1}
    OBVIOUS
  <2>. HIDE DEF found
  <2>5. /\ run' \in Runs /\ run'.places = run.places /\ run'.missing = found
        /\ run'.armed = run.armed /\ run'.todo = run.todo \ {Next1}
    BY <1>2, <2>2 DEF Runs
  <2>6. TypeOK'
    BY <1>2, <2>5 DEF SizeNext, TypeOK, history
  <2>7. Stages'
    BY <1>2, <2>1, <2>4, <2>5 DEF SizeNext, Stages, Working, history
  <2>8. \A p \in (run.places \ run.todo) : Sized(p) => Sized(p)'
    BY <1>2, <2>2, <2>5 DEF Sized, SizeNext, history
  <2>9. PICK n : n = Next1
    OBVIOUS
  <2>10. Sized(n)'
    BY <1>2, <2>3, <2>5, <2>9 DEF Sized, SizeNext, history
  <2>11. Counted'
    BY <1>2, <2>5, <2>8, <2>9, <2>10 DEF SizeNext, Counted, Working, Stages, history
  <2>. QED
    BY <2>6, <2>7, <2>11
<1>. QED
  BY <1>1, <1>2 DEF SizeNext

\* A plan has finitely many places.
LEMMA PlanFinite == IsFiniteSet(Place)
<1>1. IsFiniteSet({"leaders", "editors"}) /\ IsFiniteSet({<<0, "main">>})
  <2>1. {"leaders", "editors"} = {"leaders"} \cup {"editors"}
    OBVIOUS
  <2>2. IsFiniteSet({"leaders"}) /\ IsFiniteSet({"editors"}) /\ IsFiniteSet({<<0, "main">>})
    BY FS_Singleton, Zenon
  <2>3. IsFiniteSet({"leaders"} \cup {"editors"})
    BY <2>2, FS_Union
  <2>. QED
    BY <2>1, <2>2, <2>3, Zenon
<1>2. IsFiniteSet(Body \X {"leaders", "editors"})
  BY <1>1, FS_Product, ProvisionAssumption
<1>. QED
  BY <1>1, <1>2, FS_Union DEF Place

\* The one place where a run is armed, and where it is stopped if it is to mint more
\* than the cap.
LEMMA JudgeInv == ASSUME ProvisionInv, JudgePlan PROVE ProvisionInv'
<1>. USE DEF ProvisionInv
<1>1. CASE TripwireRefuses(marker, Cardinality(run.missing))
  BY <1>1, OverInv DEF JudgePlan, TypeOK
<1>2. CASE ~ TripwireRefuses(marker, Cardinality(run.missing))
  <2>1. run \in Runs /\ marker \in BOOLEAN
    BY DEF TypeOK
  <2>2. run' = [run EXCEPT !.armed = marker, !.todo = run.places]
    BY <1>2 DEF JudgePlan
  <2>3. /\ run' \in Runs /\ run'.places = run.places /\ run'.missing = run.missing
        /\ run'.armed = marker /\ run'.todo = run.places
    BY <2>1, <2>2 DEF Runs
  <2>4. Cardinality(run.missing) \in Nat
    BY <2>1, PlanFinite, FS_Subset, FS_CardinalityType DEF Runs
  <2>5. marker => Cardinality(run.missing) =< Cap
    BY <1>2, <2>4, ProvisionAssumption DEF TripwireRefuses
  <2>6. TypeOK'
    BY <1>2, <2>3 DEF JudgePlan, TypeOK, history, Pcs
  <2>7. Stages'
    BY <1>2, <2>3 DEF JudgePlan, Stages, Working, history
  <2>8. \A p \in run.places : Sized(p)'
    BY <1>2, <2>3 DEF JudgePlan, Counted, Sized, history
  <2>9. Counted'
    BY <1>2, <2>3, <2>5, <2>8 DEF JudgePlan, Counted, Working, Stages, history
  <2>. QED
    BY <2>6, <2>7, <2>9
<1>. QED
  BY <1>1, <1>2

LEMMA RehearseInv == ASSUME ProvisionInv, Rehearse PROVE ProvisionInv'
BY EnsuredRun, WorkInv DEF Rehearse, ProvisionInv, TypeOK, Working, history

LEMMA CreateInv == ASSUME ProvisionInv, CreateGroup PROVE ProvisionInv'
<1>. USE DEF ProvisionInv
<1>1. pc \in Working /\ run.todo # {} /\ UNCHANGED <<bodies, link, marker, touched>>
  BY DEF CreateGroup, Working
<1>2. AddressOf(Next1) \in Address
  BY <1>1, NextPlace
<1>3. /\ Made \in [Address -> Group \cup {NoGroup}]
      /\ \A a \in Address : group[a] # NoGroup => Made[a] # NoGroup
      /\ group \in [Address -> Group \cup {NoGroup}]
  <2>1. Bare \in Group /\ Bare # NoGroup /\ group \in [Address -> Group \cup {NoGroup}]
    <3>1. Bare \in Group
      BY DEF Bare, Group
    <3>2. NoGroup \notin Group
      BY ProvisionAssumption
    <3>. QED
      BY <3>1, <3>2 DEF TypeOK
  <2>. QED
    BY <1>2, <2>1 DEF Made
<1>4. CASE group[AddressOf(Next1)] # NoGroup
  BY <1>1, <1>3, <1>4, CallInv DEF CreateGroup, Working, history
<1>5. CASE group[AddressOf(Next1)] = NoGroup
  <2>. DEFINE new == {a \in {AddressOf(Next1)} : group'[a] # NoGroup}
  <2>1. minted' = minted \cup new /\ ours' = ours \cup new
    BY <1>5 DEF CreateGroup
  <2>2. new \subseteq {a \in {AddressOf(Next1)} : group[a] = NoGroup}
    BY <1>5
  <2>3. /\ ours' \subseteq Address
        /\ minted' \subseteq minted \cup {a \in {AddressOf(Next1)} : group[a] = NoGroup}
    BY <1>2, <2>1, <2>2 DEF TypeOK
  <2>. HIDE DEF new
  <2>4. CASE pc' = "labelling" /\ group' = Made /\ UNCHANGED <<run, left>>
    BY <1>1, <1>3, <2>3, <2>4, WorkInv DEF TypeOK, Working
  <2>5. CASE CallFails(Made)
    <3>1. "fault" \in BoundKind
      BY DEF BoundKind
    <3>. QED
      BY <1>1, <1>3, <2>3, <2>5, <3>1, FailedRun, SpendType, WorkInv
         DEF TypeOK, Working, CallFails
  <2>. QED
    BY <1>5, <2>4, <2>5 DEF CreateGroup
<1>. QED
  BY <1>4, <1>5

LEMMA AdoptInv == ASSUME ProvisionInv, Adopt PROVE ProvisionInv'
<1>. USE DEF ProvisionInv
<1>1. pc \in Working /\ run.todo # {}
  BY DEF Adopt, Working, Stages
<1>2. AddressOf(Next1) \in Address /\ group \in [Address -> Group \cup {NoGroup}]
  BY <1>1, NextPlace DEF TypeOK
<1>3. Adoptable(AddressOf(Next1)) => group[AddressOf(Next1)] \in Group
  BY <1>2 DEF Adoptable
<1>. QED
  BY <1>1, <1>2, <1>3, CallInv DEF Adopt

LEMMA PatchInv ==
    ASSUME ProvisionInv, pc \in Working, run.todo # {},
           NEW part \in {"labels", "settings"}, NEW next \in Working, Patch(part, next)
    PROVE  ProvisionInv'
<1>. USE DEF ProvisionInv
<1>1. AddressOf(Next1) \in Address /\ group \in [Address -> Group \cup {NoGroup}]
  BY NextPlace DEF TypeOK
<1>2. CASE group[AddressOf(Next1)] = NoGroup
  BY <1>1, <1>2, CallInv DEF Patch
<1>3. CASE group[AddressOf(Next1)] # NoGroup
  <2>. DEFINE a == AddressOf(Next1)
              now == [group EXCEPT ![a][part] = TRUE]
  <2>1. group[a] \in Group
    BY <1>1, <1>3
  <2>2. [group[a] EXCEPT ![part] = TRUE] \in Group
    BY <2>1 DEF Group
  <2>3. now = [group EXCEPT ![a] = [group[a] EXCEPT ![part] = TRUE]]
    OBVIOUS
  <2>4. /\ now \in [Address -> Group \cup {NoGroup}]
        /\ \A b \in Address : group[b] # NoGroup => now[b] # NoGroup
    BY <1>1, <2>2, <2>3, ProvisionAssumption
  <2>5. /\ \/ pc' = next /\ group' = now /\ UNCHANGED <<run, left>>
           \/ CallFails(now)
        /\ UNCHANGED <<bodies, link, marker, history>>
    BY <1>3 DEF Patch
  <2>. HIDE DEF now
  <2>. QED
    BY <2>4, <2>5, CallInv
<1>. QED
  BY <1>2, <1>3

LEMMA SettleInv == ASSUME ProvisionInv, Settle PROVE ProvisionInv'
<1>. USE DEF ProvisionInv
<1>1. pc \in Working /\ run.todo # {}
  BY DEF Settle, Working, Stages
<1>2. group \in [Address -> Group \cup {NoGroup}] /\ Secure \in Group
  BY DEF TypeOK, Secure, Group
<1>. QED
  BY <1>1, <1>2, CallInv DEF Settle

LEMMA StartLinkingInv == ASSUME ProvisionInv, StartLinking PROVE ProvisionInv'
<1>. USE DEF ProvisionInv
<1>1. BodiesToLink \subseteq Body
  <2>1. ASSUME NEW q \in Resolved, q[2] # "main" PROVE q[1] \in Body
    <3>1. q \in Place
      BY DEF Resolved, TypeOK, Runs
    <3>2. q # <<0, "main">>
      BY <2>1
    <3>. QED
      BY <3>1, <3>2 DEF Place
  <2>. QED
    BY <2>1 DEF BodiesToLink
<1>2. BodiesToLink \X {"leaders"} \subseteq Body \X {"leaders"}
      /\ BodiesToLink \X {"leaders"} \in SUBSET Place
  BY <1>1 DEF Place
<1>3. run' = [run EXCEPT !.todo = BodiesToLink \X {"leaders"}] /\ run \in Runs
  BY DEF StartLinking, TypeOK
<1>4. /\ run' \in Runs /\ run'.places = run.places /\ run'.missing = run.missing
      /\ run'.armed = run.armed /\ run'.todo = BodiesToLink \X {"leaders"}
  BY <1>2, <1>3 DEF Runs
<1>5. TypeOK'
  BY <1>4 DEF StartLinking, TypeOK, Pcs, history
<1>6. Stages' /\ Counted'
  BY <1>2, <1>4 DEF StartLinking, Stages, Counted, Working, history
<1>. QED
  BY <1>5, <1>6

LEMMA LinkBodyInv == ASSUME ProvisionInv, LinkBody PROVE ProvisionInv'
<1>. USE DEF ProvisionInv
<1>. DEFINE b == Next1[1]
<1>1. Next1 \in run.todo
  BY NextPlace DEF LinkBody
<1>2. b \in Body
  BY <1>1 DEF LinkBody, Stages
<1>3. run' = BodyDone(b) \/ run' = BodyFails(b)
  BY DEF LinkBody
<1>4. link' = link \/ link' = Relinked(b, LeadersAddress[b], EditorsAddress[b])
  BY DEF LinkBody
<1>5. run \in Runs
  BY DEF TypeOK
<1>6. /\ run' \in Runs /\ run'.places = run.places /\ run'.missing = run.missing
      /\ run'.armed = run.armed /\ run'.todo \subseteq run.todo
  <2>. HIDE DEF b
  <2>1. CASE run' = BodyDone(b)
    BY <1>5, <2>1 DEF BodyDone, Runs
  <2>2. CASE run' = BodyFails(b)
    BY <1>2, <1>5, <2>2 DEF BodyFails, Runs
  <2>. QED
    BY <1>3, <2>1, <2>2
<1>7. link' \in [Body -> Link]
  BY <1>2, <1>4, ProvisionAssumption DEF Relinked, Link, TypeOK
<1>8. TypeOK'
  BY <1>6, <1>7 DEF LinkBody, TypeOK, history
<1>9. Stages' /\ Counted'
  BY <1>6 DEF LinkBody, Stages, Counted, Working, history
<1>. QED
  BY <1>8, <1>9

LEMMA EndInv == ASSUME ProvisionInv, EndRun PROVE ProvisionInv'
BY OverInv DEF EndRun, ProvisionInv, TypeOK, Arms

LEMMA CrashInv == ASSUME ProvisionInv, Crash PROVE ProvisionInv'
<1>1. "crash" \in BoundKind
  BY DEF BoundKind
<1>. QED
  BY <1>1, OverInv, SpendType DEF Crash, ProvisionInv, TypeOK

\* What others do is noted before it can be taken for the run's.
LEMMA OutsideInv ==
    ASSUME ProvisionInv, Outside
    PROVE  ProvisionInv'
<1>. USE DEF ProvisionInv
<1>1. {"body", "link", "outside"} \subseteq BoundKind
  BY DEF BoundKind
<1>2. CASE PullAddsBody
  <2>1. TypeOK'
    BY <1>1, <1>2, SpendType DEF PullAddsBody, TypeOK, history
  <2>2. Stages' /\ Counted'
    BY <1>2 DEF PullAddsBody, Stages, Counted, Sized, Working, history
  <2>. QED
    BY <2>1, <2>2
<1>3. CASE OperatorLinks \/ OperatorUnlinks
  <2>1. PICK b \in bodies, l \in Address \cup {NoAddress}, e \in Address \cup {NoAddress} :
           link' = Relinked(b, l, e) /\ Touch(b)
    <3>1. CASE OperatorLinks
      <4>1. PICK b \in bodies, pair \in HandLinks :
               link' = Relinked(b, pair[1], pair[2]) /\ Touch(b)
        BY <3>1 DEF OperatorLinks
      <4>2. pair[1] \in Address /\ pair[2] \in Address
        BY ProvisionAssumption
      <4>. QED
        BY <4>1, <4>2
    <3>2. CASE OperatorUnlinks
      BY <3>2 DEF OperatorUnlinks
    <3>. QED
      BY <1>3, <3>1, <3>2
  <2>2. UNCHANGED <<bodies, marker, group, pc, run, minted, ours>> /\ Spend("link")
    BY <1>3 DEF OperatorLinks, OperatorUnlinks
  <2>3. b \in Body
    BY DEF TypeOK
  <2>4. link' \in [Body -> Link]
    BY <2>1, <2>3 DEF Relinked, Link, TypeOK
  <2>5. touched' \subseteq Body \cup Address
        /\ (pc # "idle" => touched \subseteq touched')
    BY <2>1, <2>3 DEF Touch, TypeOK
  <2>6. TypeOK'
    BY <1>1, <2>2, <2>4, <2>5, SpendType DEF TypeOK
  <2>7. Stages'
    BY <2>2 DEF Stages, Working
  <2>8. Counted'
    BY <2>2, <2>5 DEF Stages, Counted, Sized, Working, NoRun
  <2>. QED
    BY <2>6, <2>7, <2>8
<1>4. CASE OutsideEdit
  <2>1. PICK a \in Address, now \in Group \cup {NoGroup} :
           /\ group' = [group EXCEPT ![a] = now] /\ Touch(a) /\ ours' = ours \ {a}
    BY <1>4 DEF OutsideEdit
  <2>2. UNCHANGED <<bodies, link, marker, pc, run, minted>> /\ Spend("outside")
    BY <1>4 DEF OutsideEdit
  <2>3. touched' \subseteq Body \cup Address
        /\ (pc # "idle" => touched \cup {a} \subseteq touched')
    BY <2>1 DEF Touch, TypeOK
  <2>4. TypeOK'
    BY <1>1, <2>1, <2>2, <2>3, SpendType DEF TypeOK
  <2>5. Stages'
    BY <2>2 DEF Stages, Working
  <2>6. \A c \in Address : group'[c] = group[c] \/ c = a
    BY <2>1 DEF TypeOK
  <2>7. \A p \in run.places : AddressOf(p) \in Address
    BY AddressOfType DEF TypeOK, Runs
  <2>8. pc # "idle" => \A p \in run.places : Sized(p) => Sized(p)'
    BY <2>2, <2>3, <2>6, <2>7 DEF Sized
  <2>9. (minted \ touched)' \subseteq {AddressOf(p) : p \in run'.missing}
    <3>1. CASE pc = "idle"
      BY <2>2, <3>1 DEF Stages
    <3>2. CASE pc # "idle"
      BY <2>2, <2>3, <3>2 DEF Counted
    <3>. QED
      BY <3>1, <3>2
  <2>10. Counted'
    BY <2>2, <2>8, <2>9 DEF Counted, Working
  <2>. QED
    BY <2>4, <2>5, <2>10
<1>. QED
  BY <1>2, <1>3, <1>4 DEF Outside

-----------------------------------------------------------------------------
(* The theorems.                                                            *)

LEMMA ProvisionStep == ProvisionInv /\ [Next]_vars => ProvisionInv'
<1>. SUFFICES ASSUME ProvisionInv, [Next]_vars PROVE ProvisionInv'
  OBVIOUS
<1>1. CASE UNCHANGED vars
  <2>1. TypeOK'
    BY <1>1 DEF vars, ProvisionInv, TypeOK
  <2>2. Stages' /\ Counted'
    BY <1>1 DEF vars, ProvisionInv, Stages, Counted, Sized
  <2>. QED
    BY <2>1, <2>2 DEF ProvisionInv
<1>2. CASE TimerStarts
  BY <1>2, StartInv DEF TimerStarts, ProvisionInv, TypeOK
<1>3. CASE OperatorRehearses
  <2>1. "rehearsal" \in BoundKind
    BY DEF BoundKind
  <2>. QED
    BY <1>3, <2>1, StartInv, SpendType DEF OperatorRehearses, ProvisionInv
<1>4. CASE RunStep
  <2>1. CASE PatchLabels
    BY <2>1, PatchInv DEF PatchLabels, ProvisionInv, Stages, Working
  <2>2. CASE PatchSettings
    BY <2>2, PatchInv DEF PatchSettings, ProvisionInv, Stages, Working
  <2>. QED
    BY <1>4, <2>1, <2>2, SizeInv, JudgeInv, RehearseInv, CreateInv, AdoptInv, SettleInv,
       StartLinkingInv, LinkBodyInv, EndInv DEF RunStep
<1>. QED
  BY <1>1, <1>2, <1>3, <1>4, CrashInv, OutsideInv DEF Next

LEMMA InvCorrect == Spec => []ProvisionInv
BY InitInv, ProvisionStep, PTL DEF Spec

\* Every variable keeps its type, for any bodies and names (reconcile.py, _provision).
THEOREM TypeCorrect == Spec => []TypeOK
<1>1. ProvisionInv => TypeOK
  BY DEF ProvisionInv
<1>. QED
  BY <1>1, InvCorrect, PTL

\* The groups a run has minted are no more than the places it found missing.
LEMMA MintedBound ==
    ASSUME ProvisionInv, run.armed
    PROVE  Cardinality(minted \ touched) =< Cap
<1>. DEFINE missing == run.missing
            f == [p \in missing |-> AddressOf(p)]
            image == {AddressOf(p) : p \in missing}
<1>1. IsFiniteSet(missing)
  BY PlanFinite, FS_Subset DEF ProvisionInv, TypeOK, Runs
<1>2. f \in Surjection(missing, image)
  BY DEF Surjection
<1>3. IsFiniteSet(image) /\ Cardinality(image) =< Cardinality(missing)
  BY <1>1, <1>2, FS_Surjection
<1>4. minted \ touched \in SUBSET image
  BY DEF ProvisionInv, Counted
<1>5. IsFiniteSet(minted \ touched) /\ Cardinality(minted \ touched) =< Cardinality(image)
  BY <1>3, <1>4, FS_Subset
<1>6. /\ Cardinality(missing) \in Nat /\ Cardinality(image) \in Nat
      /\ Cardinality(minted \ touched) \in Nat
  BY <1>1, <1>3, <1>5, FS_CardinalityType
<1>7. Cardinality(missing) =< Cap /\ Cap \in Nat
  BY ProvisionAssumption DEF ProvisionInv, Counted
<1>. QED
  BY <1>3, <1>5, <1>6, <1>7

\* Once armed, a run mints no more groups than the cap, for any bodies, names and cap,
\* whatever fails and whatever others do meanwhile (reconcile.py, _tripwire_refuses).
THEOREM MintsWithinCap == Spec => []ArmedRunMintsWithinCap
<1>1. ProvisionInv => ArmedRunMintsWithinCap
  BY MintedBound DEF ArmedRunMintsWithinCap
<1>. QED
  BY <1>1, InvCorrect, PTL

-----------------------------------------------------------------------------
(* What a run may say of a body at its end.                                 *)

Making == {"labelling", "setting", "settling"}

\* Every place of the plan is still to do, or has its group, or is counted as
\* failed; and every body that has a place is still to be linked, or is counted as
\* failed, or is linked unless an operator has changed it.
Accounted ==
    /\ pc = "sizing" => Resolved = {}
    /\ pc \in Working =>
          \A p \in run.places : p \in run.todo \cup Resolved \cup run.failedPlaces
    /\ pc = "linking" => \A p \in run.places : p \in Resolved \cup run.failedPlaces
    /\ ~ run.dryRun => \A p \in Resolved :
          AddressOf(p) \in touched \/ group[AddressOf(p)] # NoGroup
    /\ pc = "linking" /\ ~ run.dryRun => \A b \in BodiesToLink :
          \/ <<b, "leaders">> \in run.todo
          \/ b \in run.failedBodies
          \/ b \in touched
          \/ IsLinked(b)

Untaken(p) ==
    AddressOf(p) \in touched \/ Shared(p) \/ group[AddressOf(p)] = NoGroup

Vouched(p) ==
    \/ AddressOf(p) \in touched
    \/ Shared(p)
    \/ group[AddressOf(p)] = Secure
    \/ p \in run.diverged

\* What was found missing is missing until its turn comes, so that a group found at
\* such a place was made by it, and a place that is done has a secure group or is
\* reported to have diverged.
Vetted ==
    /\ pc = "sizing" => \A p \in run.missing : Untaken(p)
    /\ pc \in Working => \A p \in run.missing \cap run.todo :
          Untaken(p) \/ (pc \in Making /\ p = Next1)
    /\ ~ run.dryRun => \A p \in Resolved : Vouched(p)

ReportInv == ProvisionInv /\ Accounted /\ Vetted

\* The groups that are there stay there, secure ones stay secure, and none changes but
\* that of the place whose turn it is.
GroupsKept ==
    \A a \in Address :
       /\ group[a] # NoGroup => group'[a] # NoGroup
       /\ group[a] = Secure => group'[a] = Secure
       /\ a # AddressOf(Next1) => group'[a] = group[a]

LEMMA SecureIsGroup == Secure \in Group /\ Secure # NoGroup
<1>1. Secure \in Group
  BY DEF Secure, Group
<1>. QED
  BY <1>1, ProvisionAssumption

\* What the run changes at the place whose turn it is leaves the other places as they
\* were.
LEMMA OthersUntaken ==
    ASSUME NEW n \in Place, n = Next1, GroupsKept, touched' = touched,
           NEW p \in Place, p # n, Untaken(p)
    PROVE  Untaken(p)'
<1>1. AddressOf(p) \in Address
  BY AddressOfType
<1>2. CASE AddressOf(p) = AddressOf(n)
  <2>1. Shared(p)
    BY <1>2 DEF Shared
  <2>. QED
    BY <2>1 DEF Untaken
<1>3. CASE AddressOf(p) # AddressOf(n)
  BY <1>1, <1>3 DEF GroupsKept, Untaken
<1>. QED
  BY <1>2, <1>3

LEMMA KeptVouched ==
    ASSUME NEW p \in Place, GroupsKept, touched' = touched,
           run.diverged \subseteq run'.diverged, Vouched(p)
    PROVE  Vouched(p)'
BY AddressOfType DEF GroupsKept, Vouched

\* A call that neither ends a place's turn nor fails.
LEMMA CallKeeps ==
    ASSUME ReportInv, pc \in Working, run.todo # {}, pc' \in Working, run' = run,
           touched' = touched, GroupsKept,
           pc' \in Making \/ (pc \notin Making /\ group' = group)
    PROVE  Accounted' /\ Vetted'
<1>. DEFINE n == Next1
<1>1. n \in run.todo /\ n \in Place
  BY NextPlace DEF ReportInv, ProvisionInv
<1>2. run \in Runs /\ Resolved \subseteq Place /\ run.missing \subseteq Place
  BY DEF ReportInv, ProvisionInv, TypeOK, Runs, Resolved
<1>3. Resolved' = Resolved /\ n' = n
  BY DEF Resolved, Next1
<1>4. \A p \in Place : AddressOf(p) \in Address
  BY AddressOfType
<1>5. Accounted'
  BY <1>2, <1>3, <1>4 DEF ReportInv, Accounted, GroupsKept, Working
<1>6. \A p \in Resolved : Vouched(p) => Vouched(p)'
  BY <1>2, KeptVouched
<1>7. ASSUME NEW p \in run.missing \cap run.todo
      PROVE  Untaken(p)' \/ (pc' \in Making /\ p = n)
  <2>1. Untaken(p) \/ (pc \in Making /\ p = n)
    BY DEF ReportInv, Vetted
  <2>2. CASE p # n
    BY <1>1, <1>2, <2>1, <2>2, OthersUntaken
  <2>3. CASE p = n /\ pc' \notin Making
    BY <2>1, <2>3 DEF Untaken
  <2>. QED
    BY <2>2, <2>3
<1>8. Vetted'
  BY <1>3, <1>6, <1>7 DEF ReportInv, Vetted, Working
<1>. QED
  BY <1>5, <1>8

\* A failure counts the place.
LEMMA FailureKeeps ==
    ASSUME ReportInv, pc \in Working, run.todo # {}, EnsureFails,
           touched' = touched, GroupsKept
    PROVE  Accounted' /\ Vetted'
<1>. DEFINE n == Next1
<1>1. n \in run.todo /\ n \in Place
  BY NextPlace DEF ReportInv, ProvisionInv
<1>2. run \in Runs /\ Resolved \subseteq Place /\ run.missing \subseteq Place
  BY DEF ReportInv, ProvisionInv, TypeOK, Runs, Resolved
<1>3. run' = [run EXCEPT !.todo = run.todo \ {n}, !.failedPlaces = run.failedPlaces \cup {n}]
      /\ pc' = "ensuring"
  BY DEF EnsureFails
<1>. HIDE DEF n
<1>4. /\ run'.todo = run.todo \ {n} /\ run'.failedPlaces = run.failedPlaces \cup {n}
      /\ run'.places = run.places /\ run'.missing = run.missing
      /\ run'.dryRun = run.dryRun /\ run'.diverged = run.diverged
      /\ run'.created = run.created /\ run'.adopted = run.adopted
  BY <1>2, <1>3 DEF Runs
<1>5. Resolved' = Resolved
  BY <1>4 DEF Resolved
<1>6. \A p \in Place : AddressOf(p) \in Address
  BY AddressOfType
<1>7. Accounted'
  BY <1>2, <1>3, <1>4, <1>5, <1>6 DEF ReportInv, Accounted, GroupsKept, Working
<1>8. \A p \in Resolved : Vouched(p) => Vouched(p)'
  BY <1>2, <1>4, KeptVouched
<1>9. ASSUME NEW p \in run'.missing \cap run'.todo PROVE Untaken(p)'
  <2>1. p \in run.missing \cap run.todo /\ p # n /\ p \in Place
    BY <1>2, <1>4
  <2>2. Untaken(p)
    BY <2>1 DEF ReportInv, Vetted, n
  <2>. QED
    BY <1>1, <2>1, <2>2, OthersUntaken DEF n
<1>10. Vetted'
  BY <1>3, <1>4, <1>5, <1>8, <1>9 DEF ReportInv, Vetted, Working
<1>. QED
  BY <1>7, <1>10

\* A place whose turn ends well has a group, and it is a secure one or reported.
LEMMA EnsuredKeeps ==
    ASSUME ReportInv, pc \in Working, run.todo # {}, NEW seen \in Group, Ensured(seen),
           UNCHANGED <<touched, group>>,
           run.dryRun \/ (seen = group[AddressOf(Next1)] /\ (pc \in Making => seen = Secure))
    PROVE  Accounted' /\ Vetted'
<1>0. PICK n : n = Next1
  OBVIOUS
<1>. DEFINE isNew == AddressOf(n) \in {AddressOf(p) : p \in run.missing}
            created == IF isNew THEN run.created \cup {n} ELSE run.created
            adopted == IF isNew THEN run.adopted ELSE run.adopted \cup {n}
            diverged == IF ~ isNew /\ Diverged(seen) THEN run.diverged \cup {n}
                                                     ELSE run.diverged
<1>1. n \in run.todo /\ n \in Place /\ AddressOf(n) \in Address
  BY <1>0, NextPlace DEF ReportInv, ProvisionInv
<1>2. run \in Runs /\ Resolved \subseteq Place /\ run.missing \subseteq Place
  BY DEF ReportInv, ProvisionInv, TypeOK, Runs, Resolved
<1>3. /\ pc' = "ensuring"
      /\ run' = [run EXCEPT !.todo = run.todo \ {n}, !.created = created,
                            !.adopted = adopted, !.diverged = diverged]
  BY <1>0 DEF Ensured
<1>4. /\ created \cup adopted = run.created \cup run.adopted \cup {n}
      /\ run.diverged \subseteq diverged
      /\ ~ isNew /\ Diverged(seen) => n \in diverged
  OBVIOUS
<1>5. GroupsKept
  BY DEF GroupsKept
<1>6. ~ run.dryRun => /\ group[AddressOf(n)] = seen /\ seen # NoGroup
                      /\ pc \in Making => seen = Secure
  <2>1. seen # NoGroup
    BY ProvisionAssumption
  <2>. QED
    BY <1>0, <2>1
<1>. HIDE DEF created, adopted, diverged
<1>7. /\ run'.todo = run.todo \ {n} /\ run'.failedPlaces = run.failedPlaces
      /\ run'.places = run.places /\ run'.missing = run.missing
      /\ run'.dryRun = run.dryRun /\ run'.diverged = diverged
      /\ run'.created = created /\ run'.adopted = adopted
  BY <1>2, <1>3 DEF Runs
<1>8. Resolved' = Resolved \cup {n}
  BY <1>4, <1>7 DEF Resolved
<1>9. ASSUME ~ run.dryRun PROVE Vouched(n)'
  <2>1. CASE seen = Secure
    BY <1>6, <1>9, <2>1 DEF Vouched
  <2>2. CASE isNew /\ seen # Secure
    <3>1. PICK q \in run.missing : AddressOf(q) = AddressOf(n)
      BY <2>2
    <3>2. CASE q # n
      <4>1. Shared(n)
        BY <1>2, <3>1, <3>2 DEF Shared
      <4>. QED
        BY <4>1 DEF Vouched
    <3>3. CASE q = n
      <4>1. pc \notin Making
        BY <1>6, <1>9, <2>2
      <4>2. Untaken(n)
        BY <1>1, <3>3, <4>1 DEF ReportInv, Vetted
      <4>. QED
        BY <1>6, <1>9, <4>2 DEF Untaken, Vouched
    <3>. QED
      BY <3>2, <3>3
  <2>3. CASE ~ isNew /\ seen # Secure
    <3>1. Diverged(seen)
      BY <2>3 DEF Diverged, Secure, Group
    <3>. QED
      BY <1>4, <1>7, <2>3, <3>1 DEF Vouched
  <2>. QED
    BY <2>1, <2>2, <2>3
<1>. HIDE DEF isNew
<1>10. \A p \in Place : AddressOf(p) \in Address
  BY AddressOfType
<1>11. Accounted'
  BY <1>2, <1>3, <1>6, <1>7, <1>8, <1>10 DEF ReportInv, Accounted, Working
<1>12. \A p \in Resolved : Vouched(p) => Vouched(p)'
  BY <1>2, <1>4, <1>5, <1>7, KeptVouched
<1>13. ASSUME NEW p \in run'.missing \cap run'.todo PROVE Untaken(p)'
  <2>1. p \in run.missing \cap run.todo /\ p # n /\ p \in Place
    BY <1>2, <1>7
  <2>2. Untaken(p)
    BY <1>0, <2>1 DEF ReportInv, Vetted
  <2>. QED
    BY <1>7, <2>2 DEF Untaken
<1>14. Vetted'
  BY <1>3, <1>7, <1>8, <1>9, <1>12, <1>13 DEF ReportInv, Vetted, Working
<1>. QED
  BY <1>11, <1>14

-----------------------------------------------------------------------------
(* The actions and what a run may say of a body.                            *)

\* An ended run has nothing left to answer for.
LEMMA OverReports ==
    ASSUME RunOver
    PROVE  Accounted' /\ Vetted'
<1>1. run' = NoRun /\ pc' = "idle"
  BY DEF RunOver
<1>2. NoRun.created = {} /\ NoRun.adopted = {}
  BY DEF NoRun
<1>3. Resolved' = {}
  BY <1>1, <1>2 DEF Resolved
<1>. QED
  BY <1>1, <1>3 DEF Accounted, Vetted, Working

LEMMA StartReports ==
    ASSUME ReportInv, NEW dryRun \in BOOLEAN, Start(dryRun)
    PROVE  Accounted' /\ Vetted'
<1>1. run' = [NoRun EXCEPT !.dryRun = dryRun, !.places = Pending, !.todo = Pending,
                           !.failedBodies = NameFailures] /\ pc' = "sizing"
  BY DEF Start
<1>2. run'.created = {} /\ run'.adopted = {} /\ run'.missing = {}
  BY <1>1 DEF NoRun
<1>3. Resolved' = {}
  BY <1>2 DEF Resolved
<1>. QED
  BY <1>1, <1>2, <1>3 DEF Accounted, Vetted, Working

LEMMA SizeReports == ASSUME ReportInv, SizeNext PROVE Accounted' /\ Vetted'
<1>. DEFINE found == IF group[AddressOf(Next1)] = NoGroup
                     THEN run.missing \cup {Next1} ELSE run.missing
<1>1. CASE RunOver
  BY <1>1, OverReports
<1>2. CASE run' = [run EXCEPT !.todo = @ \ {Next1}, !.missing = found]
           /\ UNCHANGED <<pc, history, left>>
  <2>1. run \in Runs
    BY DEF ReportInv, ProvisionInv, TypeOK
  <2>2. \A p \in found : p \in run.missing \/ group[AddressOf(p)] = NoGroup
    OBVIOUS
  <2>. HIDE DEF found
  <2>3. /\ run'.missing = found /\ run'.created = run.created
        /\ run'.adopted = run.adopted
    BY <1>2, <2>1 DEF Runs
  <2>4. Resolved' = {} /\ pc = "sizing" /\ pc' = pc
    BY <1>2, <2>3 DEF Resolved, ReportInv, Accounted, SizeNext
  <2>5. ASSUME NEW p \in found PROVE Untaken(p)'
    <3>1. Untaken(p)
      BY <2>2, <2>4 DEF ReportInv, Vetted, Untaken
    <3>. QED
      BY <1>2, <3>1 DEF SizeNext, Untaken, history
  <2>. QED
    BY <2>3, <2>4, <2>5 DEF Accounted, Vetted, Working
<1>. QED
  BY <1>1, <1>2 DEF SizeNext

LEMMA JudgeReports == ASSUME ReportInv, JudgePlan PROVE Accounted' /\ Vetted'
<1>1. CASE RunOver
  BY <1>1, OverReports
<1>2. CASE run' = [run EXCEPT !.armed = marker, !.todo = run.places]
           /\ pc' = "ensuring" /\ UNCHANGED history
  <2>1. run \in Runs
    BY DEF ReportInv, ProvisionInv, TypeOK
  <2>2. /\ run'.todo = run.places /\ run'.places = run.places
        /\ run'.missing = run.missing /\ run'.created = run.created
        /\ run'.adopted = run.adopted
    BY <1>2, <2>1 DEF Runs
  <2>3. Resolved' = {} /\ pc = "sizing"
    BY <2>2 DEF Resolved, ReportInv, Accounted, JudgePlan
  <2>4. ASSUME NEW p \in run.missing PROVE Untaken(p)'
    <3>1. Untaken(p)
      BY <2>3 DEF ReportInv, Vetted
    <3>. QED
      BY <1>2, <3>1 DEF JudgePlan, Untaken, history
  <2>. QED
    BY <1>2, <2>2, <2>3, <2>4 DEF Accounted, Vetted, Working
<1>. QED
  BY <1>1, <1>2 DEF JudgePlan

LEMMA RehearseReports == ASSUME ReportInv, Rehearse PROVE Accounted' /\ Vetted'
BY EnsuredKeeps, SecureIsGroup DEF Rehearse, Working, history

LEMMA SameGroupsKept == ASSUME group' = group PROVE GroupsKept
BY DEF GroupsKept

LEMMA MadeKept ==
    ASSUME ReportInv, run.todo # {}, group[AddressOf(Next1)] = NoGroup,
           group' \in {group, Made}
    PROVE  GroupsKept
<1>1. group \in [Address -> Group \cup {NoGroup}] /\ AddressOf(Next1) \in Address
  BY NextPlace DEF ReportInv, ProvisionInv, TypeOK
<1>2. Secure # NoGroup
  BY SecureIsGroup
<1>3. CASE group' = Made
  BY <1>1, <1>2, <1>3 DEF Made, GroupsKept
<1>. QED
  BY <1>3, SameGroupsKept

LEMMA CreateReports == ASSUME ReportInv, CreateGroup PROVE Accounted' /\ Vetted'
<1>1. /\ pc = "ensuring" /\ pc \in Working /\ pc \notin Making /\ run.todo # {}
      /\ touched' = touched
  BY DEF CreateGroup, Working, Making
<1>2. CASE group[AddressOf(Next1)] # NoGroup
  <2>1. CASE pc' = "adopting" /\ UNCHANGED <<group, run, left>>
    BY <1>1, <2>1, CallKeeps, SameGroupsKept DEF Working
  <2>2. CASE CallFails(group)
    BY <1>1, <2>2, FailureKeeps, SameGroupsKept DEF CallFails
  <2>. QED
    BY <1>2, <2>1, <2>2 DEF CreateGroup
<1>3. CASE group[AddressOf(Next1)] = NoGroup
  <2>1. CASE pc' = "labelling" /\ group' = Made /\ UNCHANGED <<run, left>>
    <3>1. GroupsKept
      BY <1>1, <1>3, <2>1, MadeKept
    <3>2. pc' \in Working /\ pc' \in Making
      BY <2>1 DEF Working, Making
    <3>. QED
      BY <1>1, <2>1, <3>1, <3>2, CallKeeps
  <2>2. CASE CallFails(Made)
    <3>1. GroupsKept
      BY <1>1, <1>3, <2>2, MadeKept DEF CallFails
    <3>. QED
      BY <1>1, <2>2, <3>1, FailureKeeps DEF CallFails
  <2>. QED
    BY <1>3, <2>1, <2>2 DEF CreateGroup
<1>. QED
  BY <1>2, <1>3

LEMMA AdoptReports == ASSUME ReportInv, Adopt PROVE Accounted' /\ Vetted'
<1>1. /\ pc = "adopting" /\ pc \in Working /\ pc \notin Making /\ run.todo # {}
      /\ touched' = touched
  BY DEF Adopt, Working, Making, history, ReportInv, ProvisionInv, Stages
<1>2. CASE Adoptable(AddressOf(Next1)) /\ Ensured(group[AddressOf(Next1)])
           /\ UNCHANGED group
  <2>1. group[AddressOf(Next1)] \in Group
    BY <1>1, <1>2, NextPlace DEF ReportInv, ProvisionInv, TypeOK, Adoptable
  <2>. QED
    BY <1>1, <1>2, <2>1, EnsuredKeeps
<1>3. CASE EnsureFails /\ UNCHANGED group
  BY <1>1, <1>3, FailureKeeps, SameGroupsKept
<1>4. CASE CallFails(group)
  BY <1>1, <1>4, FailureKeeps, SameGroupsKept DEF CallFails
<1>. QED
  BY <1>2, <1>3, <1>4 DEF Adopt

\* A patch sets one part of one group.
LEMMA PatchedKept ==
    ASSUME ReportInv, run.todo # {}, NEW part \in {"labels", "settings"},
           group[AddressOf(Next1)] # NoGroup,
           group' \in {group, [group EXCEPT ![AddressOf(Next1)][part] = TRUE]}
    PROVE  GroupsKept
<1>. DEFINE a == AddressOf(Next1)
<1>1. group \in [Address -> Group \cup {NoGroup}] /\ a \in Address
  BY NextPlace DEF ReportInv, ProvisionInv, TypeOK
<1>2. group[a] \in Group
  BY <1>1
<1>3. CASE group' = [group EXCEPT ![a][part] = TRUE]
  <2>1. PICK new : new = [group[a] EXCEPT ![part] = TRUE]
    OBVIOUS
  <2>2. group' = [group EXCEPT ![a] = new]
    <3>1. [group EXCEPT ![a][part] = TRUE]
             = [group EXCEPT ![a] = [group[a] EXCEPT ![part] = TRUE]]
      OBVIOUS
    <3>2. group' = [group EXCEPT ![a] = [group[a] EXCEPT ![part] = TRUE]]
      BY <1>3, <3>1
    <3>. HIDE DEF a
    <3>. QED
      BY <2>1, <3>2
  <2>3. new \in Group /\ (group[a] = Secure => new = Secure)
    <3>1. PICK old \in Group : old = group[a]
      BY <1>2
    <3>2. new = [old EXCEPT ![part] = TRUE]
      BY <2>1, <3>1
    <3>3. CASE part = "labels"
      <4>1. new = [labels |-> TRUE, settings |-> old.settings]
        BY <3>2, <3>3 DEF Group
      <4>2. old.settings \in BOOLEAN /\ (old = Secure => old.settings = TRUE)
        BY DEF Group, Secure
      <4>. QED
        BY <3>1, <4>1, <4>2 DEF Group, Secure
    <3>4. CASE part = "settings"
      <4>1. new = [labels |-> old.labels, settings |-> TRUE]
        BY <3>2, <3>4 DEF Group
      <4>2. old.labels \in BOOLEAN /\ (old = Secure => old.labels = TRUE)
        BY DEF Group, Secure
      <4>. QED
        BY <3>1, <4>1, <4>2 DEF Group, Secure
    <3>. QED
      BY <3>3, <3>4
  <2>4. new # NoGroup
    BY <2>3, ProvisionAssumption
  <2>. QED
    BY <1>1, <2>2, <2>3, <2>4 DEF GroupsKept
<1>. QED
  BY <1>3, SameGroupsKept

LEMMA PatchReports ==
    ASSUME ReportInv, pc \in Working, run.todo # {},
           NEW part \in {"labels", "settings"}, NEW next \in Making, Patch(part, next)
    PROVE  Accounted' /\ Vetted'
<1>1. touched' = touched /\ next \in Working
  BY DEF Patch, history, Making, Working
<1>2. CASE group[AddressOf(Next1)] = NoGroup
  BY <1>1, <1>2, FailureKeeps, SameGroupsKept DEF Patch
<1>3. CASE group[AddressOf(Next1)] # NoGroup
  <2>. DEFINE now == [group EXCEPT ![AddressOf(Next1)][part] = TRUE]
  <2>1. \/ pc' = next /\ group' = now /\ UNCHANGED <<run, left>>
        \/ CallFails(now)
    BY <1>3 DEF Patch
  <2>2. group' \in {group, now}
    BY <2>1 DEF CallFails
  <2>3. GroupsKept
    BY <1>3, <2>2, PatchedKept
  <2>. HIDE DEF now
  <2>4. CASE pc' = next /\ group' = now /\ UNCHANGED <<run, left>>
    BY <1>1, <2>3, <2>4, CallKeeps
  <2>5. CASE CallFails(now)
    BY <1>1, <2>3, <2>5, FailureKeeps DEF CallFails
  <2>. QED
    BY <2>1, <2>4, <2>5
<1>. QED
  BY <1>2, <1>3

LEMMA SettleReports == ASSUME ReportInv, Settle PROVE Accounted' /\ Vetted'
<1>1. pc \in Working /\ run.todo # {} /\ touched' = touched
  BY DEF Settle, Working, history, ReportInv, ProvisionInv, Stages
<1>2. CASE group[AddressOf(Next1)] = Secure /\ Ensured(Secure) /\ UNCHANGED group
  BY <1>1, <1>2, EnsuredKeeps, SecureIsGroup
<1>3. CASE EnsureFails /\ UNCHANGED group
  BY <1>1, <1>3, FailureKeeps, SameGroupsKept
<1>4. CASE CallFails(group)
  BY <1>1, <1>4, FailureKeeps, SameGroupsKept DEF CallFails
<1>. QED
  BY <1>2, <1>3, <1>4 DEF Settle

\* Every body that has a place is to be linked, and only its first place stands for it.
LEMMA StartLinkingReports == ASSUME ReportInv, StartLinking PROVE Accounted' /\ Vetted'
<1>1. run \in Runs
  BY DEF ReportInv, ProvisionInv, TypeOK
<1>2. /\ run' = [run EXCEPT !.todo = BodiesToLink \X {"leaders"}]
      /\ pc = "ensuring" /\ run.todo = {} /\ pc' = "linking"
      /\ UNCHANGED <<link, group, touched>>
  BY DEF StartLinking, history
<1>3. /\ run'.todo = BodiesToLink \X {"leaders"} /\ run'.places = run.places
      /\ run'.dryRun = run.dryRun /\ run'.created = run.created
      /\ run'.adopted = run.adopted /\ run'.failedPlaces = run.failedPlaces
      /\ run'.diverged = run.diverged
  BY <1>1, <1>2 DEF Runs
<1>4. Resolved' = Resolved
  BY <1>3 DEF Resolved
<1>5. BodiesToLink' = BodiesToLink
  BY <1>4 DEF BodiesToLink
<1>6. \A b \in BodiesToLink : <<b, "leaders">> \in run'.todo
  BY <1>3
<1>7. \A p \in run.places : p \in Resolved \cup run.failedPlaces
  BY <1>2 DEF ReportInv, Accounted, Working
<1>8. ~ run.dryRun => \A p \in Resolved :
         AddressOf(p) \in touched' \/ group'[AddressOf(p)] # NoGroup
  BY <1>2 DEF ReportInv, Accounted
<1>9. Accounted'
  BY <1>2, <1>3, <1>4, <1>5, <1>6, <1>7, <1>8 DEF Accounted, Working
<1>10. \A p \in Resolved : Vouched(p) => Vouched(p)'
  BY <1>2, <1>3 DEF Vouched
<1>11. Vetted'
  BY <1>2, <1>3, <1>4, <1>10 DEF ReportInv, Vetted, Working
<1>. QED
  BY <1>9, <1>11

LEMMA LinkBodyReports == ASSUME ReportInv, LinkBody PROVE Accounted' /\ Vetted'
<1>0. PICK b : b = Next1[1]
  OBVIOUS
<1>1. /\ Next1 \in run.todo /\ run \in Runs /\ run.todo \subseteq Body \X {"leaders"}
      /\ link \in [Body -> Link]
  BY NextPlace DEF LinkBody, ReportInv, ProvisionInv, TypeOK, Stages
<1>2. b \in Body /\ Next1 = <<b, "leaders">>
  BY <1>0, <1>1
<1>3. /\ pc = "linking" /\ pc' = pc /\ UNCHANGED <<group, touched>>
      /\ \/ run' = BodyFails(b) /\ link' = link
         \/ run.dryRun /\ run' = BodyDone(b) /\ link' = link
         \/ run' = BodyDone(b)
            /\ link' = Relinked(b, LeadersAddress[b], EditorsAddress[b])
  BY <1>0 DEF LinkBody, history
<1>4. /\ run'.todo = run.todo \ {<<b, "leaders">>} /\ run'.places = run.places
      /\ run'.dryRun = run.dryRun /\ run'.created = run.created
      /\ run'.adopted = run.adopted /\ run'.failedPlaces = run.failedPlaces
      /\ run'.diverged = run.diverged
      /\ run.failedBodies \subseteq run'.failedBodies
  <2>1. CASE run' = BodyDone(b)
    BY <1>1, <2>1 DEF BodyDone, Runs
  <2>2. CASE run' = BodyFails(b)
    BY <1>1, <2>2 DEF BodyFails, Runs
  <2>. QED
    BY <1>3, <2>1, <2>2
<1>5. Resolved' = Resolved
  BY <1>4 DEF Resolved
<1>6. BodiesToLink' = BodiesToLink
  BY <1>5 DEF BodiesToLink
<1>7. ASSUME ~ run.dryRun PROVE b \in run'.failedBodies \/ IsLinked(b)'
  <2>1. CASE run' = BodyFails(b)
    BY <1>1, <2>1 DEF BodyFails, Runs
  <2>2. CASE link' = Relinked(b, LeadersAddress[b], EditorsAddress[b])
    <3>1. link'[b] = [leaders |-> LeadersAddress[b], editors |-> EditorsAddress[b]]
      BY <1>1, <1>2, <2>2 DEF Relinked
    <3>2. LeadersAddress[b] \in Address /\ EditorsAddress[b] \in Address
          /\ NoAddress \notin Address
      BY <1>2, ProvisionAssumption
    <3>. QED
      BY <3>1, <3>2 DEF IsLinked
  <2>. QED
    BY <1>3, <1>7, <2>1, <2>2
<1>8. \A c \in Body : c # b => link'[c] = link[c]
  BY <1>1, <1>2, <1>3 DEF Relinked
<1>9. BodiesToLink \subseteq Body
  <2>1. ASSUME NEW q \in Resolved, q[2] # "main" PROVE q[1] \in Body
    <3>1. q \in Place
      BY DEF Resolved, ReportInv, ProvisionInv, TypeOK, Runs
    <3>2. q # <<0, "main">>
      BY <2>1
    <3>. QED
      BY <3>1, <3>2 DEF Place
  <2>. QED
    BY <2>1 DEF BodiesToLink
<1>10. ASSUME ~ run.dryRun, NEW c \in BodiesToLink
       PROVE  \/ <<c, "leaders">> \in run'.todo
              \/ c \in run'.failedBodies
              \/ c \in touched'
              \/ IsLinked(c)'
  <2>1. CASE c = b
    BY <1>7, <1>10, <2>1
  <2>2. CASE c # b
    <3>1. \/ <<c, "leaders">> \in run.todo
          \/ c \in run.failedBodies
          \/ c \in touched
          \/ IsLinked(c)
      BY <1>3, <1>10 DEF ReportInv, Accounted
    <3>2. link'[c] = link[c]
      BY <1>8, <1>9, <2>2
    <3>. QED
      BY <1>3, <1>4, <2>2, <3>1, <3>2 DEF IsLinked
  <2>. QED
    BY <2>1, <2>2
<1>11. /\ \A p \in run.places : p \in Resolved \cup run.failedPlaces
       /\ ~ run.dryRun => \A p \in Resolved :
             AddressOf(p) \in touched' \/ group'[AddressOf(p)] # NoGroup
  BY <1>3 DEF ReportInv, Accounted
<1>12. Accounted'
  BY <1>3, <1>4, <1>5, <1>6, <1>10, <1>11 DEF Accounted, Working
<1>13. \A p \in Resolved : Vouched(p) => Vouched(p)'
  BY <1>3, <1>4 DEF Vouched
<1>14. Vetted'
  BY <1>3, <1>4, <1>5, <1>13 DEF ReportInv, Vetted, Working
<1>. QED
  BY <1>12, <1>14

\* What others change is excepted from the moment they change it.
LEMMA OutsideReports == ASSUME ReportInv, Outside PROVE Accounted' /\ Vetted'
<1>1. pc' = pc /\ run' = run
  BY DEF Outside, PullAddsBody, OperatorLinks, OperatorUnlinks, OutsideEdit
<1>2. run \in Runs /\ Resolved \subseteq Place /\ run.missing \subseteq Place
      /\ group \in [Address -> Group \cup {NoGroup}] /\ link \in [Body -> Link]
  BY DEF ReportInv, ProvisionInv, TypeOK, Runs, Resolved
<1>3. Resolved' = Resolved /\ Next1' = Next1
  BY <1>1 DEF Resolved, Next1
<1>4. BodiesToLink' = BodiesToLink
  BY <1>3 DEF BodiesToLink
<1>5. pc = "idle" => Resolved = {}
  <2>1. NoRun.created = {} /\ NoRun.adopted = {}
    BY DEF NoRun
  <2>. QED
    BY <2>1 DEF ReportInv, ProvisionInv, Stages, Resolved
<1>6. pc # "idle" => touched \subseteq touched'
  BY DEF Outside, PullAddsBody, OperatorLinks, OperatorUnlinks, OutsideEdit, Touch, history
<1>7. pc # "idle" => \A a \in Address : a \in touched' \/ group'[a] = group[a]
  <2>1. CASE OutsideEdit
    <3>1. PICK a \in Address, now \in Group \cup {NoGroup} :
             group' = [group EXCEPT ![a] = now] /\ Touch(a)
      BY <2>1 DEF OutsideEdit
    <3>. QED
      BY <1>2, <3>1 DEF Touch
  <2>2. CASE UNCHANGED group
    BY <2>2
  <2>. QED
    BY <2>1, <2>2 DEF Outside, PullAddsBody, OperatorLinks, OperatorUnlinks
<1>8. pc # "idle" => \A b \in Body : b \in touched' \/ link'[b] = link[b]
  <2>1. CASE OperatorLinks
    <3>1. PICK b \in bodies, pair \in HandLinks :
             link' = Relinked(b, pair[1], pair[2]) /\ Touch(b)
      BY <2>1 DEF OperatorLinks
    <3>. QED
      BY <1>2, <3>1 DEF Touch, Relinked
  <2>2. CASE OperatorUnlinks
    <3>1. PICK b \in bodies :
             link' = Relinked(b, NoAddress, NoAddress) /\ Touch(b)
      BY <2>2 DEF OperatorUnlinks
    <3>. QED
      BY <1>2, <3>1 DEF Touch, Relinked
  <2>3. CASE UNCHANGED link
    BY <2>3
  <2>. QED
    BY <2>1, <2>2, <2>3 DEF Outside, PullAddsBody, OutsideEdit
<1>9. CASE pc = "idle"
  BY <1>1, <1>3, <1>5, <1>9 DEF Accounted, Vetted, Working
<1>10. CASE pc # "idle"
  <2>1. \A p \in Place : AddressOf(p) \in Address
    BY AddressOfType
  <2>2. \A p \in Place : AddressOf(p) \in touched'
                         \/ (group'[AddressOf(p)] = group[AddressOf(p)]
                             /\ AddressOf(p) \notin touched)
    BY <1>6, <1>7, <1>10, <2>1
  <2>3. \A p \in Place : /\ Untaken(p) => Untaken(p)'
                         /\ Vouched(p) => Vouched(p)'
    BY <1>1, <2>2 DEF Untaken, Vouched
  <2>4. BodiesToLink \subseteq Body
    <3>1. ASSUME NEW q \in Resolved, q[2] # "main" PROVE q[1] \in Body
      <4>1. q \in Place /\ q # <<0, "main">>
        BY <1>2, <3>1
      <4>. QED
        BY <4>1 DEF Place
    <3>. QED
      BY <3>1 DEF BodiesToLink
  <2>5. ASSUME NEW b \in BodiesToLink
        PROVE  (b \in touched \/ IsLinked(b)) => (b \in touched' \/ IsLinked(b)')
    BY <1>6, <1>8, <1>10, <2>4 DEF IsLinked
  <2>6. ~ run.dryRun => \A p \in Resolved :
           AddressOf(p) \in touched' \/ group'[AddressOf(p)] # NoGroup
    BY <1>2, <2>2 DEF ReportInv, Accounted
  <2>7. Accounted'
    BY <1>1, <1>3, <1>4, <2>5, <2>6 DEF ReportInv, Accounted
  <2>8. Vetted'
    BY <1>1, <1>2, <1>3, <2>3 DEF ReportInv, Vetted, Working
  <2>. QED
    BY <2>7, <2>8
<1>. QED
  BY <1>9, <1>10

LEMMA ReportStep == ReportInv /\ [Next]_vars => ReportInv'
<1>. SUFFICES ASSUME ReportInv, [Next]_vars PROVE ReportInv'
  OBVIOUS
<1>1. ProvisionInv'
  BY ProvisionStep DEF ReportInv
<1>2. Accounted' /\ Vetted'
  <2>1. CASE UNCHANGED vars
    <3>1. Accounted'
      BY <2>1 DEF vars, ReportInv, Accounted, Resolved, BodiesToLink, IsLinked
    <3>2. Vetted'
      BY <2>1 DEF vars, ReportInv, Vetted, Resolved, Untaken, Vouched, Next1
    <3>. QED
      BY <3>1, <3>2
  <2>2. CASE TimerStarts
    BY <2>2, StartReports DEF TimerStarts
  <2>3. CASE OperatorRehearses
    BY <2>3, StartReports DEF OperatorRehearses
  <2>4. CASE PatchLabels
    BY <2>4, PatchReports
       DEF PatchLabels, ReportInv, ProvisionInv, Stages, Working, Making
  <2>5. CASE PatchSettings
    BY <2>5, PatchReports
       DEF PatchSettings, ReportInv, ProvisionInv, Stages, Working, Making
  <2>6. CASE EndRun \/ Crash
    BY <2>6, OverReports DEF EndRun, Crash
  <2>. QED
    BY <2>1, <2>2, <2>3, <2>4, <2>5, <2>6, SizeReports, JudgeReports, RehearseReports,
       CreateReports, AdoptReports, SettleReports, StartLinkingReports, LinkBodyReports,
       OutsideReports DEF Next, RunStep
<1>. QED
  BY <1>1, <1>2 DEF ReportInv

LEMMA ReportsAtFirst == Init => ReportInv
<1>. SUFFICES ASSUME Init PROVE ReportInv
  OBVIOUS
<1>1. ProvisionInv
  BY InitInv
<1>2. NoRun.created = {} /\ NoRun.adopted = {} /\ run = NoRun /\ pc = "idle"
  BY DEF Init, NoRun
<1>3. Resolved = {}
  BY <1>2 DEF Resolved
<1>. QED
  BY <1>1, <1>2, <1>3 DEF ReportInv, Accounted, Vetted, Working

-----------------------------------------------------------------------------
(* The reports.                                                             *)

\* What is true of the plan when a run ends without failures.
LEMMA GreenEnd ==
    ASSUME ReportInv, EndRun, ~ run.dryRun, ~ HasFailures
    PROVE  /\ \A p \in run.places :
                 \/ p[2] = "main" \/ p[1] \in touched \/ IsLinked(p[1])
           /\ \A p \in run.places :
                 AddressOf(p) \in touched \/ group[AddressOf(p)] # NoGroup
<1>1. pc = "linking" /\ run.todo = {} /\ run.failedPlaces = {} /\ run.failedBodies = {}
  BY DEF EndRun, HasFailures
<1>2. \A p \in run.places : p \in Resolved
  BY <1>1 DEF ReportInv, Accounted
<1>3. \A p \in run.places : p[2] # "main" => p[1] \in BodiesToLink
  BY <1>2 DEF BodiesToLink
<1>4. \A b \in BodiesToLink : b \in touched \/ IsLinked(b)
  BY <1>1 DEF ReportInv, Accounted
<1>5. \A p \in run.places : AddressOf(p) \in touched \/ group[AddressOf(p)] # NoGroup
  BY <1>2 DEF ReportInv, Accounted
<1>. QED
  BY <1>3, <1>4, <1>5

\* Only the end of a run takes it from its links to idle and spends nothing.
LEMMA EndingIsEnd == ASSUME TypeOK, [Next]_vars, Ending PROVE EndRun
<1>1. pc = "linking" /\ pc' = "idle" /\ left' = left
  BY DEF Ending
<1>2. CASE Crash
  <2>1. left \in [BoundKind -> Nat] /\ "crash" \in BoundKind
    BY DEF TypeOK, BoundKind
  <2>2. left'["crash"] = left["crash"] - 1 /\ left["crash"] \in Nat
    BY <1>2, <2>1 DEF Crash, Spend
  <2>. QED
    BY <1>1, <2>2
<1>3. ~ (UNCHANGED vars) /\ ~ Outside
  BY <1>1 DEF vars, Outside, PullAddsBody, OperatorLinks, OperatorUnlinks, OutsideEdit
<1>4. ~ TimerStarts /\ ~ OperatorRehearses
  BY <1>1 DEF TimerStarts, OperatorRehearses, Start
<1>5. ASSUME RunStep PROVE EndRun
  BY <1>1, <1>5 DEF RunStep, SizeNext, JudgePlan, Rehearse, CreateGroup, Adopt, PatchLabels,
     PatchSettings, Settle, StartLinking, LinkBody
<1>. QED
  BY <1>2, <1>3, <1>4, <1>5 DEF Next

\* A real run that reports no failure has linked every body it planned for, to groups
\* that are there, whatever it met and unless others changed them meanwhile
\* (ProvisionReport.has_failures).
THEOREM GreenRunsLinked == Spec => GreenMeansLinked
<1>1. ReportInv /\ [Next]_vars =>
         ((Ending /\ ~ run.dryRun /\ ~ HasFailures) =>
             /\ \A p \in run.places :
                   \/ p[2] = "main" \/ p[1] \in touched \/ IsLinked(p[1])
             /\ \A p \in run.places :
                   AddressOf(p) \in touched \/ group[AddressOf(p)] # NoGroup)
  BY GreenEnd, EndingIsEnd DEF ReportInv, ProvisionInv
<1>. QED
  BY <1>1, ReportsAtFirst, ReportStep, PTL DEF Spec, GreenMeansLinked

\* A link that a run writes.
LEMMA LinkVouched ==
    ASSUME ReportInv, [Next]_vars, pc = "linking", run' # run,
           NEW b \in Body, link'[b] # link[b],
           NEW p \in {b} \X {"leaders", "editors"}
    PROVE  Vouched(p)
<1>1. ~ (UNCHANGED vars) /\ ~ Outside
  BY DEF vars, Outside, PullAddsBody, OperatorLinks, OperatorUnlinks, OutsideEdit
<1>2. ~ TimerStarts /\ ~ OperatorRehearses /\ ~ Crash
  BY DEF TimerStarts, OperatorRehearses, Start, Crash
<1>3. LinkBody
  BY <1>1, <1>2 DEF Next, RunStep, SizeNext, JudgePlan, Rehearse, CreateGroup, Adopt,
     PatchLabels, PatchSettings, Settle, StartLinking, EndRun
<1>4. PICK c : c = Next1[1]
  OBVIOUS
<1>5. Complete(c) /\ ~ run.dryRun
      /\ link' = Relinked(c, LeadersAddress[c], EditorsAddress[c])
  BY <1>3, <1>4 DEF LinkBody
<1>6. b = c
  BY <1>5 DEF Relinked, ReportInv, ProvisionInv, TypeOK
<1>7. p = <<b, "leaders">> \/ p = <<b, "editors">>
  OBVIOUS
<1>8. p \in Resolved
  BY <1>5, <1>6, <1>7 DEF Complete
<1>. QED
  BY <1>5, <1>8 DEF ReportInv, Vetted

\* Whatever a dead or failed run left, a run that links a body to a group without the
\* secure defaults says so, for any bodies and names (_diverged, ensure).
THEOREM InsecureLinksAreReported == Spec => InsecureLinkIsReported
<1>1. ReportInv /\ [Next]_vars =>
         \A b \in Body :
            (pc = "linking" /\ run' # run /\ link'[b] # link[b]) =>
               \A p \in {b} \X {"leaders", "editors"} :
                  \/ AddressOf(p) \in touched \/ Shared(p)
                  \/ group[AddressOf(p)] = Secure
                  \/ p \in run.diverged
  BY LinkVouched DEF Vouched
<1>. QED
  BY <1>1, ReportsAtFirst, ReportStep, PTL DEF Spec, InsecureLinkIsReported
=============================================================================

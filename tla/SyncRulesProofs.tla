--------------------------- MODULE SyncRulesProofs ---------------------------
(***************************************************************************)
(* Facts about the rules of SyncRules, for every set of addresses, every   *)
(* memory of refusals and every size of the fuse, and their agreement with *)
(* the reference definitions.                                              *)
(***************************************************************************)
EXTENDS SyncRulesReference, FiniteSetTheorems, WellFoundedInduction, TLAPS

-----------------------------------------------------------------------------
(* Sets of addresses. *)

\* Every set of addresses is finite and its size is a natural number.
LEMMA AddressSets ==
    ASSUME NEW S \in SUBSET Address
    PROVE  IsFiniteSet(S) /\ Cardinality(S) \in Nat
BY AddressAssumption, FS_Subset, FS_CardinalityType

\* A larger set of addresses has more of them.
LEMMA StrictSubsetSmaller ==
    ASSUME NEW S \in SUBSET Address, NEW T \in SUBSET S, NEW x \in S \ T
    PROVE  Cardinality(T) < Cardinality(S)
<1>1. IsFiniteSet(S) /\ Cardinality(S) \in Nat
  BY AddressSets
<1>2. T \in SUBSET Address
  OBVIOUS
<1>3. IsFiniteSet(T) /\ Cardinality(T) \in Nat
  BY <1>2, AddressSets
<1>4. Cardinality(T) <= Cardinality(S) /\ Cardinality(T) # Cardinality(S)
  BY <1>1, FS_Subset
<1>. QED
  BY <1>1, <1>3, <1>4

\* Taking the first n of a set of addresses in sorted order takes no more than n.
LEMMA EarliestBound ==
    ASSUME NEW S \in SUBSET Address, NEW n \in Nat
    PROVE  Cardinality(Earliest(S, n)) <= n
<1>. DEFINE E == Earliest(S, n)
            Below(a) == {b \in S : b < a}
            f == [a \in E |-> Cardinality(Below(a))]
<1>1. E \subseteq S /\ E \subseteq Nat
  BY AddressAssumption DEF Earliest
<1>2. \A a \in E : Cardinality(Below(a)) \in Nat /\ Cardinality(Below(a)) < n
  BY AddressSets DEF Earliest
<1>3. f \in [E -> 0..(n-1)]
  BY <1>2
<1>4. ASSUME NEW a \in E, NEW b \in E, a < b
      PROVE  f[a] < f[b]
  <2>. \A x \in S : x \in Nat
    BY AddressAssumption
  <2>. a \in S /\ b \in S
    BY <1>1
  <2>1. Below(a) \in SUBSET Below(b) /\ a \in Below(b) \ Below(a)
    <3>1. \A x \in Below(a) : x \in Below(b)
      BY <1>4
    <3>2. a \in Below(b) /\ a \notin Below(a)
      BY <1>4
    <3>. QED
      BY <3>1, <3>2
  <2>2. Below(b) \in SUBSET Address
    OBVIOUS
  <2>3. Cardinality(Below(a)) < Cardinality(Below(b))
    BY <2>1, <2>2, StrictSubsetSmaller
  <2>. QED
    BY <2>3
<1>5. \A a, b \in E : f[a] = f[b] => a = b
  <2>. SUFFICES ASSUME NEW a \in E, NEW b \in E, f[a] = f[b], a # b
                PROVE  FALSE
    OBVIOUS
  <2>1. f[a] \in Int /\ f[b] \in Int
    BY <1>3
  <2>2. CASE a < b
    BY <1>4, <2>1, <2>2
  <2>3. CASE b < a
    BY <1>4, <2>1, <2>3
  <2>4. a \in Nat /\ b \in Nat
    BY <1>1
  <2>. QED
    BY <2>2, <2>3, <2>4
<1>6. f \in Injection(E, 0..(n-1))
  BY <1>3, <1>5 DEF Injection, IsInjective
<1>7. IsFiniteSet(0..(n-1)) /\ Cardinality(0..(n-1)) = n
  BY FS_Interval
<1>8. Cardinality(E) <= Cardinality(0..(n-1))
  BY <1>6, <1>7, FS_Injection
<1>. QED
  BY <1>7, <1>8

\* Some address of a set comes first.
LEMMA LeastAddress ==
    ASSUME NEW S \in SUBSET Address, S # {}
    PROVE  \E a \in S : \A b \in S : a <= b
<1>. DEFINE below == {ss \in Nat \X Nat : ss[1] < ss[2]}
<1>1. IsWellFoundedOn(below, Nat)
  BY NatLessThanWellFounded DEF OpToRel
<1>2. S \in SUBSET Nat
  BY AddressAssumption
<1>. HIDE DEF below
<1>3. PICK a \in S : \A b \in S : ~ (<<b, a>> \in below)
  BY <1>1, <1>2, WFMin
<1>4. ASSUME NEW b \in S PROVE a <= b
  <2>1. a \in Nat /\ b \in Nat
    BY <1>2
  <2>2. b < a => <<b, a>> \in below
    BY <2>1 DEF below
  <2>. QED
    BY <1>3, <2>1, <2>2
<1>. QED
  BY <1>4

\* Taking the first n leaves one out only when it has taken n.
LEMMA EarliestFull ==
    ASSUME NEW S \in SUBSET Address, NEW n \in Int, NEW x \in S \ Earliest(S, n)
    PROVE  Cardinality(Earliest(S, n)) >= n
<1>. DEFINE E == Earliest(S, n)
<1>1. S \ E \in SUBSET Address /\ S \ E # {} /\ E \in SUBSET Address
  BY DEF Earliest
<1>2. PICK a \in S \ E : \A b \in S \ E : a <= b
  BY <1>1, LeastAddress
<1>. DEFINE Below == {b \in S : b < a}
<1>3. Below \in SUBSET E
  <2>1. ASSUME NEW b \in Below, b \notin E PROVE FALSE
    <3>1. a <= b /\ b < a
      BY <1>2, <2>1
    <3>2. a \in Nat /\ b \in Nat
      BY AddressAssumption
    <3>. QED
      BY <3>1, <3>2
  <2>. QED
    BY <2>1
<1>4. ~ (Cardinality(Below) < n)
  BY <1>2 DEF Earliest
<1>. HIDE DEF E, Below
<1>5. IsFiniteSet(E) /\ Cardinality(E) \in Nat
  BY <1>1, AddressSets
<1>6. Cardinality(Below) <= Cardinality(E) /\ Cardinality(Below) \in Nat
  BY <1>3, <1>5, FS_Subset, FS_CardinalityType
<1>7. Cardinality(E) >= n
  BY <1>4, <1>5, <1>6
<1>. QED
  BY <1>7 DEF E

\* What sorted(S)[:n] takes, for the retries (reconcile.py): addresses of the set, n of
\* them or all there are, and none whose place belongs to one that it leaves out.
THEOREM EarliestTakesFirst ==
    ASSUME NEW S \in SUBSET Address, NEW n \in Nat
    PROVE  /\ Earliest(S, n) \subseteq S
           /\ Cardinality(Earliest(S, n)) <= n
           /\ Earliest(S, n) # S => Cardinality(Earliest(S, n)) = n
           /\ \A a \in Earliest(S, n), b \in S \ Earliest(S, n) : a < b
<1>. DEFINE E == Earliest(S, n)
            Below(a) == {b \in S : b < a}
<1>1. E \in SUBSET S /\ S \in SUBSET Nat
  BY AddressAssumption DEF Earliest
<1>2. Cardinality(E) <= n
  BY EarliestBound
<1>3. ASSUME NEW x \in S \ E PROVE Cardinality(E) = n
  <2>1. Cardinality(E) >= n
    BY <1>3, EarliestFull
  <2>2. E \in SUBSET Address
    BY <1>1
  <2>3. Cardinality(E) \in Nat
    BY <2>2, AddressSets
  <2>. HIDE DEF E
  <2>. QED
    BY <1>2, <2>1, <2>3
<1>4. ASSUME NEW a \in E, NEW b \in S \ E PROVE a < b
  <2>1. a \in Nat /\ b \in Nat /\ a # b
    BY <1>1
  <2>2. ASSUME b < a PROVE FALSE
    <3>1. Below(b) \in SUBSET Below(a) /\ Below(a) \in SUBSET Address
      <4>1. \A x \in S : x \in Nat
        BY <1>1
      <4>2. \A x \in Below(b) : x \in Below(a)
        BY <2>1, <2>2, <4>1
      <4>3. Below(a) \in SUBSET S
        OBVIOUS
      <4>. QED
        BY <4>2, <4>3
    <3>2. Cardinality(Below(a)) < n /\ ~ (Cardinality(Below(b)) < n)
      BY <1>1 DEF Earliest
    <3>. HIDE DEF Below
    <3>3. IsFiniteSet(Below(a)) /\ Cardinality(Below(a)) \in Nat
      BY <3>1, AddressSets
    <3>4. Cardinality(Below(b)) <= Cardinality(Below(a)) /\ Cardinality(Below(b)) \in Nat
      BY <3>1, <3>3, FS_Subset, FS_CardinalityType
    <3>. QED
      BY <3>2, <3>3, <3>4
  <2>. QED
    BY <2>1, <2>2
<1>. QED
  BY <1>1, <1>2, <1>3, <1>4

-----------------------------------------------------------------------------
(* Addresses and statuses. *)

\* The two candidates of a row are its own addresses.
LEMMA CandidatesType ==
    ASSUME NEW r \in SyncAddresses
    PROVE  /\ \/ Candidates(r) = <<r.email>>
              \/ /\ r.alternate \in Address
                 /\ \/ Candidates(r) = <<r.alternate, r.email>>
                    \/ Candidates(r) = <<r.email, r.alternate>>
           /\ Candidates(r)[1] \in Address
BY DEF Candidates, SyncAddresses

\* sync_target always answers one of the member's own two addresses.
THEOREM SyncTargetOwn ==
    ASSUME NEW r \in SyncAddresses, NEW st, IsStatuses(st)
    PROVE  /\ SyncTarget(r, st) \in Address
           /\ SyncTarget(r, st) \in {r.email, r.alternate}
<1>1. CASE r.email \in Example
  BY <1>1 DEF SyncTarget, SyncAddresses
<1>2. CASE r.email \notin Example /\ Candidates(r) = <<r.email>>
  <2>1. CandidateSet(r) = {r.email}
    BY <1>2 DEF CandidateSet
  <2>2. \A S : S \cap CandidateSet(r) # {} => FirstCandidateIn(r, S) = r.email
    BY <1>2, <2>1 DEF FirstCandidateIn
  <2>3. LongestRefused(r, st) = r.email
    BY <1>2 DEF LongestRefused
  <2>. QED
    BY <1>2, <2>1, <2>2, <2>3 DEF SyncTarget, SyncAddresses
<1>3. CASE /\ r.email \notin Example
           /\ r.alternate \in Address
           /\ \/ Candidates(r) = <<r.alternate, r.email>>
              \/ Candidates(r) = <<r.email, r.alternate>>
  <2>1. \A S : FirstCandidateIn(r, S) \in {r.email, r.alternate}
    BY <1>3 DEF FirstCandidateIn
  <2>2. LongestRefused(r, st) \in {r.email, r.alternate}
    BY <1>3 DEF LongestRefused
  <2>. QED
    BY <1>3, <2>1, <2>2 DEF SyncTarget, SyncAddresses
<1>. QED
  BY <1>1, <1>2, <1>3, CandidatesType

\* What a group's rows resolve to are addresses.
LEMMA DesiredOfType ==
    ASSUME NEW R \in SUBSET SyncAddresses, NEW st, IsStatuses(st)
    PROVE  DesiredOf(R, st) \subseteq Address
BY SyncTargetOwn DEF DesiredOf

\* An accepted address has no refusal left, and is accepted.
LEMMA RecordAcceptedType ==
    ASSUME NEW st, IsStatuses(st), NEW a \in Address
    PROVE  IsStatuses(RecordAccepted(st, a))
<1>. DEFINE others == DOMAIN st.refusedAt \ {a}
<1>1. others \in SUBSET Address
  BY DEF IsStatuses
<1>2. \A x \in others : {b \in others : st.refusedAt[b] <= st.refusedAt[x]}
                          \in SUBSET Address
  BY <1>1
<1>3. Ranked(others, st.refusedAt) \in [others -> Nat]
  BY <1>2, AddressSets DEF Ranked
<1>. QED
  BY <1>1, <1>3 DEF RecordAccepted, IsStatuses

\* A refused address is refused, live and no longer accepted.
LEMMA RecordRefusedType ==
    ASSUME NEW st, IsStatuses(st), NEW a \in Address
    PROVE  /\ IsStatuses(RecordRefused(st, a))
           /\ DOMAIN RecordRefused(st, a).refusedAt = DOMAIN st.refusedAt \cup {a}
<1>. DEFINE others == DOMAIN st.refusedAt \ {a}
            at == Ranked(others, st.refusedAt)
            new == [b \in others \cup {a} |->
                      IF b = a THEN Cardinality(others) + 1 ELSE at[b]]
<1>1. others \in SUBSET Address
  BY DEF IsStatuses
<1>2. \A x \in others : {b \in others : st.refusedAt[b] <= st.refusedAt[x]}
                          \in SUBSET Address
  BY <1>1
<1>3. at \in [others -> Nat]
  BY <1>2, AddressSets DEF Ranked
<1>4. Cardinality(others) \in Nat
  BY <1>1, AddressSets
<1>5. new \in [others \cup {a} -> Nat]
  BY <1>3, <1>4
<1>6. RecordRefused(st, a) = [accepted |-> st.accepted \ {a}, refusedAt |-> new,
                              live |-> st.live \cup {a}]
  BY DEF RecordRefused
<1>7. DOMAIN new = DOMAIN st.refusedAt \cup {a}
  OBVIOUS
<1>. HIDE DEF new, at, others
<1>. QED
  BY <1>1, <1>5, <1>6, <1>7 DEF IsStatuses

-----------------------------------------------------------------------------
(* Plans. *)

\* What plan_group plans: who is wanted and missing is added or withheld, and withheld
\* only as refused or lapsed; adds are not known to be refused; the only adds among the lapsed refusals are the retries, no
\* more than the slots and in front of those that have to wait; and the fuse lets all
\* the plain members nobody wants be removed or refuses them all.
PlanSound(plan, desired, actual, unmirrorable, lapsed, slots) ==
    /\ plan \in GroupPlan
    /\ plan.adds \cup plan.excluded = desired \ Present(actual)
    /\ plan.adds \cap plan.excluded = {}
    /\ plan.excluded \subseteq unmirrorable \cup lapsed
    /\ plan.adds \cap unmirrorable = {}
    /\ plan.adds \cap lapsed = plan.retried
    /\ slots \in Nat =>
          /\ Cardinality(plan.retried) <= slots
          /\ \A a \in plan.retried, b \in (plan.excluded \cap lapsed) \ unmirrorable :
                a < b
    /\ \/ /\ plan.removes = Removable(desired, actual)
          /\ plan.refused = 0
       \/ /\ plan.removes = {}
          /\ plan.refused = Cardinality(Removable(desired, actual))

\* Every plan of plan_group is sound.
THEOREM PlanGroupSound ==
    ASSUME NEW desired \in SUBSET Address, NEW actual,
           NEW unmirrorable \in SUBSET Address, NEW lapsed \in SUBSET Address,
           NEW slots, NEW mass
    PROVE  PlanSound(PlanGroup(desired, actual, unmirrorable, lapsed, slots, mass),
                     desired, actual, unmirrorable, lapsed, slots)
<1>. DEFINE missing == desired \ Present(actual)
            retried == Retried(missing, unmirrorable, lapsed, slots)
            removable == Removable(desired, actual)
            may == (missing \ unmirrorable) \cap lapsed
            plan == PlanGroup(desired, actual, unmirrorable, lapsed, slots, mass)
<1>1. retried \subseteq may /\ may \in SUBSET Address
  BY DEF Retried, Earliest
<1>2. removable \in SUBSET Address
  BY DEF Removable
<1>3. Cardinality(removable) \in Nat
  BY <1>2, AddressSets
<1>4. /\ plan.adds = (missing \ (unmirrorable \cup lapsed)) \cup retried
      /\ plan.excluded = missing \ plan.adds
      /\ plan.retried = retried
      /\ \/ plan.removes = removable /\ plan.refused = 0
         \/ plan.removes = {} /\ plan.refused = Cardinality(removable)
  BY DEF PlanGroup
<1>5. plan \in GroupPlan
  BY <1>1, <1>2, <1>3 DEF PlanGroup, GroupPlan
<1>6. slots \in Nat =>
        /\ Cardinality(retried) <= slots
        /\ \A a \in retried, b \in may \ retried : a < b
  <2>1. retried = Earliest(may, slots)
    BY DEF Retried
  <2>. HIDE DEF may, retried
  <2>. QED
    BY <1>1, <2>1, EarliestTakesFirst
<1>7. (plan.excluded \cap lapsed) \ unmirrorable \subseteq may \ retried
  BY <1>1, <1>4
<1>8. /\ plan.adds \cup plan.excluded = missing
      /\ plan.adds \cap plan.excluded = {}
      /\ plan.excluded \subseteq unmirrorable \cup lapsed
      /\ plan.adds \cap unmirrorable = {}
      /\ plan.adds \cap lapsed = plan.retried
  BY <1>1, <1>4
<1>. HIDE DEF retried, removable, may
<1>. QED
  BY <1>4, <1>5, <1>6, <1>7, <1>8 DEF PlanSound, removable

\* The fuse never trips over nothing.
LEMMA TripsOverSome ==
    ASSUME NEW removable \in SUBSET Address, NEW actual, NEW mass,
           FuseTrips(removable, actual, mass)
    PROVE  Cardinality(removable) > 0
<1>. DEFINE size == Cardinality(Present(actual))
            share == (size + RemovalFuseDivisor - 1) \div RemovalFuseDivisor
<1>1. Present(actual) \in SUBSET Address
  BY DEF Present
<1>2. size \in Nat /\ Cardinality(removable) \in Nat
  BY <1>1, AddressSets
<1>3. share \in Int
  BY <1>2, FuseAssumption
<1>4. Cardinality(removable) > (IF share > RemovalFuseFloor THEN share ELSE RemovalFuseFloor)
  BY DEF FuseTrips, RemovalBudget
<1>. HIDE DEF share
<1>. QED
  BY <1>2, <1>3, <1>4, FuseAssumption

\* A plan leaves nobody out without a reason: who is wanted and missing is added, or
\* known to be refused, or a lapsed refusal that found the slots taken; and who is
\* unwanted is removed, or the fuse says how many are not.
PlanComplete(plan, desired, actual, unmirrorable, lapsed, slots) ==
    /\ \A a \in desired \ Present(actual) :
          \/ a \in plan.adds
          \/ a \in plan.excluded /\ a \in unmirrorable
          \/ /\ a \in plan.excluded /\ a \in lapsed \ plan.retried
             /\ Cardinality(plan.retried) >= slots
    /\ slots <= 0 => plan.retried = {}
    /\ plan.removes \cap desired = {}
    /\ plan.removes = Removable(desired, actual) \/ plan.refused > 0

\* Every plan of plan_group is complete.
THEOREM PlanGroupComplete ==
    ASSUME NEW desired \in SUBSET Address, NEW actual,
           NEW unmirrorable \in SUBSET Address, NEW lapsed \in SUBSET Address,
           NEW slots \in Int, NEW mass
    PROVE  PlanComplete(PlanGroup(desired, actual, unmirrorable, lapsed, slots, mass),
                        desired, actual, unmirrorable, lapsed, slots)
<1>. DEFINE missing == desired \ Present(actual)
            may == (missing \ unmirrorable) \cap lapsed
            retried == Earliest(may, slots)
            removable == Removable(desired, actual)
            trips == FuseTrips(removable, actual, mass)
            plan == PlanGroup(desired, actual, unmirrorable, lapsed, slots, mass)
<1>1. /\ plan.adds = (missing \ (unmirrorable \cup lapsed)) \cup retried
      /\ plan.excluded = missing \ plan.adds
      /\ plan.retried = retried
      /\ plan.removes = IF trips THEN {} ELSE removable
      /\ plan.refused = IF trips THEN Cardinality(removable) ELSE 0
  BY DEF PlanGroup, Retried
<1>2. removable \in SUBSET Address /\ removable \cap desired = {}
  BY DEF Removable
<1>3. may \in SUBSET Address /\ retried \subseteq may
  BY DEF Earliest
<1>4. slots <= 0 => retried = {}
  <2>1. ASSUME slots <= 0, NEW a \in retried PROVE FALSE
    <3>1. {b \in may : b < a} \in SUBSET Address
      BY <1>3
    <3>2. Cardinality({b \in may : b < a}) \in Nat
      BY <3>1, AddressSets
    <3>3. Cardinality({b \in may : b < a}) < slots
      BY <2>1 DEF Earliest
    <3>. QED
      BY <2>1, <3>2, <3>3
  <2>. QED
    BY <2>1
<1>5. trips => Cardinality(removable) > 0
  BY <1>2, TripsOverSome
<1>. HIDE DEF plan, removable, trips
<1>6. ASSUME NEW a \in missing, a \notin plan.adds
      PROVE  /\ a \in plan.excluded
             /\ \/ a \in unmirrorable
                \/ a \in lapsed \ plan.retried /\ Cardinality(plan.retried) >= slots
  <2>1. a \in unmirrorable \/ a \in may \ retried
    BY <1>1, <1>6
  <2>. HIDE DEF may, retried
  <2>2. a \in may \ retried => Cardinality(retried) >= slots
    BY <1>3, EarliestFull DEF retried
  <2>3. a \in may => a \in lapsed
    BY DEF may
  <2>. QED
    BY <1>1, <1>6, <2>1, <2>2, <2>3
<1>7. plan.removes \cap desired = {}
  BY <1>1, <1>2
<1>8. plan.removes = removable \/ plan.refused > 0
  BY <1>1, <1>5
<1>9. PlanComplete(plan, desired, actual, unmirrorable, lapsed, slots)
  BY <1>1, <1>4, <1>6, <1>7, <1>8 DEF PlanComplete, removable
<1>. QED
  BY <1>9 DEF plan

\* A plan rechecked against what is wanted now removes nobody wanted now, and
\* only ever gets smaller.
THEOREM RecheckFacts ==
    ASSUME NEW plan \in GroupPlan, NEW fresh
    PROVE  LET new == Recheck(plan, fresh)
           IN  /\ new \in GroupPlan
               /\ new.removes \cap fresh = {}
               /\ new.removes \subseteq plan.removes
               /\ new.adds \subseteq plan.adds \cap fresh
               /\ new.refused = plan.refused
BY DEF Recheck, GroupPlan

-----------------------------------------------------------------------------
(* What a status that is written down does to the addresses to be asked for. *)

\* Ranks compare as what they are the ranks of.
LEMMA RankedKeepsOrder ==
    ASSUME NEW R \in SUBSET Address, NEW at, \A b \in R : at[b] \in Nat,
           NEW x \in R, NEW y \in R
    PROVE  Ranked(R, at)[x] < Ranked(R, at)[y] <=> at[x] < at[y]
<1>. DEFINE Below(z) == {b \in R : at[b] <= at[z]}
<1>1. /\ Ranked(R, at)[x] = Cardinality(Below(x))
      /\ Ranked(R, at)[y] = Cardinality(Below(y))
  BY DEF Ranked
<1>2. at[x] \in Nat /\ at[y] \in Nat /\ \A b \in R : at[b] \in Nat
  OBVIOUS
<1>3. ASSUME at[x] < at[y] PROVE Cardinality(Below(x)) < Cardinality(Below(y))
  <2>1. Below(y) \in SUBSET Address /\ Below(x) \in SUBSET Below(y)
    BY <1>2, <1>3
  <2>2. y \in Below(y) \ Below(x)
    BY <1>2, <1>3
  <2>. HIDE DEF Below
  <2>. QED
    BY <2>1, <2>2, StrictSubsetSmaller
<1>4. ASSUME ~ (at[x] < at[y])
      PROVE  ~ (Cardinality(Below(x)) < Cardinality(Below(y)))
  <2>1. Below(x) \in SUBSET Address /\ Below(y) \in SUBSET Below(x)
    BY <1>2, <1>4
  <2>. HIDE DEF Below
  <2>2. IsFiniteSet(Below(x)) /\ Cardinality(Below(x)) \in Nat
    BY <2>1, AddressSets
  <2>3. Cardinality(Below(y)) <= Cardinality(Below(x)) /\ Cardinality(Below(y)) \in Nat
    BY <2>1, <2>2, FS_Subset, FS_CardinalityType
  <2>. QED
    BY <2>2, <2>3
<1>. HIDE DEF Below
<1>. QED
  BY <1>1, <1>3, <1>4

\* A member's candidates are their own addresses, and one of them or both.
LEMMA CandidatesOwn ==
    ASSUME NEW r \in SyncAddresses
    PROVE  /\ CandidateSet(r) \subseteq Address
           /\ r.email \in CandidateSet(r)
           /\ \/ Candidates(r) = <<r.email>> /\ CandidateSet(r) = {r.email}
              \/ \E x, y \in Address : Candidates(r) = <<x, y>> /\ CandidateSet(r) = {x, y}
<1>1. r.email \in Address
  BY DEF SyncAddresses
<1>2. CASE Candidates(r) = <<r.email>>
  BY <1>1, <1>2 DEF CandidateSet
<1>3. CASE \E x, y \in Address : Candidates(r) = <<x, y>> /\ r.email \in {x, y}
  <2>1. PICK x \in Address, y \in Address : Candidates(r) = <<x, y>> /\ r.email \in {x, y}
    BY <1>3
  <2>2. CandidateSet(r) = {x, y}
    BY <2>1 DEF CandidateSet
  <2>. QED
    BY <2>1, <2>2
<1>. QED
  BY <1>1, <1>2, <1>3, CandidatesType

\* The target is one of the candidates.
LEMMA TargetIsCandidate ==
    ASSUME NEW r \in SyncAddresses, NEW st
    PROVE  SyncTarget(r, st) \in CandidateSet(r)
<1>1. CASE r.email \in Example
  BY <1>1, CandidatesOwn DEF SyncTarget
<1>2. CASE r.email \notin Example /\ Candidates(r) = <<r.email>>
  <2>1. CandidateSet(r) = {r.email} /\ Len(Candidates(r)) = 1 /\ Candidates(r)[1] = r.email
    BY <1>2 DEF CandidateSet
  <2>2. \A S : CandidateSet(r) \cap S # {} => FirstCandidateIn(r, S) = r.email
    BY <2>1 DEF FirstCandidateIn
  <2>3. CandidateSet(r) \subseteq Address
    BY CandidatesOwn
  <2>4. CandidateSet(r) \ DOMAIN st.refusedAt # {}
           => CandidateSet(r) \cap (Address \ DOMAIN st.refusedAt) # {}
    BY <2>3
  <2>5. LongestRefused(r, st) = r.email
    BY <2>1 DEF LongestRefused
  <2>. QED
    BY <1>2, <2>1, <2>2, <2>4, <2>5 DEF SyncTarget
<1>3. CASE r.email \notin Example /\ \E x, y \in Address : Candidates(r) = <<x, y>>
                                                          /\ CandidateSet(r) = {x, y}
  <2>1. Candidates(r)[1] \in CandidateSet(r) /\ Candidates(r)[2] \in CandidateSet(r)
    BY <1>3
  <2>. QED
    BY <1>3, <2>1 DEF SyncTarget, FirstCandidateIn, LongestRefused
<1>. QED
  BY <1>1, <1>2, <1>3, CandidatesOwn

\* Once a member's target has been accepted it stays their target.
LEMMA AcceptedTargetStays ==
    ASSUME NEW r \in SyncAddresses, NEW st
    PROVE  SyncTarget(r, RecordAccepted(st, SyncTarget(r, st))) = SyncTarget(r, st)
<1>. DEFINE a == SyncTarget(r, st)
            new == RecordAccepted(st, a)
<1>1. PICK t : t = a
  OBVIOUS
<1>2. new.accepted = st.accepted \cup {t}
  BY <1>1 DEF RecordAccepted
<1>3. t \in CandidateSet(r)
  BY <1>1, TargetIsCandidate
<1>4. CASE r.email \in Example
  BY <1>4 DEF SyncTarget
<1>5. CASE r.email \notin Example
  <2>1. SyncTarget(r, new) = FirstCandidateIn(r, st.accepted \cup {t})
    BY <1>2, <1>3, <1>5 DEF SyncTarget
  <2>2. CASE CandidateSet(r) \cap st.accepted # {}
    <3>1. t = FirstCandidateIn(r, st.accepted)
      BY <1>1, <1>5, <2>2 DEF SyncTarget
    <3>. QED
      BY <1>1, <2>1, <3>1 DEF FirstCandidateIn
  <2>3. CASE CandidateSet(r) \cap st.accepted = {}
    <3>1. Candidates(r)[1] \in CandidateSet(r)
      BY CandidatesOwn
    <3>2. t # Candidates(r)[1] => t = Candidates(r)[2]
      BY <1>3, CandidatesOwn
    <3>3. FirstCandidateIn(r, st.accepted \cup {t}) = t
      BY <2>3, <3>1, <3>2 DEF FirstCandidateIn
    <3>. QED
      BY <1>1, <2>1, <3>3
  <2>. QED
    BY <2>2, <2>3
<1>. QED
  BY <1>4, <1>5

\* The same candidates, accepted or refused in the same order, have the same target.
LEMMA SameTarget ==
    ASSUME NEW r \in SyncAddresses, NEW st, NEW new,
           CandidateSet(r) \cap new.accepted = CandidateSet(r) \cap st.accepted,
           CandidateSet(r) \cap DOMAIN new.refusedAt
              = CandidateSet(r) \cap DOMAIN st.refusedAt,
           \A x, y \in CandidateSet(r) \cap DOMAIN st.refusedAt :
              new.refusedAt[x] < new.refusedAt[y] <=> st.refusedAt[x] < st.refusedAt[y]
    PROVE  SyncTarget(r, new) = SyncTarget(r, st)
<1>1. CASE r.email \in Example
  BY <1>1 DEF SyncTarget
<1>2. CASE r.email \notin Example
  <2>1. Candidates(r)[1] \in CandidateSet(r) /\ CandidateSet(r) \subseteq Address
    BY CandidatesOwn
  <2>2. CandidateSet(r) \ DOMAIN new.refusedAt = CandidateSet(r) \ DOMAIN st.refusedAt
    OBVIOUS
  <2>3. /\ FirstCandidateIn(r, new.accepted) = FirstCandidateIn(r, st.accepted)
        /\ FirstCandidateIn(r, Address \ DOMAIN new.refusedAt)
              = FirstCandidateIn(r, Address \ DOMAIN st.refusedAt)
    BY <2>1, <2>2 DEF FirstCandidateIn
  <2>4. CandidateSet(r) \ DOMAIN st.refusedAt = {}
           => LongestRefused(r, new) = LongestRefused(r, st)
    BY CandidatesOwn DEF LongestRefused
  <2>. QED
    BY <1>2, <2>2, <2>3, <2>4 DEF SyncTarget
<1>. QED
  BY <1>1, <1>2

\* What is learned of one address changes no target of those who do not have it.
LEMMA TargetOfOthers ==
    ASSUME NEW r \in SyncAddresses, NEW st, IsStatuses(st), NEW a \in Address,
           a \notin CandidateSet(r)
    PROVE  /\ SyncTarget(r, RecordAccepted(st, a)) = SyncTarget(r, st)
           /\ SyncTarget(r, RecordRefused(st, a)) = SyncTarget(r, st)
<1>. DEFINE others == DOMAIN st.refusedAt \ {a}
            acc == RecordAccepted(st, a)
            ref == RecordRefused(st, a)
<1>1. others \in SUBSET Address /\ \A b \in others : st.refusedAt[b] \in Nat
  BY DEF IsStatuses
<1>2. acc.accepted = st.accepted \cup {a} /\ acc.refusedAt = Ranked(others, st.refusedAt)
  BY DEF RecordAccepted
<1>3. DOMAIN acc.refusedAt = others
  BY <1>2 DEF Ranked
<1>4. ref.accepted = st.accepted \ {a} /\ DOMAIN ref.refusedAt = others \cup {a}
  BY DEF RecordRefused
<1>5. \A x \in others : ref.refusedAt[x] = Ranked(others, st.refusedAt)[x]
  BY DEF RecordRefused
<1>6. \A x \in CandidateSet(r) \cap DOMAIN st.refusedAt : x \in others
  OBVIOUS
<1>. HIDE DEF acc, ref
<1>7. SyncTarget(r, acc) = SyncTarget(r, st)
  <2>1. ASSUME NEW x \in CandidateSet(r) \cap DOMAIN st.refusedAt,
               NEW y \in CandidateSet(r) \cap DOMAIN st.refusedAt
        PROVE  acc.refusedAt[x] < acc.refusedAt[y] <=> st.refusedAt[x] < st.refusedAt[y]
    BY <1>1, <1>2, <1>6, RankedKeepsOrder
  <2>. QED
    BY <1>2, <1>3, <2>1, SameTarget
<1>8. SyncTarget(r, ref) = SyncTarget(r, st)
  <2>1. ASSUME NEW x \in CandidateSet(r) \cap DOMAIN st.refusedAt,
               NEW y \in CandidateSet(r) \cap DOMAIN st.refusedAt
        PROVE  ref.refusedAt[x] < ref.refusedAt[y] <=> st.refusedAt[x] < st.refusedAt[y]
    BY <1>1, <1>5, <1>6, RankedKeepsOrder
  <2>. QED
    BY <1>4, <2>1, SameTarget
<1>. QED
  BY <1>7, <1>8 DEF acc, ref

-----------------------------------------------------------------------------
(* plan_group by its reference.                                             *)

\* Carrying a plan out leaves only what it withheld and what the fuse refused.
Settles(desired, actual, unmirrorable, lapsed, slots, mass) ==
    LET plan  == PlanGroup(desired, actual, unmirrorable, lapsed, slots, mass)
        again == PlanGroup(desired, After(plan, actual), unmirrorable, lapsed, slots, mass)
    IN  /\ again.adds \subseteq plan.excluded
        /\ again.removes = {} \/ plan.refused > 0
        /\ \A a \in Address : actual[a] = "protected" => After(plan, actual)[a] = "protected"

\* Every plan settles, for any number of retry slots.
LEMMA AfterPlan ==
    ASSUME NEW desired \in SUBSET Address, NEW actual \in [Address -> Kind],
           NEW unmirrorable \in SUBSET Address, NEW lapsed \in SUBSET Address,
           NEW slots, NEW mass
    PROVE  Settles(desired, actual, unmirrorable, lapsed, slots, mass)
<1>. DEFINE plan == PlanGroup(desired, actual, unmirrorable, lapsed, slots, mass)
            again == PlanGroup(desired, After(plan, actual), unmirrorable, lapsed,
                               slots, mass)
            missing == desired \ Present(actual)
            removable == Removable(desired, actual)
            after == After(plan, actual)
            left == desired \ Present(after)
            stays == Removable(desired, after)
<1>1. /\ plan.excluded = missing \ plan.adds /\ plan.adds \subseteq missing
      /\ \/ plan.removes = removable
         \/ plan.removes = {} /\ plan.refused = Cardinality(removable)
  BY DEF PlanGroup, Retried, Earliest
<1>2. again.adds \subseteq left /\ again.removes \subseteq stays
  BY DEF PlanGroup, Retried, Earliest
<1>3. \A a \in Address :
         after[a] = IF a \in plan.removes THEN "absent"
                    ELSE IF a \in plan.adds /\ actual[a] = "absent" THEN "member"
                    ELSE actual[a]
  BY DEF After
<1>. HIDE DEF after, plan, again
<1>4. plan.removes \subseteq removable
  BY <1>1
<1>5. left \subseteq missing \ plan.adds
  BY <1>1, <1>3, <1>4 DEF Present, Removable
<1>6. stays \subseteq removable \ plan.removes
  BY <1>1, <1>3 DEF Present, Removable
<1>7. again.removes # {} => plan.refused > 0
  <2>. SUFFICES ASSUME again.removes # {} PROVE plan.refused > 0
    OBVIOUS
  <2>1. removable # {} /\ plan.refused = Cardinality(removable)
    BY <1>1, <1>2, <1>6
  <2>2. removable \in SUBSET Address
    BY DEF Removable
  <2>. HIDE DEF removable
  <2>3. Cardinality(removable) \in Nat /\ IsFiniteSet(removable)
    BY <2>2, AddressSets
  <2>4. Cardinality(removable) # 0
    BY <2>1, <2>3, FS_EmptySet
  <2>. QED
    BY <2>1, <2>3, <2>4
<1>8. \A a \in Address : actual[a] = "protected" => after[a] = "protected"
  BY <1>3, <1>4 DEF Removable
<1>. QED
  BY <1>1, <1>2, <1>5, <1>7, <1>8 DEF after, plan, again, Settles

\* A size is above the rounded-up share of another just if one less than it is not
\* below the share.
LEMMA AboveShare ==
    ASSUME NEW n \in Nat, NEW s \in Nat, NEW d \in Nat \ {0}
    PROVE  n > (s + d - 1) \div d <=> (n - 1) * d >= s
<1>. DEFINE q == (s + d - 1) \div d
<1>1. q \in Int /\ q * d <= s + d - 1 /\ s + d - 1 < (q + 1) * d
  OBVIOUS
<1>. HIDE DEF q
<1>2. ASSUME n - 1 >= q PROVE (n - 1) * d >= s
  <2>1. (n - 1) * d >= q * d
    BY <1>1, <1>2
  <2>2. (q + 1) * d = q * d + d
    BY <1>1
  <2>. QED
    BY <1>1, <2>1, <2>2
<1>3. ASSUME n =< q PROVE (n - 1) * d < s
  <2>1. (n - 1) * d <= (q - 1) * d
    BY <1>1, <1>3
  <2>2. (q - 1) * d = q * d - d
    BY <1>1
  <2>. QED
    BY <1>1, <2>1, <2>2
<1>. QED
  BY <1>1, <1>2, <1>3 DEF q

\* The fuse by its reference: larger than the floor, and than the share of the group.
LEMMA FuseByShare ==
    ASSUME NEW desired \in SUBSET Address, NEW actual \in [Address -> Kind],
           NEW unmirrorable, NEW lapsed, NEW slots, NEW mass \in BOOLEAN,
           NEW plan, plan = PlanGroup(desired, actual, unmirrorable, lapsed, slots, mass),
           NEW n, n = Cardinality(Removable(desired, actual))
    PROVE  IF /\ ~ mass /\ n > RemovalFuseFloor
              /\ (n - 1) * RemovalFuseDivisor >= Cardinality(Present(actual))
           THEN plan.removes = {} /\ plan.refused = n
           ELSE plan.removes = Removable(desired, actual) /\ plan.refused = 0
<1>. DEFINE s == Cardinality(Present(actual))
            removable == Removable(desired, actual)
            trips == FuseTrips(removable, actual, mass)
<1>1. n \in Nat /\ s \in Nat
  <2>1. removable \in SUBSET Address /\ Present(actual) \in SUBSET Address
    BY DEF Removable, Present
  <2>. QED
    BY <2>1, AddressSets
<1>2. n > (s + RemovalFuseDivisor - 1) \div RemovalFuseDivisor
        <=> (n - 1) * RemovalFuseDivisor >= s
  BY <1>1, AboveShare, FuseAssumption
<1>3. trips <=> n > RemovalBudget(s) /\ ~ mass
  BY DEF FuseTrips
<1>4. n > RemovalBudget(s)
        <=> n > RemovalFuseFloor
            /\ n > (s + RemovalFuseDivisor - 1) \div RemovalFuseDivisor
  <2>. DEFINE share == (s + RemovalFuseDivisor - 1) \div RemovalFuseDivisor
  <2>1. share \in Int /\ RemovalFuseFloor \in Nat
    BY <1>1, FuseAssumption
  <2>2. RemovalBudget(s) = IF share > RemovalFuseFloor THEN share ELSE RemovalFuseFloor
    BY DEF RemovalBudget
  <2>. HIDE DEF share
  <2>3. n > RemovalBudget(s) <=> n > RemovalFuseFloor /\ n > share
    BY <1>1, <2>1, <2>2
  <2>. QED
    BY <2>3 DEF share
<1>5. /\ plan.removes = IF trips THEN {} ELSE removable
      /\ plan.refused = IF trips THEN n ELSE 0
  BY DEF PlanGroup
<1>. HIDE DEF trips, removable
<1>6. trips <=> /\ ~ mass /\ n > RemovalFuseFloor
                /\ (n - 1) * RemovalFuseDivisor >= s
  BY <1>2, <1>3, <1>4
<1>7. CASE trips
  BY <1>5, <1>6, <1>7
<1>8. CASE ~ trips
  BY <1>5, <1>6, <1>8 DEF removable
<1>. QED
  BY <1>7, <1>8

-----------------------------------------------------------------------------
(* sync_target by its reference.                                            *)

\* The answer is eligible, and nothing else eligible is preferred to it.
LEMMA TargetByPreference ==
    ASSUME NEW r \in SyncAddresses, NEW st, st.accepted \cap DOMAIN st.refusedAt = {},
           \A x \in DOMAIN st.refusedAt : st.refusedAt[x] \in Nat,
           \A x, y \in DOMAIN st.refusedAt :
              x # y => st.refusedAt[x] # st.refusedAt[y],
           r.email \notin Example
    PROVE  /\ SyncTarget(r, st) \in EligibleOf(r)
           /\ \A b \in EligibleOf(r) \ {SyncTarget(r, st)} :
                Preferred(r, st, SyncTarget(r, st), b)
<1>. DEFINE e == r.email
            t == r.alternate
            target == SyncTarget(r, st)
<1>0. e \in Address /\ t \in Address \cup {NoAddress} /\ NoAddress \notin Address
  BY AddressAssumption DEF SyncAddresses
<1>1. CASE t \in {NoAddress, e} \cup Example
  <2>1. Candidates(r) = <<e>> /\ CandidateSet(r) = {e}
    BY <1>1 DEF Candidates, CandidateSet
  <2>2. EligibleOf(r) = {e}
    BY <1>0, <1>1 DEF EligibleOf
  <2>3. \A S : e \in S => FirstCandidateIn(r, S) = e
    BY <2>1 DEF FirstCandidateIn
  <2>4. LongestRefused(r, st) = e
    BY <2>1 DEF LongestRefused
  <2>5. target = e
    <3>1. CASE e \in st.accepted
      BY <2>1, <2>3, <3>1 DEF SyncTarget
    <3>2. CASE e \notin st.accepted /\ e \notin DOMAIN st.refusedAt
      <4>1. e \in Address \ DOMAIN st.refusedAt
        BY <1>0, <3>2
      <4>. QED
        BY <2>1, <2>3, <3>2, <4>1 DEF SyncTarget
    <3>3. CASE e \notin st.accepted /\ e \in DOMAIN st.refusedAt
      BY <2>1, <2>4, <3>3 DEF SyncTarget
    <3>. QED
      BY <3>1, <3>2, <3>3
  <2>. QED
    BY <2>2, <2>5
<1>2. CASE t \notin {NoAddress, e} \cup Example
  <2>1. EligibleOf(r) = {e, t} /\ t # e
    BY <1>0, <1>2 DEF EligibleOf
  <2>2. PICK p, q : /\ Candidates(r) = <<p, q>> /\ {p, q} = {e, t} /\ p # q
                    /\ Place(r, p) < Place(r, q)
    <3>1. CASE t \in Gmail
      <4>1. Candidates(r) = <<t, e>> /\ Place(r, t) = 0 /\ Place(r, e) = 1
        BY <1>2, <2>1, <3>1 DEF Candidates, Place
      <4>. QED
        BY <2>1, <4>1
    <3>2. CASE t \notin Gmail
      <4>1. Candidates(r) = <<e, t>> /\ Place(r, e) = 1 /\ Place(r, t) = 2
        BY <1>2, <2>1, <3>2 DEF Candidates, Place
      <4>. QED
        BY <2>1, <4>1
    <3>. QED
      BY <3>1, <3>2
  <2>3. CandidateSet(r) = {p, q}
    BY <2>2 DEF CandidateSet
  <2>4. \A S : FirstCandidateIn(r, S) = IF p \in S THEN p ELSE q
    BY <2>2 DEF FirstCandidateIn
  <2>5. LongestRefused(r, st) = IF st.refusedAt[q] < st.refusedAt[p] THEN q ELSE p
    BY <2>2 DEF LongestRefused
  <2>6. p \in Address /\ q \in Address
    BY <1>0, <1>2, <2>2
  <2>7. CASE p \in st.accepted \/ q \in st.accepted
    <3>1. target = IF p \in st.accepted THEN p ELSE q
      BY <2>3, <2>4, <2>7 DEF SyncTarget
    <3>2. CASE p \in st.accepted
      <4>1. target = p /\ p \notin DOMAIN st.refusedAt
        BY <3>1, <3>2
      <4>2. Preferred(r, st, p, q)
        BY <2>2, <3>2, <4>1 DEF Preferred
      <4>. QED
        BY <2>1, <2>2, <4>1, <4>2
    <3>3. CASE p \notin st.accepted
      <4>1. target = q /\ Preferred(r, st, q, p)
        BY <2>7, <3>1, <3>3 DEF Preferred
      <4>. QED
        BY <2>1, <2>2, <4>1
    <3>. QED
      BY <3>2, <3>3
  <2>8. CASE {p, q} \cap st.accepted = {} /\ ~ ({p, q} \subseteq DOMAIN st.refusedAt)
    <3>1. target = IF p \notin DOMAIN st.refusedAt THEN p ELSE q
      BY <2>3, <2>4, <2>6, <2>8 DEF SyncTarget
    <3>2. CASE p \notin DOMAIN st.refusedAt
      <4>1. target = p
        BY <3>1, <3>2
      <4>2. Preferred(r, st, p, q)
        BY <2>2, <2>8, <3>2 DEF Preferred
      <4>. QED
        BY <2>1, <2>2, <4>1, <4>2
    <3>3. CASE p \in DOMAIN st.refusedAt
      <4>1. target = q /\ q \notin DOMAIN st.refusedAt
        BY <2>8, <3>1, <3>3
      <4>2. Preferred(r, st, q, p)
        BY <2>8, <3>3, <4>1 DEF Preferred
      <4>. QED
        BY <2>1, <2>2, <4>1, <4>2
    <3>. QED
      BY <3>2, <3>3
  <2>9. CASE {p, q} \cap st.accepted = {} /\ {p, q} \subseteq DOMAIN st.refusedAt
    <3>1. target = IF st.refusedAt[q] < st.refusedAt[p] THEN q ELSE p
      BY <2>3, <2>5, <2>9 DEF SyncTarget
    <3>2. /\ st.refusedAt[p] \in Nat /\ st.refusedAt[q] \in Nat
          /\ st.refusedAt[p] # st.refusedAt[q]
      BY <2>2, <2>9
    <3>3. \/ target = p /\ st.refusedAt[p] < st.refusedAt[q]
          \/ target = q /\ st.refusedAt[q] < st.refusedAt[p]
      BY <3>1, <3>2
    <3>. QED
      BY <2>1, <2>2, <2>9, <3>3 DEF Preferred
  <2>. QED
    BY <2>7, <2>8, <2>9
<1>. QED
  BY <1>1, <1>2

-----------------------------------------------------------------------------
(* The samples.                                                             *)

\* A behaviour stays at the sample it picked.
LEMMA SampleStays == SampleSpec => [](sample \in TargetSample \cup PlanSample)
<1>1. SampleInit => sample \in TargetSample \cup PlanSample
  BY DEF SampleInit
<1>2. /\ sample \in TargetSample \cup PlanSample
      /\ [SampleNext]_sample
      => (sample \in TargetSample \cup PlanSample)'
  BY DEF SampleNext
<1>. QED
  BY <1>1, <1>2, PTL DEF SampleSpec

\* Refusals are at different times, which are natural numbers.
LEMMA RefusedInOrder ==
    ASSUME NEW f \in RefusalTimes
    PROVE  /\ \A x \in DOMAIN f : f[x] \in Nat
           /\ \A x, y \in DOMAIN f : x # y => f[x] # f[y]
<1>1. PICK R \in SUBSET Address :
         f \in {g \in [R -> 1..Cardinality(R)] :
                  \A a, b \in R : a # b => g[a] # g[b]}
  BY DEF RefusalTimes
<1>2. f \in [R -> 1..Cardinality(R)] /\ \A a, b \in R : a # b => f[a] # f[b]
  BY <1>1
<1>3. Cardinality(R) \in Nat
  BY AddressSets
<1>. QED
  BY <1>2, <1>3

\* sync_target (group_sync.py) asks Google about the member's most preferred address,
\* whatever has been accepted and refused, and in whatever order.
THEOREM TargetPreferred == SampleSpec => []TargetIsPreferred
<1>1. sample \in TargetSample \cup PlanSample => TargetIsPreferred
  <2>. SUFFICES ASSUME sample \in TargetSample \cup PlanSample, sample.what = "target"
                PROVE  TargetIsPreferred
    BY DEF TargetIsPreferred
  <2>1. sample \in TargetSample
    BY DEF PlanSample
  <2>. DEFINE st == StatusesOf(sample)
  <2>2. /\ sample.row \in SyncAddresses
        /\ sample.refusedAt \in RefusalTimes
        /\ sample.accepted \cap DOMAIN sample.refusedAt = {}
    BY <2>1 DEF TargetSample
  <2>3. /\ st.accepted \cap DOMAIN st.refusedAt = {}
        /\ \A x \in DOMAIN st.refusedAt : st.refusedAt[x] \in Nat
        /\ \A x, y \in DOMAIN st.refusedAt : x # y => st.refusedAt[x] # st.refusedAt[y]
    BY <2>2, RefusedInOrder DEF StatusesOf
  <2>. HIDE DEF st
  <2>4. CASE sample.row.email \in Example
    BY <2>4 DEF TargetIsPreferred, SyncTarget
  <2>5. CASE sample.row.email \notin Example
    <3>1. /\ SyncTarget(sample.row, st) \in EligibleOf(sample.row)
          /\ \A b \in EligibleOf(sample.row) \ {SyncTarget(sample.row, st)} :
               Preferred(sample.row, st, SyncTarget(sample.row, st), b)
      BY <2>2, <2>3, <2>5, TargetByPreference
    <3>. QED
      BY <2>5, <3>1 DEF TargetIsPreferred, st
  <2>. QED
    BY <2>4, <2>5
<1>. QED
  BY <1>1, SampleStays, PTL

\* What a sample of plan_group's inputs is.
LEMMA PlanInputs ==
    ASSUME sample \in TargetSample \cup PlanSample, sample.what = "plan"
    PROVE  /\ sample.desired \in SUBSET Address
           /\ sample.actual \in [Address -> Kind]
           /\ sample.unmirrorable \in SUBSET Address
           /\ sample.lapsed \in SUBSET Address
           /\ sample.slots \in Nat
           /\ sample.mass \in BOOLEAN
<1>1. sample \in PlanSample
  BY DEF TargetSample
<1>. QED
  BY <1>1, SlotsAssumption DEF PlanSample

\* A plan of plan_group (reconcile.py) that was carried out leaves nothing to plan, but
\* for what it withheld and what the fuse refused.
THEOREM PlanSettles == SampleSpec => []PlanReachesFixpoint
<1>1. sample \in TargetSample \cup PlanSample => PlanReachesFixpoint
  <2>. SUFFICES ASSUME sample \in TargetSample \cup PlanSample, sample.what = "plan"
                PROVE  PlanReachesFixpoint
    BY DEF PlanReachesFixpoint
  <2>1. Settles(sample.desired, sample.actual, sample.unmirrorable, sample.lapsed,
                sample.slots, sample.mass)
    BY PlanInputs, AfterPlan
  <2>. QED
    BY <2>1 DEF Settles, PlanReachesFixpoint, PlanOf
<1>. QED
  BY <1>1, SampleStays, PTL

\* The fuse of plan_group (reconcile.py, removal_budget) refuses a removal set as a
\* whole, exactly when it is above the floor and above the share of the group.
THEOREM FuseIsExact == SampleSpec => []FuseRefusesMassRemoval
<1>1. sample \in TargetSample \cup PlanSample => FuseRefusesMassRemoval
  <2>. SUFFICES ASSUME sample \in TargetSample \cup PlanSample, sample.what = "plan"
                PROVE  FuseRefusesMassRemoval
    BY DEF FuseRefusesMassRemoval
  <2>. DEFINE plan == PlanOf(sample, sample.actual)
              unwanted == {a \in Address \ sample.desired : sample.actual[a] = "member"}
              n == Cardinality(unwanted)
  <2>1. plan = PlanGroup(sample.desired, sample.actual, sample.unmirrorable,
                         sample.lapsed, sample.slots, sample.mass)
    BY DEF PlanOf
  <2>2. unwanted = Removable(sample.desired, sample.actual)
    BY DEF Removable
  <2>3. FuseRefusesMassRemoval <=>
          IF /\ ~ sample.mass /\ n > RemovalFuseFloor
             /\ (n - 1) * RemovalFuseDivisor >= Cardinality(Present(sample.actual))
          THEN plan.removes = {} /\ plan.refused = n
          ELSE plan.removes = unwanted /\ plan.refused = 0
    BY DEF FuseRefusesMassRemoval
  <2>4. /\ sample.desired \in SUBSET Address
        /\ sample.actual \in [Address -> Kind]
        /\ sample.mass \in BOOLEAN
    BY PlanInputs
  <2>. HIDE DEF plan, unwanted
  <2>5. IF /\ ~ sample.mass /\ n > RemovalFuseFloor
           /\ (n - 1) * RemovalFuseDivisor >= Cardinality(Present(sample.actual))
        THEN plan.removes = {} /\ plan.refused = n
        ELSE plan.removes = unwanted /\ plan.refused = 0
    BY <2>1, <2>2, <2>4, FuseByShare
  <2>. QED
    BY <2>3, <2>5
<1>. QED
  BY <1>1, SampleStays, PTL
=============================================================================

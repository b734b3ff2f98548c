------------------------- MODULE SyncRulesReference -------------------------
(***************************************************************************)
(* Reference definitions of the rules, which say what sync_target and      *)
(* plan_group are to give and not how.  A behaviour picks one sample of    *)
(* their inputs and stays there: TLC goes through all of a small instance. *)
(***************************************************************************)
EXTENDS SyncRules

CONSTANT Slots  \* how many retry slots a run may have left

ASSUME SlotsAssumption == Slots \subseteq Nat

VARIABLE sample

\* Orders of refusal are written as ranks.
RefusalTimes ==
    UNION { {f \in [R -> 1..Cardinality(R)] :
                \A a, b \in R : a # b => f[a] # f[b]} : R \in SUBSET Address }

TargetSample ==
    { s \in [what : {"target"}, row : SyncAddresses,
             accepted : SUBSET Address, refusedAt : RefusalTimes] :
        s.accepted \cap DOMAIN s.refusedAt = {} }

PlanSample == [what : {"plan"}, desired : SUBSET Address,
               actual : [Address -> Kind], unmirrorable : SUBSET Address,
               lapsed : SUBSET Address, slots : Slots, mass : BOOLEAN]

SampleInit == sample \in TargetSample \cup PlanSample
SampleNext == UNCHANGED sample
SampleSpec == SampleInit /\ [][SampleNext]_sample

StatusesOf(s) == [accepted |-> s.accepted, refusedAt |-> s.refusedAt, live |-> {}]

PlanOf(s, actual) == PlanGroup(s.desired, actual, s.unmirrorable, s.lapsed,
                               s.slots, s.mass)

\* Google's listing once every add and every remove of a plan has worked: an
\* add of an address that is listed leaves it as it is.
After(plan, actual) ==
    [a \in Address |->
        IF a \in plan.removes THEN "absent"
        ELSE IF a \in plan.adds /\ actual[a] = "absent" THEN "member"
        ELSE actual[a]]

-----------------------------------------------------------------------------
(* The rule in sync_target's docstring, as a preference: an accepted address  *)
(* over one never refused, over a refused one; among accepted or never        *)
(* refused ones the gmail alternate, the primary, any other alternate; among  *)
(* refused ones the one refused longest ago.                                  *)

EligibleOf(row) ==
    {row.email} \cup
        IF row.alternate \in {NoAddress} \cup Example THEN {} ELSE {row.alternate}

Place(row, a) == IF a = row.email THEN 1 ELSE IF a \in Gmail THEN 0 ELSE 2

Preferred(row, st, a, b) ==
    \/ a \in st.accepted /\ b \notin st.accepted
    \/ /\ a \in st.accepted <=> b \in st.accepted
       /\ a \notin DOMAIN st.refusedAt
       /\ \/ b \in DOMAIN st.refusedAt
          \/ Place(row, a) < Place(row, b)
    \/ /\ {a, b} \subseteq DOMAIN st.refusedAt
       /\ {a, b} \cap st.accepted = {}
       /\ st.refusedAt[a] < st.refusedAt[b]

\* sync_target gives the one address nothing eligible is preferred to, and the
\* example primary of a fabricated record, whatever its alternate.
TargetIsPreferred ==
    sample.what = "target" =>
        LET a == SyncTarget(sample.row, StatusesOf(sample))
        IN  IF sample.row.email \in Example
            THEN a = sample.row.email
            ELSE /\ a \in EligibleOf(sample.row)
                 /\ \A b \in EligibleOf(sample.row) \ {a} :
                      Preferred(sample.row, StatusesOf(sample), a, b)

\* Carrying a plan out leaves nothing to plan, but for what was withheld and
\* what the fuse refused: no add of somebody who is there in another role, no
\* removal of somebody just added (plan_group).
PlanReachesFixpoint ==
    sample.what = "plan" =>
        LET plan  == PlanOf(sample, sample.actual)
            again == PlanOf(sample, After(plan, sample.actual))
        IN  /\ again.adds \subseteq plan.excluded
            /\ again.removes = {} \/ plan.refused > 0
            /\ \A a \in Address : sample.actual[a] = "protected" =>
                 After(plan, sample.actual)[a] = "protected"

\* The fuse refuses a removal set as a whole, exactly when it is larger than the
\* floor and larger than the tenth (1/RemovalFuseDivisor) of the listed group.
FuseRefusesMassRemoval ==
    sample.what = "plan" =>
        LET plan == PlanOf(sample, sample.actual)
            unwanted == {a \in Address \ sample.desired :
                           sample.actual[a] = "member"}
            n == Cardinality(unwanted)
        IN  IF /\ ~sample.mass
               /\ n > RemovalFuseFloor
               /\ (n - 1) * RemovalFuseDivisor >= Cardinality(Present(sample.actual))
            THEN plan.removes = {} /\ plan.refused = n
            ELSE plan.removes = unwanted /\ plan.refused = 0
=============================================================================

------------------------------ MODULE SyncRules ------------------------------
(***************************************************************************)
(* The pure rules the reconcile sweep and the panel's mirror share: which  *)
(* of a member's two addresses Google is asked about (group_sync.py), and  *)
(* what one group needs in order to match the records (reconcile.py).      *)
(*                                                                         *)
(* An address stands for its casefolded string.  Addresses are naturals    *)
(* so that "<" is the order sorted() gives them.                           *)
(***************************************************************************)
EXTENDS Naturals, FiniteSets, Sequences

CONSTANTS
    Address,            \* casefolded addresses
    Gmail,              \* those that end in @gmail.com
    Example,            \* those that end in @example.com
    NoAddress,          \* the None of an absent alternate_email
    RemovalFuseFloor,   \* 5 in the code
    RemovalFuseDivisor  \* 10 in the code: the fraction 0.10

ASSUME AddressAssumption ==
    /\ Address \subseteq Nat
    /\ IsFiniteSet(Address)
    /\ Gmail \subseteq Address
    /\ Example \subseteq Address
    /\ NoAddress \notin Address

ASSUME FuseAssumption ==
    /\ RemovalFuseFloor \in Nat
    /\ RemovalFuseDivisor \in Nat \ {0}

-----------------------------------------------------------------------------
(* Outcomes of one mirrored operation. *)

SyncOutcome == {"Applied", "SkippedExampleEmail", "SkippedDryRun",
                "AlreadyConverged", "NoGoogleAccount", "AddressNotFound",
                "Failed"}

UNMIRRORABLE == {"NoGoogleAccount", "AddressNotFound"}

ACCEPTED == {"Applied", "AlreadyConverged"}

SKIPPED == {"SkippedExampleEmail", "SkippedDryRun"}

-----------------------------------------------------------------------------
(* What Google last said about each address it was offered.  refusedAt maps *)
(* a refused address to when it was refused; live are the refusals still    *)
(* inside their window.                                                     *)

IsStatuses(st) ==
    /\ st = [accepted |-> st.accepted, refusedAt |-> st.refusedAt,
             live |-> st.live]
    /\ st.accepted \subseteq Address
    /\ DOMAIN st.refusedAt \subseteq Address
    /\ st.refusedAt \in [DOMAIN st.refusedAt -> Nat]
    /\ st.live \subseteq DOMAIN st.refusedAt

Lapsed(st) == DOMAIN st.refusedAt \ st.live

SyncAddresses == [email : Address, alternate : Address \cup {NoAddress}]

Candidates(row) ==
    IF row.alternate \in {NoAddress, row.email} \cup Example
    THEN <<row.email>>
    ELSE IF row.alternate \in Gmail
         THEN <<row.alternate, row.email>>
         ELSE <<row.email, row.alternate>>

CandidateSet(row) == {Candidates(row)[i] : i \in DOMAIN Candidates(row)}

\* The first of a row's candidates in S; the row must have one.
FirstCandidateIn(row, S) ==
    IF Candidates(row)[1] \in S THEN Candidates(row)[1] ELSE Candidates(row)[2]

\* min(candidates, key=refused_at): the first candidate on a tie.
LongestRefused(row, st) ==
    LET c == Candidates(row)
    IN  IF Len(c) = 2 /\ st.refusedAt[c[2]] < st.refusedAt[c[1]]
        THEN c[2] ELSE c[1]

\* Forgets what Google has accepted.
SyncTargetIgnoringAccepted(row, st) ==
    IF row.email \in Example
    THEN row.email
    ELSE IF CandidateSet(row) \ DOMAIN st.refusedAt # {}
         THEN FirstCandidateIn(row, Address \ DOMAIN st.refusedAt)
         ELSE LongestRefused(row, st)

\* Loses the order of the refusals: always retries the preferred address.
SyncTargetStuckOnFirst(row, st) ==
    IF row.email \in Example
    THEN row.email
    ELSE IF CandidateSet(row) \cap st.accepted # {}
         THEN FirstCandidateIn(row, st.accepted)
         ELSE Candidates(row)[1]

SyncTarget(row, st) ==
    IF row.email \in Example
    THEN row.email
    ELSE IF CandidateSet(row) \cap st.accepted # {}
         THEN FirstCandidateIn(row, st.accepted)
         ELSE IF CandidateSet(row) \ DOMAIN st.refusedAt # {}
              THEN FirstCandidateIn(row, Address \ DOMAIN st.refusedAt)
              ELSE LongestRefused(row, st)

\* The addresses a set of rows resolves to, example addresses dropped.
DesiredOf(rows, st) == {SyncTarget(row, st) : row \in rows} \ Example

-----------------------------------------------------------------------------
(* A listing maps every address to how Google lists it.  "protected" is an  *)
(* owner, a manager or an entry that is not a USER.                         *)

Kind == {"absent", "member", "protected"}

Present(actual) == {a \in Address : actual[a] # "absent"}

\* Rounds the share down.
RemovalBudgetRoundedDown(size) ==
    LET share == size \div RemovalFuseDivisor
    IN  IF share > RemovalFuseFloor THEN share ELSE RemovalFuseFloor

RemovalBudget(size) ==
    LET share == (size + RemovalFuseDivisor - 1) \div RemovalFuseDivisor
    IN  IF share > RemovalFuseFloor THEN share ELSE RemovalFuseFloor

\* The first n of S in sorted order.
Earliest(S, n) == {a \in S : Cardinality({b \in S : b < a}) < n}

GroupPlan == [adds : SUBSET Address, excluded : SUBSET Address,
              retried : SUBSET Address, removes : SUBSET Address,
              refused : Nat]

NoPlan == [adds |-> {}, excluded |-> {}, retried |-> {}, removes |-> {},
           refused |-> 0]

\* What may be swept out of a listing: plain members nobody wants there.
Removable(desired, actual) ==
    {a \in Address : actual[a] = "member"} \ desired

FuseTrips(removable, actual, allowMassRemoval) ==
    /\ Cardinality(removable) > RemovalBudget(Cardinality(Present(actual)))
    /\ ~allowMassRemoval

\* Offers the whole lapsed cohort at once.
RetriedAll(missing, unmirrorable, lapsed, slots) ==
    (missing \ unmirrorable) \cap lapsed

Retried(missing, unmirrorable, lapsed, slots) ==
    Earliest((missing \ unmirrorable) \cap lapsed, slots)

\* Compares only against plain members, so a manager is added again.
PlanGroupMembersOnly(desired, actual, unmirrorable, lapsed, slots, allowMassRemoval) ==
    LET missing   == {a \in desired : actual[a] # "member"}
        retried   == Retried(missing, unmirrorable, lapsed, slots)
        adds      == (missing \ (unmirrorable \cup lapsed)) \cup retried
        removable == Removable(desired, actual)
        trips     == FuseTrips(removable, actual, allowMassRemoval)
    IN  [adds     |-> adds,
         excluded |-> missing \ adds,
         retried  |-> retried,
         removes  |-> IF trips THEN {} ELSE removable,
         refused  |-> IF trips THEN Cardinality(removable) ELSE 0]

PlanGroup(desired, actual, unmirrorable, lapsed, slots, allowMassRemoval) ==
    LET missing   == desired \ Present(actual)
        retried   == Retried(missing, unmirrorable, lapsed, slots)
        adds      == (missing \ (unmirrorable \cup lapsed)) \cup retried
        removable == Removable(desired, actual)
        trips     == FuseTrips(removable, actual, allowMassRemoval)
    IN  [adds     |-> adds,
         excluded |-> missing \ adds,
         retried  |-> retried,
         removes  |-> IF trips THEN {} ELSE removable,
         refused  |-> IF trips THEN Cardinality(removable) ELSE 0]

\* Keeps the removals the snapshot planned.
RecheckAddsOnly(plan, fresh) ==
    [plan EXCEPT !.adds     = @ \cap fresh,
                 !.excluded = @ \cap fresh,
                 !.retried  = @ \cap fresh]

Recheck(plan, fresh) ==
    [plan EXCEPT !.adds     = @ \cap fresh,
                 !.removes  = @ \ fresh,
                 !.excluded = @ \cap fresh,
                 !.retried  = @ \cap fresh]

\* Whether a plan asks anything of Google or withholds anything from it.
PlansSomething(plan) ==
    plan.adds \cup plan.removes \cup plan.excluded # {}
-----------------------------------------------------------------------------
(* Writing a status down (google_email_status.py, _record): the address's   *)
(* one row is overwritten.  Refusal times are kept as ranks, because only   *)
(* their order is ever read.                                                *)

NoStatuses == [accepted |-> {}, refusedAt |-> <<>>, live |-> {}]

Ranked(R, at) == [a \in R |-> Cardinality({b \in R : at[b] <= at[a]})]

\* Leaves the refusal it overwrites in its window.
RecordAcceptedKeepingLive(st, a) ==
    LET others == DOMAIN st.refusedAt \ {a}
    IN  [accepted  |-> st.accepted \cup {a},
         refusedAt |-> Ranked(others, st.refusedAt),
         live      |-> st.live]

RecordAccepted(st, a) ==
    LET others == DOMAIN st.refusedAt \ {a}
    IN  [accepted  |-> st.accepted \cup {a},
         refusedAt |-> Ranked(others, st.refusedAt),
         live      |-> st.live \ {a}]

RecordRefused(st, a) ==
    LET others == DOMAIN st.refusedAt \ {a}
        at     == Ranked(others, st.refusedAt)
    IN  [accepted  |-> st.accepted \ {a},
         refusedAt |-> [b \in others \cup {a} |->
                           IF b = a THEN Cardinality(others) + 1 ELSE at[b]],
         live      |-> st.live \cup {a}]
=============================================================================

------------------------------- MODULE MCSweep -------------------------------
(***************************************************************************)
(* Small instances of Sweep.  Addresses are 1..3; 1 is a gmail address.    *)
(* Each run bounds what happens outside the sweep with the definitions     *)
(* below, so that one question is asked of each.                           *)
(***************************************************************************)
EXTENDS SweepProperties, TLC

CONSTANTS m1, m2

None == [k \in BoundKind |-> 0]

\* m1 has a primary and a gmail alternate, m2 has one address.
MCRow == (m1 :> [email |-> 2, alternate |-> 1])
         @@ (m2 :> [email |-> 3, alternate |-> NoAddress])

MCRows == {MCRow}

\* Both in both groups; nobody in the first; m1 only, in the second.
MCAudiences == {[g \in {1, 2} |-> {m1, m2}],
                (1 :> {}) @@ (2 :> {m1, m2}),
                (1 :> {m2}) @@ (2 :> {m1})}

\* m1 had no alternate until a pull brought one.
MCRowBefore == [MCRow EXCEPT ![m1].alternate = NoAddress]
MCRowsTwo == {MCRowBefore, MCRow}

ListingOf(members, protected) ==
    [a \in Address |-> IF a \in members THEN "member"
                       ELSE IF a \in protected THEN "protected" ELSE "absent"]

MCListings ==
    { (1 :> ListingOf(s, {})) @@ (2 :> ListingOf({2}, {})) : s \in {{}, {2, 3}} }

VerdictOf(noAccount, unknown) ==
    [a \in Address |-> IF a \in noAccount THEN "noAccount"
                       ELSE IF a \in unknown THEN "unknown" ELSE "held"]

MCVerdicts == {VerdictOf({}, {}), VerdictOf({1}, {}), VerdictOf({}, {1}),
               VerdictOf({3}, {1}), VerdictOf({1, 3}, {2})}

\* Without the last, for the liveness run: time is so coarse that refusals could lapse
\* as fast as they are written, and one retry slot does not serve two of them.
MCVerdictsOne == MCVerdicts \ {VerdictOf({1, 3}, {2})}

\* A group disappears and comes back, and a call fails.
BoundGroups == [None EXCEPT !["delete"] = 1, !["restore"] = 1, !["fault"] = 1]

\* The records and the addresses change under the sweep, and the panel records
\* an address.
BoundRecords == [None EXCEPT !["records"] = 1, !["rows"] = 1, !["panel"] = 1]

\* An operator rehearses, or lets a mass removal through.
BoundModes == [None EXCEPT !["operator"] = 2, !["fault"] = 1]

\* An account changes, a run dies.
BoundRefusals == [None EXCEPT !["account"] = 1, !["crash"] = 1]

BoundsRuns == {BoundGroups, BoundRecords, BoundModes, BoundRefusals}

\* A manual edit at Google, a failing call, an account that changes, and a run that dies
\* anywhere, also with what it learned not yet written.
BoundsConverges ==
    {[None EXCEPT !["outside"] = 1, !["fault"] = 1, !["account"] = 1, !["crash"] = 1]}

\* One group, for the liveness run.
MCAudiencesOne == {[g \in {1} |-> {m1, m2}], [g \in {1} |-> {m1}]}
MCListingsOne == {[g \in {1} |-> ListingOf({3}, {})],
                  [g \in {1} |-> ListingOf({}, {2})]}
=============================================================================

------------------------------- MODULE MCRoster -------------------------------
(***************************************************************************)
(* Small instances of Roster.  Row i starts as account i's; one body.      *)
(***************************************************************************)
EXTENDS RosterProperties, TLC

CONSTANTS e1, e2, e3, d1, b1

E(st, email, discord, leads) ==
    [st |-> st, email |-> email, discord |-> discord, good |-> TRUE, leads |-> leads]

\* Tables with the given members; leaders, adds (member, adder) and bans are rows.
T(members, leaders, adds, bans) ==
    [member  |-> [r \in Row |-> IF r \in DOMAIN members THEN AsRow(members[r])
                                                         ELSE NoMember],
     role    |-> [r \in Row |-> [b \in Body |->
                    IF r \in leaders THEN "leader"
                    ELSE IF \E a \in adds : a[1] = r THEN "member" ELSE "none"]],
     addedBy |-> [r \in Row |-> [b \in Body |->
                    IF \E a \in adds : a[1] = r
                    THEN (CHOOSE a \in adds : a[1] = r)[2] ELSE NoRow]],
     banned  |-> bans]

P1 == E(1, e1, NoDiscord, {})
P2 == E(2, e2, NoDiscord, {})
P3 == E(3, e3, d1, {b1})
People == <<P1, P2, P3>>

\* 1 was added by 3 and is banned; 2 was added by 1.
MCStart == T(People, {3}, {<<1, 3>>, <<2, 1>>}, {1})

\* 2 leads what 1 was added to; or 3 added both, and both are banned; or nobody was
\* added yet.
MCStarts == {MCStart, T(People, {2, 3}, {<<1, 3>>}, {}), T(People, {3}, {}, {2}),
             T(People, {3}, {<<1, 3>>, <<2, 3>>}, {1, 2})}

MCRostersFold ==
    { <<E(2, e1, NoDiscord, {}), P3>>,              \* 1 merged into 2
      <<E(4, e1, NoDiscord, {b1}), P2, P3>>,        \* 1 merged into a new account
      <<P3, E(4, e1, d1, {})>> }                    \* and 3 holds the Discord id

MCRosters == MCRostersFold \cup
    { People,
      <<P1, P2, E(3, e3, NoDiscord, {})>>,          \* 3 steps down
      <<E(1, e1, NoDiscord, {b1}), P2, P3>>,        \* 1 is promoted
      <<P1, E(4, e1, NoDiscord, {}), P2>>,          \* a clash; 3 is absent
      <<E(4, e1, NoDiscord, {}), E(5, e2, d1, {})>>, \* too many absent
      <<E(4, e3, d1, {b1}), P2>>,                   \* 3 merged, 1 absent
      <<P1, P3, P3>> }                              \* a leader named twice

None == [k \in BoundKind |-> 0]
OnlyPulls(n) == [None EXCEPT !["pull"] = n]
BoundsSafety == {OnlyPulls(2),
                 [OnlyPulls(1) EXCEPT !["panel"] = 2, !["ban"] = 1, !["crash"] = 1]}
\* For OneRaceLost.
BoundsThree == {OnlyPulls(3)}
BoundsTwo == {OnlyPulls(2)}
BoundsStored == {[None EXCEPT !["panel"] = 1]}

\* 1 takes 2's email and 2 takes 3's; 4 claims a leftover row.
MCStartStored == {T(<<P1, P2, P3>>, {3}, {}, {})}
MCRosterChain == {<<E(1, e2, NoDiscord, {}), E(2, e3, NoDiscord, {}), E(4, e1, d1, {b1})>>}
MCRostersStored == MCRosterChain \cup {<<E(1, e2, NoDiscord, {}), E(2, e1, d1, {}), E(4, e3, NoDiscord, {b1})>>}
=============================================================================

----------------------------- MODULE MCGroupAdmin -----------------------------
(***************************************************************************)
(* A small instance of GroupAdmin: two groups, two members.                *)
(***************************************************************************)
EXTENDS GroupAdminProperties, TLC

CONSTANTS g1, g2, m1, m2

MCRosters == {(g1 :> {m1} @@ g2 :> {m1, m2}), (g1 :> {m1} @@ g2 :> {})}

B(selects, logouts, faults, elsewheres) ==
    [select |-> selects, load |-> 1, logout |-> logouts, fault |-> faults,
     elsewhere |-> elsewheres]
MCBounds == {B(2, 0, 0, 0), B(1, 0, 1, 0), B(1, 0, 0, 1), B(0, 1, 1, 0)}
=============================================================================

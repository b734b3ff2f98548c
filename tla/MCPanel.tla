------------------------------- MODULE MCPanel -------------------------------
(***************************************************************************)
(* A small instance of Panel: member 1 leads the body, member 2 is added   *)
(* and removed.  Address 3 is 2's gmail alternate, 4 one that Google has   *)
(* no account for, 5 an example address.                                   *)
(***************************************************************************)
EXTENDS PanelProperties

CONSTANTS g1, g2

A(email, alternate) == [email |-> email, alternate |-> alternate]

MCRows == [m \in Member |->
             IF m = 1 THEN {A(1, NoAddress)}
             ELSE {A(2, 3), A(2, 4), A(5, NoAddress)}]

W(row, held, in) ==
    [role   |-> [m \in Member |-> IF m = 1 THEN "leader" ELSE held],
     member |-> [m \in Member |-> [addresses |-> IF m = 1 THEN A(1, NoAddress) ELSE row,
                                   good |-> TRUE, banned |-> FALSE]],
     link   |-> g1,
     google |-> [g \in MailGroup |-> IF g = g1 THEN in ELSE {}]]

MCStarts == {W(A(2, 3), "none", {}), W(A(2, 3), "member", {3}), W(A(2, 4), "none", {})}

None == [k \in BoundKind |-> 0]
MCBounds ==
    { [None EXCEPT !["request"] = 2, !["records"] = 1, !["fault"] = 1],
      [None EXCEPT !["request"] = 2, !["stop"] = 1, !["fault"] = 1],
      [None EXCEPT !["request"] = 1, !["stop"] = 1, !["relink"] = 1],
      [None EXCEPT !["request"] = 2, !["relink"] = 1, !["sweepDeath"] = 1],
      [None EXCEPT !["request"] = 3] }
=============================================================================

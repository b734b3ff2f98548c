----------------------------- MODULE MCProvision -----------------------------
(***************************************************************************)
(* Small instances of Provision: the names of bodies 1 and 2 collide, body *)
(* 3 has addresses of its own, body 4 cannot be named.                     *)
(***************************************************************************)
EXTENDS ProvisionProperties

CONSTANTS main, la, ea, lc, ec, x

MCLeaders == [b \in Body |-> CASE b \in {1, 2} -> la [] b = 3 -> lc [] b = 4 -> x]
MCEditors == [b \in Body |-> CASE b \in {1, 2} -> ea [] b = 3 -> ec [] b = 4 -> x]

MCHandLinks == {<<x, ec>>, <<ec, x>>}

W(present, armed, secure) ==
    [bodies |-> present, link |-> [b \in Body |-> Unlinked], marker |-> armed,
     group |-> [a \in Address |-> IF a \in secure THEN Secure ELSE NoGroup]]

\* An empty Google; a new body to be noticed by an armed run; bodies that collide;
\* somebody made a slack group before.
MCStarts ==
    { W({3}, FALSE, {}),
      W({1, 3}, TRUE, {main}),
      W({1, 2, 4}, FALSE, {main}),
      [W({3}, TRUE, {main}) EXCEPT !.group[lc] = [labels |-> TRUE, settings |-> FALSE]] }

None == [k \in BoundKind |-> 0]
MCBounds ==
    { [None EXCEPT !["fault"] = 2, !["body"] = 1],
      [None EXCEPT !["crash"] = 1, !["link"] = 1, !["rehearsal"] = 1],
      [None EXCEPT !["fault"] = 1, !["outside"] = 1] }
=============================================================================

------------------------------- MODULE MCLogin -------------------------------
(***************************************************************************)
(* A small instance of Login: two browsers, three visits, two ticks to a   *)
(* window.  Times are not to scale, their order is: an assertion and a     *)
(* state cookie end before an idle session, that before its full age.      *)
(***************************************************************************)
EXTENDS LoginProperties, TLC

Browsers == Permutations(Browser)

Row(known, assessment, banned) ==
    [known |-> known, assessment |-> assessment, banned |-> banned]

MCRows == {Row(TRUE, "leader", FALSE), Row(TRUE, "leader", TRUE)}

C(standing) == [pinned |-> TRUE, signed |-> TRUE, ours |-> TRUE, whole |-> TRUE,
                numeric |-> TRUE, standing |-> standing, member |-> CHOOSE m \in Member : TRUE]
MCAnswers == {C("member"), C("dues_expired"), [C("member") EXCEPT !.ours = FALSE]}

B(begins, reloads, requests, records, faults) ==
    [begin |-> begins, reload |-> reloads, request |-> requests, records |-> records,
     fault |-> faults]
MCBounds == {B(2, 1, 0, 0, 0), B(1, 1, 0, 1, 1), B(2, 0, 1, 0, 0), B(1, 0, 2, 1, 0), B(1, 1, 1, 0, 1)}
=============================================================================

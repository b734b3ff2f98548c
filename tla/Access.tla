-------------------------------- MODULE Access --------------------------------
(***************************************************************************)
(* What the login promises, without how (web/auth.py, web/sessions.py):    *)
(* an assertion of botonio's opens one session at most for as long as it   *)
(* is valid, and a session that has ended, by logout, by age or by         *)
(* idleness, never answers again.  Login implements it.                    *)
(***************************************************************************)
CONSTANTS Session, Assertion

VARIABLES
    live,   \* the sessions that answer
    over,   \* the sessions that have answered and no longer do
    valid,  \* the assertions that are issued and not past their expiry
    spent   \* the assertions that have opened a session

vars == <<live, over, valid, spent>>

Init == live = {} /\ over = {} /\ valid = {} /\ spent = {}

Issue(a) ==
    /\ a \notin spent
    /\ valid' = valid \cup {a}
    /\ UNCHANGED <<live, over, spent>>

Open(s, a) ==
    /\ s \notin live \cup over
    /\ a \in valid => a \notin spent
    /\ live' = live \cup {s}
    /\ spent' = spent \cup {a}
    /\ UNCHANGED <<over, valid>>

\* Time passes, or someone logs out.
End ==
    /\ live' \subseteq live
    /\ over' = over \cup (live \ live')
    /\ valid' \subseteq valid
    /\ UNCHANGED spent

Next ==
    \/ \E a \in Assertion : Issue(a)
    \/ \E s \in Session, a \in Assertion : Open(s, a)
    \/ End

Spec == Init /\ [][Next]_vars
=============================================================================

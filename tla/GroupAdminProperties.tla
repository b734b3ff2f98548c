-------------------------- MODULE GroupAdminProperties --------------------------
(***************************************************************************)
(* What the leader's page promises.                                        *)
(***************************************************************************)
EXTENDS GroupAdmin

\* Every variable has its type (frontend/src/useGroupAdmin.ts).
TypeOK ==
    /\ session \in {"in", "leaving", "out"}
    /\ server \in [Group -> SUBSET Member]
    /\ groups \in [Group -> SUBSET Member]
    /\ selected \in Group \cup {Nothing}
    /\ screen \subseteq Member /\ removing \subseteq Member
    /\ found \in Member \cup {Nothing}
    /\ handle \in [Member -> Op \cup {Nothing}]
    /\ op \in [Op -> Ops]
    /\ crossed \subseteq Group \X Member /\ blurred \subseteq Member
    /\ undone \subseteq Op /\ overlapped \subseteq Op
    /\ stranded \in BOOLEAN
    /\ left \in [BoundKind -> Nat]

\* Once its operations are answered the page shows what the service has, whatever groups
\* were shown meanwhile: the cache agrees with the service on every membership that two
\* operations were not at, whose answer was not lost and that no one else has changed;
\* and the screen agrees with the cache on every member but those whom an answer for
\* another group has reached (useGroupAdmin.ts, patchRoster).
PageFollows ==
    \A g \in Group, m \in Member :
       selected # Nothing =>
          /\ <<g, m>> \notin crossed /\ UnderWay(g, m) = {}
                => (m \in groups[g] <=> m \in server[g])
          /\ g = selected /\ m \notin blurred => (m \in screen <=> m \in groups[g])

\* "Undo cancels the timer before anything is sent", as long as no two removals of one
\* member are armed at once (useGroupAdmin.ts, undoRemove).
UndoneIsNotSent ==
    \A o \in undone \ overlapped : op[o].stage = "cancelled"

\* A tombstone comes down, unless a logout failed that had stopped its timer
\* (useGroupAdmin.ts, startRemove, logout).
TombstonesSettle ==
    \A m \in Member : m \in removing ~> (m \notin removing \/ stranded)
=============================================================================

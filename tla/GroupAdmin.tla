------------------------------ MODULE GroupAdmin ------------------------------
(***************************************************************************)
(* The page a leader works in (frontend/src/useGroupAdmin.ts): one group   *)
(* at a time on the screen, behind it the cache of all groups' rosters,    *)
(* and the requests and deferred removals that are under way.  Each        *)
(* request is on its own: the group shown may change before it answers.    *)
(***************************************************************************)
EXTENDS Integers, FiniteSets

CONSTANTS
    Group,
    Member,
    Op,         \* the ids of searches, adds and removals, in the order they come
    Nothing,
    Rosters,    \* the rosters the service may start with
    Bounds      \* how often each thing of BoundKind may happen

BoundKind == {"select", "load", "logout", "fault", "elsewhere"}

\* An add or a removal that the server has done is "ok", one it refused or never saw
\* "failed".
Stage == {"unused", "armed", "sent", "ok", "failed", "answered", "cancelled"}

\* listed: whether the member was on the screen when the search began.
Ops == [kind : {"search", "add", "remove"}, group : Group, member : Member,
        stage : Stage, listed : BOOLEAN]

ASSUME GroupAdminAssumption ==
    /\ Op \subseteq Nat /\ Group # {} /\ Member # {}
    /\ Nothing \notin Group \cup Member \cup Op
    /\ Rosters \subseteq [Group -> SUBSET Member]
    /\ Bounds \subseteq [BoundKind -> Nat]

VARIABLES
    session,    \* "in", "leaving" while the logout is under way, "out"
    server,     \* body_memberships, as the service has them: per group, its members
    groups,     \* groupsRef: the cache
    selected,   \* selectedId, which is the group on the screen
    screen,     \* state.group.members
    removing,   \* state.removingIds: the tombstones
    found,      \* the member the add panel offers, or Nothing
    handle,     \* removeTimers: per member, the removal whose timer it holds, or Nothing
    op,         \* per id, the operation
    crossed,    \* history: group and member that two operations were at, or whose
                \* answer was lost, or that another leader has changed
    blurred,    \* history: members whose answer for another group reached this screen
    undone,     \* history: removals whose tombstone the leader undid
    overlapped, \* history: removals of a member who had another armed
    stranded,   \* history: a logout has failed
    left        \* what is left of the behaviour's bounds

page == <<session, groups, selected, screen, removing, found, handle>>
history == <<crossed, blurred, undone, overlapped, stranded>>
vars == <<page, server, op, history, left>>

Spend(kind) == left[kind] > 0 /\ left' = [left EXCEPT ![kind] = @ - 1]

-----------------------------------------------------------------------------

NoOp == [kind |-> "search", group |-> CHOOSE g \in Group : TRUE,
         member |-> CHOOSE m \in Member : TRUE, stage |-> "unused", listed |-> FALSE]

Armed(m) == {o \in Op : op[o].stage = "armed" /\ op[o].member = m}

\* The adds and removals of m in g that the page has not heard of yet.
UnderWay(g, m) ==
    {o \in Op : /\ op[o].kind # "search" /\ op[o].group = g /\ op[o].member = m
                /\ op[o].stage \in {"armed", "sent", "ok", "failed"}}

Put(o, kind, m, stage) ==
    /\ op[o].stage = "unused" /\ \A q \in Op : q < o => op[q].stage # "unused"
    /\ op' = [op EXCEPT ![o] = [kind |-> kind, group |-> selected, member |-> m,
                                stage |-> stage, listed |-> m \in screen]]

Move(o, stage) == op' = [op EXCEPT ![o].stage = stage]

Init ==
    /\ session = "in"
    /\ server \in Rosters
    /\ groups = [g \in Group |-> {}]
    /\ selected = Nothing
    /\ screen = {} /\ removing = {} /\ found = Nothing
    /\ handle = [m \in Member |-> Nothing]
    /\ op = [o \in Op |-> NoOp]
    /\ crossed = {} /\ blurred = {} /\ undone = {} /\ overlapped = {}
    /\ stranded = FALSE
    /\ left \in Bounds

\* loadOk: the group is shown as it is in the cache, without tombstones or offers.
Show(g, rosters) ==
    /\ selected' = g
    /\ screen' = rosters[g]
    /\ removing' = {} /\ found' = Nothing
    /\ blurred' = {}

\* getGroups, and the first of them is opened.
Load(g) ==
    /\ session = "in" /\ selected = Nothing
    /\ Spend("load")
    /\ groups' = server
    /\ Show(g, server)
    /\ UNCHANGED <<session, handle, server, op, crossed, undone, overlapped, stranded>>

Select(g) ==
    /\ selected # Nothing
    /\ Spend("select")
    /\ Show(g, groups)
    /\ UNCHANGED <<session, groups, handle, server, op, crossed, undone, overlapped, stranded>>

Search(o, m) ==
    /\ selected # Nothing
    /\ Put(o, "search", m, "sent")
    /\ found' = Nothing
    /\ UNCHANGED <<session, groups, selected, screen, removing, handle, server, history, left>>

\* The member whom a search turns up is offered, unless the group that was on the screen
\* when it began has them.
SearchAnswers(o) ==
    /\ op[o].kind = "search" /\ op[o].stage = "sent"
    /\ Move(o, "answered")
    /\ found' \in {Nothing} \cup (IF op[o].listed THEN {} ELSE {op[o].member})
    /\ UNCHANGED <<session, groups, selected, screen, removing, handle, server, history, left>>

\* changeMode, and a message that has been there for MSG_MS.
ClearAdd ==
    /\ found # Nothing
    /\ found' = Nothing
    /\ UNCHANGED <<session, groups, selected, screen, removing, handle, server, op,
                   history, left>>

\* Two operations on the same membership.
Cross(m) ==
    crossed' = IF UnderWay(selected, m) = {} THEN crossed ELSE crossed \cup {<<selected, m>>}

\* The offer stays on the screen until the answer.
ConfirmAdd(o) ==
    /\ selected # Nothing /\ found # Nothing
    /\ found \notin screen
    /\ Put(o, "add", found, "sent")
    /\ Cross(found)
    /\ UNCHANGED <<page, server, blurred, undone, overlapped, stranded, left>>

\* The tombstone is put up and the timer is set; the member's handle is the new one's.
StartRemove(o, m) ==
    /\ selected # Nothing
    /\ m \in screen \ removing
    /\ Put(o, "remove", m, "armed")
    /\ removing' = removing \cup {m}
    /\ handle' = [handle EXCEPT ![m] = o]
    /\ Cross(m)
    /\ overlapped' = IF Armed(m) = {} THEN overlapped ELSE overlapped \cup Armed(m) \cup {o}
    /\ UNCHANGED <<session, groups, selected, screen, found, server, blurred, undone,
                   stranded, left>>

\* The timer runs out, and takes the member's handle with it, whichever removal's it is.
Fire(o) ==
    /\ op[o].stage = "armed"
    /\ Move(o, "sent")
    /\ handle' = [handle EXCEPT ![op[o].member] = Nothing]
    /\ UNCHANGED <<session, groups, selected, screen, removing, found, server, history, left>>

\* The removals whose timers the page still holds.
Held == {o \in Op : \E m \in Member : handle[m] = o}

\* The removals of m in the group on the screen that the leader takes back.
TakenBack(m) == {o \in Armed(m) : op[o].group = selected}

\* The tombstone comes down and nothing else happens.
UndoOfScreen(m) ==
    /\ m \in removing
    /\ removing' = removing \ {m}
    /\ undone' = undone \cup TakenBack(m)
    /\ UNCHANGED <<session, groups, selected, screen, found, handle, server, op,
                   crossed, blurred, overlapped, stranded, left>>

Undo(m) ==
    /\ m \in removing
    /\ removing' = removing \ {m}
    /\ undone' = undone \cup TakenBack(m)
    /\ op' = [o \in Op |-> IF handle[m] = o THEN [op[o] EXCEPT !.stage = "cancelled"] ELSE op[o]]
    /\ handle' = [handle EXCEPT ![m] = Nothing]
    /\ UNCHANGED <<session, groups, selected, screen, found, server,
                   crossed, blurred, overlapped, stranded, left>>

-----------------------------------------------------------------------------
(* The service, and its answers. *)

\* An add of one who is in the group and a removal of one who is not are refused, and so
\* is everything once the session has ended.
Arrives(o) ==
    LET g == op[o].group
        m == op[o].member
        does == session # "out" /\ ((op[o].kind = "add") <=> (m \notin server[g]))
    IN /\ op[o].kind # "search" /\ op[o].stage = "sent"
       /\ Move(o, IF does THEN "ok" ELSE "failed")
       /\ server' = IF ~ does THEN server
                    ELSE IF op[o].kind = "add"
                    THEN [server EXCEPT ![g] = @ \cup {m}]
                    ELSE [server EXCEPT ![g] = @ \ {m}]
       /\ UNCHANGED <<page, history, left>>

\* The request, or its answer, does not get through.
Lost(o) ==
    /\ op[o].kind # "search" /\ op[o].stage \in {"sent", "ok"}
    /\ Spend("fault")
    /\ Move(o, "failed")
    /\ crossed' = IF op[o].stage = "ok"
                  THEN crossed \cup {<<op[o].group, op[o].member>>} ELSE crossed
    /\ UNCHANGED <<page, server, blurred, undone, overlapped, stranded>>

\* The cache is patched at the group that is on the screen.
PatchedShown(o, roster) ==
    IF selected = Nothing THEN groups ELSE [groups EXCEPT ![selected] = roster[selected]]

\* patchRoster: the group the operation was for.
Patched(o, roster) == [groups EXCEPT ![op[o].group] = roster[op[o].group]]

With(m) == [g \in Group |-> groups[g] \cup {m}]
Without(m) == [g \in Group |-> groups[g] \ {m}]

\* What reaches a screen that shows another group.
Blur(o) ==
    blurred' = IF selected \in {Nothing, op[o].group} THEN blurred
               ELSE blurred \cup {op[o].member}

\* added, and patchRoster.  A screen without a group takes nothing in.
Added(o) ==
    LET m == op[o].member
    IN /\ op[o].kind = "add" /\ op[o].stage = "ok"
       /\ Move(o, "answered")
       /\ IF selected = Nothing
          THEN UNCHANGED <<screen, found, groups>>
          ELSE /\ screen' = screen \cup {m}
               /\ found' = Nothing
               /\ groups' = Patched(o, With(m))
       /\ Blur(o)
       /\ UNCHANGED <<session, selected, removing, handle, server,
                      crossed, undone, overlapped, stranded, left>>

\* removeCommit, and patchRoster.
Removed(o) ==
    LET m == op[o].member
    IN /\ op[o].kind = "remove" /\ op[o].stage = "ok"
       /\ Move(o, "answered")
       /\ IF selected = Nothing
          THEN UNCHANGED <<screen, removing, groups>>
          ELSE /\ screen' = screen \ {m}
               /\ removing' = removing \ {m}
               /\ groups' = Patched(o, Without(m))
       /\ Blur(o)
       /\ UNCHANGED <<session, selected, found, handle, server,
                      crossed, undone, overlapped, stranded, left>>

\* A failure is shown and the tombstone is left.
RefusedAndLeft(o) ==
    /\ op[o].stage = "failed"
    /\ Move(o, "answered")
    /\ found' = IF op[o].kind = "add" THEN Nothing ELSE found
    /\ UNCHANGED <<session, groups, selected, screen, removing, handle, server, history, left>>

\* addErr, removeErr.
Refused(o) ==
    /\ op[o].stage = "failed"
    /\ Move(o, "answered")
    /\ IF op[o].kind = "add"
       THEN found' = Nothing /\ UNCHANGED removing
       ELSE removing' = removing \ {op[o].member} /\ UNCHANGED found
    /\ UNCHANGED <<session, groups, selected, screen, handle, server, history, left>>

\* Another leader, or a pull.
Elsewhere(g, m) ==
    /\ Spend("elsewhere")
    /\ \/ server' = [server EXCEPT ![g] = @ \cup {m}]
       \/ server' = [server EXCEPT ![g] = @ \ {m}]
    /\ crossed' = crossed \cup {<<g, m>>}
    /\ UNCHANGED <<page, op, blurred, undone, overlapped, stranded>>

\* logout, up to its await: the timers that are held are stopped.
Logout ==
    /\ session = "in"
    /\ Spend("logout")
    /\ session' = "leaving"
    /\ op' = [o \in Op |-> IF o \in Held THEN [op[o] EXCEPT !.stage = "cancelled"] ELSE op[o]]
    /\ handle' = [m \in Member |-> Nothing]
    /\ UNCHANGED <<groups, selected, screen, removing, found, server, history>>

\* It answers, and the page is as it was before the login; or it throws, and the
\* tombstones of the timers that were stopped stay up.
LogoutEnds ==
    /\ session = "leaving"
    /\ \/ /\ session' = "out"
          /\ groups' = [g \in Group |-> {}]
          /\ selected' = Nothing
          /\ screen' = {} /\ removing' = {} /\ found' = Nothing
          /\ blurred' = {}
          /\ UNCHANGED <<stranded, left>>
       \/ /\ Spend("fault")
          /\ session' = "in"
          /\ stranded' = TRUE
          /\ UNCHANGED <<groups, selected, screen, removing, found, blurred>>
    /\ UNCHANGED <<handle, server, op, crossed, undone, overlapped>>

-----------------------------------------------------------------------------

OpStep(o) ==
    \/ SearchAnswers(o) \/ Fire(o) \/ Arrives(o)
    \/ Added(o) \/ Removed(o) \/ Refused(o)

Next ==
    \/ \E g \in Group : Load(g) \/ Select(g)
    \/ \E o \in Op : OpStep(o) \/ Lost(o) \/ ConfirmAdd(o)
    \/ \E o \in Op, m \in Member : Search(o, m) \/ StartRemove(o, m)
    \/ \E m \in Member : Undo(m)
    \/ ClearAdd
    \/ \E g \in Group, m \in Member : Elsewhere(g, m)
    \/ Logout \/ LogoutEnds

Spec == Init /\ [][Next]_vars

\* A timer runs out, and a request is answered or fails, a logout included.
FairSpec == Spec /\ (\A o \in Op : WF_vars(OpStep(o))) /\ WF_vars(LogoutEnds)
=============================================================================

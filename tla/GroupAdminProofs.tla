--------------------------- MODULE GroupAdminProofs ---------------------------
(***************************************************************************)
(* The leader's page, for any groups, members and number of operations,    *)
(* any rosters and any bounds: its types, what it shows once its           *)
(* operations are answered, and what an undo stops.                        *)
(***************************************************************************)
EXTENDS GroupAdminProperties, TLAPS

-----------------------------------------------------------------------------
(* The inductive invariant.                                                 *)

\* Nothing is under way before the first page is loaded, and none is loaded again once
\* the leader is out.
Opened ==
    /\ session = "out" => selected = Nothing
    /\ selected = Nothing /\ session # "out" => \A o \in Op : op[o].stage = "unused"

\* Only removals wait for a timer, and a member's handle is of a removal of theirs that
\* does.
Timers ==
    /\ \A o \in Op : op[o].stage = "armed" => op[o].kind = "remove"
    /\ \A m \in Member : handle[m] # Nothing =>
          op[handle[m]].stage = "armed" /\ op[handle[m]].member = m

\* What the page has not heard of a membership: at most one operation, and nothing that
\* the service has not carried out.
Follows(g, m) ==
    /\ \A o, q \in UnderWay(g, m) : o = q
    /\ \A o \in UnderWay(g, m) : op[o].stage = "ok" => (op[o].kind = "add" <=> m \in server[g])
    /\ (\A o \in UnderWay(g, m) : op[o].stage # "ok") => (m \in groups[g] <=> m \in server[g])

CacheFollows ==
    \A g \in Group, m \in Member : selected # Nothing /\ <<g, m>> \notin crossed => Follows(g, m)

ScreenFollows ==
    \A m \in Member : selected # Nothing /\ m \notin blurred =>
        (m \in screen <=> m \in groups[selected])

\* The removal that no other of its member has met is the one its member's handle is of.
Reached ==
    /\ \A o \in Op \ overlapped : op[o].stage = "armed" => handle[op[o].member] = o
    /\ \A m \in Member : \A o, q \in Armed(m) : o # q => o \in overlapped

PageInv ==
    TypeOK /\ Opened /\ Timers /\ CacheFollows /\ ScreenFollows /\ Reached /\ UndoneIsNotSent

-----------------------------------------------------------------------------
(* Steps of an operation.                                                   *)

LEMMA NoOpType == NoOp \in Ops /\ NoOp.stage = "unused"
BY GroupAdminAssumption DEF NoOp, Ops, Stage

\* The member and the group of an operation do not change, and of its stages only those
\* of S go on to t.
Steps(S, t) ==
    /\ op' \in [Op -> Ops]
    /\ \A o \in Op : /\ op'[o].kind = op[o].kind /\ op'[o].group = op[o].group
                     /\ op'[o].member = op[o].member
                     /\ op'[o].stage = IF o \in S THEN t ELSE op[o].stage

LEMMA MoveSteps ==
    ASSUME TypeOK, NEW o \in Op, NEW t \in Stage, Move(o, t)
    PROVE  Steps({o}, t)
<1>1. op \in [Op -> Ops] /\ op' = [op EXCEPT ![o].stage = t]
  BY DEF TypeOK, Move
<1>. QED
  BY <1>1 DEF Steps, Ops

\* Those of S are stopped.
LEMMA StopSteps ==
    ASSUME TypeOK, NEW S \in SUBSET Op,
           op' = [o \in Op |-> IF o \in S THEN [op[o] EXCEPT !.stage = "cancelled"] ELSE op[o]]
    PROVE  Steps(S, "cancelled")
<1>1. op \in [Op -> Ops]
  BY DEF TypeOK
<1>. QED
  BY <1>1 DEF Steps, Ops, Stage

\* A new operation.
LEMMA PutSteps ==
    ASSUME TypeOK, NEW o \in Op, NEW kind \in {"search", "add", "remove"},
           NEW m \in Member, NEW t \in Stage, selected # Nothing, Put(o, kind, m, t)
    PROVE  /\ op' \in [Op -> Ops] /\ op[o].stage = "unused"
           /\ op'[o].kind = kind /\ op'[o].member = m
           /\ op'[o].group = selected /\ op'[o].stage = t
           /\ \A q \in Op \ {o} : op'[q] = op[q]
<1>1. op \in [Op -> Ops]
  BY DEF TypeOK
<1>2. selected \in Group /\ (m \in screen) \in BOOLEAN
  BY DEF TypeOK
<1>. QED
  BY <1>1, <1>2 DEF Put, Ops

-----------------------------------------------------------------------------
(* Types.                                                                   *)

LEMMA SpendType ==
    ASSUME TypeOK, NEW kind \in BoundKind, Spend(kind)
    PROVE  left' \in [BoundKind -> Nat]
BY DEF TypeOK, Spend

LEMMA TypeInit == Init => TypeOK
<1>. SUFFICES ASSUME Init PROVE TypeOK
  OBVIOUS
<1>1. server \in [Group -> SUBSET Member] /\ left \in [BoundKind -> Nat]
  BY GroupAdminAssumption DEF Init
<1>2. op \in [Op -> Ops]
  BY NoOpType DEF Init
<1>. QED
  BY <1>1, <1>2 DEF Init, TypeOK

LEMMA TypeStep == TypeOK /\ [Next]_vars => TypeOK'
<1>. SUFFICES ASSUME TypeOK, [Next]_vars PROVE TypeOK'
  OBVIOUS
<1>. USE DEF Show, Stage
<1>1. CASE UNCHANGED vars
  BY <1>1 DEF TypeOK, vars, page, history
<1>2. ASSUME NEW g \in Group, Load(g) PROVE TypeOK'
  <2>1. left' \in [BoundKind -> Nat]
    BY <1>2, SpendType DEF Load, BoundKind
  <2>. QED
    BY <1>2, <2>1 DEF Load, TypeOK
<1>3. ASSUME NEW g \in Group, Select(g) PROVE TypeOK'
  <2>1. left' \in [BoundKind -> Nat]
    BY <1>3, SpendType DEF Select, BoundKind
  <2>. QED
    BY <1>3, <2>1 DEF Select, TypeOK
<1>4. ASSUME NEW o \in Op, SearchAnswers(o) PROVE TypeOK'
  <2>1. op' \in [Op -> Ops]
    BY <1>4, MoveSteps DEF SearchAnswers, Steps
  <2>2. op[o].member \in Member
    BY DEF TypeOK, Ops
  <2>. QED
    BY <1>4, <2>1, <2>2 DEF SearchAnswers, TypeOK, history
<1>5. ASSUME NEW o \in Op, Fire(o) PROVE TypeOK'
  <2>1. op' \in [Op -> Ops]
    BY <1>5, MoveSteps DEF Fire, Steps
  <2>. QED
    BY <1>5, <2>1 DEF Fire, TypeOK, history
<1>6. ASSUME NEW o \in Op, Arrives(o) PROVE TypeOK'
  <2>1. op' \in [Op -> Ops]
    BY <1>6, MoveSteps DEF Arrives, Steps
  <2>2. op[o].member \in Member
    BY DEF TypeOK, Ops
  <2>. QED
    BY <1>6, <2>1, <2>2 DEF Arrives, TypeOK, page, history
<1>7. ASSUME NEW o \in Op, Added(o) PROVE TypeOK'
  <2>1. op' \in [Op -> Ops]
    BY <1>7, MoveSteps DEF Added, Steps
  <2>2. op[o].member \in Member /\ op[o].group \in Group
    BY DEF TypeOK, Ops
  <2>3. groups' \in [Group -> SUBSET Member] /\ screen' \subseteq Member
    BY <1>7, <2>2 DEF Added, Patched, With, TypeOK
  <2>. QED
    BY <1>7, <2>1, <2>2, <2>3 DEF Added, Blur, TypeOK
<1>8. ASSUME NEW o \in Op, Removed(o) PROVE TypeOK'
  <2>1. op' \in [Op -> Ops]
    BY <1>8, MoveSteps DEF Removed, Steps
  <2>2. op[o].member \in Member /\ op[o].group \in Group
    BY DEF TypeOK, Ops
  <2>3. groups' \in [Group -> SUBSET Member] /\ screen' \subseteq Member
    BY <1>8, <2>2 DEF Removed, Patched, Without, TypeOK
  <2>. QED
    BY <1>8, <2>1, <2>2, <2>3 DEF Removed, Blur, TypeOK
<1>9. ASSUME NEW o \in Op, Refused(o) PROVE TypeOK'
  <2>1. op' \in [Op -> Ops]
    BY <1>9, MoveSteps DEF Refused, Steps
  <2>. QED
    BY <1>9, <2>1 DEF Refused, TypeOK, history
<1>10. ASSUME NEW o \in Op, Lost(o) PROVE TypeOK'
  <2>1. op' \in [Op -> Ops] /\ left' \in [BoundKind -> Nat]
    BY <1>10, MoveSteps, SpendType DEF Lost, Steps, BoundKind
  <2>2. <<op[o].group, op[o].member>> \in Group \X Member
    BY DEF TypeOK, Ops
  <2>. QED
    BY <1>10, <2>1, <2>2 DEF Lost, TypeOK, page
<1>11. ASSUME NEW o \in Op, ConfirmAdd(o) PROVE TypeOK'
  <2>1. found \in Member /\ selected \in Group
    BY <1>11 DEF ConfirmAdd, TypeOK
  <2>2. op' \in [Op -> Ops]
    BY <1>11, <2>1, PutSteps DEF ConfirmAdd
  <2>. QED
    BY <1>11, <2>1, <2>2 DEF ConfirmAdd, Cross, TypeOK, page
<1>12. ASSUME NEW o \in Op, NEW m \in Member, Search(o, m) PROVE TypeOK'
  <2>1. op' \in [Op -> Ops]
    BY <1>12, PutSteps DEF Search
  <2>. QED
    BY <1>12, <2>1 DEF Search, TypeOK, history
<1>13. ASSUME NEW o \in Op, NEW m \in Member, StartRemove(o, m) PROVE TypeOK'
  <2>1. op' \in [Op -> Ops] /\ selected \in Group
    BY <1>13, PutSteps DEF StartRemove, TypeOK
  <2>. QED
    BY <1>13, <2>1 DEF StartRemove, Cross, Armed, TypeOK
<1>14. ASSUME NEW m \in Member, Undo(m) PROVE TypeOK'
  <2>. DEFINE S == {o \in Op : handle[m] = o}
  <2>1. op' = [o \in Op |-> IF o \in S THEN [op[o] EXCEPT !.stage = "cancelled"] ELSE op[o]]
    BY <1>14 DEF Undo
  <2>2. op' \in [Op -> Ops]
    BY <2>1, StopSteps DEF Steps
  <2>. QED
    BY <1>14, <2>2 DEF Undo, TakenBack, Armed, TypeOK
<1>15. CASE ClearAdd
  BY <1>15 DEF ClearAdd, TypeOK, history
<1>16. ASSUME NEW g \in Group, NEW m \in Member, Elsewhere(g, m) PROVE TypeOK'
  <2>1. left' \in [BoundKind -> Nat]
    BY <1>16, SpendType DEF Elsewhere, BoundKind
  <2>. QED
    BY <1>16, <2>1 DEF Elsewhere, TypeOK, page
<1>17. CASE Logout
  <2>1. op' \in [Op -> Ops] /\ left' \in [BoundKind -> Nat]
    <3>1. Held \subseteq Op
      BY DEF Held
    <3>. QED
      BY <1>17, <3>1, StopSteps, SpendType DEF Logout, Steps, BoundKind
  <2>. QED
    BY <1>17, <2>1 DEF Logout, TypeOK, history
<1>18. CASE LogoutEnds
  <2>1. left' \in [BoundKind -> Nat]
    BY <1>18, SpendType DEF LogoutEnds, BoundKind, TypeOK
  <2>. QED
    BY <1>18, <2>1 DEF LogoutEnds, TypeOK
<1>. QED
  BY <1>1, <1>2, <1>3, <1>4, <1>5, <1>6, <1>7, <1>8, <1>9, <1>10, <1>11, <1>12, <1>13,
     <1>14, <1>15, <1>16, <1>17, <1>18 DEF Next, OpStep

\* Every variable of the page keeps its type (useGroupAdmin.ts).
THEOREM TypeCorrect == Spec => []TypeOK
BY TypeInit, TypeStep, PTL DEF Spec
-----------------------------------------------------------------------------
(* When there is a page (Opened).                                           *)

LEMMA OpenedStep ==
    ASSUME TypeOK, Opened, Timers, [Next]_vars
    PROVE  Opened'
<1>. USE GroupAdminAssumption DEF Show
\* An operation that has begun, and a handle, are of an open page.
<1>a. ASSUME NEW o \in Op, op[o].stage # "unused", session' = session, selected' = selected
      PROVE  Opened'
  BY <1>a DEF Opened
<1>b. ASSUME selected = Nothing, session # "out" PROVE \A m \in Member : handle[m] = Nothing
  <2>1. \A m \in Member : handle[m] \in Op \cup {Nothing}
    BY DEF TypeOK
  <2>. QED
    BY <1>b, <2>1 DEF Opened, Timers
<1>1. CASE UNCHANGED vars
  BY <1>1 DEF Opened, vars, page
<1>2. ASSUME NEW g \in Group, Load(g) PROVE Opened'
  BY <1>2 DEF Load, Opened
<1>3. ASSUME NEW g \in Group, Select(g) PROVE Opened'
  BY <1>3 DEF Select, Opened
<1>4. ASSUME NEW o \in Op, OpStep(o) \/ Lost(o) PROVE Opened'
  BY <1>4, <1>a DEF OpStep, SearchAnswers, Fire, Arrives, Added, Removed, Refused, Lost, page
<1>5. ASSUME NEW o \in Op, ConfirmAdd(o) PROVE Opened'
  BY <1>5 DEF ConfirmAdd, Opened, page
<1>6. ASSUME NEW o \in Op, NEW m \in Member, Search(o, m) \/ StartRemove(o, m) PROVE Opened'
  BY <1>6 DEF Search, StartRemove, Opened
<1>7. ASSUME NEW m \in Member, Undo(m) PROVE Opened'
  <2>1. CASE selected = Nothing /\ session # "out"
    <3>1. op' = [o \in Op |-> op[o]]
      BY <1>7, <1>b, <2>1 DEF Undo
    <3>. QED
      BY <1>7, <3>1 DEF Undo, Opened
  <2>2. CASE ~ (selected = Nothing /\ session # "out")
    BY <1>7, <2>2 DEF Undo, Opened
  <2>. QED
    BY <2>1, <2>2
<1>8. CASE ClearAdd
  BY <1>8 DEF ClearAdd, Opened
<1>9. ASSUME NEW g \in Group, NEW m \in Member, Elsewhere(g, m) PROVE Opened'
  BY <1>9 DEF Elsewhere, Opened, page
<1>10. CASE Logout
  <2>1. CASE selected = Nothing
    <3>1. Held = {}
      BY <1>10, <1>b, <2>1 DEF Held, Logout
    <3>2. op' = [o \in Op |-> op[o]]
      BY <1>10, <3>1 DEF Logout
    <3>. QED
      BY <1>10, <2>1, <3>2 DEF Logout, Opened
  <2>2. CASE selected # Nothing
    BY <1>10, <2>2 DEF Logout, Opened
  <2>. QED
    BY <2>1, <2>2
<1>11. CASE LogoutEnds
  BY <1>11 DEF LogoutEnds, Opened
<1>. QED
  BY <1>1, <1>2, <1>3, <1>4, <1>5, <1>6, <1>7, <1>8, <1>9, <1>10, <1>11 DEF Next

-----------------------------------------------------------------------------
(* The timers and what an undo stops (Timers, Reached, UndoneIsNotSent).    *)

RemovalInv == Timers /\ Reached /\ UndoneIsNotSent

\* A step of one operation that has no timer.
LEMMA UntimedStep ==
    ASSUME TypeOK, RemovalInv, NEW o \in Op, NEW t \in Stage \ {"armed"}, Move(o, t),
           op[o].stage \notin {"armed", "cancelled"}, UNCHANGED <<handle, undone, overlapped>>
    PROVE  RemovalInv'
<1>1. Steps({o}, t)
  BY MoveSteps
<1>2. \A q \in Op : q # o => op'[q].stage = op[q].stage
  BY <1>1 DEF Steps
<1>3. op'[o].stage # "armed"
  BY <1>1 DEF Steps
<1>4. \A q \in Op : op'[q].stage = "armed" => op[q].stage = "armed"
  BY <1>2, <1>3
<1>5. \A q \in Op : op'[q].member = op[q].member /\ op'[q].kind = op[q].kind
  BY <1>1 DEF Steps
<1>6. \A m \in Member : handle[m] \in Op \cup {Nothing}
  BY DEF TypeOK
<1>7. Timers'
  BY <1>2, <1>4, <1>5, <1>6 DEF RemovalInv, Timers
<1>8. Reached'
  <2>1. \A m \in Member : Armed(m)' \subseteq Armed(m)
    BY <1>4, <1>5 DEF Armed
  <2>. QED
    BY <1>4, <1>5, <2>1 DEF RemovalInv, Reached
<1>9. UndoneIsNotSent'
  <2>1. undone \subseteq Op
    BY DEF TypeOK
  <2>. QED
    BY <1>2, <2>1 DEF RemovalInv, UndoneIsNotSent
<1>. QED
  BY <1>7, <1>8, <1>9 DEF RemovalInv

\* A new operation without a timer.
LEMMA UntimedPut ==
    ASSUME TypeOK, RemovalInv, NEW o \in Op, NEW kind \in {"search", "add"}, NEW m \in Member,
           selected # Nothing, Put(o, kind, m, "sent"), UNCHANGED <<handle, undone, overlapped>>
    PROVE  RemovalInv'
<1>1. /\ op[o].stage = "unused" /\ op'[o].stage = "sent"
      /\ \A q \in Op \ {o} : op'[q] = op[q]
  BY PutSteps DEF Stage
<1>2. \A q \in Op : op'[q].stage = "armed" => op[q].stage = "armed" /\ op'[q] = op[q]
  BY <1>1
<1>3. \A n \in Member : handle[n] \in Op \cup {Nothing}
  BY DEF TypeOK
<1>4. Timers'
  BY <1>1, <1>2, <1>3 DEF RemovalInv, Timers
<1>5. Reached'
  <2>1. \A n \in Member : Armed(n)' \subseteq Armed(n)
    BY <1>2 DEF Armed
  <2>. QED
    BY <1>2, <2>1 DEF RemovalInv, Reached
<1>6. UndoneIsNotSent'
  <2>1. undone \subseteq Op
    BY DEF TypeOK
  <2>. QED
    BY <1>1, <2>1 DEF RemovalInv, UndoneIsNotSent
<1>. QED
  BY <1>4, <1>5, <1>6 DEF RemovalInv

\* Nothing of the operations or the timers changes.
LEMMA RemovalFrame ==
    ASSUME RemovalInv, UNCHANGED <<op, handle, undone, overlapped>>
    PROVE  RemovalInv'
BY DEF RemovalInv, Timers, Reached, Armed, UndoneIsNotSent

\* The timer runs out.
LEMMA RemovalFire ==
    ASSUME TypeOK, RemovalInv, NEW o \in Op, Fire(o)
    PROVE  RemovalInv'
<1>. DEFINE mo == op[o].member
<1>1. Steps({o}, "sent") /\ op[o].stage = "armed" /\ UNCHANGED <<undone, overlapped>>
  BY MoveSteps DEF Fire, Stage, history
<1>2. mo \in Member /\ handle \in [Member -> Op \cup {Nothing}]
  BY DEF TypeOK, Ops
<1>3. handle'[mo] = Nothing /\ \A m \in Member \ {mo} : handle'[m] = handle[m]
  BY <1>2 DEF Fire
<1>4. /\ \A q \in Op : q # o => op'[q].stage = op[q].stage
      /\ op'[o].stage = "sent"
      /\ \A q \in Op : op'[q].member = op[q].member /\ op'[q].kind = op[q].kind
  BY <1>1 DEF Steps
<1>5. Timers'
  <2>1. \A m \in Member : handle'[m] # Nothing => m # mo /\ handle[m] \in Op
    BY <1>2, <1>3
  <2>2. \A m \in Member : handle'[m] # Nothing => handle'[m] = handle[m] /\ handle[m] # o
    BY <1>3, <2>1 DEF RemovalInv, Timers
  <2>3. \A q \in Op : op'[q].stage = "armed" => op'[q].kind = "remove"
    BY <1>4 DEF RemovalInv, Timers
  <2>. QED
    BY <1>4, <2>1, <2>2, <2>3 DEF RemovalInv, Timers
<1>6. Reached'
  <2>1. ASSUME NEW q \in Op \ overlapped, op'[q].stage = "armed"
        PROVE  handle'[op'[q].member] = q
    <3>1. q # o /\ op[q].stage = "armed" /\ op'[q].member = op[q].member
      BY <1>4, <2>1
    <3>2. op[q].member \in Member
      BY DEF TypeOK, Ops
    <3>3. op[q].member # mo
      BY <1>1, <1>2, <3>1 DEF RemovalInv, Reached, Armed
    <3>. QED
      BY <1>3, <3>1, <3>2, <3>3 DEF RemovalInv, Reached
  <2>2. \A m \in Member : Armed(m)' \subseteq Armed(m)
    BY <1>4 DEF Armed
  <2>. QED
    BY <1>1, <2>1, <2>2 DEF RemovalInv, Reached
<1>7. UndoneIsNotSent'
  <2>1. undone \subseteq Op
    BY DEF TypeOK
  <2>. QED
    BY <1>1, <1>4, <2>1 DEF RemovalInv, UndoneIsNotSent
<1>. QED
  BY <1>5, <1>6, <1>7 DEF RemovalInv

\* A second removal of the member makes both count as overlapped.
LEMMA RemovalStarts ==
    ASSUME TypeOK, RemovalInv, NEW o \in Op, NEW m \in Member, StartRemove(o, m)
    PROVE  RemovalInv'
<1>1. /\ op[o].stage = "unused" /\ op'[o].stage = "armed"
      /\ op'[o].kind = "remove" /\ op'[o].member = m
      /\ \A q \in Op \ {o} : op'[q] = op[q]
  BY PutSteps DEF StartRemove, Stage
<1>2. handle \in [Member -> Op \cup {Nothing}] /\ undone \subseteq Op /\ undone' = undone
  BY DEF TypeOK, StartRemove
<1>3. handle'[m] = o /\ \A n \in Member \ {m} : handle'[n] = handle[n]
  BY <1>2 DEF StartRemove
<1>4. /\ overlapped \subseteq overlapped'
      /\ Armed(m) # {} => Armed(m) \cup {o} \subseteq overlapped'
  BY DEF StartRemove
<1>5. Timers'
  <2>1. \A n \in Member : handle[n] # Nothing => handle[n] # o /\ handle[n] \in Op
    BY <1>1, <1>2 DEF RemovalInv, Timers
  <2>. QED
    BY <1>1, <1>3, <2>1 DEF RemovalInv, Timers
<1>6. \A n \in Member : Armed(n)' = IF n = m THEN Armed(n) \cup {o} ELSE Armed(n)
  BY <1>1 DEF Armed
<1>7. Reached'
  <2>1. ASSUME NEW q \in Op \ overlapped', op'[q].stage = "armed"
        PROVE  handle'[op'[q].member] = q
    <3>1. CASE q = o
      BY <1>1, <1>3, <3>1
    <3>2. CASE q # o
      <4>1. q \in Op \ overlapped /\ op[q].stage = "armed" /\ op'[q] = op[q]
        BY <1>1, <1>4, <2>1, <3>2
      <4>2. op[q].member \in Member \ {m}
        BY <1>4, <2>1, <4>1 DEF TypeOK, Ops, Armed
      <4>. QED
        BY <1>3, <4>1, <4>2 DEF RemovalInv, Reached
    <3>. QED
      BY <3>1, <3>2
  <2>2. \A n \in Member : \A p, q \in Armed(n)' : p # q => p \in overlapped'
    BY <1>4, <1>6 DEF RemovalInv, Reached
  <2>. QED
    BY <2>1, <2>2 DEF Reached
<1>8. UndoneIsNotSent'
  BY <1>1, <1>2, <1>4 DEF RemovalInv, UndoneIsNotSent
<1>. QED
  BY <1>5, <1>7, <1>8 DEF RemovalInv

\* Timers are stopped and their handles dropped, whether a member's or all.
LEMMA RemovalStops ==
    ASSUME TypeOK, RemovalInv, NEW M \in SUBSET Member,
           op' = [o \in Op |-> IF o \in {handle[m] : m \in M}
                               THEN [op[o] EXCEPT !.stage = "cancelled"] ELSE op[o]],
           handle' = [m \in Member |-> IF m \in M THEN Nothing ELSE handle[m]],
           overlapped' = overlapped, undone' \subseteq Op,
           \A o \in undone' \ undone : op[o].stage = "armed" /\ op[o].member \in M
    PROVE  RemovalInv'
<1>. DEFINE S == {o \in Op : o \in {handle[m] : m \in M}}
<1>1. Steps(S, "cancelled")
  <2>1. op' = [o \in Op |-> IF o \in S THEN [op[o] EXCEPT !.stage = "cancelled"] ELSE op[o]]
    OBVIOUS
  <2>. QED
    BY <2>1, StopSteps
<1>2. handle \in [Member -> Op \cup {Nothing}] /\ undone \subseteq Op
  BY DEF TypeOK
<1>3. \A q \in Op : op'[q].member = op[q].member /\ op'[q].kind = op[q].kind
  BY <1>1 DEF Steps
<1>4. \A q \in Op : op'[q].stage = IF q \in S THEN "cancelled" ELSE op[q].stage
  BY <1>1 DEF Steps
<1>5. Timers'
  <2>1. ASSUME NEW m \in Member, handle'[m] # Nothing
        PROVE  op'[handle'[m]].stage = "armed" /\ op'[handle'[m]].member = m
    <3>1. m \notin M /\ handle'[m] = handle[m] /\ handle[m] \in Op
      BY <1>2, <2>1
    <3>2. op[handle[m]].stage = "armed" /\ op[handle[m]].member = m
      BY <2>1, <3>1 DEF RemovalInv, Timers
    <3>3. handle[m] \notin S
      <4>1. ASSUME NEW n \in M, handle[n] = handle[m] PROVE FALSE
        <5>1. handle[n] # Nothing
          BY <2>1, <3>1, <4>1
        <5>2. op[handle[n]].member = n
          BY <5>1 DEF RemovalInv, Timers
        <5>. QED
          BY <3>1, <3>2, <4>1, <5>2
      <4>. QED
        BY <4>1
    <3>. QED
      BY <1>3, <1>4, <3>1, <3>2, <3>3
  <2>2. \A q \in Op : op'[q].stage = "armed" => op'[q].kind = "remove"
    BY <1>3, <1>4 DEF RemovalInv, Timers
  <2>. QED
    BY <2>1, <2>2 DEF Timers
<1>6. Reached'
  <2>1. ASSUME NEW q \in Op \ overlapped, op'[q].stage = "armed"
        PROVE  handle'[op'[q].member] = q
    <3>1. q \notin S /\ op[q].stage = "armed" /\ op[q].member \in Member
      BY <1>4, <2>1 DEF TypeOK, Ops
    <3>2. handle[op[q].member] = q
      BY <3>1 DEF RemovalInv, Reached
    <3>3. op[q].member \notin M
      BY <3>1, <3>2
    <3>. QED
      BY <1>3, <3>1, <3>2, <3>3
  <2>2. \A m \in Member : Armed(m)' \subseteq Armed(m)
    BY <1>3, <1>4 DEF Armed
  <2>. QED
    BY <2>1, <2>2 DEF RemovalInv, Reached
<1>7. UndoneIsNotSent'
  <2>1. ASSUME NEW q \in undone' \ overlapped PROVE op'[q].stage = "cancelled"
    <3>1. CASE q \in undone
      BY <1>2, <1>4, <3>1 DEF RemovalInv, UndoneIsNotSent
    <3>2. CASE q \notin undone
      <4>1. q \in Op /\ op[q].stage = "armed" /\ op[q].member \in M
        BY <3>2
      <4>2. handle[op[q].member] = q
        BY <4>1 DEF RemovalInv, Reached
      <4>. QED
        BY <1>4, <4>1, <4>2
    <3>. QED
      BY <3>1, <3>2
  <2>. QED
    BY <2>1 DEF UndoneIsNotSent
<1>. QED
  BY <1>5, <1>6, <1>7 DEF RemovalInv
LEMMA RemovalStep ==
    ASSUME TypeOK, RemovalInv, [Next]_vars
    PROVE  RemovalInv'
<1>. USE DEF Stage, history, page
<1>1. CASE UNCHANGED vars
  BY <1>1, RemovalFrame DEF vars
<1>2. ASSUME NEW g \in Group, Load(g) \/ Select(g) PROVE RemovalInv'
  BY <1>2, RemovalFrame DEF Load, Select, Show
<1>3. ASSUME NEW o \in Op, SearchAnswers(o) PROVE RemovalInv'
  BY <1>3, UntimedStep DEF SearchAnswers
<1>4. ASSUME NEW o \in Op, Arrives(o) PROVE RemovalInv'
  BY <1>4, UntimedStep DEF Arrives
<1>5. ASSUME NEW o \in Op, Added(o) PROVE RemovalInv'
  BY <1>5, UntimedStep DEF Added
<1>6. ASSUME NEW o \in Op, Removed(o) PROVE RemovalInv'
  BY <1>6, UntimedStep DEF Removed
<1>7. ASSUME NEW o \in Op, Refused(o) PROVE RemovalInv'
  BY <1>7, UntimedStep DEF Refused
<1>8. ASSUME NEW o \in Op, Lost(o) PROVE RemovalInv'
  BY <1>8, UntimedStep DEF Lost
<1>9. ASSUME NEW o \in Op, Fire(o) PROVE RemovalInv'
  BY <1>9, RemovalFire
<1>10. ASSUME NEW o \in Op, ConfirmAdd(o) PROVE RemovalInv'
  <2>1. found \in Member
    BY <1>10 DEF ConfirmAdd, TypeOK
  <2>. QED
    BY <1>10, <2>1, UntimedPut DEF ConfirmAdd
<1>11. ASSUME NEW o \in Op, NEW m \in Member, Search(o, m) PROVE RemovalInv'
  BY <1>11, UntimedPut DEF Search
<1>12. ASSUME NEW o \in Op, NEW m \in Member, StartRemove(o, m) PROVE RemovalInv'
  BY <1>12, RemovalStarts
<1>13. ASSUME NEW m \in Member, Undo(m) PROVE RemovalInv'
  <2>1. handle \in [Member -> Op \cup {Nothing}] /\ undone \subseteq Op
    BY DEF TypeOK
  <2>2. op' = [o \in Op |-> IF o \in {handle[n] : n \in {m}}
                            THEN [op[o] EXCEPT !.stage = "cancelled"] ELSE op[o]]
    BY <1>13 DEF Undo
  <2>3. handle' = [n \in Member |-> IF n \in {m} THEN Nothing ELSE handle[n]]
    BY <1>13, <2>1 DEF Undo
  <2>4. undone' \subseteq Op /\ \A o \in undone' \ undone : op[o].stage = "armed" /\ op[o].member \in {m}
    BY <1>13, <2>1 DEF Undo, TakenBack, Armed
  <2>5. overlapped' = overlapped
    BY <1>13 DEF Undo
  <2>. QED
    BY <2>2, <2>3, <2>4, <2>5, RemovalStops
<1>14. CASE ClearAdd
  BY <1>14, RemovalFrame DEF ClearAdd
<1>15. ASSUME NEW g \in Group, NEW m \in Member, Elsewhere(g, m) PROVE RemovalInv'
  BY <1>15, RemovalFrame DEF Elsewhere
<1>16. CASE Logout
  <2>1. undone' = undone /\ overlapped' = overlapped /\ undone \subseteq Op
    BY <1>16 DEF Logout, TypeOK
  <2>2. \A o \in Op : o \in Held <=> o \in {handle[m] : m \in Member}
    BY DEF Held
  <2>3. op' = [o \in Op |-> IF o \in {handle[m] : m \in Member}
                            THEN [op[o] EXCEPT !.stage = "cancelled"] ELSE op[o]]
    BY <1>16, <2>2 DEF Logout
  <2>4. handle' = [m \in Member |-> IF m \in Member THEN Nothing ELSE handle[m]]
    BY <1>16 DEF Logout
  <2>. QED
    BY <2>1, <2>3, <2>4, RemovalStops
<1>17. CASE LogoutEnds
  BY <1>17, RemovalFrame DEF LogoutEnds
<1>. QED
  BY <1>1, <1>2, <1>3, <1>4, <1>5, <1>6, <1>7, <1>8, <1>9, <1>10, <1>11, <1>12, <1>13,
     <1>14, <1>15, <1>16, <1>17 DEF Next, OpStep

-----------------------------------------------------------------------------
(* What the page shows (CacheFollows, ScreenFollows).                       *)

\* Of this membership the page and the service are as they were, and nothing that the
\* service has carried out is forgotten.
LEMMA FollowsKept ==
    ASSUME NEW g \in Group, NEW m \in Member, Follows(g, m),
           m \in groups'[g] <=> m \in groups[g], m \in server'[g] <=> m \in server[g],
           UnderWay(g, m)' \subseteq UnderWay(g, m),
           \A o \in UnderWay(g, m) : op[o].stage = "ok" => o \in UnderWay(g, m)',
           \A o \in UnderWay(g, m)' : (op'[o].stage = "ok" <=> op[o].stage = "ok")
                                      /\ op'[o].kind = op[o].kind
    PROVE  Follows(g, m)'
BY DEF Follows

\* So it is if operations that are not carried out go on to a stage that is not either.
LEMMA CacheKept ==
    ASSUME CacheFollows, NEW S \in SUBSET Op, NEW t \in Stage \ {"ok"}, Steps(S, t),
           \A o \in S : op[o].stage \in {"armed", "sent", "failed"},
           UNCHANGED <<selected, groups, server, crossed>>
    PROVE  CacheFollows'
<1>. SUFFICES ASSUME NEW g \in Group, NEW m \in Member, selected # Nothing, <<g, m>> \notin crossed
              PROVE  Follows(g, m)'
  BY DEF CacheFollows
<1>1. Follows(g, m)
  BY DEF CacheFollows
<1>2. UnderWay(g, m)' \subseteq UnderWay(g, m)
  BY DEF UnderWay, Steps
<1>3. \A o \in UnderWay(g, m) : op[o].stage = "ok" => o \in UnderWay(g, m)'
  BY DEF UnderWay, Steps
<1>4. \A o \in UnderWay(g, m)' : (op'[o].stage = "ok" <=> op[o].stage = "ok")
                                 /\ op'[o].kind = op[o].kind
  BY <1>2 DEF UnderWay, Steps
<1>. QED
  BY <1>1, <1>2, <1>3, <1>4, FollowsKept

\* A new operation that is sent or armed, and marked if it is not alone.
LEMMA CachePut ==
    ASSUME TypeOK, CacheFollows, NEW o \in Op, NEW kind \in {"search", "add", "remove"},
           NEW m \in Member, NEW t \in {"sent", "armed"}, selected # Nothing,
           Put(o, kind, m, t), kind = "search" => crossed' = crossed,
           kind # "search" => Cross(m),
           UNCHANGED <<selected, groups, server>>
    PROVE  CacheFollows'
<1>1. /\ op[o].stage = "unused" /\ op'[o].stage = t
      /\ op'[o].kind = kind /\ op'[o].member = m /\ op'[o].group = selected
      /\ \A q \in Op \ {o} : op'[q] = op[q]
  BY PutSteps DEF Stage
<1>2. crossed \subseteq crossed'
  BY DEF Cross
<1>. SUFFICES ASSUME NEW g \in Group, NEW n \in Member, <<g, n>> \notin crossed'
              PROVE  Follows(g, n)'
  BY DEF CacheFollows
<1>3. Follows(g, n)
  BY <1>2 DEF CacheFollows
<1>4. o \notin UnderWay(g, n)
  BY <1>1 DEF UnderWay
<1>5. CASE o \notin UnderWay(g, n)'
  <2>1. UnderWay(g, n)' = UnderWay(g, n)
    BY <1>1, <1>4, <1>5 DEF UnderWay
  <2>2. \A q \in UnderWay(g, n) : op'[q] = op[q]
    BY <1>1, <1>4 DEF UnderWay
  <2>. QED
    BY <1>3, <2>1, <2>2, FollowsKept
<1>6. CASE o \in UnderWay(g, n)'
  <2>1. g = selected /\ n = m /\ kind # "search"
    BY <1>1, <1>6 DEF UnderWay
  <2>2. UnderWay(g, n) = {}
    BY <2>1 DEF Cross
  <2>3. UnderWay(g, n)' = {o}
    BY <1>1, <1>6, <2>2 DEF UnderWay
  <2>4. n \in groups[g] <=> n \in server[g]
    BY <1>3, <2>2 DEF Follows
  <2>5. \A q \in UnderWay(g, n)' : op'[q].stage # "ok"
    BY <1>1, <2>3
  <2>. QED
    BY <2>3, <2>4, <2>5 DEF Follows
<1>. QED
  BY <1>5, <1>6

\* The service carries the operation out, or refuses it.
LEMMA CacheArrives ==
    ASSUME TypeOK, CacheFollows, NEW o \in Op, Arrives(o)
    PROVE  CacheFollows'
<1>. DEFINE go == op[o].group
            mo == op[o].member
            does == session # "out" /\ ((op[o].kind = "add") <=> (mo \notin server[go]))
<1>1. /\ op[o].kind # "search" /\ op[o].stage = "sent" /\ UNCHANGED <<selected, groups, crossed>>
      /\ go \in Group /\ mo \in Member
  BY DEF Arrives, page, history, TypeOK, Ops
<1>2. CASE ~ does
  <2>1. Steps({o}, "failed") /\ server' = server
    BY <1>2, MoveSteps DEF Arrives, Stage
  <2>. QED
    BY <1>1, <2>1, CacheKept DEF Stage
<1>3. CASE does
  <2>1. Steps({o}, "ok")
    BY <1>3, MoveSteps DEF Arrives, Stage
  <2>2. /\ mo \in server'[go] <=> op[o].kind = "add"
        /\ \A g \in Group, m \in Member :
              <<g, m>> # <<go, mo>> => (m \in server'[g] <=> m \in server[g])
    <3>1. server' = IF op[o].kind = "add" THEN [server EXCEPT ![go] = @ \cup {mo}]
                    ELSE [server EXCEPT ![go] = @ \ {mo}]
      BY <1>3 DEF Arrives
    <3>2. server \in [Group -> SUBSET Member]
      BY DEF TypeOK
    <3>. QED
      BY <1>1, <3>1, <3>2
  <2>. SUFFICES ASSUME NEW g \in Group, NEW m \in Member, selected # Nothing, <<g, m>> \notin crossed
                PROVE  Follows(g, m)'
    BY <1>1 DEF CacheFollows
  <2>3. Follows(g, m) /\ UnderWay(g, m)' = UnderWay(g, m)
    BY <1>1, <2>1 DEF CacheFollows, UnderWay, Steps
  <2>4. CASE g = go /\ m = mo
    <3>1. o \in UnderWay(g, m)
      BY <1>1, <2>4 DEF UnderWay
    <3>2. \A q \in UnderWay(g, m) : q = o
      BY <2>3, <3>1 DEF Follows
    <3>3. op'[o].stage = "ok" /\ op'[o].kind = op[o].kind
      BY <2>1 DEF Steps
    <3>4. \A q \in UnderWay(g, m)' : op'[q].stage = "ok" /\ (op'[q].kind = "add" <=> m \in server'[g])
      BY <2>2, <2>3, <2>4, <3>2, <3>3
    <3>. QED
      BY <2>3, <3>1, <3>2, <3>4 DEF Follows
  <2>5. CASE ~ (g = go /\ m = mo)
    <3>1. o \notin UnderWay(g, m)
      BY <2>5 DEF UnderWay
    <3>2. \A q \in UnderWay(g, m) : q \in Op \ {o}
      BY <3>1 DEF UnderWay
    <3>3. \A q \in UnderWay(g, m)' : op'[q].stage = op[q].stage /\ op'[q].kind = op[q].kind
      BY <2>1, <2>3, <3>2 DEF Steps
    <3>4. m \in server'[g] <=> m \in server[g]
      BY <2>2, <2>5
    <3>. QED
      BY <1>1, <2>3, <3>3, <3>4, FollowsKept
  <2>. QED
    BY <2>4, <2>5
<1>. QED
  BY <1>2, <1>3
\* The answer reaches the cache of the group that it is about.
LEMMA CacheAnswered ==
    ASSUME TypeOK, CacheFollows, NEW o \in Op, Steps({o}, "answered"), op[o].stage = "ok",
           \/ op[o].kind = "add" /\ groups' = Patched(o, With(op[o].member))
           \/ op[o].kind = "remove" /\ groups' = Patched(o, Without(op[o].member)),
           UNCHANGED <<selected, server, crossed>>
    PROVE  CacheFollows'
<1>. DEFINE go == op[o].group
            mo == op[o].member
<1>1. go \in Group /\ mo \in Member /\ groups \in [Group -> SUBSET Member]
  BY DEF TypeOK, Ops
<1>2. /\ mo \in groups'[go] <=> op[o].kind = "add"
      /\ \A g \in Group, m \in Member :
            <<g, m>> # <<go, mo>> => (m \in groups'[g] <=> m \in groups[g])
  BY <1>1 DEF Patched, With, Without
<1>. SUFFICES ASSUME NEW g \in Group, NEW m \in Member, selected # Nothing, <<g, m>> \notin crossed
              PROVE  Follows(g, m)'
  BY DEF CacheFollows
<1>3. Follows(g, m) /\ UnderWay(g, m)' = UnderWay(g, m) \ {o}
  BY DEF CacheFollows, UnderWay, Steps
<1>4. CASE g = go /\ m = mo
  <2>1. o \in UnderWay(g, m)
    BY <1>4 DEF UnderWay
  <2>2. UnderWay(g, m)' = {}
    BY <1>3, <2>1 DEF Follows
  <2>3. m \in server[g] <=> op[o].kind = "add"
    BY <1>3, <2>1 DEF Follows
  <2>. QED
    BY <1>2, <1>4, <2>2, <2>3 DEF Follows
<1>5. CASE ~ (g = go /\ m = mo)
  <2>1. o \notin UnderWay(g, m)
    BY <1>5 DEF UnderWay
  <2>2. UnderWay(g, m)' = UnderWay(g, m)
    BY <1>3, <2>1
  <2>3. \A q \in UnderWay(g, m) : op'[q].stage = op[q].stage /\ op'[q].kind = op[q].kind
    BY <2>1 DEF UnderWay, Steps
  <2>4. m \in groups'[g] <=> m \in groups[g]
    BY <1>2, <1>5
  <2>. QED
    BY <1>3, <2>2, <2>3, <2>4, FollowsKept
<1>. QED
  BY <1>4, <1>5

LEMMA CacheStep ==
    ASSUME TypeOK, Opened, Timers, CacheFollows, [Next]_vars
    PROVE  CacheFollows'
<1>. USE DEF Stage, page, history
\* Neither the operations nor what they are about changes.
<1>a. ASSUME UNCHANGED <<op, selected, groups, server>>, crossed \subseteq crossed' PROVE CacheFollows'
  BY <1>a DEF CacheFollows, Follows, UnderWay
<1>1. CASE UNCHANGED vars
  BY <1>1, <1>a DEF vars
<1>2. ASSUME NEW g \in Group, Load(g) PROVE CacheFollows'
  <2>1. groups' = server /\ UNCHANGED <<server, op>>
    BY <1>2 DEF Load
  <2>2. \A h \in Group, m \in Member : UnderWay(h, m) = {}
    BY <1>2 DEF Load, Opened, UnderWay
  <2>3. \A h \in Group, m \in Member : UnderWay(h, m)' = {}
    BY <2>1, <2>2 DEF UnderWay
  <2>. QED
    BY <2>1, <2>3 DEF CacheFollows, Follows
<1>3. ASSUME NEW g \in Group, Select(g) PROVE CacheFollows'
  BY <1>3 DEF Select, CacheFollows, Follows, UnderWay
<1>4. ASSUME NEW o \in Op, SearchAnswers(o) PROVE CacheFollows'
  <2>1. Steps({o}, "answered")
    BY <1>4, MoveSteps DEF SearchAnswers
  <2>2. op[o].stage \in {"armed", "sent", "failed"} /\ UNCHANGED <<selected, groups, server, crossed>>
    BY <1>4 DEF SearchAnswers
  <2>. QED
    BY <2>1, <2>2, CacheKept
<1>5. ASSUME NEW o \in Op, Fire(o) PROVE CacheFollows'
  <2>1. Steps({o}, "sent")
    BY <1>5, MoveSteps DEF Fire
  <2>2. op[o].stage \in {"armed", "sent", "failed"} /\ UNCHANGED <<selected, groups, server, crossed>>
    BY <1>5 DEF Fire
  <2>. QED
    BY <2>1, <2>2, CacheKept
<1>6. ASSUME NEW o \in Op, Arrives(o) PROVE CacheFollows'
  BY <1>6, CacheArrives
<1>7. ASSUME NEW o \in Op, Added(o) PROVE CacheFollows'
  <2>1. CASE selected = Nothing
    BY <1>7, <2>1 DEF Added, CacheFollows
  <2>2. CASE selected # Nothing
    <3>1. Steps({o}, "answered")
      BY <1>7, MoveSteps DEF Added
    <3>2. /\ op[o].stage = "ok" /\ op[o].kind = "add"
          /\ groups' = Patched(o, With(op[o].member)) /\ UNCHANGED <<selected, server, crossed>>
      BY <1>7, <2>2 DEF Added
    <3>. QED
      BY <3>1, <3>2, CacheAnswered
  <2>. QED
    BY <2>1, <2>2
<1>8. ASSUME NEW o \in Op, Removed(o) PROVE CacheFollows'
  <2>1. CASE selected = Nothing
    BY <1>8, <2>1 DEF Removed, CacheFollows
  <2>2. CASE selected # Nothing
    <3>1. Steps({o}, "answered")
      BY <1>8, MoveSteps DEF Removed
    <3>2. /\ op[o].stage = "ok" /\ op[o].kind = "remove"
          /\ groups' = Patched(o, Without(op[o].member)) /\ UNCHANGED <<selected, server, crossed>>
      BY <1>8, <2>2 DEF Removed
    <3>. QED
      BY <3>1, <3>2, CacheAnswered
  <2>. QED
    BY <2>1, <2>2
<1>9. ASSUME NEW o \in Op, Refused(o) PROVE CacheFollows'
  <2>1. Steps({o}, "answered")
    BY <1>9, MoveSteps DEF Refused
  <2>2. op[o].stage \in {"armed", "sent", "failed"} /\ UNCHANGED <<selected, groups, server, crossed>>
    BY <1>9 DEF Refused
  <2>. QED
    BY <2>1, <2>2, CacheKept
<1>10. ASSUME NEW o \in Op, Lost(o) PROVE CacheFollows'
  <2>1. Steps({o}, "failed") /\ UNCHANGED <<selected, groups, server>>
    BY <1>10, MoveSteps DEF Lost
  <2>2. CASE op[o].stage = "sent"
    BY <1>10, <2>1, <2>2, CacheKept DEF Lost
  <2>3. CASE op[o].stage = "ok"
    <3>. SUFFICES ASSUME NEW g \in Group, NEW m \in Member, selected # Nothing, <<g, m>> \notin crossed'
                  PROVE  Follows(g, m)'
      BY <2>1 DEF CacheFollows
    <3>1. Follows(g, m) /\ <<g, m>> # <<op[o].group, op[o].member>>
      BY <1>10, <2>3 DEF Lost, CacheFollows
    <3>2. o \notin UnderWay(g, m)
      BY <3>1 DEF UnderWay
    <3>3. UnderWay(g, m)' = UnderWay(g, m)
      BY <2>1, <2>3, <3>1 DEF UnderWay, Steps
    <3>4. \A q \in UnderWay(g, m) : op'[q].stage = op[q].stage /\ op'[q].kind = op[q].kind
      BY <2>1, <3>2 DEF UnderWay, Steps
    <3>. QED
      BY <2>1, <3>1, <3>3, <3>4, FollowsKept
  <2>. QED
    BY <1>10, <2>2, <2>3 DEF Lost
<1>11. ASSUME NEW o \in Op, ConfirmAdd(o) PROVE CacheFollows'
  <2>1. found \in Member
    BY <1>11 DEF ConfirmAdd, TypeOK
  <2>. QED
    BY <1>11, <2>1, CachePut DEF ConfirmAdd
<1>12. ASSUME NEW o \in Op, NEW m \in Member, Search(o, m) PROVE CacheFollows'
  BY <1>12, CachePut DEF Search
<1>13. ASSUME NEW o \in Op, NEW m \in Member, StartRemove(o, m) PROVE CacheFollows'
  BY <1>13, CachePut DEF StartRemove
<1>14. ASSUME NEW m \in Member, Undo(m) PROVE CacheFollows'
  <2>. DEFINE S == {o \in Op : handle[m] = o}
  <2>1. op' = [o \in Op |-> IF o \in S THEN [op[o] EXCEPT !.stage = "cancelled"] ELSE op[o]]
    BY <1>14 DEF Undo
  <2>2. Steps(S, "cancelled")
    BY <2>1, StopSteps
  <2>3. \A o \in S : op[o].stage = "armed"
    BY GroupAdminAssumption DEF Timers
  <2>. QED
    BY <1>14, <2>2, <2>3, CacheKept DEF Undo
<1>15. CASE ClearAdd
  BY <1>15, <1>a DEF ClearAdd
<1>16. ASSUME NEW g \in Group, NEW m \in Member, Elsewhere(g, m) PROVE CacheFollows'
  <2>1. /\ \A h \in Group, n \in Member : <<h, n>> # <<g, m>> => (n \in server'[h] <=> n \in server[h])
        /\ crossed' = crossed \cup {<<g, m>>} /\ UNCHANGED <<op, selected, groups>>
    BY <1>16 DEF Elsewhere, TypeOK
  <2>. SUFFICES ASSUME NEW h \in Group, NEW n \in Member, selected # Nothing, <<h, n>> \notin crossed'
                PROVE  Follows(h, n)'
    BY <2>1 DEF CacheFollows
  <2>2. Follows(h, n) /\ (n \in server'[h] <=> n \in server[h])
    BY <2>1 DEF CacheFollows
  <2>3. UnderWay(h, n)' = UnderWay(h, n)
    BY <2>1 DEF UnderWay
  <2>. QED
    BY <2>1, <2>2, <2>3, FollowsKept
<1>17. CASE Logout
  <2>1. Held \subseteq Op /\ Steps(Held, "cancelled")
    BY <1>17, StopSteps DEF Logout, Held
  <2>2. \A o \in Held : op[o].stage = "armed"
    BY GroupAdminAssumption DEF Timers, Held
  <2>. QED
    BY <1>17, <2>1, <2>2, CacheKept DEF Logout
<1>18. CASE LogoutEnds
  <2>1. CASE selected' = Nothing
    BY <2>1 DEF CacheFollows
  <2>2. CASE selected' # Nothing
    BY <1>18, <2>2, <1>a DEF LogoutEnds
  <2>. QED
    BY <2>1, <2>2
<1>. QED
  BY <1>1, <1>2, <1>3, <1>4, <1>5, <1>6, <1>7, <1>8, <1>9, <1>10, <1>11, <1>12, <1>13,
     <1>14, <1>15, <1>16, <1>17, <1>18 DEF Next, OpStep

\* The screen is shown from the cache, and what reaches it goes to the cache of its
\* group as well.
LEMMA ScreenStep ==
    ASSUME TypeOK, ScreenFollows, [Next]_vars
    PROVE  ScreenFollows'
<1>. USE DEF page, history
<1>1. CASE UNCHANGED vars
  BY <1>1 DEF ScreenFollows, vars
<1>2. ASSUME NEW g \in Group, Load(g) \/ Select(g) PROVE ScreenFollows'
  BY <1>2 DEF Load, Select, Show, ScreenFollows
<1>3. ASSUME NEW o \in Op, SearchAnswers(o) \/ Fire(o) \/ Arrives(o) \/ Refused(o) \/ Lost(o)
      PROVE  ScreenFollows'
  BY <1>3 DEF SearchAnswers, Fire, Arrives, Refused, Lost, ScreenFollows
<1>4. ASSUME NEW o \in Op, Added(o) PROVE ScreenFollows'
  <2>1. op[o].group \in Group /\ op[o].member \in Member
    BY DEF TypeOK, Ops
  <2>. QED
    BY <1>4, <2>1 DEF Added, Blur, Patched, With, ScreenFollows, TypeOK
<1>5. ASSUME NEW o \in Op, Removed(o) PROVE ScreenFollows'
  <2>1. op[o].group \in Group /\ op[o].member \in Member
    BY DEF TypeOK, Ops
  <2>. QED
    BY <1>5, <2>1 DEF Removed, Blur, Patched, Without, ScreenFollows, TypeOK
<1>6. ASSUME NEW o \in Op, ConfirmAdd(o) PROVE ScreenFollows'
  BY <1>6 DEF ConfirmAdd, ScreenFollows
<1>7. ASSUME NEW o \in Op, NEW m \in Member, Search(o, m) \/ StartRemove(o, m) PROVE ScreenFollows'
  BY <1>7 DEF Search, StartRemove, ScreenFollows
<1>8. ASSUME NEW m \in Member, Undo(m) PROVE ScreenFollows'
  BY <1>8 DEF Undo, ScreenFollows
<1>9. CASE ClearAdd
  BY <1>9 DEF ClearAdd, ScreenFollows
<1>10. ASSUME NEW g \in Group, NEW m \in Member, Elsewhere(g, m) PROVE ScreenFollows'
  BY <1>10 DEF Elsewhere, ScreenFollows
<1>11. CASE Logout
  BY <1>11 DEF Logout, ScreenFollows
<1>12. CASE LogoutEnds
  BY <1>12 DEF LogoutEnds, ScreenFollows
<1>. QED
  BY <1>1, <1>2, <1>3, <1>4, <1>5, <1>6, <1>7, <1>8, <1>9, <1>10, <1>11, <1>12
     DEF Next, OpStep

-----------------------------------------------------------------------------

LEMMA PageInit == Init => PageInv
<1>. SUFFICES ASSUME Init PROVE PageInv
  OBVIOUS
<1>1. TypeOK
  BY TypeInit
<1>2. \A o \in Op : op[o].stage = "unused"
  BY NoOpType DEF Init
<1>3. \A m \in Member : Armed(m) = {}
  BY <1>2 DEF Armed
<1>4. Opened /\ CacheFollows /\ ScreenFollows
  BY <1>2 DEF Init, Opened, CacheFollows, ScreenFollows
<1>5. Timers /\ Reached /\ UndoneIsNotSent
  BY <1>2, <1>3 DEF Init, Timers, Reached, UndoneIsNotSent
<1>. QED
  BY <1>1, <1>4, <1>5 DEF PageInv

LEMMA PageInvCorrect == Spec => []PageInv
<1>1. PageInv /\ [Next]_vars => PageInv'
  BY TypeStep, OpenedStep, RemovalStep, CacheStep, ScreenStep DEF PageInv, RemovalInv
<1>. QED
  BY <1>1, PageInit, PTL DEF Spec

\* Whatever groups were shown while its operations were under way, the page shows what
\* the service has once they are answered, but for memberships that were crossed and
\* members that an answer for another group has reached (patchRoster).
THEOREM PageShowsTheService == Spec => []PageFollows
<1>1. PageInv => PageFollows
  <2>. SUFFICES ASSUME PageInv, NEW g \in Group, NEW m \in Member, selected # Nothing
                PROVE  /\ <<g, m>> \notin crossed /\ UnderWay(g, m) = {}
                             => (m \in groups[g] <=> m \in server[g])
                       /\ g = selected /\ m \notin blurred => (m \in screen <=> m \in groups[g])
    BY DEF PageFollows
  <2>. QED
    BY DEF PageInv, CacheFollows, Follows, ScreenFollows
<1>. QED
  BY <1>1, PageInvCorrect, PTL

\* An undone removal is not sent, unless another removal of the same member was armed
\* beside it (undoRemove).
THEOREM UndoStops == Spec => []UndoneIsNotSent
<1>1. PageInv => UndoneIsNotSent
  BY DEF PageInv
<1>. QED
  BY <1>1, PageInvCorrect, PTL
===============================================================================

-------------------------------- MODULE Roster --------------------------------
(***************************************************************************)
(* The roster pull (db/roster.py): the roster read from Solidarity Tech is *)
(* stored in one REPEATABLE READ transaction, which folds together the     *)
(* rows of accounts that were merged upstream, makes the leader rows match *)
(* and lapses the absent.                                                  *)
(*                                                                         *)
(* A pull works on its own view of the tables, taken when it asks for the  *)
(* advisory lock and before it waits for it; nothing of it is seen until   *)
(* it commits.  What others commit meanwhile is not in its view, and a     *)
(* statement that would write such a row loses the race: everything is     *)
(* rolled back and the pull tries again.                                   *)
(***************************************************************************)
EXTENDS Integers, FiniteSets, Sequences

CONSTANTS
    StId,               \* Solidarity Tech's ids of its accounts
    Email,
    Discord,
    NoDiscord,          \* the NULL of a member without one
    Body,               \* the leadership bodies
    Row,                \* the ids of member rows
    NoRow,
    NoMember,           \* what a row id that is not in use holds
    Puller,             \* the callers: the CLI, the admin socket, the sweep
    Periodic,           \* those of them that a timer starts again and again
    NoPuller,
    NoPull,
    NoView,
    Rosters,            \* what Solidarity Tech may answer
    Starts,             \* what the tables may hold at first
    LapseFuseFloor,     \* 5 in the code
    LapseFuseDivisor,   \* 10 in the code: the fraction 0.10
    PullAttempts,       \* 3 in the code
    DryRuns,            \* the values of dry_run the callers use
    Bounds              \* how often each thing of BoundKind may happen

BoundKind == {"pull", "panel", "ban", "crash"}

\* One member as Solidarity Tech tells it.
Entry == [st : StId, email : Email, discord : Discord \cup {NoDiscord},
          good : BOOLEAN, leads : SUBSET Body]

MemberRow == [st : StId, email : Email, discord : Discord \cup {NoDiscord},
              good : BOOLEAN]

Role == {"none", "leader", "member"}

\* members, body_memberships (role and added_by), member_bans
Tables == [member : [Row -> MemberRow \cup {NoMember}],
           role : [Row -> [Body -> Role]],
           addedBy : [Row -> [Body -> Row \cup {NoRow}]],
           banned : SUBSET Row]

ASSUME RosterAssumption ==
    /\ StId \subseteq Nat
    /\ Row \subseteq Nat /\ IsFiniteSet(Row)
    /\ NoRow \notin Row
    /\ NoMember \notin MemberRow
    /\ NoDiscord \notin Discord
    /\ NoView \notin Tables
    /\ Periodic \subseteq Puller
    /\ NoPuller \notin Puller
    /\ NoPull \notin [roster : Seq(Entry), dryRun : BOOLEAN, attempt : Nat]
    /\ Rosters \subseteq Seq(Entry)
    /\ Starts \subseteq Tables
    /\ LapseFuseFloor \in Nat
    /\ LapseFuseDivisor \in Nat \ {0}
    /\ PullAttempts \in Nat \ {0}
    /\ DryRuns \subseteq BOOLEAN
    /\ Bounds \subseteq [BoundKind -> Nat]

VARIABLES
    db,         \* the committed tables
    pull,       \* per caller, the arguments of its pull and the attempt it is at
    snapshot,   \* per caller, the tables as its transaction has them
    outdated,   \* per caller, what others committed since its snapshot, by key
    queue,      \* who waits for the advisory lock, in order
    holder,     \* who has it
    tx,         \* the locals of _pull_in, for the holder
    left        \* what is left of the behaviour's bounds

vars == <<db, pull, snapshot, outdated, queue, holder, tx, left>>

-----------------------------------------------------------------------------
(* Reading the tables. *)

Stored(t) == {r \in Row : t.member[r] # NoMember}

RowOf(t, st) == {r \in Stored(t) : t.member[r].st = st}

SameDiscord(x, y) == x.discord # NoDiscord /\ x.discord = y.discord

\* The rows other than its own that hold an entry's email or Discord id.
Holding(t, e) ==
    {r \in Stored(t) : /\ t.member[r].st # e.st
                       /\ \/ t.member[r].email = e.email
                          \/ SameDiscord(t.member[r], e)}

RosterIds(roster) == {roster[i].st : i \in DOMAIN roster}

GoodStanding(t) == {r \in Stored(t) : t.member[r].good}

\* Good-standing members whose account the roster does not name.
Absent(t, roster) ==
    {r \in GoodStanding(t) : t.member[r].st \notin RosterIds(roster)}

LapseBudget(total) ==
    LET share == (total + LapseFuseDivisor - 1) \div LapseFuseDivisor
    IN  IF share > LapseFuseFloor THEN share ELSE LapseFuseFloor

\* Counts no one.
LapseFuseNever(t, roster) == FALSE

LapseFuseTrips(t, roster) ==
    Cardinality(Absent(t, roster)) > LapseBudget(Cardinality(GoodStanding(t)))

-----------------------------------------------------------------------------
(* Storing one member. *)

\* What a row looks like once an entry is stored on it.
AsRow(e) == [st |-> e.st, email |-> e.email, discord |-> e.discord,
             good |-> e.good]

\* Folds in whoever holds the value, also a member in the roster.
MergeDuplicatesOfAnyone(t, e, roster) == Holding(t, e)

\* Folds in nothing: the clash is skipped.
MergeDuplicatesNone(t, e, roster) == {}

\* The rows an account merge leaves behind.
MergeDuplicates(t, e, roster) ==
    {r \in Holding(t, e) : t.member[r].st \notin RosterIds(roster)}

\* The first of some rows, by account.
FirstByAccount(t, rows) ==
    {r \in rows : \A s \in rows : t.member[r].st <= t.member[s].st}

\* The folded row that the target's manual add of a body is carried over from.
CarriedFrom(t, from, b) ==
    FirstByAccount(t, {f \in from : t.role[f][b] = "member"})

\* A body the target already belongs to keeps the target's own row.
Carries(t, from, into, b) ==
    t.role[into][b] = "none" /\ CarriedFrom(t, from, b) # {}

\* Deleted first: the foreign key has set the attribution to NULL.
AuthorDeletedFirst(from, into, x) == IF x \in from THEN NoRow ELSE x

\* The adds a folded row made are re-attributed before it is deleted.
Author(from, into, x) == IF x \in from THEN into ELSE x

\* The ban goes with the deleted row.
BansDeletedWithTheRow(t, from, into) == t.banned \ from

\* A ban on a folded row is carried onto the target.
CarriedBans(t, from, into) ==
    (t.banned \ from) \cup (IF t.banned \cap from # {} THEN {into} ELSE {})

\* The rows `from` folded into the row `into`, and deleted.
Folded(t, from, into) ==
    [member  |-> [r \in Row |-> IF r \in from THEN NoMember ELSE t.member[r]],
     role    |-> [r \in Row |-> [b \in Body |->
                    IF r \in from THEN "none"
                    ELSE IF r = into /\ Carries(t, from, into, b) THEN "member"
                    ELSE t.role[r][b]]],
     addedBy |-> [r \in Row |-> [b \in Body |->
                    IF r \in from THEN NoRow
                    ELSE Author(from, into,
                           IF r = into /\ Carries(t, from, into, b)
                           THEN t.addedBy[CHOOSE f \in CarriedFrom(t, from, b) : TRUE][b]
                           ELSE t.addedBy[r][b])]],
     banned  |-> CarriedBans(t, from, into)]

\* The row the survivor is stored on: its own, or else the first duplicate's.
Survivor(t, e, duplicates) ==
    CHOOSE r \in (IF RowOf(t, e.st) # {} THEN RowOf(t, e.st)
                  ELSE FirstByAccount(t, duplicates)) : TRUE

\* The duplicates folded into the survivor's row, which is re-keyed if it was one.
Merged(t, e, duplicates) ==
    LET into == Survivor(t, e, duplicates)
    IN  [Folded(t, duplicates \ {into}, into) EXCEPT !.member[into].st = e.st]

-----------------------------------------------------------------------------
(* What a statement writes, by the rows of the tables.                      *)

MemberKey(r)  == <<"member", r>>
RoleKey(r, b) == <<"role", r, b>>
BanKey(r)     == <<"ban", r>>

Key == {MemberKey(r) : r \in Row} \cup {BanKey(r) : r \in Row}
         \cup {RoleKey(p[1], p[2]) : p \in Row \X Body}

Differing(t, u) ==
    {MemberKey(r) : r \in {x \in Row : t.member[x] # u.member[x]}}
    \cup {BanKey(r) : r \in {x \in Row : (x \in t.banned) # (x \in u.banned)}}
    \cup {RoleKey(p[1], p[2]) : p \in {x \in Row \X Body :
             \/ t.role[x[1]][x[2]] # u.role[x[1]][x[2]]
             \/ t.addedBy[x[1]][x[2]] # u.addedBy[x[1]][x[2]]}}

\* A deletion reaches everything that refers to the row, also what the snapshot
\* does not show: the foreign keys cascade to it or clear it.
Cascaded(r) ==
    {MemberKey(r), BanKey(r)} \cup {RoleKey(r, b) : b \in Body}
    \cup {RoleKey(p[1], p[2]) : p \in {x \in Row \X Body :
             db.addedBy[x[1]][x[2]] = r}}

Written(t, u) ==
    Differing(t, u) \cup UNION {Cascaded(r) : r \in Stored(t) \ Stored(u)}

\* A merge also meets the rows that a carried add or a carried ban may find there.
MergeWrites(t, e, duplicates) ==
    LET into == Survivor(t, e, duplicates)
        from == duplicates \ {into}
    IN  Written(t, Merged(t, e, duplicates))
          \cup {RoleKey(into, b) : b \in {c \in Body : CarriedFrom(t, from, c) # {}}}
          \cup {BanKey(into) : r \in t.banned \cap from}

\* t, with the keys K as u has them.
Overlay(t, u, K) ==
    [member  |-> [r \in Row |-> IF MemberKey(r) \in K THEN u.member[r]
                                                      ELSE t.member[r]],
     role    |-> [r \in Row |-> [b \in Body |->
                    IF RoleKey(r, b) \in K THEN u.role[r][b] ELSE t.role[r][b]]],
     addedBy |-> [r \in Row |-> [b \in Body |->
                    IF RoleKey(r, b) \in K THEN u.addedBy[r][b]
                                           ELSE t.addedBy[r][b]]],
     banned  |-> {r \in Row : IF BanKey(r) \in K THEN r \in u.banned
                                                 ELSE r \in t.banned}]

\* The row of the entry's account, or else one whose id has not been in use since the
\* snapshot.
HomeOf(t, e) ==
    IF RowOf(t, e.st) # {} THEN RowOf(t, e.st)
    ELSE LET unused == {r \in Row \ (Stored(t) \cup Stored(db)) : MemberKey(r) \notin outdated[holder]}
         IN  {r \in unused : \A s \in unused : r <= s}

\* What an unique index sees of tables of which K is written: also rows that
\* others committed since the snapshot.
Blocked(t, K, e) == Holding(Overlay(db, t, K), e) # {}

-----------------------------------------------------------------------------
(* The pulls. *)

Locals == [next |-> 1, fuse |-> FALSE, pairs |-> {}, present |-> {},
           skipped |-> {}, merges |-> {}, touched |-> {}, repeated |-> FALSE]

NobodyPulls == [p \in Puller |-> NoPull]

Init ==
    /\ db \in Starts
    /\ pull = NobodyPulls
    /\ snapshot = [p \in Puller |-> NoView]
    /\ outdated = [p \in Puller |-> {}]
    /\ queue = <<>>
    /\ holder = NoPuller
    /\ tx = Locals
    /\ left \in Bounds

Spend(kind) == left[kind] > 0 /\ left' = [left EXCEPT ![kind] = @ - 1]

\* A caller has read a roster and calls pull_roster.
StartPull(p) ==
    /\ pull[p] = NoPull
    /\ IF p \in Periodic THEN left' = left ELSE Spend("pull")
    /\ \E roster \in Rosters, dryRun \in DryRuns :
          pull' = [pull EXCEPT ![p] = [roster |-> roster, dryRun |-> dryRun,
                                       attempt |-> 1]]
    /\ UNCHANGED <<db, snapshot, outdated, queue, holder, tx>>

\* The transaction's first statement asks for the lock; it is that statement that
\* takes the snapshot.
AskForLock(p) ==
    /\ pull[p] # NoPull /\ snapshot[p] = NoView
    /\ snapshot' = [snapshot EXCEPT ![p] = db]
    /\ queue' = Append(queue, p)
    /\ UNCHANGED <<db, pull, outdated, holder, tx, left>>

\* The lock is granted in order, and the fuse is judged before anything is written.
TakeLock ==
    /\ holder = NoPuller /\ queue # <<>>
    /\ holder' = Head(queue)
    /\ queue' = Tail(queue)
    /\ tx' = [Locals EXCEPT !.fuse =
                 LapseFuseTrips(snapshot[Head(queue)], pull[Head(queue)].roster)]
    /\ UNCHANGED <<db, pull, snapshot, outdated, left>>

Released == holder' = NoPuller /\ tx' = Locals

\* The transaction is over, one way or the other.
Ended(p) ==
    /\ snapshot' = [snapshot EXCEPT ![p] = NoView]
    /\ outdated' = [outdated EXCEPT ![p] = {}]

MergeDuplicatesOn == ~ (pull[holder].dryRun \/ tx.fuse)

\* The next entry of the holder's roster and what the savepoints make of it:
\* `found` the duplicates, `tried` the tables after the merge, if there is one.
Try ==
    LET t      == snapshot[holder]
        e      == pull[holder].roster[tx.next]
        found  == IF Blocked(t, tx.touched, e) /\ MergeDuplicatesOn
                  THEN MergeDuplicates(t, e, pull[holder].roster) ELSE {}
        tried  == IF found # {} THEN Merged(t, e, found) ELSE t
        keys   == IF found # {} THEN MergeWrites(t, e, found) ELSE {}
    IN  [entry |-> e, found |-> found, tables |-> tried,
         touched |-> tx.touched \cup keys,
         \* an upsert writes its row even where another pull inserted it
         writes |-> keys \cup {MemberKey(r) :
                                 r \in RowOf(t, e.st) \cup RowOf(db, e.st)}]

Working == holder # NoPuller /\ tx.next <= Len(pull[holder].roster)

Races(keys) == keys \cap outdated[holder] # {}

\* _store_member, when the upsert succeeds, at once or after the merge.
StoreMember ==
    /\ Working
    /\ \E try \in {Try} :
        /\ ~ Races(try.writes)
        /\ ~ Blocked(try.tables, try.touched, try.entry)
        /\ \E r \in HomeOf(try.tables, try.entry) :
            LET pairs == {<<r, b>> : b \in try.entry.leads} IN
            /\ snapshot' = [snapshot EXCEPT ![holder] =
                              [try.tables EXCEPT !.member[r] = AsRow(try.entry)]]
            /\ tx' = [tx EXCEPT
                  !.next = @ + 1,
                  !.pairs = @ \cup pairs,
                  !.repeated = @ \/ tx.pairs \cap pairs # {},
                  !.present = @ \cup {r},
                  !.merges = @ \cup {[duplicate |-> d, survivor |-> r] : d \in try.found},
                  !.touched = try.touched \cup {MemberKey(r)}]
    /\ UNCHANGED <<db, pull, outdated, queue, holder, left>>

\* What a skip leaves behind without the outer savepoint: the merge.
SkippedKeepingMerge(try) == [tables |-> try.tables, touched |-> try.touched]

\* What a skip leaves behind: every row as it was.
SkippedTables(try) == [tables |-> snapshot[holder], touched |-> tx.touched]

\* The clash is with a member in the roster, or merging is off.
SkipMember ==
    /\ Working
    /\ \E try \in {Try} :
        /\ ~ Races(try.writes)
        /\ Blocked(try.tables, try.touched, try.entry)
        /\ snapshot' = [snapshot EXCEPT ![holder] = SkippedTables(try).tables]
        /\ tx' = [tx EXCEPT !.next = @ + 1, !.skipped = @ \cup {try.entry.st},
                            !.touched = SkippedTables(try).touched]
    /\ UNCHANGED <<db, pull, outdated, queue, holder, left>>

\* Deletes the leader rows of everybody the roster does not make a leader.
StaleLeaderRowsOfAll(t) ==
    {p \in Row \X Body : t.role[p[1]][p[2]] = "leader" /\ p \notin tx.pairs}

\* Only of members this pull stored.
StaleLeaderRows(t) ==
    {p \in tx.present \X Body : t.role[p[1]][p[2]] = "leader" /\ p \notin tx.pairs}

\* DO UPDATE: a manual add that the records promote becomes theirs.
LeaderRowOf(role) == "leader"

\* Lapses whom the pull did not store.
LapsingUnstored(t) == IF tx.fuse THEN {} ELSE GoodStanding(t) \ tx.present

\* Keyed on the roster, so that a skipped member keeps their standing.
Lapsing(t) == IF tx.fuse THEN {} ELSE Absent(t, pull[holder].roster)

\* The statements after the loop, on the tables the loop has left.
Reconciled ==
    LET t     == snapshot[holder]
        stale == StaleLeaderRows(t)
    IN  [member  |-> [r \in Row |-> IF r \in Lapsing(t)
                                    THEN [t.member[r] EXCEPT !.good = FALSE]
                                    ELSE t.member[r]],
         role    |-> [r \in Row |-> [b \in Body |->
                        IF <<r, b>> \in tx.pairs THEN LeaderRowOf(t.role[r][b])
                        ELSE IF <<r, b>> \in stale THEN "none"
                        ELSE t.role[r][b]]],
         addedBy |-> [r \in Row |-> [b \in Body |->
                        IF <<r, b>> \in tx.pairs \cup stale THEN NoRow
                        ELSE t.addedBy[r][b]]],
         banned  |-> t.banned]

\* Every leader row is re-stated, so written, whether it changes or not.
ReconcileWrites ==
    Written(snapshot[holder], Reconciled) \cup {RoleKey(p[1], p[2]) : p \in tx.pairs}

\* What others commit is out of the sight of those who hold a snapshot.
Outdates(keys) ==
    [p \in Puller |-> IF snapshot[p] = NoView THEN {} ELSE outdated[p] \cup keys]

LoopDone == holder # NoPuller /\ tx.next > Len(pull[holder].roster)

CommitPull ==
    /\ LoopDone /\ ~ tx.repeated
    /\ ~ Races(ReconcileWrites)
    /\ LET keys == tx.touched \cup ReconcileWrites IN
        /\ db' = Overlay(db, Reconciled, keys)
        /\ outdated' = [Outdates(keys) EXCEPT ![holder] = {}]
    /\ snapshot' = [snapshot EXCEPT ![holder] = NoView]
    /\ pull' = [pull EXCEPT ![holder] = NoPull]
    /\ Released
    /\ UNCHANGED <<queue, left>>

\* One INSERT may not update a leader row twice: a roster that names a leader
\* twice fails the whole pull.
RaiseRepeatedRow ==
    /\ LoopDone /\ tx.repeated
    /\ pull' = [pull EXCEPT ![holder] = NoPull]
    /\ Ended(holder) /\ Released
    /\ UNCHANGED <<db, queue, left>>

GivesUp(attempt) == attempt = PullAttempts

\* A statement would write a row that changed since the snapshot: everything is
\* rolled back, the lock goes with it, and the pull asks for it again.
LoseRace ==
    /\ \/ Working /\ Races(Try.writes)
       \/ LoopDone /\ Races(ReconcileWrites)
    /\ pull' = [pull EXCEPT ![holder] =
                  IF GivesUp(pull[holder].attempt) THEN NoPull
                  ELSE [pull[holder] EXCEPT !.attempt = @ + 1]]
    /\ Ended(holder) /\ Released
    /\ UNCHANGED <<db, queue, left>>

WithoutPlace(i) == SubSeq(queue, 1, i - 1) \o SubSeq(queue, i + 1, Len(queue))

\* The process or its connection dies: the transaction is rolled back.
Crash(p) ==
    /\ pull[p] # NoPull
    /\ Spend("crash")
    /\ pull' = [pull EXCEPT ![p] = NoPull]
    /\ Ended(p)
    /\ \/ /\ \A i \in DOMAIN queue : queue[i] # p
          /\ queue' = queue
       \/ \E i \in DOMAIN queue : queue[i] = p /\ queue' = WithoutPlace(i)
    /\ IF holder = p THEN Released ELSE UNCHANGED <<holder, tx>>
    /\ UNCHANGED db

-----------------------------------------------------------------------------
(* Others, each in a transaction of its own. *)

\* What the holder has written of a row bars others from referring to the row, if
\* it deleted it or changed one of its unique columns.
Barred(r) ==
    /\ MemberKey(r) \in tx.touched
    /\ \/ snapshot[holder].member[r] = NoMember
       \/ db.member[r] = NoMember
       \/ \E c \in {"st", "email", "discord"} :
             snapshot[holder].member[r][c] # db.member[r][c]

Commits(keys, tables) ==
    /\ keys \cap tx.touched = {}
    /\ db' = tables
    /\ outdated' = Outdates(keys)
    /\ UNCHANGED <<pull, snapshot, queue, holder, tx>>

\* claim_and_add_member; who may add whom was checked in earlier transactions.
PanelAdd(r, b, by) ==
    /\ Spend("panel")
    /\ r \in Stored(db) /\ by \in Stored(db) /\ db.role[r][b] = "none"
    /\ ~ Barred(r) /\ ~ Barred(by)
    /\ Commits({RoleKey(r, b)}, [db EXCEPT !.role[r][b] = "member",
                                           !.addedBy[r][b] = by])

\* claim_and_remove_member: leader rows are out of its reach.
PanelRemove(r, b) ==
    /\ Spend("panel")
    /\ db.role[r][b] = "member"
    /\ Commits({RoleKey(r, b)}, [db EXCEPT !.role[r][b] = "none",
                                           !.addedBy[r][b] = NoRow])

Ban(r) ==
    /\ Spend("ban")
    /\ r \in Stored(db) \ db.banned /\ ~ Barred(r)
    /\ Commits({BanKey(r)}, [db EXCEPT !.banned = @ \cup {r}])

Unban(r) ==
    /\ Spend("ban")
    /\ r \in db.banned
    /\ Commits({BanKey(r)}, [db EXCEPT !.banned = @ \ {r}])

-----------------------------------------------------------------------------
PullStep == StoreMember \/ SkipMember \/ CommitPull \/ RaiseRepeatedRow \/ LoseRace

Others ==
    \/ \E r \in Row, b \in Body, by \in Row : PanelAdd(r, b, by)
    \/ \E r \in Row, b \in Body : PanelRemove(r, b)
    \/ \E r \in Row : Ban(r) \/ Unban(r)

Next ==
    \/ \E p \in Puller : StartPull(p) \/ AskForLock(p) \/ Crash(p)
    \/ TakeLock
    \/ PullStep
    \/ Others

Spec == Init /\ [][Next]_vars

\* The lock is granted, a statement returns, and the timer goes off.
FairSpec ==
    /\ Spec
    /\ WF_vars(TakeLock)
    /\ WF_vars(PullStep)
    /\ \A p \in Puller : WF_vars(AskForLock(p))
    /\ \A p \in Periodic : WF_vars(StartPull(p))
=============================================================================

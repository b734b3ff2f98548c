--------------------------- MODULE RosterProperties ---------------------------
(***************************************************************************)
(* What the roster pull promises, mostly of the one step that others see:  *)
(* the commit.                                                             *)
(***************************************************************************)
EXTENDS Roster

\* Types; a pull makes at most PullAttempts attempts; nobody waits for the lock
\* twice or while holding it (db/roster.py, pull_roster).
TypeOK ==
    /\ db \in Tables
    /\ pull \in [Puller -> {NoPull} \cup [roster : Rosters, dryRun : BOOLEAN,
                                           attempt : 1..PullAttempts]]
    /\ snapshot \in [Puller -> {NoView} \cup Tables]
    /\ outdated \in [Puller -> SUBSET Key]
    /\ \A i, j \in DOMAIN queue : queue[i] = queue[j] => i = j
    /\ \A p \in Puller : snapshot[p] # NoView <=> \/ p = holder
                                                  \/ \E i \in DOMAIN queue : queue[i] = p
    /\ holder \in Puller \cup {NoPuller}
    /\ tx.pairs \subseteq Row \X Body /\ tx.present \subseteq Row
    /\ tx.skipped \subseteq StId /\ tx.touched \subseteq Key
    /\ left \in [BoundKind -> Nat]

\* The schema's constraints: accounts, emails and Discord ids are unique, and
\* memberships, attributions and bans refer to rows that exist
\* (create_membership_tables.sql).
DistinctMembers(t) ==
    \A r, s \in Stored(t) : r # s =>
        /\ t.member[r].st # t.member[s].st
        /\ t.member[r].email # t.member[s].email
        /\ ~ SameDiscord(t.member[r], t.member[s])

References(t) ==
    /\ t.banned \subseteq Stored(t)
    /\ \A r \in Row, b \in Body :
          /\ t.role[r][b] # "none" => r \in Stored(t)
          /\ t.addedBy[r][b] # NoRow => /\ t.addedBy[r][b] \in Stored(t)
                                        /\ t.role[r][b] = "member"

\* The database starts with tables that it would have accepted.
ASSUME StartsAssumption ==
    \A t \in Starts : DistinctMembers(t) /\ References(t)

\* The committed tables keep the constraints, as the database sees to it: what the
\* properties below rest on.
ConstraintsHold == DistinctMembers(db) /\ References(db)

-----------------------------------------------------------------------------
Committing == db' # db /\ holder' # holder

Roster == pull[holder].roster

\* The row that stands for a row after the commit.
HomeAfter(r) ==
    IF \E m \in tx.merges : m.duplicate = r
    THEN (CHOOSE m \in tx.merges : m.duplicate = r).survivor
    ELSE r

\* Whose manual adds of a body end on a row.
AddersOf(h, b) ==
    {db.addedBy[r][b] : r \in {x \in Row : HomeAfter(x) = h /\ db.role[x][b] = "member"}}

\* A ban outlives the pull that folds the banned row, also one that was placed
\* while the pull was under way (roster.py, _CARRY_BAN).
BansCarried ==
    [][Committing => \A r \in db.banned : HomeAfter(r) \in db'.banned]_vars

\* A manual add outlives every pull, also one made while the pull was under way,
\* and stays credited to who made it, unless the records make the member a leader
\* or the survivor of the fold has a leader row of that body (roster.py,
\* _CARRY_MANUAL_ADDS, _CARRY_ATTRIBUTION).
ManualAddsCarried ==
    [][Committing =>
         \A r \in Row, b \in Body : db.role[r][b] = "member" =>
            LET h == HomeAfter(r) IN
            \/ <<h, b>> \in tx.pairs
            \/ db.role[h][b] = "leader"
            \/ /\ db'.role[h][b] = "member"
               /\ db'.addedBy[h][b] \in {HomeAfter(a) : a \in AddersOf(h, b)}]_vars

\* At most the floor, or else one fewer would be less than the fraction.
WithinLapseBudget(n, total) ==
    n <= LapseFuseFloor \/ (n - 1) * LapseFuseDivisor < total

\* One pull takes good standing from no more accounts that its roster leaves out
\* than the budget allows, the larger of a floor and a rounded-up fraction of all in
\* good standing, by lapsing them and by folding them together (roster.py,
\* LAPSE_FUSE_FLOOR, LAPSE_FUSE_FRACTION).
MassAbsenceHeldBack ==
    [][Committing =>
         WithinLapseBudget(
            Cardinality({r \in Absent(db, Roster) :
                           \/ r \notin GoodStanding(db')
                           \/ db'.member[r].st # db.member[r].st}),
            Cardinality(GoodStanding(db)))]_vars

FoldedAway(r) == r \notin Stored(db') \/ db'.member[r].st # db.member[r].st

NamedOnce(st) == \A i, j \in DOMAIN Roster : Roster[i].st = st /\ Roster[j].st = st => i = j

\* Only a row whose account the roster leaves out is ever folded or re-keyed, not by a
\* rehearsal or a pull that found an implausible absence, and only to store a member
\* who claims its email or Discord id: when that member is skipped after all, the fold
\* is undone with it (roster.py, _SELECT_MERGE_DUPLICATES, _store_member, pull_roster).
FoldsComplete ==
    [][Committing =>
         \A r \in Stored(db) : FoldedAway(r) =>
            /\ db.member[r].st \notin RosterIds(Roster)
            /\ ~ pull[holder].dryRun /\ ~ tx.fuse
            /\ \E i \in DOMAIN Roster :
                  /\ \/ Roster[i].email = db.member[r].email
                     \/ SameDiscord(Roster[i], db.member[r])
                  /\ \E s \in Stored(db') : db'.member[s].st = Roster[i].st
                  /\ NamedOnce(Roster[i].st) =>
                        /\ Roster[i].st \notin tx.skipped
                        /\ \E s \in Stored(db') : db'.member[s] = AsRow(Roster[i])]_vars

\* An entry is left as the report says: as it was if skipped, or else stored.
AsReported(e) ==
    IF e.st \in tx.skipped
    THEN \A r \in Row : r \in RowOf(db, e.st) \/ r \in RowOf(db', e.st)
                        => db'.member[r] = db.member[r]
    ELSE \E s \in Stored(db') : db'.member[s] = AsRow(e)

\* The report tells what became of every member: one that it does not list as skipped is
\* stored as the roster says, also when a later entry wants the same email or Discord
\* id, and one that it lists is in the tables as before, whatever the attempts to store
\* them had done (roster.py, pull_roster, _store_member, PullReport.skipped_st_ids).
StoredAsReported ==
    [][Committing =>
         \A i \in DOMAIN Roster : NamedOnce(Roster[i].st) => AsReported(Roster[i])]_vars

\* Nobody whom the roster shows in good standing loses it, stored or skipped
\* (roster.py, _LAPSE_ABSENT_MEMBERS).
RosterKeepsStanding ==
    [][Committing =>
         \A r \in GoodStanding(db) :
            (/\ db.member[r].st \in RosterIds(Roster)
             /\ \A i \in DOMAIN Roster : Roster[i].st = db.member[r].st => Roster[i].good)
            => \E s \in GoodStanding(db') : db'.member[s].st = db.member[r].st]_vars

LeaderOf(t, r) == {b \in Body : t.role[r][b] = "leader"}

\* A member the pull stored leads exactly what the roster says, and everybody else
\* what they led before: a member absent from the roster keeps their leader rows
\* (roster.py, _DELETE_STALE_LEADER_ROWS).
LeadersFollowRoster ==
    [][Committing =>
         \A r \in Stored(db') :
            LET st == db'.member[r].st IN
            /\ st \in RosterIds(Roster) \ tx.skipped =>
                  LeaderOf(db', r) = UNION {Roster[i].leads : i \in {j \in DOMAIN Roster : Roster[j].st = st}}
            /\ st \notin RosterIds(Roster) \/ (st \in tx.skipped /\ NamedOnce(st)) =>
                  LeaderOf(db', r) = LeaderOf(db, r)]_vars

-----------------------------------------------------------------------------
\* Members who wait for each other's email or Discord id in a circle, and those
\* who wait for them: no pull can store them.
Stuck(t, roster) ==
    UNION {S \in SUBSET DOMAIN roster :
             \A i \in S : \E j \in S :
                \E r \in Holding(t, roster[i]) : t.member[r].st = roster[j].st}

\* Once Solidarity Tech keeps saying the same and does not look broken, the pulls
\* end up storing every member who is not stuck: a clash with a leftover row or
\* with a member who gives up a value does not last (roster.py, module docstring).
EventuallyStored ==
    \A roster \in Rosters :
        <>[](\A p \in Puller : pull[p] # NoPull => pull[p].roster = roster)
          => <>[](\/ LapseFuseTrips(db, roster)
                  \/ \A i \in DOMAIN roster \ Stuck(db, roster) :
                        \E r \in Stored(db) : db.member[r] = AsRow(roster[i]))

-----------------------------------------------------------------------------
(* What the source says of itself and does not keep. *)

\* "in the order that loses nothing" (roster.py, _CARRY_MANUAL_ADDS): who was added
\* to a body by hand still belongs to it once the account is merged.
FoldLosesNothing ==
    [][Committing =>
         \A m \in tx.merges, b \in Body :
            db.role[m.duplicate][b] = "member" => db'.role[m.survivor][b] # "none"]_vars

\* "A queued pull can lose exactly one race" (roster.py, _PULL_ATTEMPTS): with pulls
\* only, no third attempt is made.
OneRaceLost == \A p \in Puller : pull[p] = NoPull \/ pull[p].attempt <= 2
=============================================================================

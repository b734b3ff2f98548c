----------------------------- MODULE RosterProofs -----------------------------
(***************************************************************************)
(* The roster pull, for any accounts, rows, rosters, tables and callers:   *)
(* the constraints of the committed tables (SafeInv), what a fold carries  *)
(* on (CarryInv), what a commit has stored, folded and made lead (PullInv) *)
(* and the standing it may take (FuseInv), whatever else was committed     *)
(* since the pull's snapshot.                                              *)
(***************************************************************************)
EXTENDS RosterProperties, FiniteSetTheorems, SequenceTheorems, WellFoundedInduction, TLAPS

-----------------------------------------------------------------------------
(* The inductive invariant.                                                 *)

TxType ==
    [next : Nat \ {0}, fuse : BOOLEAN, pairs : SUBSET (Row \X Body), present : SUBSET Row,
     skipped : SUBSET StId, merges : SUBSET [duplicate : Row, survivor : Row],
     touched : SUBSET Key, repeated : BOOLEAN]

\* The locals, the lock and the snapshots are of pulls that are under way.
Places ==
    /\ tx \in TxType
    /\ queue \in Seq(Puller)
    /\ \A p \in Puller : snapshot[p] # NoView => pull[p] # NoPull
    /\ \A i \in DOMAIN queue : queue[i] # holder
    /\ holder = NoPuller => tx = Locals

TypeInv == TypeOK /\ Places

\* The keys at which a pull's tables may differ from the committed ones: its own writes,
\* and what others have committed.
Touched(p) == IF p = holder THEN tx.touched ELSE {}

AgreesOff(t, u, K) ==
    /\ \A r \in Row : MemberKey(r) \notin K => t.member[r] = u.member[r]
    /\ \A r \in Row : BanKey(r) \notin K => (r \in t.banned <=> r \in u.banned)
    /\ \A r \in Row, b \in Body : RoleKey(r, b) \notin K =>
          t.role[r][b] = u.role[r][b] /\ t.addedBy[r][b] = u.addedBy[r][b]

\* Whoever else changes who leads what writes both the leader's row and the membership;
\* W is what the pull itself has written.
LeadersAgree(t, u, K, W) ==
    \A r \in Row, b \in Body :
        /\ MemberKey(r) \notin K \/ RoleKey(r, b) \notin K
        /\ r \in Stored(t) \/ MemberKey(r) \notin W
        => (t.role[r][b] = "leader" <=> u.role[r][b] = "leader")

DistinctAccounts(t) ==
    \A r, s \in Stored(t) : r # s => t.member[r].st # t.member[s].st

ViewsAgree ==
    \A p \in Puller : snapshot[p] # NoView =>
        /\ AgreesOff(snapshot[p], db, outdated[p] \cup Touched(p))
        /\ LeadersAgree(snapshot[p], db, outdated[p], Touched(p))
        /\ DistinctAccounts(snapshot[p]) /\ References(snapshot[p])

Mine == snapshot[holder]

\* The tables as the unique indexes and the foreign keys see them while a pull works.
View == Overlay(db, Mine, tx.touched)

\* The holder has written nothing that changed since its snapshot, and what it has
\* written goes with what others have.
ViewHolds ==
    holder # NoPuller =>
        /\ tx.touched \cap outdated[holder] = {}
        /\ DistinctMembers(View) /\ References(View)

\* What is stored is written, and of an account that the roster names.
Present ==
    holder # NoPuller =>
        /\ \A r \in tx.present : /\ MemberKey(r) \in tx.touched /\ r \in Stored(Mine)
                                 /\ Mine.member[r].st \in RosterIds(Roster)
        /\ tx.pairs \subseteq tx.present \X Body

\* Entries that are through.
Through == {i \in DOMAIN Roster : i < tx.next}

\* What the loop has stored, skipped and written.
Loop ==
    holder # NoPuller =>
        /\ \A r \in tx.present : \E i \in Through : Mine.member[r] = AsRow(Roster[i])
        /\ \A i \in Through : \/ Roster[i].st \in tx.skipped
                              \/ \E r \in tx.present : Mine.member[r].st = Roster[i].st
        /\ \A st \in tx.skipped : \E i \in Through : Roster[i].st = st
        /\ \A r \in tx.present : Mine.member[r].st \in tx.skipped => ~ NamedOnce(Mine.member[r].st)

\* Who is a leader in what the loop has stored.
Pairs ==
    holder # NoPuller =>
        \A r \in tx.present : Mine.member[r].st \notin tx.skipped =>
           \A b \in Body : <<r, b>> \in tx.pairs <=>
              \E i \in Through : Roster[i].st = Mine.member[r].st /\ b \in Roster[i].leads

Claims(e, m) == e.email = m.email \/ SameDiscord(e, m)

\* A row folded into another one is gone for good, with all that was the holder's of it,
\* and no row is folded twice.
Merges ==
    holder # NoPuller =>
        /\ \A r \in Row : MemberKey(r) \in tx.touched => r \in tx.present \/ Mine.member[r] = NoMember
        /\ \A m \in tx.merges :
              /\ m.survivor \in tx.present
              /\ m.duplicate \in Stored(db) /\ MemberKey(m.duplicate) \in tx.touched
              /\ m.duplicate # m.survivor =>
                    /\ Mine.member[m.duplicate] = NoMember
                    /\ BanKey(m.duplicate) \in tx.touched
                    /\ \A b \in Body : RoleKey(m.duplicate, b) \in tx.touched
        /\ \A m, n \in tx.merges : m.duplicate = n.duplicate => m = n

\* Every row folded away is a merge of the report, and every merge is of a row that the
\* roster leaves out and an entry of it claims.
Folds ==
    holder # NoPuller =>
        /\ \A m \in tx.merges :
              /\ db.member[m.duplicate].st \notin RosterIds(Roster)
              /\ ~ pull[holder].dryRun /\ ~ tx.fuse
              /\ \E i \in Through : /\ Roster[i].st = Mine.member[m.survivor].st
                                    /\ Claims(Roster[i], db.member[m.duplicate])
        /\ \A r \in Stored(db) :
              /\ MemberKey(r) \in tx.touched
              /\ r \notin Stored(Mine) \/ Mine.member[r].st # db.member[r].st
              => \E m \in tx.merges : m.duplicate = r

\* The fuse was judged on tables that agree with the committed ones but for what was
\* committed since; the entries that are through are of accounts whose rows were not.
Judged ==
    holder # NoPuller =>
        \E S \in Tables :
            /\ tx.fuse = LapseFuseTrips(S, Roster)
            /\ \A r \in Row : MemberKey(r) \notin outdated[holder] => S.member[r] = db.member[r]
            /\ \A r \in Row : MemberKey(r) \notin tx.touched => S.member[r] = Mine.member[r]
            /\ \A i \in Through : \A r \in RowOf(S, Roster[i].st) : MemberKey(r) \notin outdated[holder]

\* What keeps the constraints.
SafeInv == TypeInv /\ ConstraintsHold /\ ViewsAgree /\ ViewHolds /\ Present

\* A ban is where the banned row is, and what it was carried onto is written.
BansFollow ==
    holder # NoPuller =>
        \A r \in db.banned :
            /\ HomeAfter(r) \in View.banned
            /\ HomeAfter(r) # r => BanKey(HomeAfter(r)) \in tx.touched

\* So is a manual add.
AddsFollow ==
    holder # NoPuller =>
        \A r \in Row, b \in Body : db.role[r][b] = "member" =>
            /\ \/ db.role[HomeAfter(r)][b] = "leader"
               \/ View.role[HomeAfter(r)][b] = "member"
            /\ HomeAfter(r) # r => RoleKey(HomeAfter(r), b) \in tx.touched

\* A manual add is credited to who made it, or made one that ended on the same row.
AddersFollow ==
    holder # NoPuller =>
        \A r \in Row, b \in Body : View.role[r][b] = "member" =>
            \E x \in Row : /\ HomeAfter(x) = r /\ db.role[x][b] = "member"
                          /\ View.addedBy[r][b] = HomeAfter(db.addedBy[x][b])

-----------------------------------------------------------------------------
(* Keys and tables.                                                         *)

LEMMA KeyType ==
    /\ \A r \in Row : MemberKey(r) \in Key /\ BanKey(r) \in Key
    /\ \A r \in Row, b \in Body : RoleKey(r, b) \in Key
<1>1. ASSUME NEW r \in Row, NEW b \in Body PROVE RoleKey(r, b) \in Key
  <2>1. <<r, b>> \in Row \X Body /\ <<r, b>>[1] = r /\ <<r, b>>[2] = b
    OBVIOUS
  <2>. QED
    BY <2>1 DEF Key
<1>. QED
  BY <1>1 DEF Key

LEMMA KeyDistinct ==
    /\ \A r, s : MemberKey(r) = MemberKey(s) => r = s
    /\ \A r, s : BanKey(r) = BanKey(s) => r = s
    /\ \A r, s, b, c : RoleKey(r, b) = RoleKey(s, c) => r = s /\ b = c
    /\ \A r, s, b : /\ MemberKey(r) # BanKey(s) /\ MemberKey(r) # RoleKey(s, b)
                    /\ BanKey(r) # RoleKey(s, b)
<1>1. \A r, s : MemberKey(r) = MemberKey(s) => r = s
  BY DEF MemberKey
<1>2. \A r, s : BanKey(r) = BanKey(s) => r = s
  BY DEF BanKey
<1>3. \A r, s, b, c : RoleKey(r, b) = RoleKey(s, c) => r = s /\ b = c
  BY DEF RoleKey
<1>4. \A r, s : MemberKey(r) # BanKey(s)
  <2>1. \A r : MemberKey(r)[1] = "member" /\ BanKey(r)[1] = "ban"
    BY DEF MemberKey, BanKey
  <2>. QED
    BY <2>1
<1>5. \A r, s, b : MemberKey(r) # RoleKey(s, b) /\ BanKey(r) # RoleKey(s, b)
  <2>1. \A r, b : MemberKey(r)[1] = "member" /\ BanKey(r)[1] = "ban" /\ RoleKey(r, b)[1] = "role"
    BY DEF MemberKey, BanKey, RoleKey
  <2>. QED
    BY <2>1
<1>. QED
  BY <1>1, <1>2, <1>3, <1>4, <1>5

\* Tables that agree at every key are the same.
LEMMA SameTables ==
    ASSUME NEW t \in Tables, NEW u \in Tables, AgreesOff(t, u, {})
    PROVE  t = u
<1>1. t.member = u.member
  BY DEF Tables, AgreesOff
<1>2. t.banned = u.banned
  BY DEF Tables, AgreesOff
<1>3. t.role = u.role
  <2>1. \A r \in Row : t.role[r] = u.role[r]
    BY DEF Tables, AgreesOff
  <2>. QED
    BY <2>1 DEF Tables
<1>4. t.addedBy = u.addedBy
  <2>1. \A r \in Row : t.addedBy[r] = u.addedBy[r]
    BY DEF Tables, AgreesOff
  <2>. QED
    BY <2>1 DEF Tables
<1>. QED
  BY <1>1, <1>2, <1>3, <1>4 DEF Tables

LEMMA OverlayType ==
    ASSUME NEW t \in Tables, NEW u \in Tables, NEW K
    PROVE  Overlay(t, u, K) \in Tables
<1>1. [r \in Row |-> IF MemberKey(r) \in K THEN u.member[r] ELSE t.member[r]]
        \in [Row -> MemberRow \cup {NoMember}]
  BY DEF Tables
<1>2. [r \in Row |-> [b \in Body |-> IF RoleKey(r, b) \in K THEN u.role[r][b] ELSE t.role[r][b]]]
        \in [Row -> [Body -> Role]]
  BY DEF Tables
<1>3. [r \in Row |-> [b \in Body |-> IF RoleKey(r, b) \in K THEN u.addedBy[r][b]
                                                            ELSE t.addedBy[r][b]]]
        \in [Row -> [Body -> Row \cup {NoRow}]]
  BY DEF Tables
<1>. QED
  BY <1>1, <1>2, <1>3 DEF Tables, Overlay

\* An overlay is u at the keys of K, and t elsewhere.
LEMMA OverlayAt ==
    ASSUME NEW t \in Tables, NEW u \in Tables, NEW K
    PROVE  /\ AgreesOff(Overlay(t, u, K), t, K)
           /\ \A r \in Row : MemberKey(r) \in K => Overlay(t, u, K).member[r] = u.member[r]
           /\ \A r \in Row : BanKey(r) \in K => (r \in Overlay(t, u, K).banned <=> r \in u.banned)
           /\ \A r \in Row, b \in Body : RoleKey(r, b) \in K =>
                 /\ Overlay(t, u, K).role[r][b] = u.role[r][b]
                 /\ Overlay(t, u, K).addedBy[r][b] = u.addedBy[r][b]
<1>1. \A r \in Row : Overlay(t, u, K).member[r] = IF MemberKey(r) \in K THEN u.member[r] ELSE t.member[r]
  BY DEF Overlay
<1>2. \A r \in Row : r \in Overlay(t, u, K).banned
                       <=> IF BanKey(r) \in K THEN r \in u.banned ELSE r \in t.banned
  BY DEF Overlay
<1>3. \A r \in Row, b \in Body :
         /\ Overlay(t, u, K).role[r][b] = IF RoleKey(r, b) \in K THEN u.role[r][b] ELSE t.role[r][b]
         /\ Overlay(t, u, K).addedBy[r][b] = IF RoleKey(r, b) \in K THEN u.addedBy[r][b]
                                                                    ELSE t.addedBy[r][b]
  BY DEF Overlay
<1>4. AgreesOff(Overlay(t, u, K), t, K)
  <2>1. \A r \in Row : BanKey(r) \notin K => (r \in Overlay(t, u, K).banned <=> r \in t.banned)
    BY <1>2
  <2>. QED
    BY <1>1, <1>3, <2>1 DEF AgreesOff
<1>5. \A r \in Row : BanKey(r) \in K => (r \in Overlay(t, u, K).banned <=> r \in u.banned)
  BY <1>2
<1>. QED
  BY <1>1, <1>3, <1>4, <1>5

\* Written covers what differs.
LEMMA WrittenCovers ==
    ASSUME NEW t \in Tables, NEW u \in Tables
    PROVE  AgreesOff(t, u, Written(t, u))
<1>1. ASSUME NEW r \in Row, t.member[r] # u.member[r] PROVE MemberKey(r) \in Written(t, u)
  BY <1>1 DEF Written, Differing
<1>2. ASSUME NEW r \in Row, ~ (r \in t.banned <=> r \in u.banned) PROVE BanKey(r) \in Written(t, u)
  <2>1. (r \in t.banned) # (r \in u.banned)
    BY <1>2, Zenon
  <2>2. BanKey(r) \in {BanKey(s) : s \in {x \in Row : (x \in t.banned) # (x \in u.banned)}}
    BY <2>1, Zenon
  <2>. QED
    BY <2>2, Zenon DEF Written, Differing
<1>3. ASSUME NEW r \in Row, NEW b \in Body,
             t.role[r][b] # u.role[r][b] \/ t.addedBy[r][b] # u.addedBy[r][b]
      PROVE  RoleKey(r, b) \in Written(t, u)
  <2>1. <<r, b>> \in Row \X Body /\ <<r, b>>[1] = r /\ <<r, b>>[2] = b
    OBVIOUS
  <2>. QED
    BY <1>3, <2>1 DEF Written, Differing
<1>. QED
  BY <1>1, <1>2, <1>3 DEF AgreesOff

LEMMA WrittenType ==
    ASSUME TypeOK, NEW t \in Tables, NEW u \in Tables
    PROVE  Written(t, u) \subseteq Key
<1>1. Differing(t, u) \subseteq Key
  BY KeyType DEF Differing
<1>2. \A r \in Row : Cascaded(r) \subseteq Key
  BY KeyType DEF Cascaded
<1>3. Stored(t) \subseteq Row
  BY DEF Stored
<1>. QED
  BY <1>1, <1>2, <1>3 DEF Written
-----------------------------------------------------------------------------
(* Folding rows into one.                                                   *)

\* Tables u are t with the rows `from` folded into `into`, which becomes account st's.
IsFold(u, t, from, into, st) ==
    /\ u \in Tables
    /\ \A r \in from : u.member[r] = NoMember
    /\ \A r \in Row \ (from \cup {into}) : u.member[r] = t.member[r]
    /\ u.member[into] \in MemberRow
    /\ u.member[into].st = st /\ u.member[into].email = t.member[into].email
    /\ u.member[into].discord = t.member[into].discord /\ u.member[into].good = t.member[into].good
    /\ \A r \in from, b \in Body : u.role[r][b] = "none" /\ u.addedBy[r][b] = NoRow
    /\ \A r \in Row \ from, b \in Body :
          r # into \/ ~ Carries(t, from, into, b) =>
             /\ u.role[r][b] = t.role[r][b]
             /\ u.addedBy[r][b] = Author(from, into, t.addedBy[r][b])
    /\ \A b \in Body : Carries(t, from, into, b) =>
          /\ t.role[into][b] = "none" /\ u.role[into][b] = "member"
          /\ \E f \in CarriedFrom(t, from, b) :
                u.addedBy[into][b] = Author(from, into, t.addedBy[f][b])
    /\ \A r \in Row : r \in u.banned <=> \/ r \in t.banned \ from
                                         \/ r = into /\ t.banned \cap from # {}

LEMMA CarriedIn ==
    ASSUME NEW t, NEW from, NEW b
    PROVE  \A f \in CarriedFrom(t, from, b) : f \in from /\ t.role[f][b] = "member"
BY DEF CarriedFrom, FirstByAccount

LEMMA RekeyedIsFold ==
    ASSUME NEW t \in Tables, NEW from \in SUBSET Row, NEW into \in Row \ from,
           t.member[into] \in MemberRow, NEW st \in StId
    PROVE  IsFold([Folded(t, from, into) EXCEPT !.member[into].st = st], t, from, into, st)
<1>. DEFINE F == Folded(t, from, into)
            m == [t.member[into] EXCEPT !.st = st]
            U == [F EXCEPT !.member = [F.member EXCEPT ![into] = [F.member[into] EXCEPT !.st = st]]]
            by(r, b) == IF r = into /\ Carries(t, from, into, b)
                        THEN t.addedBy[CHOOSE f \in CarriedFrom(t, from, b) : TRUE][b]
                        ELSE t.addedBy[r][b]
<1>1. U = [Folded(t, from, into) EXCEPT !.member[into].st = st]
  OBVIOUS
<1>2. m \in MemberRow /\ m.st = st /\ m.email = t.member[into].email
      /\ m.discord = t.member[into].discord /\ m.good = t.member[into].good
  BY DEF MemberRow
<1>3. \A r \in Row : F.member[r] = IF r \in from THEN NoMember ELSE t.member[r]
  BY DEF Folded
<1>4. F.member[into] = t.member[into]
  BY <1>3
<1>5. U.role = F.role /\ U.addedBy = F.addedBy /\ U.banned = F.banned
      /\ U.member = [F.member EXCEPT ![into] = m]
  BY <1>4 DEF Folded
<1>6. \A b \in Body : Carries(t, from, into, b) =>
         /\ (CHOOSE f \in CarriedFrom(t, from, b) : TRUE) \in CarriedFrom(t, from, b)
         /\ (CHOOSE f \in CarriedFrom(t, from, b) : TRUE) \in Row
  BY CarriedIn DEF Carries
<1>7. \A r \in Row, b \in Body : by(r, b) \in Row \cup {NoRow}
  <2>. SUFFICES ASSUME NEW r \in Row, NEW b \in Body PROVE by(r, b) \in Row \cup {NoRow}
    OBVIOUS
  <2>1. \A x \in Row : t.addedBy[x][b] \in Row \cup {NoRow}
    BY DEF Tables
  <2>2. CASE r = into /\ Carries(t, from, into, b)
    <3>1. by(r, b) = t.addedBy[CHOOSE f \in CarriedFrom(t, from, b) : TRUE][b]
      BY <2>2
    <3>. HIDE DEF by
    <3>. QED
      BY <1>6, <2>1, <2>2, <3>1
  <2>3. CASE ~ (r = into /\ Carries(t, from, into, b))
    BY <2>1, <2>3
  <2>. QED
    BY <2>2, <2>3
<1>8. /\ F.role = [r \in Row |-> [b \in Body |->
                     IF r \in from THEN "none"
                     ELSE IF r = into /\ Carries(t, from, into, b) THEN "member"
                     ELSE t.role[r][b]]]
      /\ F.addedBy = [r \in Row |-> [b \in Body |->
                        IF r \in from THEN NoRow ELSE Author(from, into, by(r, b))]]
      /\ F.banned = CarriedBans(t, from, into)
      /\ F.member = [r \in Row |-> IF r \in from THEN NoMember ELSE t.member[r]]
  BY DEF Folded
<1>9. \A r \in Row, b \in Body :
         /\ F.role[r][b] = IF r \in from THEN "none"
                           ELSE IF r = into /\ Carries(t, from, into, b) THEN "member"
                           ELSE t.role[r][b]
         /\ F.addedBy[r][b] = IF r \in from THEN NoRow ELSE Author(from, into, by(r, b))
  BY <1>8
<1>10. U \in Tables
  <2>1. U.member \in [Row -> MemberRow \cup {NoMember}]
    <3>1. F.member \in [Row -> MemberRow \cup {NoMember}]
      BY <1>8 DEF Tables
    <3>. QED
      BY <1>2, <1>5, <3>1
  <2>2. U.role \in [Row -> [Body -> Role]]
    <3>1. \A r \in Row, b \in Body : t.role[r][b] \in Role
      BY DEF Tables
    <3>2. \A r \in Row, b \in Body : F.role[r][b] \in Role
      BY <1>9, <3>1 DEF Role
    <3>3. F.role = [r \in Row |-> [b \in Body |-> F.role[r][b]]]
      BY <1>8
    <3>. QED
      BY <1>5, <3>2, <3>3
  <2>3. U.addedBy \in [Row -> [Body -> Row \cup {NoRow}]]
    <3>1. \A r \in Row, b \in Body : F.addedBy[r][b] \in Row \cup {NoRow}
      BY <1>7, <1>9 DEF Author
    <3>2. F.addedBy = [r \in Row |-> [b \in Body |-> F.addedBy[r][b]]]
      BY <1>8
    <3>. QED
      BY <1>5, <3>1, <3>2
  <2>4. U.banned \in SUBSET Row
    BY <1>5, <1>8 DEF CarriedBans, Tables
  <2>5. U = [member |-> U.member, role |-> U.role, addedBy |-> U.addedBy, banned |-> U.banned]
    <3>1. F = [member |-> F.member, role |-> F.role, addedBy |-> F.addedBy, banned |-> F.banned]
      BY DEF Folded
    <3>. HIDE DEF F
    <3>. QED
      BY <3>1
  <2>. HIDE DEF U
  <2>. QED
    BY <2>1, <2>2, <2>3, <2>4, <2>5 DEF Tables
<1>11. /\ U.member[into] = m
       /\ \A r \in Row : r # into => U.member[r] = IF r \in from THEN NoMember ELSE t.member[r]
  BY <1>5, <1>8
<1>12. \A r \in Row \ from, b \in Body :
          r # into \/ ~ Carries(t, from, into, b) =>
             /\ U.role[r][b] = t.role[r][b]
             /\ U.addedBy[r][b] = Author(from, into, t.addedBy[r][b])
  BY <1>5, <1>9
<1>13. \A b \in Body : Carries(t, from, into, b) =>
          /\ t.role[into][b] = "none" /\ U.role[into][b] = "member"
          /\ \E f \in CarriedFrom(t, from, b) :
                U.addedBy[into][b] = Author(from, into, t.addedBy[f][b])
  <2>. SUFFICES ASSUME NEW b \in Body, Carries(t, from, into, b)
                PROVE  /\ t.role[into][b] = "none" /\ U.role[into][b] = "member"
                       /\ \E f \in CarriedFrom(t, from, b) :
                             U.addedBy[into][b] = Author(from, into, t.addedBy[f][b])
    OBVIOUS
  <2>1. by(into, b) = t.addedBy[CHOOSE f \in CarriedFrom(t, from, b) : TRUE][b]
    OBVIOUS
  <2>2. U.addedBy[into][b] = Author(from, into, by(into, b))
    BY <1>5, <1>9
  <2>3. t.role[into][b] = "none" /\ U.role[into][b] = "member"
    BY <1>5, <1>9 DEF Carries
  <2>. HIDE DEF by, U
  <2>. QED
    BY <1>6, <2>1, <2>2, <2>3
<1>14. \A r \in from, b \in Body : U.role[r][b] = "none" /\ U.addedBy[r][b] = NoRow
  BY <1>5, <1>9
<1>15. \A r \in Row : r \in U.banned <=> \/ r \in t.banned \ from
                                         \/ r = into /\ t.banned \cap from # {}
  BY <1>5, <1>8 DEF CarriedBans
<1>. HIDE DEF U, m, F
<1>16. IsFold(U, t, from, into, st)
  BY <1>2, <1>10, <1>11, <1>12, <1>13, <1>14, <1>15 DEF IsFold
<1>. QED
  BY <1>1, <1>16
\* A stored row is a row of members.
LEMMA StoredRow ==
    ASSUME NEW t \in Tables
    PROVE  /\ Stored(t) \subseteq Row
           /\ \A r \in Row : r \in Stored(t) <=> t.member[r] \in MemberRow
BY RosterAssumption DEF Stored, Tables

LEMMA FoldStored ==
    ASSUME NEW t \in Tables, NEW from \in SUBSET Stored(t), NEW into \in Stored(t) \ from,
           NEW st \in StId, NEW u, IsFold(u, t, from, into, st)
    PROVE  Stored(u) = Stored(t) \ from
<1>1. u \in Tables /\ from \subseteq Row /\ into \in Row
  BY StoredRow DEF IsFold
<1>2. \A r \in Row : r \in Stored(u) <=> r \in Stored(t) /\ r \notin from
  BY RosterAssumption, <1>1 DEF IsFold, Stored
<1>. QED
  BY <1>1, <1>2 DEF Stored

\* Folding leaves no reference to a row that is gone.
LEMMA FoldReferences ==
    ASSUME NEW t \in Tables, NEW from \in SUBSET Stored(t), NEW into \in Stored(t) \ from,
           NEW st \in StId, NEW u, IsFold(u, t, from, into, st), References(t)
    PROVE  References(u)
<1>1. Stored(u) = Stored(t) \ from /\ into \in Stored(u) /\ Stored(t) \subseteq Row
  BY FoldStored, StoredRow
<1>2. u.banned \subseteq Stored(u)
  <2>1. u.banned \subseteq Row
    BY DEF IsFold, Tables
  <2>. QED
    BY <1>1, <2>1 DEF IsFold, References
<1>3. ASSUME NEW x \in Row \cup {NoRow}, x \in Stored(t) \cup {NoRow}, Author(from, into, x) # NoRow
      PROVE  Author(from, into, x) \in Stored(u)
  BY <1>1, <1>3 DEF Author
<1>4. ASSUME NEW r \in Row, NEW b \in Body
      PROVE  /\ u.role[r][b] # "none" => r \in Stored(u)
             /\ u.addedBy[r][b] # NoRow => /\ u.addedBy[r][b] \in Stored(u)
                                           /\ u.role[r][b] = "member"
  <2>1. CASE r \in from
    BY <2>1 DEF IsFold
  <2>2. CASE r \notin from /\ (r # into \/ ~ Carries(t, from, into, b))
    <3>1. u.role[r][b] = t.role[r][b] /\ u.addedBy[r][b] = Author(from, into, t.addedBy[r][b])
      BY <2>2 DEF IsFold
    <3>2. t.addedBy[r][b] \in Stored(t) \cup {NoRow}
      BY DEF References
    <3>3. u.addedBy[r][b] # NoRow => t.addedBy[r][b] # NoRow
      BY RosterAssumption, <1>1, <3>1 DEF Author
    <3>. QED
      BY <1>1, <1>3, <2>2, <3>1, <3>2, <3>3 DEF References
  <2>3. CASE r = into /\ Carries(t, from, into, b)
    <3>1. u.role[r][b] = "member"
      BY <2>3 DEF IsFold
    <3>2. PICK f \in CarriedFrom(t, from, b) : u.addedBy[r][b] = Author(from, into, t.addedBy[f][b])
      BY <2>3 DEF IsFold
    <3>3. f \in Row
      BY <1>1, CarriedIn
    <3>4. t.addedBy[f][b] \in Stored(t) \cup {NoRow}
      BY <3>3 DEF References
    <3>. QED
      BY <1>1, <1>3, <2>3, <3>1, <3>2, <3>4
  <2>. QED
    BY <2>1, <2>2, <2>3
<1>. QED
  BY <1>2, <1>4 DEF References

\* What of two rows is told apart stays so, if the account is nobody else's.
LEMMA FoldDistinct ==
    ASSUME NEW t \in Tables, NEW from \in SUBSET Stored(t), NEW into \in Stored(t) \ from,
           NEW st \in StId, NEW u, IsFold(u, t, from, into, st),
           \A r \in Stored(t) \ from : r # into => t.member[r].st # st
    PROVE  /\ DistinctAccounts(t) => DistinctAccounts(u)
           /\ DistinctMembers(t) => DistinctMembers(u)
<1>1. Stored(u) = Stored(t) \ from /\ Stored(t) \subseteq Row
  BY FoldStored, StoredRow
<1>2. \A r \in Stored(u) : IF r = into THEN u.member[r].st = st ELSE u.member[r] = t.member[r]
  BY <1>1 DEF IsFold
<1>3. \A r \in Stored(u) : u.member[r].email = t.member[r].email
                           /\ u.member[r].discord = t.member[r].discord
  BY <1>1, <1>2 DEF IsFold
<1>4. ASSUME NEW r \in Stored(u), NEW s \in Stored(u), r # s, t.member[r].st # t.member[s].st
      PROVE  u.member[r].st # u.member[s].st
  BY <1>1, <1>2, <1>4
<1>5. DistinctAccounts(t) => DistinctAccounts(u)
  BY <1>1, <1>4 DEF DistinctAccounts
<1>6. DistinctMembers(t) => DistinctMembers(u)
  BY <1>1, <1>3, <1>4 DEF DistinctMembers, SameDiscord
<1>. QED
  BY <1>5, <1>6

-----------------------------------------------------------------------------
(* Storing an entry on a row.                                               *)

IsPlaced(u, t, r, e) ==
    /\ u \in Tables
    /\ u.member[r] = AsRow(e)
    /\ \A s \in Row : s # r => u.member[s] = t.member[s]
    /\ u.role = t.role /\ u.addedBy = t.addedBy /\ u.banned = t.banned

LEMMA AsRowType == \A e \in Entry : AsRow(e) \in MemberRow /\ AsRow(e).st = e.st
                                    /\ AsRow(e).email = e.email /\ AsRow(e).discord = e.discord
                                    /\ AsRow(e).good = e.good
BY DEF AsRow, Entry, MemberRow

LEMMA PlacedType ==
    ASSUME NEW t \in Tables, NEW r \in Row, NEW e \in Entry
    PROVE  IsPlaced([t EXCEPT !.member[r] = AsRow(e)], t, r, e)
<1>. DEFINE m == AsRow(e)
<1>1. m \in MemberRow
  BY AsRowType
<1>. HIDE DEF m
<1>2. IsPlaced([t EXCEPT !.member[r] = m], t, r, e) <=> IsPlaced([t EXCEPT !.member[r] = AsRow(e)], t, r, e)
  BY DEF m
<1>. DEFINE u == [t EXCEPT !.member = [t.member EXCEPT ![r] = m]]
<1>3. u = [t EXCEPT !.member[r] = m]
  OBVIOUS
<1>4. t.member \in [Row -> MemberRow \cup {NoMember}]
  BY DEF Tables
<1>5. u.member = [t.member EXCEPT ![r] = m] /\ u.role = t.role /\ u.addedBy = t.addedBy
      /\ u.banned = t.banned
  BY DEF Tables
<1>6. u \in Tables
  BY <1>1, <1>4, <1>5 DEF Tables
<1>7. u.member[r] = m /\ \A s \in Row : s # r => u.member[s] = t.member[s]
  BY <1>4, <1>5
<1>. HIDE DEF u
<1>8. IsPlaced(u, t, r, e)
  BY <1>5, <1>6, <1>7 DEF IsPlaced, m
<1>. QED
  BY <1>2, <1>3, <1>8

LEMMA PlacedStored ==
    ASSUME NEW t \in Tables, NEW r \in Row, NEW e \in Entry, NEW u, IsPlaced(u, t, r, e)
    PROVE  Stored(u) = Stored(t) \cup {r}
<1>. DEFINE m == AsRow(e)
<1>1. m # NoMember
  BY RosterAssumption, AsRowType
<1>2. u.member[r] = m /\ \A s \in Row : s # r => u.member[s] = t.member[s]
  BY DEF IsPlaced
<1>. HIDE DEF m
<1>3. \A s \in Row : s \in Stored(u) <=> s \in Stored(t) \cup {r}
  BY <1>1, <1>2 DEF Stored
<1>4. Stored(u) \subseteq Row /\ Stored(t) \cup {r} \subseteq Row
  BY DEF Stored
<1>. QED
  BY <1>3, <1>4

LEMMA PlacedReferences ==
    ASSUME NEW t \in Tables, NEW r \in Row, NEW e \in Entry, NEW u, IsPlaced(u, t, r, e),
           References(t)
    PROVE  References(u)
<1>1. Stored(t) \subseteq Stored(u)
  BY PlacedStored
<1>. QED
  BY <1>1 DEF IsPlaced, References

LEMMA PlacedDistinct ==
    ASSUME NEW t \in Tables, NEW r \in Row, NEW e \in Entry, NEW u, IsPlaced(u, t, r, e),
           \A s \in Stored(t) : t.member[s].st = e.st => s = r
    PROVE  /\ DistinctAccounts(t) => DistinctAccounts(u)
           /\ DistinctMembers(t) /\ Holding(t, e) = {} => DistinctMembers(u)
<1>1. Stored(u) = Stored(t) \cup {r} /\ Stored(t) \subseteq Row
  BY PlacedStored, StoredRow
<1>2. u.member[r].st = e.st /\ u.member[r].email = e.email /\ u.member[r].discord = e.discord
  BY AsRowType DEF IsPlaced
<1>3. \A s \in Stored(u) : s # r => s \in Stored(t) /\ u.member[s] = t.member[s] /\ t.member[s].st # e.st
  BY <1>1 DEF IsPlaced
<1>4. DistinctAccounts(t) => DistinctAccounts(u)
  BY <1>2, <1>3 DEF DistinctAccounts
<1>5. ASSUME DistinctMembers(t), Holding(t, e) = {} PROVE DistinctMembers(u)
  <2>1. \A s \in Stored(t) : s # r => t.member[s].email # e.email /\ ~ SameDiscord(t.member[s], e)
    BY <1>5, <1>1, <1>3 DEF Holding
  <2>2. ASSUME NEW s \in Stored(u), s # r
        PROVE  u.member[s].email # u.member[r].email /\ ~ SameDiscord(u.member[s], u.member[r])
               /\ ~ SameDiscord(u.member[r], u.member[s]) /\ u.member[s].st # u.member[r].st
    BY <1>2, <1>3, <2>1, <2>2 DEF SameDiscord
  <2>3. ASSUME NEW s \in Stored(u), NEW x \in Stored(u), s # x, s # r, x # r
        PROVE  u.member[s].email # u.member[x].email /\ ~ SameDiscord(u.member[s], u.member[x])
               /\ u.member[s].st # u.member[x].st
    BY <1>3, <1>5, <2>3 DEF DistinctMembers
  <2>. QED
    BY <2>2, <2>3 DEF DistinctMembers
<1>. QED
  BY <1>4, <1>5
-----------------------------------------------------------------------------
(* What a try makes of the tables.                                          *)

\* Of some rows one has the least account.
LEMMA FirstExists ==
    ASSUME NEW t \in Tables, NEW S \in SUBSET Stored(t), S # {}
    PROVE  FirstByAccount(t, S) # {}
<1>. DEFINE below == {ss \in Nat \X Nat : ss[1] < ss[2]}
            N == {t.member[r].st : r \in S}
<1>1. IsWellFoundedOn(below, Nat)
  BY NatLessThanWellFounded DEF OpToRel
<1>2. N \in SUBSET Nat /\ N # {}
  <2>1. ASSUME NEW r \in S PROVE t.member[r].st \in Nat
    <3>1. t.member[r] \in MemberRow
      BY StoredRow
    <3>. QED
      BY <3>1, RosterAssumption DEF MemberRow
  <2>. QED
    BY <2>1
<1>. HIDE DEF below
<1>3. PICK n \in N : \A m \in N : ~ (<<m, n>> \in below)
  BY <1>1, <1>2, WFMin
<1>4. \A m \in N : n \in Nat /\ m \in Nat /\ ~ (m < n)
  BY <1>2, <1>3 DEF below
<1>5. PICK r \in S : t.member[r].st = n
  OBVIOUS
<1>6. \A s \in S : t.member[r].st <= t.member[s].st
  <2>. SUFFICES ASSUME NEW s \in S PROVE t.member[r].st <= t.member[s].st
    OBVIOUS
  <2>1. t.member[s].st \in N
    OBVIOUS
  <2>. HIDE DEF N
  <2>. QED
    BY <1>4, <1>5, <2>1
<1>. QED
  BY <1>6 DEF FirstByAccount

\* The survivor has a row, its account's own or one of the duplicates.
LEMMA SurvivorIn ==
    ASSUME NEW t \in Tables, NEW e \in Entry, NEW D \in SUBSET Stored(t), D # {}
    PROVE  /\ Survivor(t, e, D) \in Stored(t)
           /\ \/ Survivor(t, e, D) \in RowOf(t, e.st)
              \/ Survivor(t, e, D) \in D /\ RowOf(t, e.st) = {}
<1>1. CASE RowOf(t, e.st) # {}
  BY <1>1 DEF Survivor, RowOf
<1>2. CASE RowOf(t, e.st) = {}
  <2>1. FirstByAccount(t, D) # {} /\ FirstByAccount(t, D) \subseteq D
    BY FirstExists DEF FirstByAccount
  <2>. QED
    BY <1>2, <2>1 DEF Survivor
<1>. QED
  BY <1>1, <1>2

LEMMA MergedIsFold ==
    ASSUME NEW t \in Tables, NEW e \in Entry, NEW D \in SUBSET Stored(t), D # {}
    PROVE  IsFold(Merged(t, e, D), t, D \ {Survivor(t, e, D)}, Survivor(t, e, D), e.st)
<1>. DEFINE into == Survivor(t, e, D)
<1>1. into \in Row /\ t.member[into] \in MemberRow /\ D \subseteq Row
  BY SurvivorIn, StoredRow
<1>2. e.st \in StId
  BY DEF Entry
<1>3. Merged(t, e, D) = [Folded(t, D \ {into}, into) EXCEPT !.member[into].st = e.st]
  BY DEF Merged
<1>. HIDE DEF into
<1>4. D \ {into} \in SUBSET Row /\ into \in Row \ (D \ {into})
  BY <1>1
<1>5. IsFold([Folded(t, D \ {into}, into) EXCEPT !.member[into].st = e.st], t, D \ {into}, into, e.st)
  BY <1>1, <1>2, <1>4, RekeyedIsFold
<1>. QED
  BY <1>3, <1>5 DEF into

-----------------------------------------------------------------------------
(* Types.                                                                   *)

\* The pull that works.
LEMMA HolderType ==
    ASSUME TypeInv, holder # NoPuller
    PROVE  /\ holder \in Puller /\ Mine \in Tables /\ snapshot[holder] # NoView
           /\ pull[holder] # NoPull /\ Roster \in Seq(Entry) /\ pull[holder].dryRun \in BOOLEAN
           /\ pull[holder].attempt \in 1 .. PullAttempts /\ Roster \in Rosters
           /\ tx \in TxType /\ outdated[holder] \subseteq Key /\ db \in Tables
<1>1. holder \in Puller
  BY DEF TypeInv, TypeOK
<1>2. snapshot[holder] # NoView
  BY <1>1 DEF TypeInv, TypeOK
<1>3. snapshot[holder] \in Tables
  BY <1>1, <1>2 DEF TypeInv, TypeOK
<1>4. pull[holder] # NoPull
  BY <1>1, <1>2 DEF TypeInv, Places
<1>5. pull[holder] \in [roster : Rosters, dryRun : BOOLEAN, attempt : 1 .. PullAttempts]
  BY <1>1, <1>4 DEF TypeInv, TypeOK
<1>6. Rosters \subseteq Seq(Entry)
  BY RosterAssumption
<1>. QED
  BY <1>1, <1>2, <1>3, <1>4, <1>5, <1>6 DEF TypeInv, TypeOK, Places, Mine, Roster

Entering == Roster[tx.next]

LEMMA EntryType ==
    ASSUME TypeInv, Working
    PROVE  /\ Entering \in Entry /\ tx.next \in DOMAIN Roster /\ Entering.st \in StId
           /\ Entering.st \in RosterIds(Roster)
           /\ Entering = pull[holder].roster[tx.next]
<1>1. holder # NoPuller /\ tx.next <= Len(Roster)
  BY DEF Working, Roster
<1>2. Roster \in Seq(Entry) /\ tx.next \in Nat \ {0}
  BY <1>1, HolderType DEF TxType
<1>3. tx.next \in DOMAIN Roster /\ Entering \in Entry
  BY <1>1, <1>2 DEF Entering
<1>. QED
  BY <1>3 DEF RosterIds, Entry, Entering, Roster

\* What the holder's next entry finds: its duplicates, and what merging them makes.
LEMMA TryIs ==
    ASSUME TypeInv, Working
    PROVE  /\ Try.entry = Entering
           /\ Try.found \subseteq MergeDuplicates(Mine, Entering, Roster)
           /\ Try.found # {} => ~ pull[holder].dryRun /\ ~ tx.fuse
           /\ Try.found = {} => Try.tables = Mine /\ Try.touched = tx.touched
           /\ Try.found # {} => /\ Try.tables = Merged(Mine, Entering, Try.found)
                                /\ Try.touched = tx.touched \cup MergeWrites(Mine, Entering, Try.found)
                                /\ MergeWrites(Mine, Entering, Try.found) \subseteq Try.writes
           /\ \A r \in RowOf(Mine, Entering.st) \cup RowOf(db, Entering.st) : MemberKey(r) \in Try.writes
BY EntryType DEF Try, Mine, Roster, MergeDuplicatesOn

LEMMA FoundIn ==
    ASSUME TypeInv, Working
    PROVE  /\ Try.found \subseteq Stored(Mine)
           /\ \A d \in Try.found : /\ Mine.member[d].st \notin RosterIds(Roster)
                                   /\ Mine.member[d].st # Entering.st
                                   /\ Claims(Entering, Mine.member[d])
BY TryIs DEF MergeDuplicates, Holding, Claims, SameDiscord

LEMMA TryType ==
    ASSUME TypeInv, Working
    PROVE  Try.tables \in Tables /\ Try.touched \subseteq Key
<1>. USE DEF Working
<1>1. Mine \in Tables /\ tx.touched \subseteq Key
  BY HolderType DEF TxType
<1>2. CASE Try.found = {}
  BY <1>1, <1>2, TryIs
<1>3. CASE Try.found # {}
  <2>. DEFINE into == Survivor(Mine, Entering, Try.found)
  <2>1. /\ Try.found \in SUBSET Stored(Mine) /\ Entering \in Entry
        /\ Try.tables = Merged(Mine, Entering, Try.found)
        /\ Try.touched = tx.touched \cup MergeWrites(Mine, Entering, Try.found)
    BY <1>3, TryIs, FoundIn, EntryType
  <2>2. Try.tables \in Tables
    <3>1. IsFold(Merged(Mine, Entering, Try.found), Mine, Try.found \ {into}, into, Entering.st)
      BY <1>1, <1>3, <2>1, MergedIsFold
    <3>. HIDE DEF into
    <3>2. \A u, t, f, i, st : IsFold(u, t, f, i, st) => u \in Tables
      BY DEF IsFold
    <3>. QED
      BY <2>1, <3>1, <3>2
  <2>3. Written(Mine, Merged(Mine, Entering, Try.found)) \subseteq Key
    BY <1>1, <2>1, <2>2, WrittenType DEF TypeInv
  <2>4. into \in Row
    BY <1>1, <1>3, <2>1, SurvivorIn, StoredRow
  <2>5. MergeWrites(Mine, Entering, Try.found) \subseteq Key
    BY <2>3, <2>4, KeyType DEF MergeWrites
  <2>. QED
    BY <1>1, <2>1, <2>2, <2>5
<1>. QED
  BY <1>2, <1>3

PullRecord == [roster : Rosters, dryRun : BOOLEAN, attempt : 1 .. PullAttempts]

LEMMA NotNoPull == NoPull \notin PullRecord
<1>1. ASSUME NEW x \in PullRecord PROVE x \in [roster : Seq(Entry), dryRun : BOOLEAN, attempt : Nat]
  BY <1>1, RosterAssumption DEF PullRecord
<1>. QED
  BY <1>1, RosterAssumption

LEMMA SpendType ==
    ASSUME left \in [BoundKind -> Nat], NEW kind \in BoundKind, Spend(kind)
    PROVE  left' \in [BoundKind -> Nat]
<1>1. left[kind] \in Nat /\ left[kind] > 0
  BY DEF Spend
<1>2. left[kind] - 1 \in Nat
  BY <1>1
<1>. QED
  BY <1>2 DEF Spend

\* The queue keeps its order when one caller leaves it.
LEMMA WithoutPlaceIs ==
    ASSUME queue \in Seq(Puller), NEW i \in DOMAIN queue
    PROVE  /\ WithoutPlace(i) \in Seq(Puller)
           /\ DOMAIN WithoutPlace(i) = 1 .. Len(queue) - 1
           /\ \A j \in 1 .. Len(queue) - 1 :
                 WithoutPlace(i)[j] = IF j < i THEN queue[j] ELSE queue[j + 1]
<1>. DEFINE n == Len(queue)
            a == SubSeq(queue, 1, i - 1)
            z == SubSeq(queue, i + 1, n)
<1>1. n \in Nat /\ DOMAIN queue = 1 .. n /\ i \in 1 .. n
  BY LenProperties
<1>2. \A j \in 1 .. n : queue[j] \in Puller
  BY <1>1, ElementOfSeq
<1>. HIDE DEF n
<1>3. /\ a \in Seq(Puller) /\ Len(a) = i - 1 /\ \A j \in 1 .. i - 1 : a[j] = queue[j]
  <2>1. \A j \in 1 .. i - 1 : queue[j] \in Puller
    BY <1>1, <1>2
  <2>2. i - 1 \in Int /\ 1 \in Int
    BY <1>1
  <2>3. /\ a \in Seq(Puller) /\ Len(a) = IF 1 <= i - 1 THEN i - 1 - 1 + 1 ELSE 0
        /\ \A j \in 1 .. i - 1 - 1 + 1 : a[j] = queue[1 + j - 1]
    BY <2>1, <2>2, SubSeqProperties
  <2>. HIDE DEF a
  <2>. QED
    BY <1>1, <2>3
<1>4. /\ z \in Seq(Puller) /\ Len(z) = n - i /\ \A j \in 1 .. n - i : z[j] = queue[i + j]
  <2>1. \A j \in i + 1 .. n : queue[j] \in Puller
    BY <1>1, <1>2
  <2>2. i + 1 \in Int /\ n \in Int
    BY <1>1
  <2>3. /\ z \in Seq(Puller) /\ Len(z) = IF i + 1 <= n THEN n - (i + 1) + 1 ELSE 0
        /\ \A j \in 1 .. n - (i + 1) + 1 : z[j] = queue[i + 1 + j - 1]
    BY <2>1, <2>2, SubSeqProperties
  <2>. HIDE DEF z
  <2>4. Len(z) = n - i
    BY <1>1, <2>3
  <2>5. \A j \in 1 .. n - i : z[j] = queue[i + j]
    <3>. SUFFICES ASSUME NEW j \in 1 .. n - i PROVE z[j] = queue[i + j]
      OBVIOUS
    <3>1. j \in 1 .. n - (i + 1) + 1 /\ i + 1 + j - 1 = i + j
      BY <1>1
    <3>. QED
      BY <2>3, <3>1
  <2>. QED
    BY <2>3, <2>4, <2>5
<1>5. WithoutPlace(i) = a \o z
  BY DEF WithoutPlace, n
<1>. HIDE DEF a, z
<1>6. /\ a \o z \in Seq(Puller) /\ Len(a \o z) = Len(a) + Len(z)
      /\ \A j \in 1 .. Len(a) + Len(z) : (a \o z)[j] = IF j <= Len(a) THEN a[j] ELSE z[j - Len(a)]
  BY <1>3, <1>4, ConcatProperties
<1>7. Len(a) + Len(z) = n - 1
  BY <1>1, <1>3, <1>4
<1>8. DOMAIN (a \o z) = 1 .. n - 1
  BY <1>6, <1>7, LenProperties
<1>9. ASSUME NEW j \in 1 .. n - 1
      PROVE  (a \o z)[j] = IF j < i THEN queue[j] ELSE queue[j + 1]
  <2>1. CASE j < i
    BY <1>1, <1>3, <1>6, <1>7, <2>1
  <2>2. CASE ~ (j < i)
    <3>1. (a \o z)[j] = z[j - (i - 1)] /\ j - (i - 1) \in 1 .. n - i
      BY <1>1, <1>3, <1>6, <1>7, <2>2
    <3>2. z[j - (i - 1)] = queue[i + (j - (i - 1))] /\ i + (j - (i - 1)) = j + 1
      BY <1>1, <1>4, <3>1
    <3>. QED
      BY <2>2, <3>1, <3>2
  <2>. QED
    BY <2>1, <2>2
<1>. QED
  BY <1>5, <1>6, <1>8, <1>9 DEF n

LEMMA LocalsType == Locals \in TxType
BY DEF Locals, TxType

-----------------------------------------------------------------------------
(* What a step of the loop does.                                            *)

\* Only the holder's tables and locals change.
Keeps ==
    /\ UNCHANGED <<db, pull, outdated, queue, holder, left>>
    /\ holder # NoPuller /\ holder \in Puller
    /\ snapshot' \in [Puller -> {NoView} \cup Tables]
    /\ \A p \in Puller : p # holder => snapshot'[p] = snapshot[p]
    /\ snapshot'[holder] \in Tables /\ tx' \in TxType
    /\ tx'.next = tx.next + 1 /\ tx'.fuse = tx.fuse

\* Row r is where the entry is stored.
StoredOn(r) ==
    /\ r \in Row
    /\ \/ r \in RowOf(Try.tables, Entering.st)
       \/ /\ RowOf(Try.tables, Entering.st) = {}
          /\ r \notin Stored(Try.tables) \cup Stored(db) /\ MemberKey(r) \notin outdated[holder]
    /\ IsPlaced(snapshot'[holder], Try.tables, r, Entering)
    /\ tx'.pairs = tx.pairs \cup {<<r, b>> : b \in Entering.leads}
    /\ tx'.present = tx.present \cup {r}
    /\ tx'.skipped = tx.skipped
    /\ tx'.merges = tx.merges \cup {[duplicate |-> d, survivor |-> r] : d \in Try.found}
    /\ tx'.touched = Try.touched \cup {MemberKey(r)}

LEMMA HomeIs ==
    ASSUME TypeInv, Working, NEW r \in HomeOf(Try.tables, Entering)
    PROVE  /\ r \in Row
           /\ \/ r \in RowOf(Try.tables, Entering.st)
              \/ /\ RowOf(Try.tables, Entering.st) = {}
                 /\ r \notin Stored(Try.tables) \cup Stored(db) /\ MemberKey(r) \notin outdated[holder]
<1>1. CASE RowOf(Try.tables, Entering.st) # {}
  BY <1>1 DEF HomeOf, RowOf, Stored
<1>2. CASE RowOf(Try.tables, Entering.st) = {}
  BY <1>2 DEF HomeOf
<1>. QED
  BY <1>1, <1>2

LEMMA StoreIs ==
    ASSUME TypeInv, StoreMember
    PROVE  /\ Working /\ Keeps
           /\ ~ Races(Try.writes) /\ ~ Blocked(Try.tables, Try.touched, Entering)
           /\ \E r \in Row : StoredOn(r)
<1>1. Working /\ UNCHANGED <<db, pull, outdated, queue, holder, left>>
  BY DEF StoreMember
<1>2. holder # NoPuller
  BY <1>1 DEF Working
<1>3. Try.entry = Entering
  BY <1>1, TryIs
<1>4. ~ Races(Try.writes) /\ ~ Blocked(Try.tables, Try.touched, Entering)
  BY <1>3 DEF StoreMember
<1>5. PICK r \in HomeOf(Try.tables, Entering) :
         /\ snapshot' = [snapshot EXCEPT ![holder] = [Try.tables EXCEPT !.member[r] = AsRow(Entering)]]
         /\ tx' = [tx EXCEPT
               !.next = @ + 1,
               !.pairs = @ \cup {<<r, b>> : b \in Entering.leads},
               !.repeated = @ \/ tx.pairs \cap {<<r, b>> : b \in Entering.leads} # {},
               !.present = @ \cup {r},
               !.merges = @ \cup {[duplicate |-> d, survivor |-> r] : d \in Try.found},
               !.touched = Try.touched \cup {MemberKey(r)}]
  BY <1>3 DEF StoreMember
<1>6. r \in Row /\ holder \in Puller /\ tx \in TxType /\ Entering \in Entry
  BY <1>1, <1>2, HomeIs, HolderType, EntryType
<1>7. IsPlaced([Try.tables EXCEPT !.member[r] = AsRow(Entering)], Try.tables, r, Entering)
  BY <1>1, <1>6, TryType, PlacedType
<1>8. [Try.tables EXCEPT !.member[r] = AsRow(Entering)] \in Tables
  BY <1>7 DEF IsPlaced
<1>9. snapshot \in [Puller -> {NoView} \cup Tables]
  BY DEF TypeInv, TypeOK
<1>. DEFINE u == [Try.tables EXCEPT !.member[r] = AsRow(Entering)]
<1>10. snapshot' = [snapshot EXCEPT ![holder] = u] /\ u \in Tables /\ IsPlaced(u, Try.tables, r, Entering)
  BY <1>5, <1>7, <1>8
<1>. HIDE DEF u
<1>11. /\ snapshot' \in [Puller -> {NoView} \cup Tables]
       /\ \A p \in Puller : p # holder => snapshot'[p] = snapshot[p]
       /\ snapshot'[holder] = u
  BY <1>6, <1>9, <1>10
<1>. DEFINE pairs == {<<r, b>> : b \in Entering.leads}
            merges == {[duplicate |-> d, survivor |-> r] : d \in Try.found}
            touched == Try.touched \cup {MemberKey(r)}
<1>12. pairs \subseteq Row \X Body
  BY <1>6 DEF Entry
<1>13. merges \subseteq [duplicate : Row, survivor : Row]
  <2>1. Try.found \subseteq Row
    BY <1>1, FoundIn DEF Stored
  <2>. QED
    BY <1>6, <2>1
<1>14. touched \subseteq Key
  BY <1>1, <1>6, TryType, KeyType
<1>15. tx' = [tx EXCEPT !.next = @ + 1, !.pairs = @ \cup pairs,
                        !.repeated = @ \/ tx.pairs \cap pairs # {},
                        !.present = @ \cup {r}, !.merges = @ \cup merges, !.touched = touched]
  BY <1>5
<1>. HIDE DEF pairs, merges, touched
<1>16. /\ tx' \in TxType /\ tx'.next = tx.next + 1 /\ tx'.fuse = tx.fuse
       /\ tx'.pairs = tx.pairs \cup pairs /\ tx'.present = tx.present \cup {r}
       /\ tx'.skipped = tx.skipped /\ tx'.merges = tx.merges \cup merges /\ tx'.touched = touched
  <2>1. /\ tx'.next = tx.next + 1 /\ tx'.fuse = tx.fuse
        /\ tx'.pairs = tx.pairs \cup pairs /\ tx'.present = tx.present \cup {r}
        /\ tx'.skipped = tx.skipped /\ tx'.merges = tx.merges \cup merges /\ tx'.touched = touched
        /\ tx'.repeated = (tx.repeated \/ tx.pairs \cap pairs # {})
    BY <1>6, <1>15 DEF TxType
  <2>2. tx' = [next |-> tx'.next, fuse |-> tx'.fuse, pairs |-> tx'.pairs, present |-> tx'.present,
               skipped |-> tx'.skipped, merges |-> tx'.merges, touched |-> tx'.touched,
               repeated |-> tx'.repeated]
    BY <1>6, <1>15 DEF TxType
  <2>3. tx'.repeated \in BOOLEAN
    BY <2>1
  <2>4. /\ tx.next + 1 \in Nat \ {0} /\ tx.fuse \in BOOLEAN /\ tx.pairs \cup pairs \subseteq Row \X Body
        /\ tx.present \cup {r} \subseteq Row /\ tx.skipped \subseteq StId
        /\ tx.merges \cup merges \subseteq [duplicate : Row, survivor : Row]
    BY <1>6, <1>12, <1>13 DEF TxType
  <2>. QED
    BY <1>14, <2>1, <2>2, <2>3, <2>4 DEF TxType
<1>17. Keeps
  BY <1>1, <1>2, <1>6, <1>10, <1>11, <1>16 DEF Keeps
<1>18. StoredOn(r)
  BY <1>1, <1>6, <1>10, <1>11, <1>16, HomeIs DEF StoredOn, pairs, merges, touched
<1>. QED
  BY <1>1, <1>4, <1>6, <1>17, <1>18

LEMMA SkipIs ==
    ASSUME TypeInv, SkipMember
    PROVE  /\ Working /\ Keeps
           /\ snapshot'[holder] = snapshot[holder]
           /\ tx'.skipped = tx.skipped \cup {Entering.st}
           /\ tx'.pairs = tx.pairs /\ tx'.present = tx.present /\ tx'.merges = tx.merges
           /\ tx'.touched = tx.touched
<1>1. Working /\ UNCHANGED <<db, pull, outdated, queue, holder, left>>
  BY DEF SkipMember
<1>2. holder # NoPuller
  BY <1>1 DEF Working
<1>3. Try.entry = Entering
  BY <1>1, TryIs
<1>4. /\ snapshot' = [snapshot EXCEPT ![holder] = snapshot[holder]]
      /\ tx' = [tx EXCEPT !.next = @ + 1, !.skipped = @ \cup {Entering.st}, !.touched = tx.touched]
  BY <1>3 DEF SkipMember, SkippedTables
<1>5. holder \in Puller /\ tx \in TxType /\ Entering.st \in StId /\ snapshot[holder] \in Tables
  BY <1>1, <1>2, HolderType, EntryType DEF Mine
<1>6. snapshot \in [Puller -> {NoView} \cup Tables]
  BY DEF TypeInv, TypeOK
<1>7. /\ snapshot' \in [Puller -> {NoView} \cup Tables]
      /\ \A p \in Puller : p # holder => snapshot'[p] = snapshot[p]
      /\ snapshot'[holder] = snapshot[holder]
  BY <1>4, <1>5, <1>6
<1>8. /\ tx' \in TxType /\ tx'.next = tx.next + 1 /\ tx'.fuse = tx.fuse
      /\ tx'.skipped = tx.skipped \cup {Entering.st}
      /\ tx'.pairs = tx.pairs /\ tx'.present = tx.present /\ tx'.merges = tx.merges
      /\ tx'.touched = tx.touched
  <2>1. /\ tx'.next = tx.next + 1 /\ tx'.fuse = tx.fuse
        /\ tx'.skipped = tx.skipped \cup {Entering.st}
        /\ tx'.pairs = tx.pairs /\ tx'.present = tx.present /\ tx'.merges = tx.merges
        /\ tx'.touched = tx.touched /\ tx'.repeated = tx.repeated
    BY <1>4, <1>5 DEF TxType
  <2>2. tx' = [next |-> tx'.next, fuse |-> tx'.fuse, pairs |-> tx'.pairs, present |-> tx'.present,
               skipped |-> tx'.skipped, merges |-> tx'.merges, touched |-> tx'.touched,
               repeated |-> tx'.repeated]
    BY <1>4, <1>5 DEF TxType
  <2>3. tx.next + 1 \in Nat \ {0} /\ tx.skipped \cup {Entering.st} \subseteq StId
    BY <1>5 DEF TxType
  <2>. QED
    BY <1>5, <2>1, <2>2, <2>3 DEF TxType
<1>. QED
  BY <1>1, <1>2, <1>5, <1>7, <1>8 DEF Keeps

-----------------------------------------------------------------------------
(* Every step keeps the types.                                              *)

\* The holder's transaction is over.
Over ==
    /\ holder # NoPuller /\ holder' = NoPuller /\ tx' = Locals
    /\ snapshot' = [snapshot EXCEPT ![holder] = NoView]
    /\ \A p \in Puller : p # holder => pull'[p] = pull[p]
    /\ UNCHANGED <<queue, left>>

LEMMA OverType ==
    ASSUME TypeInv, Over, db' \in Tables,
           pull' \in [Puller -> {NoPull} \cup PullRecord], outdated' \in [Puller -> SUBSET Key]
    PROVE  TypeInv'
<1>1. snapshot \in [Puller -> {NoView} \cup Tables] /\ holder \in Puller
  BY DEF TypeInv, TypeOK, Over
<1>2. /\ snapshot' \in [Puller -> {NoView} \cup Tables]
      /\ \A p \in Puller : snapshot'[p] = IF p = holder THEN NoView ELSE snapshot[p]
  BY <1>1 DEF Over
<1>3. \A p \in Puller : snapshot'[p] # NoView <=> \E i \in DOMAIN queue : queue[i] = p
  BY <1>1, <1>2 DEF TypeInv, TypeOK, Places
<1>4. NoPuller \notin Puller /\ \A i \in DOMAIN queue : queue[i] \in Puller
  BY RosterAssumption, ElementOfSeq DEF TypeInv, Places
<1>5. /\ Locals.pairs = {} /\ Locals.present = {} /\ Locals.skipped = {} /\ Locals.touched = {}
  BY DEF Locals
<1>6. TypeOK'
  BY <1>2, <1>3, <1>4, <1>5 DEF TypeInv, TypeOK, Over, PullRecord
<1>7. Places'
  <2>1. tx' \in TxType /\ queue' \in Seq(Puller) /\ (holder' = NoPuller => tx' = Locals)
    BY LocalsType DEF TypeInv, Places, Over
  <2>2. \A p \in Puller : snapshot'[p] # NoView => pull'[p] # NoPull
    BY <1>2 DEF TypeInv, Places, Over
  <2>3. \A i \in DOMAIN queue' : queue'[i] # holder'
    BY <1>4 DEF Over
  <2>. QED
    BY <2>1, <2>2, <2>3 DEF Places
<1>. QED
  BY <1>6, <1>7 DEF TypeInv

LEMMA KeepsType ==
    ASSUME TypeInv, Keeps
    PROVE  TypeInv'
<1>1. /\ tx'.pairs \subseteq Row \X Body /\ tx'.present \subseteq Row /\ tx'.skipped \subseteq StId
      /\ tx'.touched \subseteq Key
  BY DEF Keeps, TxType
<1>2. snapshot[holder] # NoView /\ snapshot'[holder] # NoView
  BY HolderType, RosterAssumption DEF Keeps
<1>3. \A p \in Puller : snapshot'[p] # NoView <=> snapshot[p] # NoView
  BY <1>2 DEF Keeps
<1>4. TypeOK'
  BY <1>1, <1>3 DEF TypeInv, TypeOK, Keeps
<1>5. Places'
  BY <1>3 DEF TypeInv, Places, Keeps
<1>. QED
  BY <1>4, <1>5 DEF TypeInv

LEMMA StartType ==
    ASSUME TypeInv, NEW p \in Puller, StartPull(p)
    PROVE  TypeInv'
<1>1. left' \in [BoundKind -> Nat]
  BY SpendType DEF StartPull, TypeInv, TypeOK, BoundKind
<1>2. PICK roster \in Rosters, dryRun \in DryRuns :
         pull' = [pull EXCEPT ![p] = [roster |-> roster, dryRun |-> dryRun, attempt |-> 1]]
  BY DEF StartPull
<1>3. [roster |-> roster, dryRun |-> dryRun, attempt |-> 1] \in PullRecord
  BY RosterAssumption DEF PullRecord
<1>4. /\ pull' \in [Puller -> {NoPull} \cup PullRecord]
      /\ pull'[p] # NoPull /\ \A q \in Puller : q # p => pull'[q] = pull[q]
  BY <1>2, <1>3, NotNoPull DEF TypeInv, TypeOK, PullRecord
<1>. QED
  BY <1>1, <1>4 DEF TypeInv, TypeOK, Places, StartPull, PullRecord

LEMMA AskType ==
    ASSUME TypeInv, NEW p \in Puller, AskForLock(p)
    PROVE  TypeInv'
<1>. DEFINE n == Len(queue)
<1>1. queue \in Seq(Puller) /\ n \in Nat /\ DOMAIN queue = 1 .. n
  BY LenProperties DEF TypeInv, Places
<1>2. /\ queue' \in Seq(Puller) /\ DOMAIN queue' = 1 .. n + 1
      /\ queue'[n + 1] = p /\ \A i \in 1 .. n : queue'[i] = queue[i]
  <2>1. queue' = Append(queue, p)
    BY DEF AskForLock
  <2>2. Append(queue, p) \in Seq(Puller)
    BY <1>1
  <2>3. Len(Append(queue, p)) = n + 1 /\ DOMAIN Append(queue, p) = 1 .. n + 1
        /\ Append(queue, p)[n + 1] = p
        /\ \A i \in 1 .. n : Append(queue, p)[i] = queue[i]
    BY <1>1, <2>2, AppendProperties, LenProperties
  <2>. QED
    BY <2>1, <2>2, <2>3, LenProperties
<1>3. p # holder /\ \A i \in 1 .. n : queue[i] # p
  BY <1>1 DEF AskForLock, TypeInv, TypeOK
<1>. HIDE DEF n
<1>4. /\ snapshot' \in [Puller -> {NoView} \cup Tables] /\ snapshot'[p] # NoView
      /\ \A q \in Puller : q # p => snapshot'[q] = snapshot[q]
  BY RosterAssumption DEF AskForLock, TypeInv, TypeOK
<1>5. \A i, j \in DOMAIN queue' : queue'[i] = queue'[j] => i = j
  <2>0. \A i, j \in DOMAIN queue : queue[i] = queue[j] => i = j
    BY DEF TypeInv, TypeOK
  <2>1. \A i, j \in 1 .. n : queue[i] = queue[j] => i = j
    BY <1>1, <2>0
  <2>2. \A i \in 1 .. n + 1 : i = n + 1 \/ i \in 1 .. n
    BY <1>1
  <2>. QED
    BY <1>2, <1>3, <2>1, <2>2
<1>6. \A q \in Puller : (\E i \in DOMAIN queue' : queue'[i] = q)
                          <=> (\E i \in DOMAIN queue : queue[i] = q) \/ q = p
  <2>1. n + 1 \in 1 .. n + 1 /\ \A i \in 1 .. n : i \in 1 .. n + 1
    BY <1>1
  <2>2. \A i \in 1 .. n + 1 : i = n + 1 \/ i \in 1 .. n
    BY <1>1
  <2>. QED
    BY <1>1, <1>2, <2>1, <2>2
<1>7. TypeOK'
  BY <1>4, <1>5, <1>6 DEF TypeInv, TypeOK, AskForLock
<1>8. \A i \in DOMAIN queue' : queue'[i] # holder
  <2>1. \A i \in 1 .. n : queue[i] # holder
    BY <1>1 DEF TypeInv, Places
  <2>2. \A i \in 1 .. n + 1 : i = n + 1 \/ i \in 1 .. n
    BY <1>1
  <2>. QED
    BY <1>2, <1>3, <2>1, <2>2
<1>9. Places'
  BY <1>2, <1>4, <1>8 DEF TypeInv, Places, AskForLock
<1>. QED
  BY <1>7, <1>9 DEF TypeInv

\* Whoever waited longest.
LEMMA TakenBy ==
    ASSUME TypeInv, TakeLock
    PROVE  /\ holder' = queue[1] /\ holder' \in Puller /\ holder' # NoPuller
           /\ snapshot[holder'] \in Tables /\ snapshot[holder'] # NoView
           /\ queue' \in Seq(Puller) /\ 1 \in DOMAIN queue
           /\ DOMAIN queue' = 1 .. Len(queue) - 1
           /\ \A i \in 1 .. Len(queue) - 1 : queue'[i] = queue[i + 1]
           /\ tx' \in TxType
           /\ tx' = [Locals EXCEPT !.fuse = LapseFuseTrips(snapshot[holder'], pull[holder'].roster)]
<1>1. queue \in Seq(Puller) /\ queue # <<>> /\ holder' = Head(queue) /\ queue' = Tail(queue)
  BY DEF TypeInv, Places, TakeLock
<1>2. 1 \in DOMAIN queue /\ holder' = queue[1] /\ holder' \in Puller
  BY <1>1, HeadTailProperties
<1>3. /\ queue' \in Seq(Puller) /\ DOMAIN queue' = 1 .. Len(queue) - 1
      /\ \A i \in 1 .. Len(queue) - 1 : queue'[i] = queue[i + 1]
  BY <1>1, HeadTailProperties, LenProperties
<1>4. snapshot[holder'] # NoView /\ snapshot[holder'] \in Tables
  BY <1>2 DEF TypeInv, TypeOK
<1>5. holder' # NoPuller
  BY <1>2, RosterAssumption
<1>6. tx' = [Locals EXCEPT !.fuse = LapseFuseTrips(snapshot[holder'], pull[holder'].roster)]
  BY <1>1 DEF TakeLock
<1>7. LapseFuseTrips(snapshot[holder'], pull[holder'].roster) \in BOOLEAN
  BY DEF LapseFuseTrips
<1>8. tx' \in TxType
  BY <1>6, <1>7, LocalsType DEF TxType
<1>. QED
  BY <1>2, <1>3, <1>4, <1>5, <1>6, <1>8

LEMMA TakeType ==
    ASSUME TypeInv, TakeLock
    PROVE  TypeInv'
<1>. DEFINE n == Len(queue)
<1>1. queue \in Seq(Puller) /\ n \in Nat /\ DOMAIN queue = 1 .. n
  BY LenProperties DEF TypeInv, Places
<1>2. /\ holder' = queue[1] /\ holder' \in Puller /\ queue' \in Seq(Puller) /\ 1 \in 1 .. n
      /\ DOMAIN queue' = 1 .. n - 1 /\ \A i \in 1 .. n - 1 : queue'[i] = queue[i + 1]
      /\ tx' \in TxType /\ holder' # NoPuller
  BY <1>1, TakenBy
<1>3. \A i, j \in 1 .. n : queue[i] = queue[j] => i = j
  BY <1>1 DEF TypeInv, TypeOK
<1>4. \A i \in 1 .. n - 1 : i + 1 \in 1 .. n /\ i + 1 # 1
  BY <1>1
<1>5. \A i \in 1 .. n : i = 1 \/ (i - 1 \in 1 .. n - 1 /\ i = (i - 1) + 1)
  BY <1>1
<1>. HIDE DEF n
<1>6. \A i, j \in DOMAIN queue' : queue'[i] = queue'[j] => i = j
  <2>. SUFFICES ASSUME NEW i \in 1 .. n - 1, NEW j \in 1 .. n - 1, queue'[i] = queue'[j] PROVE i = j
    BY <1>2
  <2>1. i + 1 = j + 1
    BY <1>2, <1>3, <1>4
  <2>. QED
    BY <1>1, <2>1
<1>7. \A p \in Puller : (\E i \in DOMAIN queue : queue[i] = p)
                          <=> p = holder' \/ \E i \in DOMAIN queue' : queue'[i] = p
  <2>. SUFFICES ASSUME NEW p \in Puller
                PROVE  (\E i \in 1 .. n : queue[i] = p)
                          <=> p = holder' \/ \E i \in 1 .. n - 1 : queue'[i] = p
    BY <1>1, <1>2
  <2>1. ASSUME NEW i \in 1 .. n, queue[i] = p, i # 1 PROVE \E j \in 1 .. n - 1 : queue'[j] = p
    BY <1>2, <1>5, <2>1
  <2>2. ASSUME NEW i \in 1 .. n - 1, queue'[i] = p PROVE \E j \in 1 .. n : queue[j] = p
    BY <1>2, <1>4, <2>2
  <2>. QED
    BY <1>2, <2>1, <2>2
<1>8. holder = NoPuller /\ NoPuller \notin Puller
  BY RosterAssumption DEF TakeLock
<1>9. TypeOK'
  <2>1. /\ tx'.pairs \subseteq Row \X Body /\ tx'.present \subseteq Row
        /\ tx'.skipped \subseteq StId /\ tx'.touched \subseteq Key
    BY <1>2 DEF TxType
  <2>2. \A p \in Puller : snapshot[p] # NoView
          <=> \/ p = holder'
              \/ \E i \in DOMAIN queue' : queue'[i] = p
    BY <1>7, <1>8 DEF TypeInv, TypeOK
  <2>. QED
    BY <1>2, <1>6, <2>1, <2>2 DEF TypeInv, TypeOK, TakeLock
<1>10. \A i \in DOMAIN queue' : queue'[i] # holder'
  BY <1>2, <1>3, <1>4
<1>11. Places'
  BY <1>2, <1>10 DEF TypeInv, Places, TakeLock
<1>. QED
  BY <1>9, <1>11 DEF TypeInv

\* The statements after the loop.
LEMMA ReconciledIs ==
    ASSUME TypeInv, holder # NoPuller
    PROVE  /\ Reconciled \in Tables
           /\ Lapsing(Mine) \subseteq Absent(Mine, Roster)
           /\ tx.fuse => Lapsing(Mine) = {}
           /\ ~ tx.fuse => Lapsing(Mine) = Absent(Mine, Roster)
           /\ \A r \in Lapsing(Mine) :
                 /\ r \in Stored(Mine) /\ Reconciled.member[r] \in MemberRow
                 /\ Reconciled.member[r].st = Mine.member[r].st
                 /\ Reconciled.member[r].email = Mine.member[r].email
                 /\ Reconciled.member[r].discord = Mine.member[r].discord
                 /\ ~ Reconciled.member[r].good
           /\ \A r \in Row : r \notin Lapsing(Mine) => Reconciled.member[r] = Mine.member[r]
           /\ Reconciled.banned = Mine.banned
           /\ \A r \in Row, b \in Body :
                 /\ <<r, b>> \in tx.pairs =>
                       Reconciled.role[r][b] = "leader" /\ Reconciled.addedBy[r][b] = NoRow
                 /\ <<r, b>> \in StaleLeaderRows(Mine) /\ <<r, b>> \notin tx.pairs =>
                       Reconciled.role[r][b] = "none" /\ Reconciled.addedBy[r][b] = NoRow
                 /\ <<r, b>> \notin tx.pairs \cup StaleLeaderRows(Mine) =>
                       Reconciled.role[r][b] = Mine.role[r][b]
                       /\ Reconciled.addedBy[r][b] = Mine.addedBy[r][b]
<1>1. Mine \in Tables /\ Mine = snapshot[holder] /\ Roster = pull[holder].roster
  BY HolderType DEF Mine, Roster
<1>. DEFINE m == [r \in Row |-> IF r \in Lapsing(Mine) THEN [Mine.member[r] EXCEPT !.good = FALSE]
                                ELSE Mine.member[r]]
            ro == [r \in Row |-> [b \in Body |->
                     IF <<r, b>> \in tx.pairs THEN "leader"
                     ELSE IF <<r, b>> \in StaleLeaderRows(Mine) THEN "none"
                     ELSE Mine.role[r][b]]]
            by == [r \in Row |-> [b \in Body |->
                     IF <<r, b>> \in tx.pairs \cup StaleLeaderRows(Mine) THEN NoRow
                     ELSE Mine.addedBy[r][b]]]
<1>2. Reconciled = [member |-> m, role |-> ro, addedBy |-> by, banned |-> Mine.banned]
  BY <1>1, Zenon DEF Reconciled, LeaderRowOf
<1>3. /\ Lapsing(Mine) \subseteq Absent(Mine, Roster)
      /\ tx.fuse => Lapsing(Mine) = {}
      /\ ~ tx.fuse => Lapsing(Mine) = Absent(Mine, Roster)
  BY <1>1 DEF Lapsing
<1>4. ASSUME NEW r \in Lapsing(Mine)
      PROVE  /\ r \in Stored(Mine) /\ Mine.member[r] \in MemberRow /\ r \in Row
             /\ m[r] = [Mine.member[r] EXCEPT !.good = FALSE]
  BY <1>1, <1>3, StoredRow DEF Absent, GoodStanding
<1>5. ASSUME NEW r \in Lapsing(Mine)
      PROVE  /\ m[r] \in MemberRow /\ m[r].st = Mine.member[r].st /\ m[r].email = Mine.member[r].email
             /\ m[r].discord = Mine.member[r].discord /\ ~ m[r].good
  BY <1>4 DEF MemberRow
<1>6. m \in [Row -> MemberRow \cup {NoMember}]
  <2>1. \A r \in Row : m[r] \in MemberRow \cup {NoMember}
    BY <1>1, <1>5 DEF Tables
  <2>. QED
    BY <2>1
<1>7. ro \in [Row -> [Body -> Role]]
  <2>1. \A r \in Row, b \in Body : Mine.role[r][b] \in Role
    BY <1>1 DEF Tables
  <2>. QED
    BY <2>1 DEF Role
<1>8. by \in [Row -> [Body -> Row \cup {NoRow}]]
  <2>1. \A r \in Row, b \in Body : Mine.addedBy[r][b] \in Row \cup {NoRow}
    BY <1>1 DEF Tables
  <2>. QED
    BY <2>1
<1>9. \A r \in Row : r \notin Lapsing(Mine) => m[r] = Mine.member[r]
  OBVIOUS
<1>10. \A r \in Row, b \in Body :
          /\ <<r, b>> \in tx.pairs => ro[r][b] = "leader" /\ by[r][b] = NoRow
          /\ <<r, b>> \in StaleLeaderRows(Mine) /\ <<r, b>> \notin tx.pairs =>
                ro[r][b] = "none" /\ by[r][b] = NoRow
          /\ <<r, b>> \notin tx.pairs \cup StaleLeaderRows(Mine) =>
                ro[r][b] = Mine.role[r][b] /\ by[r][b] = Mine.addedBy[r][b]
  OBVIOUS
<1>11. Mine.banned \subseteq Row
  BY <1>1 DEF Tables
<1>. HIDE DEF m, ro, by
<1>12. Reconciled \in Tables
  BY <1>2, <1>6, <1>7, <1>8, <1>11 DEF Tables
<1>13. Reconciled.member = m /\ Reconciled.role = ro /\ Reconciled.addedBy = by
       /\ Reconciled.banned = Mine.banned
  BY <1>2
<1>. QED
  BY <1>3, <1>4, <1>5, <1>9, <1>10, <1>12, <1>13

LEMMA ReconcileWritesType ==
    ASSUME TypeInv, holder # NoPuller
    PROVE  ReconcileWrites \subseteq Key
<1>1. Written(snapshot[holder], Reconciled) \subseteq Key
  BY HolderType, ReconciledIs, WrittenType DEF TypeInv, Mine
<1>2. ASSUME NEW p \in tx.pairs PROVE RoleKey(p[1], p[2]) \in Key
  <2>1. p \in Row \X Body
    BY HolderType DEF TxType
  <2>2. p[1] \in Row /\ p[2] \in Body
    BY <2>1
  <2>. QED
    BY <2>2, KeyType
<1>. QED
  BY <1>1, <1>2 DEF ReconcileWrites

LEMMA OutdatesType ==
    ASSUME TypeInv, NEW K \in SUBSET Key
    PROVE  /\ Outdates(K) \in [Puller -> SUBSET Key]
           /\ \A p \in Puller : snapshot[p] # NoView => Outdates(K)[p] = outdated[p] \cup K
BY DEF TypeInv, TypeOK, Outdates

\* What others see of a pull that ends well.
LEMMA CommitIs ==
    ASSUME TypeInv, CommitPull
    PROVE  /\ Over /\ ~ Races(ReconcileWrites) /\ LoopDone
           /\ db' = Overlay(db, Reconciled, tx.touched \cup ReconcileWrites)
           /\ db' \in Tables
           /\ pull' \in [Puller -> {NoPull} \cup PullRecord]
           /\ outdated' \in [Puller -> SUBSET Key]
           /\ \A p \in Puller : p # holder /\ snapshot[p] # NoView =>
                 outdated'[p] = outdated[p] \cup tx.touched \cup ReconcileWrites
<1>. DEFINE keys == tx.touched \cup ReconcileWrites
<1>1. /\ LoopDone /\ ~ Races(ReconcileWrites) /\ holder # NoPuller
      /\ db' = Overlay(db, Reconciled, keys)
      /\ outdated' = [Outdates(keys) EXCEPT ![holder] = {}]
      /\ snapshot' = [snapshot EXCEPT ![holder] = NoView]
      /\ pull' = [pull EXCEPT ![holder] = NoPull]
      /\ holder' = NoPuller /\ tx' = Locals /\ UNCHANGED <<queue, left>>
  BY DEF CommitPull, LoopDone, Released
<1>2. holder \in Puller /\ db \in Tables /\ Reconciled \in Tables /\ keys \in SUBSET Key
  BY <1>1, HolderType, ReconciledIs, ReconcileWritesType DEF TxType
<1>3. db' \in Tables
  BY <1>1, <1>2, OverlayType
<1>. HIDE DEF keys
<1>4. /\ Outdates(keys) \in [Puller -> SUBSET Key]
      /\ \A p \in Puller : snapshot[p] # NoView => Outdates(keys)[p] = outdated[p] \cup keys
  BY <1>2, OutdatesType
<1>5. /\ outdated' \in [Puller -> SUBSET Key]
      /\ \A p \in Puller : p # holder /\ snapshot[p] # NoView => outdated'[p] = outdated[p] \cup keys
  BY <1>1, <1>4
<1>6. /\ pull' \in [Puller -> {NoPull} \cup PullRecord]
      /\ \A p \in Puller : p # holder => pull'[p] = pull[p]
  BY <1>1 DEF TypeInv, TypeOK, PullRecord
<1>7. Over
  BY <1>1, <1>6 DEF Over
<1>. QED
  BY <1>1, <1>3, <1>5, <1>6, <1>7 DEF keys

LEMMA EndedIs ==
    ASSUME TypeInv, RaiseRepeatedRow \/ LoseRace
    PROVE  /\ Over /\ db' = db
           /\ pull' \in [Puller -> {NoPull} \cup PullRecord]
           /\ outdated' \in [Puller -> SUBSET Key]
           /\ \A p \in Puller : p # holder => outdated'[p] = outdated[p]
<1>1. /\ holder # NoPuller
      /\ snapshot' = [snapshot EXCEPT ![holder] = NoView]
      /\ outdated' = [outdated EXCEPT ![holder] = {}]
      /\ holder' = NoPuller /\ tx' = Locals /\ UNCHANGED <<db, queue, left>>
  BY DEF RaiseRepeatedRow, LoseRace, LoopDone, Working, Ended, Released
<1>2. /\ outdated' \in [Puller -> SUBSET Key]
      /\ \A p \in Puller : p # holder => outdated'[p] = outdated[p]
  BY <1>1 DEF TypeInv, TypeOK
<1>3. pull \in [Puller -> {NoPull} \cup PullRecord] /\ holder \in Puller
      /\ pull[holder] \in PullRecord
  BY <1>1, HolderType DEF TypeInv, TypeOK, PullRecord
<1>. DEFINE again == [pull[holder] EXCEPT !.attempt = pull[holder].attempt + 1]
<1>4. ~ GivesUp(pull[holder].attempt) => again \in PullRecord
  BY <1>3, RosterAssumption DEF GivesUp, PullRecord
<1>5. \/ pull' = [pull EXCEPT ![holder] = NoPull]
      \/ ~ GivesUp(pull[holder].attempt) /\ pull' = [pull EXCEPT ![holder] = again]
  <2>1. CASE RaiseRepeatedRow
    BY <2>1 DEF RaiseRepeatedRow
  <2>2. CASE LoseRace
    <3>1. pull' = [pull EXCEPT ![holder] = IF GivesUp(pull[holder].attempt) THEN NoPull ELSE again]
      BY <2>2 DEF LoseRace
    <3>. HIDE DEF again
    <3>. QED
      BY <3>1
  <2>. QED
    BY <2>1, <2>2
<1>. HIDE DEF again
<1>6. /\ pull' \in [Puller -> {NoPull} \cup PullRecord]
      /\ \A p \in Puller : p # holder => pull'[p] = pull[p]
  BY <1>3, <1>4, <1>5
<1>. QED
  BY <1>1, <1>2, <1>6 DEF Over

LEMMA CrashIs ==
    ASSUME TypeInv, NEW p \in Puller, Crash(p)
    PROVE  /\ TypeInv' /\ db' = db
           /\ \A q \in Puller : q # p => /\ snapshot'[q] = snapshot[q] /\ outdated'[q] = outdated[q]
                                         /\ pull'[q] = pull[q]
           /\ snapshot'[p] = NoView
           /\ holder' # NoPuller => holder' = holder /\ tx' = tx /\ p # holder
           /\ holder' = NoPuller => tx' = Locals
<1>1. /\ pull' = [pull EXCEPT ![p] = NoPull] /\ db' = db
      /\ snapshot' = [snapshot EXCEPT ![p] = NoView]
      /\ outdated' = [outdated EXCEPT ![p] = {}]
      /\ IF holder = p THEN holder' = NoPuller /\ tx' = Locals ELSE holder' = holder /\ tx' = tx
  BY DEF Crash, Ended, Released
<1>2. left' \in [BoundKind -> Nat]
  BY SpendType DEF Crash, TypeInv, TypeOK, BoundKind
<1>3. /\ pull' \in [Puller -> {NoPull} \cup PullRecord]
      /\ snapshot' \in [Puller -> {NoView} \cup Tables]
      /\ outdated' \in [Puller -> SUBSET Key]
      /\ \A q \in Puller : q # p => /\ snapshot'[q] = snapshot[q] /\ outdated'[q] = outdated[q]
                                    /\ pull'[q] = pull[q]
      /\ snapshot'[p] = NoView
  BY <1>1 DEF TypeInv, TypeOK, PullRecord
<1>. DEFINE n == Len(queue)
<1>4. queue \in Seq(Puller) /\ n \in Nat /\ DOMAIN queue = 1 .. n
  BY LenProperties DEF TypeInv, Places
<1>5. \A i, j \in DOMAIN queue : queue[i] = queue[j] => i = j
  BY DEF TypeInv, TypeOK
<1>6. /\ queue' \in Seq(Puller)
      /\ \A i, j \in DOMAIN queue' : queue'[i] = queue'[j] => i = j
      /\ \A q \in Puller : (\E i \in DOMAIN queue' : queue'[i] = q)
                             <=> (\E i \in DOMAIN queue : queue[i] = q) /\ q # p
  <2>1. CASE (\A i \in DOMAIN queue : queue[i] # p) /\ queue' = queue
    BY <1>4, <1>5, <2>1
  <2>2. ASSUME NEW i \in DOMAIN queue, queue[i] = p, queue' = WithoutPlace(i)
        PROVE  /\ queue' \in Seq(Puller)
               /\ \A k, j \in DOMAIN queue' : queue'[k] = queue'[j] => k = j
               /\ \A q \in Puller : (\E k \in DOMAIN queue' : queue'[k] = q)
                                      <=> (\E k \in DOMAIN queue : queue[k] = q) /\ q # p
    <3>1. /\ queue' \in Seq(Puller) /\ DOMAIN queue' = 1 .. n - 1
          /\ \A j \in 1 .. n - 1 : queue'[j] = IF j < i THEN queue[j] ELSE queue[j + 1]
      BY <1>4, <2>2, WithoutPlaceIs
    <3>2. i \in 1 .. n /\ \A k, j \in 1 .. n : queue[k] = queue[j] => k = j
      BY <1>4, <1>5
    <3>. HIDE DEF n
    <3>. DEFINE at(j) == IF j < i THEN j ELSE j + 1
    <3>3. \A j \in 1 .. n - 1 : at(j) \in 1 .. n /\ at(j) # i /\ queue'[j] = queue[at(j)]
      BY <1>4, <3>1, <3>2
    <3>4. \A j, k \in 1 .. n - 1 : at(j) = at(k) => j = k
      BY <1>4, <3>2
    <3>5. \A k \in 1 .. n : k # i => \E j \in 1 .. n - 1 : at(j) = k
      <4>. SUFFICES ASSUME NEW k \in 1 .. n, k # i PROVE \E j \in 1 .. n - 1 : at(j) = k
        OBVIOUS
      <4>1. CASE k < i
        <5>1. k \in 1 .. n - 1 /\ at(k) = k
          BY <1>4, <3>2, <4>1
        <5>. QED
          BY <5>1
      <4>2. CASE k > i
        <5>1. k - 1 \in 1 .. n - 1 /\ at(k - 1) = k
          BY <1>4, <3>2, <4>2
        <5>. QED
          BY <5>1
      <4>. QED
        BY <1>4, <3>2, <4>1, <4>2
    <3>. HIDE DEF at
    <3>6. \A k, j \in DOMAIN queue' : queue'[k] = queue'[j] => k = j
      BY <3>1, <3>2, <3>3, <3>4
    <3>7. ASSUME NEW k \in 1 .. n - 1 PROVE queue'[k] # p /\ \E j \in 1 .. n : queue[j] = queue'[k]
      BY <2>2, <3>2, <3>3
    <3>8. ASSUME NEW k \in 1 .. n, queue[k] # p PROVE \E j \in 1 .. n - 1 : queue'[j] = queue[k]
      <4>1. PICK j \in 1 .. n - 1 : at(j) = k
        BY <2>2, <3>5, <3>8
      <4>. QED
        BY <3>3, <4>1
    <3>. QED
      BY <1>4, <3>1, <3>6, <3>7, <3>8
  <2>. QED
    BY <2>1, <2>2 DEF Crash
<1>7. \A q \in Puller : snapshot[q] # NoView <=> \/ q = holder
                                                 \/ \E i \in DOMAIN queue : queue[i] = q
  BY DEF TypeInv, TypeOK
<1>8. \A i \in DOMAIN queue' : queue'[i] # holder'
  <2>1. \A i \in DOMAIN queue' : queue'[i] \in Puller
    BY <1>6, ElementOfSeq, LenProperties
  <2>2. \A i \in DOMAIN queue : queue[i] # holder
    BY DEF TypeInv, Places
  <2>3. NoPuller \notin Puller
    BY RosterAssumption
  <2>. QED
    BY <1>1, <1>6, <2>1, <2>2, <2>3
<1>9. \A q \in Puller : snapshot'[q] # NoView <=> \/ q = holder'
                                                  \/ \E i \in DOMAIN queue' : queue'[i] = q
  <2>1. NoPuller \notin Puller
    BY RosterAssumption
  <2>2. \A q \in Puller : snapshot'[q] # NoView <=> snapshot[q] # NoView /\ q # p
    BY <1>3
  <2>. QED
    BY <1>1, <1>6, <1>7, <2>1, <2>2
<1>10. tx' \in TxType /\ (holder' = NoPuller => tx' = Locals) /\ holder' \in Puller \cup {NoPuller}
  BY <1>1, LocalsType DEF TypeInv, TypeOK, Places
<1>11. TypeOK'
  <2>1. /\ tx'.pairs \subseteq Row \X Body /\ tx'.present \subseteq Row
        /\ tx'.skipped \subseteq StId /\ tx'.touched \subseteq Key
    BY <1>10 DEF TxType
  <2>2. db' \in Tables
    BY <1>1 DEF TypeInv, TypeOK
  <2>. QED
    BY <1>2, <1>3, <1>6, <1>9, <1>10, <2>1, <2>2 DEF TypeOK, PullRecord
<1>12. Places'
  <2>1. \A q \in Puller : snapshot'[q] # NoView => pull'[q] # NoPull
    BY <1>3 DEF TypeInv, Places
  <2>. QED
    BY <1>6, <1>8, <1>10, <2>1 DEF Places
<1>13. TypeInv'
  BY <1>11, <1>12 DEF TypeInv
<1>. QED
  BY <1>1, <1>3, <1>10, <1>13

\* What the others may change: one key that the holder has not written.
OthersKeep(K) ==
    /\ K \subseteq Key /\ K \cap tx.touched = {}
    /\ db' \in Tables /\ db'.member = db.member /\ AgreesOff(db', db, K)
    /\ outdated' = Outdates(K) /\ left' \in [BoundKind -> Nat]
    /\ UNCHANGED <<pull, snapshot, queue, holder, tx>>

LEMMA OthersType ==
    ASSUME TypeInv, NEW K, OthersKeep(K)
    PROVE  TypeInv' /\ \A p \in Puller : snapshot[p] # NoView => outdated'[p] = outdated[p] \cup K
<1>1. /\ outdated' \in [Puller -> SUBSET Key]
      /\ \A p \in Puller : snapshot[p] # NoView => outdated'[p] = outdated[p] \cup K
  BY OutdatesType DEF OthersKeep
<1>. QED
  BY <1>1 DEF TypeInv, TypeOK, Places, OthersKeep

\* Tables u are t with one membership, or one ban, written.
RoleSet(u, t, r, b, x, y) ==
    /\ u \in Tables /\ u.member = t.member /\ u.banned = t.banned
    /\ u.role[r][b] = x /\ u.addedBy[r][b] = y
    /\ \A s \in Row, c \in Body : s # r \/ c # b =>
          u.role[s][c] = t.role[s][c] /\ u.addedBy[s][c] = t.addedBy[s][c]
    /\ AgreesOff(u, t, {RoleKey(r, b)})

BanSet(u, t, r, B) ==
    /\ u \in Tables /\ u.member = t.member /\ u.role = t.role /\ u.addedBy = t.addedBy
    /\ u.banned = B /\ AgreesOff(u, t, {BanKey(r)})

LEMMA RoleExcept ==
    ASSUME NEW t \in Tables, NEW r \in Row, NEW b \in Body, NEW x \in Role, NEW y \in Row \cup {NoRow}
    PROVE  RoleSet([t EXCEPT !.role[r][b] = x, !.addedBy[r][b] = y], t, r, b, x, y)
<1>. DEFINE u == [t EXCEPT !.role[r][b] = x, !.addedBy[r][b] = y]
<1>. DEFINE ro == [t.role EXCEPT ![r] = [t.role[r] EXCEPT ![b] = x]]
            by == [t.addedBy EXCEPT ![r] = [t.addedBy[r] EXCEPT ![b] = y]]
<1>1. u = [t EXCEPT !.role = ro, !.addedBy = by]
  OBVIOUS
<1>2. t.role \in [Row -> [Body -> Role]] /\ t.addedBy \in [Row -> [Body -> Row \cup {NoRow}]]
  BY DEF Tables
<1>3. /\ ro \in [Row -> [Body -> Role]] /\ ro[r][b] = x
      /\ \A s \in Row, c \in Body : s # r \/ c # b => ro[s][c] = t.role[s][c]
  BY <1>2
<1>4. /\ by \in [Row -> [Body -> Row \cup {NoRow}]] /\ by[r][b] = y
      /\ \A s \in Row, c \in Body : s # r \/ c # b => by[s][c] = t.addedBy[s][c]
  BY <1>2
<1>. HIDE DEF ro, by, u
<1>5. u.role = ro /\ u.addedBy = by /\ u.member = t.member /\ u.banned = t.banned
  BY <1>1 DEF Tables
<1>6. u = [member |-> u.member, role |-> u.role, addedBy |-> u.addedBy, banned |-> u.banned]
  BY <1>1 DEF Tables
<1>7. u \in Tables
  BY <1>3, <1>4, <1>5, <1>6 DEF Tables
<1>8. AgreesOff(u, t, {RoleKey(r, b)})
  BY <1>3, <1>4, <1>5 DEF AgreesOff
<1>9. RoleSet(u, t, r, b, x, y)
  BY <1>3, <1>4, <1>5, <1>7, <1>8 DEF RoleSet
<1>. QED
  BY <1>9 DEF u

LEMMA BannedExcept ==
    ASSUME NEW t \in Tables, NEW r \in Row, NEW B \in SUBSET Row,
           \A s \in Row : s # r => (s \in B <=> s \in t.banned)
    PROVE  BanSet([t EXCEPT !.banned = B], t, r, B)
<1>. DEFINE u == [t EXCEPT !.banned = B]
<1>1. u.member = t.member /\ u.role = t.role /\ u.addedBy = t.addedBy /\ u.banned = B
  BY DEF Tables
<1>2. u \in Tables
  BY <1>1 DEF Tables
<1>. HIDE DEF u
<1>3. BanSet(u, t, r, B)
  BY <1>1, <1>2 DEF AgreesOff, BanSet
<1>. QED
  BY <1>3 DEF u

\* One membership is written: a manual add is made, credited to `by`, or removed.
RoleWritten(r, b, x, by) ==
    /\ OthersKeep({RoleKey(r, b)})
    /\ db'.role[r][b] = x /\ db'.addedBy[r][b] = by /\ db'.banned = db.banned
    /\ \A s \in Row, c \in Body : s # r \/ c # b =>
          db'.role[s][c] = db.role[s][c] /\ db'.addedBy[s][c] = db.addedBy[s][c]

LEMMA PanelAddIs ==
    ASSUME TypeInv, NEW r \in Row, NEW b \in Body, NEW by \in Row, PanelAdd(r, b, by)
    PROVE  /\ r \in Stored(db) /\ by \in Stored(db) /\ db.role[r][b] = "none"
           /\ ~ Barred(r) /\ ~ Barred(by) /\ RoleWritten(r, b, "member", by)
<1>1. /\ r \in Stored(db) /\ by \in Stored(db) /\ db.role[r][b] = "none" /\ ~ Barred(r) /\ ~ Barred(by)
      /\ db' = [db EXCEPT !.role[r][b] = "member", !.addedBy[r][b] = by]
      /\ outdated' = Outdates({RoleKey(r, b)}) /\ {RoleKey(r, b)} \cap tx.touched = {}
      /\ UNCHANGED <<pull, snapshot, queue, holder, tx>>
  BY DEF PanelAdd, Commits
<1>2. db \in Tables /\ "member" \in Role /\ by \in Row \cup {NoRow}
  BY DEF TypeInv, TypeOK, Role
<1>3. /\ db' \in Tables /\ db'.member = db.member /\ db'.banned = db.banned
      /\ db'.role[r][b] = "member" /\ db'.addedBy[r][b] = by
      /\ \A s \in Row, c \in Body : s # r \/ c # b =>
            db'.role[s][c] = db.role[s][c] /\ db'.addedBy[s][c] = db.addedBy[s][c]
      /\ AgreesOff(db', db, {RoleKey(r, b)})
  <2>1. RoleSet(db', db, r, b, "member", by)
    BY <1>1, <1>2, RoleExcept
  <2>. QED
    BY <2>1 DEF RoleSet
<1>4. left' \in [BoundKind -> Nat]
  BY SpendType DEF PanelAdd, TypeInv, TypeOK, BoundKind
<1>. QED
  BY <1>1, <1>3, <1>4, KeyType DEF RoleWritten, OthersKeep

LEMMA PanelRemoveIs ==
    ASSUME TypeInv, NEW r \in Row, NEW b \in Body, PanelRemove(r, b)
    PROVE  db.role[r][b] = "member" /\ RoleWritten(r, b, "none", NoRow)
<1>1. /\ db.role[r][b] = "member"
      /\ db' = [db EXCEPT !.role[r][b] = "none", !.addedBy[r][b] = NoRow]
      /\ outdated' = Outdates({RoleKey(r, b)}) /\ {RoleKey(r, b)} \cap tx.touched = {}
      /\ UNCHANGED <<pull, snapshot, queue, holder, tx>>
  BY DEF PanelRemove, Commits
<1>2. db \in Tables /\ "none" \in Role /\ NoRow \in Row \cup {NoRow}
  BY DEF TypeInv, TypeOK, Role
<1>3. /\ db' \in Tables /\ db'.member = db.member /\ db'.banned = db.banned
      /\ db'.role[r][b] = "none" /\ db'.addedBy[r][b] = NoRow
      /\ \A s \in Row, c \in Body : s # r \/ c # b =>
            db'.role[s][c] = db.role[s][c] /\ db'.addedBy[s][c] = db.addedBy[s][c]
      /\ AgreesOff(db', db, {RoleKey(r, b)})
  <2>1. RoleSet(db', db, r, b, "none", NoRow)
    BY <1>1, <1>2, RoleExcept
  <2>. QED
    BY <2>1 DEF RoleSet
<1>4. left' \in [BoundKind -> Nat]
  BY SpendType DEF PanelRemove, TypeInv, TypeOK, BoundKind
<1>. QED
  BY <1>1, <1>3, <1>4, KeyType DEF RoleWritten, OthersKeep

\* A ban is placed or lifted.
BanWritten(r, B) ==
    /\ OthersKeep({BanKey(r)})
    /\ db'.banned = B /\ db'.role = db.role /\ db'.addedBy = db.addedBy

LEMMA BanIs ==
    ASSUME TypeInv, NEW r \in Row, Ban(r)
    PROVE  r \in Stored(db) /\ ~ Barred(r) /\ BanWritten(r, db.banned \cup {r})
<1>1. /\ r \in Stored(db) /\ ~ Barred(r)
      /\ db' = [db EXCEPT !.banned = db.banned \cup {r}]
      /\ outdated' = Outdates({BanKey(r)}) /\ {BanKey(r)} \cap tx.touched = {}
      /\ UNCHANGED <<pull, snapshot, queue, holder, tx>>
  BY DEF Ban, Commits
<1>2. db \in Tables /\ db.banned \cup {r} \in SUBSET Row
  BY DEF TypeInv, TypeOK, Tables
<1>3. /\ db' \in Tables /\ db'.member = db.member /\ db'.role = db.role /\ db'.addedBy = db.addedBy
      /\ db'.banned = db.banned \cup {r} /\ AgreesOff(db', db, {BanKey(r)})
  <2>1. \A s \in Row : s # r => (s \in db.banned \cup {r} <=> s \in db.banned)
    OBVIOUS
  <2>2. BanSet(db', db, r, db.banned \cup {r})
    BY <1>1, <1>2, <2>1, BannedExcept
  <2>. QED
    BY <2>2 DEF BanSet
<1>4. left' \in [BoundKind -> Nat]
  BY SpendType DEF Ban, TypeInv, TypeOK, BoundKind
<1>. QED
  BY <1>1, <1>3, <1>4, KeyType DEF BanWritten, OthersKeep

LEMMA UnbanIs ==
    ASSUME TypeInv, NEW r \in Row, Unban(r)
    PROVE  BanWritten(r, db.banned \ {r})
<1>1. /\ db' = [db EXCEPT !.banned = db.banned \ {r}]
      /\ outdated' = Outdates({BanKey(r)}) /\ {BanKey(r)} \cap tx.touched = {}
      /\ UNCHANGED <<pull, snapshot, queue, holder, tx>>
  BY DEF Unban, Commits
<1>2. db \in Tables /\ db.banned \ {r} \in SUBSET Row
  BY DEF TypeInv, TypeOK, Tables
<1>3. /\ db' \in Tables /\ db'.member = db.member /\ db'.role = db.role /\ db'.addedBy = db.addedBy
      /\ db'.banned = db.banned \ {r} /\ AgreesOff(db', db, {BanKey(r)})
  <2>1. \A s \in Row : s # r => (s \in db.banned \ {r} <=> s \in db.banned)
    OBVIOUS
  <2>2. BanSet(db', db, r, db.banned \ {r})
    BY <1>1, <1>2, <2>1, BannedExcept
  <2>. QED
    BY <2>2 DEF BanSet
<1>4. left' \in [BoundKind -> Nat]
  BY SpendType DEF Unban, TypeInv, TypeOK, BoundKind
<1>. QED
  BY <1>1, <1>3, <1>4, KeyType DEF BanWritten, OthersKeep

LEMMA OthersIs ==
    ASSUME TypeInv, Others
    PROVE  \E K : OthersKeep(K)
<1>1. ASSUME NEW r \in Row, NEW b \in Body, NEW by \in Row, PanelAdd(r, b, by)
      PROVE  OthersKeep({RoleKey(r, b)})
  BY <1>1, PanelAddIs DEF RoleWritten
<1>2. ASSUME NEW r \in Row, NEW b \in Body, PanelRemove(r, b)
      PROVE  OthersKeep({RoleKey(r, b)})
  BY <1>2, PanelRemoveIs DEF RoleWritten
<1>3. ASSUME NEW r \in Row, Ban(r) \/ Unban(r)
      PROVE  OthersKeep({BanKey(r)})
  <2>1. CASE Ban(r)
    BY <2>1, BanIs DEF BanWritten
  <2>2. CASE Unban(r)
    BY <2>2, UnbanIs DEF BanWritten
  <2>. QED
    BY <1>3, <2>1, <2>2
<1>. QED
  BY <1>1, <1>2, <1>3 DEF Others

LEMMA TypeStep == TypeInv /\ [Next]_vars => TypeInv'
<1>. SUFFICES ASSUME TypeInv, [Next]_vars PROVE TypeInv'
  OBVIOUS
<1>1. ASSUME NEW p \in Puller, StartPull(p) PROVE TypeInv'
  BY <1>1, StartType
<1>2. ASSUME NEW p \in Puller, AskForLock(p) PROVE TypeInv'
  BY <1>2, AskType
<1>3. ASSUME NEW p \in Puller, Crash(p) PROVE TypeInv'
  BY <1>3, CrashIs
<1>4. CASE TakeLock
  BY <1>4, TakeType
<1>5. CASE StoreMember
  BY <1>5, StoreIs, KeepsType
<1>6. CASE SkipMember
  BY <1>6, SkipIs, KeepsType
<1>7. CASE CommitPull
  BY <1>7, CommitIs, OverType
<1>8. CASE RaiseRepeatedRow \/ LoseRace
  <2>1. db' \in Tables
    BY <1>8, EndedIs DEF TypeInv, TypeOK
  <2>. QED
    BY <1>8, <2>1, EndedIs, OverType
<1>9. CASE Others
  BY <1>9, OthersIs, OthersType
<1>10. CASE UNCHANGED vars
  BY <1>10 DEF vars, TypeInv, TypeOK, Places
<1>. QED
  BY <1>1, <1>2, <1>3, <1>4, <1>5, <1>6, <1>7, <1>8, <1>9, <1>10 DEF Next, PullStep

LEMMA TypeInit == Init => TypeInv
<1>. SUFFICES ASSUME Init PROVE TypeInv
  OBVIOUS
<1>1. /\ db \in Tables /\ left \in [BoundKind -> Nat]
      /\ pull \in [Puller -> {NoPull} \cup PullRecord]
      /\ snapshot \in [Puller -> {NoView} \cup Tables] /\ \A p \in Puller : snapshot[p] = NoView
      /\ outdated \in [Puller -> SUBSET Key]
      /\ queue = <<>> /\ holder = NoPuller /\ tx = Locals
  BY RosterAssumption DEF Init, NobodyPulls
<1>2. Locals.pairs = {} /\ Locals.present = {} /\ Locals.skipped = {} /\ Locals.touched = {}
  BY DEF Locals
<1>3. DOMAIN queue = {} /\ queue \in Seq(Puller) /\ NoPuller \notin Puller
  BY <1>1, RosterAssumption
<1>4. TypeOK
  BY <1>1, <1>2, <1>3 DEF TypeOK, PullRecord
<1>5. Places
  BY <1>1, <1>3, LocalsType DEF Places
<1>. QED
  BY <1>4, <1>5 DEF TypeInv

\* The types: at most PullAttempts attempts are made, and nobody waits for the lock twice
\* or while holding it (db/roster.py, pull_roster).
THEOREM TypeCorrect == Spec => []TypeOK
<1>1. TypeInv => TypeOK
  BY DEF TypeInv
<1>. QED
  BY <1>1, TypeInit, TypeStep, PTL DEF Spec

-----------------------------------------------------------------------------
(* The tables as the indexes and the foreign keys see them.                 *)

AgreesOn(t, u, K) ==
    /\ \A r \in Row : MemberKey(r) \in K => t.member[r] = u.member[r]
    /\ \A r \in Row : BanKey(r) \in K => (r \in t.banned <=> r \in u.banned)
    /\ \A r \in Row, b \in Body : RoleKey(r, b) \in K =>
          t.role[r][b] = u.role[r][b] /\ t.addedBy[r][b] = u.addedBy[r][b]

LEMMA OverlayOn ==
    ASSUME NEW t \in Tables, NEW u \in Tables, NEW K
    PROVE  AgreesOff(Overlay(t, u, K), t, K) /\ AgreesOn(Overlay(t, u, K), u, K)
BY OverlayAt DEF AgreesOn

\* What K makes of a table that agrees with another one outside O.
LEMMA AgreesChain ==
    ASSUME NEW t, NEW u, NEW v, NEW K, NEW L, AgreesOff(t, u, K), AgreesOff(u, v, L)
    PROVE  AgreesOff(t, v, K \cup L)
BY DEF AgreesOff

LEMMA AgreesMore ==
    ASSUME NEW t, NEW u, NEW K, NEW L, AgreesOff(t, u, K), K \subseteq L
    PROVE  AgreesOff(t, u, L)
BY DEF AgreesOff

LEMMA AgreesBack ==
    ASSUME NEW t, NEW u, NEW K, AgreesOff(t, u, K)
    PROVE  AgreesOff(u, t, K)
BY DEF AgreesOff

\* A pull sees its own tables, but for what others have committed.
LEMMA OverlaysMeet ==
    ASSUME NEW t \in Tables, NEW u \in Tables, NEW K, NEW O, AgreesOff(t, u, O \cup K)
    PROVE  AgreesOff(t, Overlay(u, t, K), O)
<1>. DEFINE w == Overlay(u, t, K)
<1>1. AgreesOff(w, u, K) /\ AgreesOn(w, t, K)
  BY OverlayOn
<1>. HIDE DEF w
<1>2. \A r \in Row : MemberKey(r) \notin O => t.member[r] = w.member[r]
  BY <1>1 DEF AgreesOff, AgreesOn
<1>3. \A r \in Row : BanKey(r) \notin O => (r \in t.banned <=> r \in w.banned)
  BY <1>1 DEF AgreesOff, AgreesOn
<1>4. \A r \in Row, b \in Body : RoleKey(r, b) \notin O =>
         t.role[r][b] = w.role[r][b] /\ t.addedBy[r][b] = w.addedBy[r][b]
  BY <1>1 DEF AgreesOff, AgreesOn
<1>. QED
  BY <1>2, <1>3, <1>4 DEF AgreesOff, w

\* Writing more: t is what was written before, u what is written now.
LEMMA OverlayGrows ==
    ASSUME NEW d \in Tables, NEW t \in Tables, NEW u \in Tables, NEW L, NEW K, AgreesOff(u, t, K)
    PROVE  /\ AgreesOff(Overlay(d, u, L \cup K), Overlay(d, t, L), K)
           /\ AgreesOn(Overlay(d, u, L \cup K), u, K)
<1>. DEFINE w == Overlay(d, u, L \cup K)
            v == Overlay(d, t, L)
<1>1. AgreesOff(w, d, L \cup K) /\ AgreesOn(w, u, L \cup K)
  BY OverlayOn
<1>2. AgreesOff(v, d, L) /\ AgreesOn(v, t, L)
  BY OverlayOn
<1>. HIDE DEF w, v
<1>3. AgreesOn(w, u, K)
  BY <1>1 DEF AgreesOn
<1>4. \A r \in Row : MemberKey(r) \notin K => w.member[r] = v.member[r]
  BY <1>1, <1>2 DEF AgreesOff, AgreesOn
<1>5. \A r \in Row : BanKey(r) \notin K => (r \in w.banned <=> r \in v.banned)
  <2>. SUFFICES ASSUME NEW r \in Row, BanKey(r) \notin K PROVE r \in w.banned <=> r \in v.banned
    OBVIOUS
  <2>1. CASE BanKey(r) \in L
    BY <1>1, <1>2, <2>1 DEF AgreesOff, AgreesOn
  <2>2. CASE BanKey(r) \notin L
    BY <1>1, <1>2, <2>2 DEF AgreesOff, AgreesOn
  <2>. QED
    BY <2>1, <2>2
<1>6. \A r \in Row, b \in Body : RoleKey(r, b) \notin K =>
         w.role[r][b] = v.role[r][b] /\ w.addedBy[r][b] = v.addedBy[r][b]
  BY <1>1, <1>2 DEF AgreesOff, AgreesOn
<1>7. AgreesOff(w, v, K)
  BY <1>4, <1>5, <1>6 DEF AgreesOff
<1>. QED
  BY <1>3, <1>7 DEF w, v

\* The keys that a fold of `from` into `into` writes, of tables t that others may have
\* changed into v.
FoldWrites(K, t, v, from, into) ==
    /\ \A f \in from : /\ MemberKey(f) \in K /\ BanKey(f) \in K
                       /\ \A b \in Body : RoleKey(f, b) \in K
    /\ \A r \in Row, b \in Body : RoleKey(r, b) \notin K => v.addedBy[r][b] \notin from
    /\ \A b \in Body : CarriedFrom(t, from, b) # {} => RoleKey(into, b) \in K
    /\ t.banned \cap from # {} => BanKey(into) \in K

FoldSeen(w, v, t, from, into, st) ==
    /\ IsFold(w, v, from, into, st)
    /\ \A b \in Body : Carries(v, from, into, b) <=> Carries(t, from, into, b)
    /\ \A b \in Body : CarriedFrom(v, from, b) = CarriedFrom(t, from, b)

\* A fold does the same to what others have left of the tables, where it wrote nothing
\* that they did.
LEMMA FoldOfView ==
    ASSUME NEW t \in Tables, NEW u \in Tables, NEW v \in Tables, NEW w \in Tables,
           NEW K, NEW O, K \cap O = {},
           NEW from \in SUBSET Row, NEW into \in Row \ from, NEW st,
           IsFold(u, t, from, into, st), t.member[into] \in MemberRow,
           AgreesOff(u, t, K), AgreesOff(t, v, O), AgreesOff(w, v, K), AgreesOn(w, u, K),
           FoldWrites(K, t, v, from, into), MemberKey(into) \notin O
    PROVE  FoldSeen(w, v, t, from, into, st)
<1>1. \A r \in Row : MemberKey(r) \in K => w.member[r] = u.member[r] /\ t.member[r] = v.member[r]
  BY DEF AgreesOn, AgreesOff
<1>2. \A r \in Row, b \in Body : RoleKey(r, b) \in K =>
         /\ w.role[r][b] = u.role[r][b] /\ w.addedBy[r][b] = u.addedBy[r][b]
         /\ t.role[r][b] = v.role[r][b] /\ t.addedBy[r][b] = v.addedBy[r][b]
  BY DEF AgreesOn, AgreesOff
<1>3. \A r \in Row : BanKey(r) \in K => (r \in w.banned <=> r \in u.banned)
                                        /\ (r \in t.banned <=> r \in v.banned)
  BY DEF AgreesOn, AgreesOff
<1>4. \A b \in Body : CarriedFrom(v, from, b) = CarriedFrom(t, from, b)
  <2>. TAKE b \in Body
  <2>1. \A f \in from : v.role[f][b] = t.role[f][b] /\ v.member[f] = t.member[f]
    BY <1>1, <1>2 DEF FoldWrites
  <2>2. {f \in from : v.role[f][b] = "member"} = {f \in from : t.role[f][b] = "member"}
    BY <2>1
  <2>. QED
    BY <2>1, <2>2 DEF CarriedFrom, FirstByAccount
<1>5. \A b \in Body : Carries(v, from, into, b) <=> Carries(t, from, into, b)
  <2>. SUFFICES ASSUME NEW b \in Body PROVE Carries(v, from, into, b) <=> Carries(t, from, into, b)
    OBVIOUS
  <2>1. CASE CarriedFrom(t, from, b) = {}
    BY <1>4, <2>1 DEF Carries
  <2>2. CASE CarriedFrom(t, from, b) # {}
    <3>1. v.role[into][b] = t.role[into][b]
      BY <1>2, <2>2 DEF FoldWrites
    <3>. QED
      BY <1>4, <3>1 DEF Carries
  <2>. QED
    BY <2>1, <2>2
<1>6. \A r \in from : w.member[r] = NoMember
  BY <1>1 DEF FoldWrites, IsFold
<1>7. \A r \in Row \ (from \cup {into}) : w.member[r] = v.member[r]
  <2>. SUFFICES ASSUME NEW r \in Row \ (from \cup {into}) PROVE w.member[r] = v.member[r]
    OBVIOUS
  <2>1. u.member[r] = t.member[r]
    BY DEF IsFold
  <2>2. CASE MemberKey(r) \in K
    BY <1>1, <2>1, <2>2
  <2>3. CASE MemberKey(r) \notin K
    BY <2>3 DEF AgreesOff
  <2>. QED
    BY <2>2, <2>3
<1>8. t.member[into] = v.member[into] /\ w.member[into] = u.member[into]
  <2>1. t.member[into] = v.member[into]
    BY DEF AgreesOff
  <2>2. CASE MemberKey(into) \in K
    BY <1>1, <2>1, <2>2
  <2>3. CASE MemberKey(into) \notin K
    <3>1. w.member[into] = v.member[into] /\ u.member[into] = t.member[into]
      BY <2>3 DEF AgreesOff
    <3>. QED
      BY <2>1, <3>1
  <2>. QED
    BY <2>1, <2>2, <2>3
<1>9. \A r \in from, b \in Body : w.role[r][b] = "none" /\ w.addedBy[r][b] = NoRow
  BY <1>2 DEF FoldWrites, IsFold
<1>10. ASSUME NEW r \in Row \ from, NEW b \in Body, r # into \/ ~ Carries(t, from, into, b)
       PROVE  /\ w.role[r][b] = v.role[r][b]
              /\ w.addedBy[r][b] = Author(from, into, v.addedBy[r][b])
  <2>1. u.role[r][b] = t.role[r][b] /\ u.addedBy[r][b] = Author(from, into, t.addedBy[r][b])
    BY <1>10 DEF IsFold
  <2>2. CASE RoleKey(r, b) \in K
    BY <1>2, <2>1, <2>2
  <2>3. CASE RoleKey(r, b) \notin K
    <3>1. w.role[r][b] = v.role[r][b] /\ w.addedBy[r][b] = v.addedBy[r][b]
      BY <2>3 DEF AgreesOff
    <3>2. v.addedBy[r][b] \notin from
      BY <2>3 DEF FoldWrites
    <3>. QED
      BY <3>1, <3>2 DEF Author
  <2>. QED
    BY <2>2, <2>3
<1>11. ASSUME NEW b \in Body, Carries(t, from, into, b)
       PROVE  /\ v.role[into][b] = "none" /\ w.role[into][b] = "member"
              /\ \E f \in CarriedFrom(v, from, b) :
                    w.addedBy[into][b] = Author(from, into, v.addedBy[f][b])
  <2>1. RoleKey(into, b) \in K
    BY <1>11 DEF Carries, FoldWrites
  <2>2. t.role[into][b] = "none" /\ u.role[into][b] = "member"
    BY <1>11 DEF IsFold
  <2>3. PICK f \in CarriedFrom(t, from, b) : u.addedBy[into][b] = Author(from, into, t.addedBy[f][b])
    BY <1>11 DEF IsFold
  <2>4. f \in from /\ f \in Row
    BY CarriedIn
  <2>5. v.addedBy[f][b] = t.addedBy[f][b]
    BY <1>2, <2>4 DEF FoldWrites
  <2>. QED
    BY <1>2, <1>4, <2>1, <2>2, <2>3, <2>5
<1>12. v.banned \cap from = t.banned \cap from
  BY <1>3 DEF FoldWrites
<1>13. ASSUME NEW r \in Row
       PROVE  r \in w.banned <=> \/ r \in v.banned \ from
                                 \/ r = into /\ v.banned \cap from # {}
  <2>1. r \in u.banned <=> \/ r \in t.banned \ from
                           \/ r = into /\ t.banned \cap from # {}
    BY DEF IsFold
  <2>2. CASE BanKey(r) \in K
    BY <1>3, <1>12, <2>1, <2>2
  <2>3. CASE BanKey(r) \notin K
    <3>1. r \in w.banned <=> r \in v.banned
      BY <2>3 DEF AgreesOff
    <3>2. r \notin from /\ ~ (r = into /\ t.banned \cap from # {})
      BY <2>3 DEF FoldWrites
    <3>. QED
      BY <1>12, <3>1, <3>2
  <2>. QED
    BY <2>2, <2>3
<1>14. u.member[into].st = st /\ u.member[into].email = t.member[into].email
       /\ u.member[into].discord = t.member[into].discord /\ u.member[into].good = t.member[into].good
       /\ u.member[into] \in MemberRow
  BY DEF IsFold
<1>15. IsFold(w, v, from, into, st)
  BY <1>5, <1>6, <1>7, <1>8, <1>9, <1>10, <1>11, <1>13, <1>14 DEF IsFold
<1>. QED
  BY <1>4, <1>5, <1>15 DEF FoldSeen

-----------------------------------------------------------------------------
(* A merge, in the holder's tables and as the indexes see it.               *)

Into == Survivor(Mine, Entering, Try.found)

From == Try.found \ {Into}

MergeKeys == MergeWrites(Mine, Entering, Try.found)

TryView == Overlay(db, Try.tables, Try.touched)

Merging ==
    /\ From \in SUBSET Stored(Mine) /\ From \in SUBSET Row
    /\ Into \in Stored(Mine) \ From /\ Into \in Row \ From /\ Mine.member[Into] \in MemberRow
    /\ \/ Into \in RowOf(Mine, Entering.st)
       \/ Into \in Try.found /\ RowOf(Mine, Entering.st) = {}
    /\ IsFold(Try.tables, Mine, From, Into, Entering.st)
    /\ Stored(Try.tables) = Stored(Mine) \ From
    /\ Try.touched = tx.touched \cup MergeKeys /\ MergeKeys \subseteq Try.writes
    /\ Written(Mine, Try.tables) \subseteq MergeKeys
    /\ AgreesOff(Try.tables, Mine, MergeKeys)
    /\ \A d \in Try.found : MemberKey(d) \in MergeKeys
    /\ \A f \in From : Cascaded(f) \subseteq MergeKeys
    /\ MemberKey(Into) \in Try.writes

LEMMA MergingIs ==
    ASSUME TypeInv, Working, Try.found # {}
    PROVE  Merging
<1>1. /\ Mine \in Tables /\ Entering \in Entry /\ Entering.st \in StId
      /\ Try.found \in SUBSET Stored(Mine)
  BY HolderType, EntryType, FoundIn DEF Working
<1>2. /\ Into \in Stored(Mine)
      /\ \/ Into \in RowOf(Mine, Entering.st)
         \/ Into \in Try.found /\ RowOf(Mine, Entering.st) = {}
  BY <1>1, SurvivorIn DEF Into
<1>3. /\ From \in SUBSET Stored(Mine) /\ From \in SUBSET Row
      /\ Into \in Stored(Mine) \ From /\ Into \in Row \ From /\ Mine.member[Into] \in MemberRow
  BY <1>1, <1>2, StoredRow DEF From
<1>4. /\ Try.tables = Merged(Mine, Entering, Try.found)
      /\ Try.touched = tx.touched \cup MergeKeys /\ MergeKeys \subseteq Try.writes
      /\ \A r \in RowOf(Mine, Entering.st) : MemberKey(r) \in Try.writes
  BY TryIs DEF MergeKeys
<1>5. IsFold(Merged(Mine, Entering, Try.found), Mine, Try.found \ {Into}, Into, Entering.st)
  BY <1>1, MergedIsFold DEF Into
<1>6. IsFold(Try.tables, Mine, From, Into, Entering.st)
  BY <1>4, <1>5 DEF From
<1>7. Stored(Try.tables) = Stored(Mine) \ From
  BY <1>1, <1>3, <1>6, FoldStored
<1>8. Written(Mine, Try.tables) \subseteq MergeKeys
  BY <1>4 DEF MergeKeys, MergeWrites
<1>9. Try.tables \in Tables
  BY TryType
<1>10. AgreesOff(Mine, Try.tables, Written(Mine, Try.tables))
  BY <1>1, <1>9, WrittenCovers
<1>11. AgreesOff(Try.tables, Mine, MergeKeys)
  BY <1>8, <1>10, AgreesBack, AgreesMore
<1>12. \A f \in From : Cascaded(f) \subseteq MergeKeys
  BY <1>3, <1>7, <1>8 DEF Written
<1>13. \A f \in From : MemberKey(f) \in MergeKeys
  BY <1>12 DEF Cascaded
<1>14. ASSUME Into \in Try.found PROVE MemberKey(Into) \in MergeKeys
  <2>1. Try.tables.member[Into].st = Entering.st
    BY <1>6 DEF IsFold
  <2>2. Mine.member[Into].st # Entering.st
    BY <1>14, FoundIn
  <2>3. Mine.member[Into] # Try.tables.member[Into]
    BY <2>1, <2>2
  <2>. QED
    BY <1>3, <1>11, <2>3 DEF AgreesOff
<1>15. \A d \in Try.found : MemberKey(d) \in MergeKeys
  BY <1>13, <1>14 DEF From
<1>16. MemberKey(Into) \in Try.writes
  BY <1>2, <1>4, <1>14
<1>. QED
  BY <1>2, <1>3, <1>4, <1>6, <1>7, <1>8, <1>11, <1>12, <1>15, <1>16 DEF Merging

\* What the holder sees is what it has, but for what others have committed.
LEMMA ViewAgrees ==
    ASSUME TypeInv, holder # NoPuller, ViewsAgree
    PROVE  View \in Tables /\ AgreesOff(Mine, View, outdated[holder]) /\ AgreesOn(View, Mine, tx.touched)
           /\ AgreesOff(View, db, tx.touched)
<1>1. Mine \in Tables /\ db \in Tables /\ holder \in Puller /\ snapshot[holder] # NoView
  BY HolderType
<1>2. AgreesOff(Mine, db, outdated[holder] \cup tx.touched)
  BY <1>1 DEF ViewsAgree, Touched, Mine
<1>3. AgreesOff(Mine, Overlay(db, Mine, tx.touched), outdated[holder])
  BY <1>1, <1>2, OverlaysMeet
<1>4. AgreesOff(View, db, tx.touched) /\ AgreesOn(View, Mine, tx.touched)
  BY <1>1, OverlayOn DEF View
<1>. QED
  BY <1>1, <1>3, <1>4, OverlayType DEF View

\* The holder's tables and the view go the same way.
MergingInView ==
    /\ From \in SUBSET Stored(View) /\ Into \in Stored(View) \ From
    /\ IsFold(TryView, View, From, Into, Entering.st)
    /\ \A d \in Try.found \cup {Into} : View.member[d] = Mine.member[d]
    /\ \A b \in Body : CarriedFrom(View, From, b) = CarriedFrom(Mine, From, b)
    /\ \A b \in Body : Carries(View, From, Into, b) <=> Carries(Mine, From, Into, b)
    /\ AgreesOff(TryView, View, MergeKeys) /\ AgreesOn(TryView, Try.tables, MergeKeys)

LEMMA MergingViewIs ==
    ASSUME TypeInv, Working, ViewsAgree, ~ Races(Try.writes), Try.found # {}
    PROVE  MergingInView
<1>. DEFINE O == outdated[holder]
            K == MergeKeys
<1>1. Merging /\ holder # NoPuller
  BY MergingIs DEF Working
<1>2. /\ Mine \in Tables /\ db \in Tables /\ Try.tables \in Tables /\ View \in Tables
      /\ TryView \in Tables
  BY <1>1, HolderType, TryType, ViewAgrees, OverlayType DEF TryView
<1>3. AgreesOff(Mine, View, O) /\ AgreesOn(View, Mine, tx.touched) /\ AgreesOff(View, db, tx.touched)
  BY <1>1, ViewAgrees
<1>4. Try.writes \cap O = {}
  BY DEF Races
<1>5. K \cap O = {} /\ MemberKey(Into) \notin O
  BY <1>1, <1>4 DEF Merging
<1>6. AgreesOff(Try.tables, Mine, K) /\ Try.touched = tx.touched \cup K
  BY <1>1 DEF Merging
<1>7. AgreesOff(TryView, View, K) /\ AgreesOn(TryView, Try.tables, K)
  BY <1>2, <1>6, OverlayGrows DEF TryView, View
<1>8. FoldWrites(K, Mine, View, From, Into)
  <2>1. \A f \in From : /\ MemberKey(f) \in K /\ BanKey(f) \in K
                        /\ \A b \in Body : RoleKey(f, b) \in K
    BY <1>1 DEF Merging, Cascaded
  <2>2. ASSUME NEW r \in Row, NEW b \in Body, RoleKey(r, b) \notin K
        PROVE  View.addedBy[r][b] \notin From
    <3>1. CASE RoleKey(r, b) \in tx.touched
      <4>1. View.addedBy[r][b] = Mine.addedBy[r][b] /\ Try.tables.addedBy[r][b] = Mine.addedBy[r][b]
        BY <1>3, <1>6, <2>2, <3>1 DEF AgreesOn, AgreesOff
      <4>2. r \notin From
        BY <2>1, <2>2
      <4>3. Try.tables.addedBy[r][b] \notin From
        <5>1. IsFold(Try.tables, Mine, From, Into, Entering.st) /\ Into \notin From
          BY <1>1 DEF Merging
        <5>2. \A x : Author(From, Into, x) \notin From
          BY <5>1 DEF Author
        <5>3. CASE r # Into \/ ~ Carries(Mine, From, Into, b)
          BY <4>2, <5>1, <5>2, <5>3 DEF IsFold
        <5>4. CASE r = Into /\ Carries(Mine, From, Into, b)
          BY <5>1, <5>2, <5>4 DEF IsFold
        <5>. QED
          BY <5>3, <5>4
      <4>. QED
        BY <4>1, <4>3
    <3>2. CASE RoleKey(r, b) \notin tx.touched
      <4>1. View.addedBy[r][b] = db.addedBy[r][b]
        BY <1>3, <3>2 DEF AgreesOff
      <4>2. ASSUME NEW f \in From, db.addedBy[r][b] = f PROVE RoleKey(r, b) \in Cascaded(f)
        <5>1. <<r, b>> \in Row \X Body /\ <<r, b>>[1] = r /\ <<r, b>>[2] = b
          OBVIOUS
        <5>. QED
          BY <4>2, <5>1 DEF Cascaded
      <4>3. \A f \in From : Cascaded(f) \subseteq K
        BY <1>1 DEF Merging
      <4>. QED
        BY <2>2, <4>1, <4>2, <4>3
    <3>. QED
      BY <3>1, <3>2
  <2>3. \A b \in Body : CarriedFrom(Mine, From, b) # {} => RoleKey(Into, b) \in K
    BY DEF MergeKeys, MergeWrites, From, Into
  <2>4. Mine.banned \cap From # {} => BanKey(Into) \in K
    BY DEF MergeKeys, MergeWrites, From, Into
  <2>. QED
    BY <2>1, <2>2, <2>3, <2>4 DEF FoldWrites
<1>9. From \in SUBSET Row /\ Into \in Row \ From /\ Mine.member[Into] \in MemberRow
      /\ IsFold(Try.tables, Mine, From, Into, Entering.st)
  BY <1>1 DEF Merging
<1>10. /\ IsFold(TryView, View, From, Into, Entering.st)
       /\ \A b \in Body : Carries(View, From, Into, b) <=> Carries(Mine, From, Into, b)
       /\ \A b \in Body : CarriedFrom(View, From, b) = CarriedFrom(Mine, From, b)
  <2>. HIDE DEF O, K
  <2>1. FoldSeen(TryView, View, Mine, From, Into, Entering.st)
    BY <1>2, <1>3, <1>5, <1>6, <1>7, <1>8, <1>9, FoldOfView
  <2>. QED
    BY <2>1 DEF FoldSeen
<1>11. \A d \in Try.found \cup {Into} : View.member[d] = Mine.member[d]
  <2>1. \A d \in Try.found : MemberKey(d) \notin O /\ d \in Row
    BY <1>1, <1>5, FoundIn DEF Merging, Stored
  <2>. QED
    BY <1>3, <1>5, <1>9, <2>1 DEF AgreesOff
<1>12. From \in SUBSET Stored(View) /\ Into \in Stored(View) \ From
  BY <1>1, <1>11 DEF Merging, Stored, From
<1>. QED
  BY <1>7, <1>10, <1>11, <1>12 DEF MergingInView

\* No account's row is out of the holder's sight when an entry is stored.
LEMMA AccountInView ==
    ASSUME TypeInv, Working, ViewsAgree, ~ Races(Try.writes)
    PROVE  /\ RowOf(View, Entering.st) \subseteq RowOf(Mine, Entering.st)
           /\ \A r \in RowOf(Mine, Entering.st) : MemberKey(r) \notin outdated[holder]
<1>1. /\ AgreesOff(Mine, View, outdated[holder]) /\ AgreesOn(View, Mine, tx.touched)
      /\ AgreesOff(View, db, tx.touched)
  BY ViewAgrees DEF Working
<1>2. \A r \in RowOf(Mine, Entering.st) \cup RowOf(db, Entering.st) : MemberKey(r) \notin outdated[holder]
  BY TryIs DEF Races
<1>3. ASSUME NEW r \in RowOf(View, Entering.st) PROVE r \in RowOf(Mine, Entering.st)
  <2>1. r \in Row /\ View.member[r] # NoMember /\ View.member[r].st = Entering.st
    BY DEF RowOf, Stored
  <2>2. CASE MemberKey(r) \in tx.touched \/ MemberKey(r) \notin outdated[holder]
    <3>1. View.member[r] = Mine.member[r]
      BY <1>1, <2>1, <2>2 DEF AgreesOn, AgreesOff
    <3>. QED
      BY <2>1, <3>1 DEF RowOf, Stored
  <2>3. CASE MemberKey(r) \notin tx.touched /\ MemberKey(r) \in outdated[holder]
    <3>1. View.member[r] = db.member[r]
      BY <1>1, <2>1, <2>3 DEF AgreesOff
    <3>2. r \in RowOf(db, Entering.st)
      BY <2>1, <3>1 DEF RowOf, Stored
    <3>. QED
      BY <1>2, <2>3, <3>2
  <2>. QED
    BY <2>2, <2>3
<1>. QED
  BY <1>2, <1>3

-----------------------------------------------------------------------------
(* Storing an entry, in the holder's tables and as the indexes see it.      *)

LEMMA PlacedByKey ==
    ASSUME NEW t \in Tables, NEW u \in Tables, NEW r \in Row, NEW e,
           AgreesOff(u, t, {MemberKey(r)}), u.member[r] = AsRow(e)
    PROVE  IsPlaced(u, t, r, e)
<1>1. \A s \in Row : s # r => u.member[s] = t.member[s]
  BY KeyDistinct DEF AgreesOff
<1>2. \A s \in Row : s \in u.banned <=> s \in t.banned
  BY KeyDistinct DEF AgreesOff
<1>3. \A s \in Row, b \in Body : u.role[s][b] = t.role[s][b] /\ u.addedBy[s][b] = t.addedBy[s][b]
  <2>1. \A s, b : RoleKey(s, b) \notin {MemberKey(r)}
    BY KeyDistinct
  <2>. QED
    BY <2>1 DEF AgreesOff
<1>4. u.banned = t.banned
  BY <1>2 DEF Tables
<1>5. u.role = t.role
  <2>1. \A s \in Row : u.role[s] = t.role[s]
    BY <1>3 DEF Tables
  <2>. QED
    BY <2>1 DEF Tables
<1>6. u.addedBy = t.addedBy
  <2>1. \A s \in Row : u.addedBy[s] = t.addedBy[s]
    BY <1>3 DEF Tables
  <2>. QED
    BY <2>1 DEF Tables
<1>. QED
  BY <1>1, <1>4, <1>5, <1>6 DEF IsPlaced

LEMMA PlacedKey ==
    ASSUME NEW t, NEW u, NEW r, NEW e, IsPlaced(u, t, r, e)
    PROVE  AgreesOff(u, t, {MemberKey(r)})
BY DEF IsPlaced, AgreesOff

\* The entry's account has one row at most, and none that the holder does not see.
LEMMA OneAccount ==
    ASSUME SafeInv, Working, ~ Races(Try.writes), NEW r \in Row, StoredOn(r)
    PROVE  /\ \A s \in Stored(TryView) : TryView.member[s].st = Entering.st => s = r
           /\ \A s \in Stored(Try.tables) : Try.tables.member[s].st = Entering.st => s = r
           /\ Try.found # {} => r = Into
           /\ MemberKey(r) \notin outdated[holder]
<1>. USE DEF Working
<1>1. TypeInv /\ ViewsAgree /\ DistinctAccounts(Mine)
  <2>1. TypeInv /\ ViewsAgree /\ holder # NoPuller
    BY DEF SafeInv
  <2>2. holder \in Puller /\ snapshot[holder] # NoView
    BY <2>1, HolderType
  <2>. QED
    BY <2>1, <2>2 DEF ViewsAgree, Mine
<1>2. \A s, x \in RowOf(Mine, Entering.st) : s = x
  BY <1>1 DEF DistinctAccounts, RowOf
<1>3. /\ RowOf(View, Entering.st) \subseteq RowOf(Mine, Entering.st)
      /\ \A s \in RowOf(Mine, Entering.st) : MemberKey(s) \notin outdated[holder]
  BY <1>1, AccountInView
<1>4. CASE Try.found = {}
  <2>1. Try.tables = Mine /\ Try.touched = tx.touched /\ TryView = View
    BY <1>1, <1>4, TryIs DEF TryView, View
  <2>2. CASE r \in RowOf(Mine, Entering.st)
    BY <1>2, <1>3, <1>4, <2>1, <2>2 DEF RowOf
  <2>3. CASE RowOf(Mine, Entering.st) = {} /\ MemberKey(r) \notin outdated[holder]
    BY <1>3, <1>4, <2>1, <2>3 DEF RowOf
  <2>. QED
    BY <2>1, <2>2, <2>3 DEF StoredOn
<1>5. CASE Try.found # {}
  <2>1. Merging /\ MergingInView
    BY <1>1, <1>5, MergingIs, MergingViewIs
  <2>2. /\ Into \in Stored(Mine) \ From
        /\ IsFold(Try.tables, Mine, From, Into, Entering.st)
        /\ Stored(Try.tables) = Stored(Mine) \ From
        /\ \/ Into \in RowOf(Mine, Entering.st)
           \/ Into \in Try.found /\ RowOf(Mine, Entering.st) = {}
        /\ MemberKey(Into) \in Try.writes
    BY <2>1 DEF Merging
  <2>3. /\ From \in SUBSET Stored(View) /\ Into \in Stored(View) \ From
        /\ IsFold(TryView, View, From, Into, Entering.st)
    BY <2>1 DEF MergingInView
  <2>4. ASSUME NEW s \in Stored(Try.tables), Try.tables.member[s].st = Entering.st PROVE s = Into
    <3>1. s \in Row /\ s \notin From /\ s \in Stored(Mine)
      BY <2>2 DEF Stored
    <3>2. s # Into => Try.tables.member[s] = Mine.member[s]
      BY <2>2, <3>1 DEF IsFold
    <3>3. s # Into => s \in RowOf(Mine, Entering.st)
      BY <2>4, <3>1, <3>2 DEF RowOf
    <3>. QED
      BY <1>2, <2>2, <3>3
  <2>5. ASSUME NEW s \in Stored(TryView), TryView.member[s].st = Entering.st PROVE s = Into
    <3>1. Stored(TryView) = Stored(View) \ From
      BY <1>1, <2>3, FoldStored, ViewAgrees, EntryType
    <3>2. s \in Row /\ s \notin From /\ s \in Stored(View)
      BY <3>1 DEF Stored
    <3>3. s # Into => TryView.member[s] = View.member[s]
      BY <2>3, <3>2 DEF IsFold
    <3>4. s # Into => s \in RowOf(View, Entering.st)
      BY <2>5, <3>2, <3>3 DEF RowOf
    <3>. QED
      BY <1>2, <1>3, <2>2, <3>4
  <2>6. Into \in RowOf(Try.tables, Entering.st)
    BY <2>2 DEF RowOf, IsFold
  <2>7. r = Into
    BY <2>4, <2>6 DEF StoredOn, RowOf
  <2>8. MemberKey(Into) \notin outdated[holder]
    BY <2>2 DEF Races
  <2>. QED
    BY <2>4, <2>5, <2>7, <2>8
<1>. QED
  BY <1>4, <1>5

\* Everything that is known of the step that stores an entry on row r.
StoreFacts(r) ==
    /\ r \in Row /\ Working /\ Keeps /\ StoredOn(r) /\ ~ Races(Try.writes)
    /\ Entering \in Entry /\ tx.next \in DOMAIN Roster
    /\ Mine \in Tables /\ Mine' \in Tables /\ Try.tables \in Tables /\ TryView \in Tables
    /\ View \in Tables /\ View' \in Tables
    /\ IsPlaced(Mine', Try.tables, r, Entering) /\ IsPlaced(View', TryView, r, Entering)
    /\ Holding(TryView, Entering) = {}
    /\ \A s \in Stored(TryView) : TryView.member[s].st = Entering.st => s = r
    /\ \A s \in Stored(Try.tables) : Try.tables.member[s].st = Entering.st => s = r
    /\ MemberKey(r) \notin outdated[holder]
    /\ Try.found # {} => r = Into /\ Merging /\ MergingInView
    /\ Try.found = {} => Try.tables = Mine /\ TryView = View /\ Try.touched = tx.touched
    /\ Roster' = Roster

LEMMA StoreFactsHold ==
    ASSUME SafeInv, StoreMember
    PROVE  \E r \in Row : StoreFacts(r)
<1>1. TypeInv /\ ViewsAgree
  BY DEF SafeInv
<1>2. /\ Working /\ Keeps /\ ~ Races(Try.writes) /\ ~ Blocked(Try.tables, Try.touched, Entering)
      /\ holder # NoPuller
  BY <1>1, StoreIs DEF Working
<1>3. PICK r \in Row : StoredOn(r)
  BY <1>1, StoreIs
<1>4. /\ Entering \in Entry /\ tx.next \in DOMAIN Roster
      /\ Mine \in Tables /\ db \in Tables /\ Try.tables \in Tables /\ TryView \in Tables /\ View \in Tables
  BY <1>1, <1>2, EntryType, HolderType, TryType, OverlayType, ViewAgrees DEF TryView
<1>5. Mine' = snapshot'[holder] /\ Roster' = Roster /\ db' = db
  BY <1>2 DEF Mine, Roster, Keeps
<1>6. Mine' \in Tables /\ IsPlaced(Mine', Try.tables, r, Entering)
  BY <1>2, <1>3, <1>5 DEF Keeps, StoredOn
<1>7. View' = Overlay(db, Mine', Try.touched \cup {MemberKey(r)})
  BY <1>3, <1>5 DEF View, StoredOn
<1>8. AgreesOff(Mine', Try.tables, {MemberKey(r)})
  BY <1>6, PlacedKey
<1>9. View' \in Tables
  BY <1>4, <1>6, <1>7, OverlayType
<1>10. AgreesOff(View', TryView, {MemberKey(r)}) /\ AgreesOn(View', Mine', {MemberKey(r)})
  BY <1>4, <1>6, <1>7, <1>8, OverlayGrows DEF TryView
<1>11. View'.member[r] = AsRow(Entering)
  BY <1>6, <1>10 DEF AgreesOn, IsPlaced
<1>12. IsPlaced(View', TryView, r, Entering)
  BY <1>4, <1>9, <1>10, <1>11, PlacedByKey
<1>13. Holding(TryView, Entering) = {}
  BY <1>2 DEF Blocked, TryView
<1>14. /\ \A s \in Stored(TryView) : TryView.member[s].st = Entering.st => s = r
       /\ \A s \in Stored(Try.tables) : Try.tables.member[s].st = Entering.st => s = r
       /\ Try.found # {} => r = Into
       /\ MemberKey(r) \notin outdated[holder]
  BY <1>2, <1>3, OneAccount
<1>15. Try.found # {} => Merging /\ MergingInView
  BY <1>1, <1>2, MergingIs, MergingViewIs
<1>16. Try.found = {} => Try.tables = Mine /\ TryView = View /\ Try.touched = tx.touched
  BY <1>1, <1>2, TryIs DEF TryView, View
<1>. QED
  BY <1>2, <1>3, <1>4, <1>5, <1>6, <1>9, <1>12, <1>13, <1>14, <1>15, <1>16 DEF StoreFacts

-----------------------------------------------------------------------------
(* Storing an entry keeps the constraints.                                  *)

LEMMA StoreViewHolds ==
    ASSUME SafeInv, NEW r \in Row, StoreFacts(r)
    PROVE  ViewHolds'
<1>1. /\ holder # NoPuller /\ holder' = holder /\ outdated' = outdated
      /\ Entering \in Entry /\ Entering.st \in StId
      /\ View \in Tables /\ TryView \in Tables
      /\ IsPlaced(View', TryView, r, Entering) /\ Holding(TryView, Entering) = {}
      /\ \A s \in Stored(TryView) : TryView.member[s].st = Entering.st => s = r
      /\ tx'.touched = Try.touched \cup {MemberKey(r)} /\ MemberKey(r) \notin outdated[holder]
  BY DEF StoreFacts, Keeps, StoredOn, Entry
<1>2. tx.touched \cap outdated[holder] = {} /\ DistinctMembers(View) /\ References(View)
  BY <1>1 DEF SafeInv, ViewHolds
<1>3. Try.touched \cap outdated[holder] = {} /\ DistinctMembers(TryView) /\ References(TryView)
  <2>1. CASE Try.found = {}
    BY <1>2, <2>1 DEF StoreFacts
  <2>2. CASE Try.found # {}
    <3>1. /\ From \in SUBSET Stored(View) /\ Into \in Stored(View) \ From
          /\ IsFold(TryView, View, From, Into, Entering.st)
      BY <2>2 DEF StoreFacts, MergingInView
    <3>2. Stored(TryView) = Stored(View) \ From
      BY <1>1, <3>1, FoldStored
    <3>3. \A s \in Stored(View) \ From : s # Into => View.member[s].st # Entering.st
      <4>. SUFFICES ASSUME NEW s \in Stored(View) \ From, s # Into PROVE View.member[s].st # Entering.st
        OBVIOUS
      <4>1. s \in Row /\ r = Into
        BY <2>2 DEF StoreFacts, Stored
      <4>2. TryView.member[s] = View.member[s]
        BY <3>1, <4>1 DEF IsFold
      <4>. QED
        BY <1>1, <3>2, <4>1, <4>2
    <3>4. DistinctMembers(TryView)
      BY <1>1, <1>2, <3>1, <3>3, FoldDistinct
    <3>5. References(TryView)
      BY <1>1, <1>2, <3>1, FoldReferences
    <3>6. Try.touched = tx.touched \cup MergeKeys /\ MergeKeys \subseteq Try.writes
          /\ Try.writes \cap outdated[holder] = {}
      BY <2>2 DEF StoreFacts, Merging, Races
    <3>. QED
      BY <1>2, <3>4, <3>5, <3>6
  <2>. QED
    BY <2>1, <2>2
<1>4. DistinctMembers(View')
  BY <1>1, <1>3, PlacedDistinct
<1>5. References(View')
  BY <1>1, <1>3, PlacedReferences
<1>6. DistinctMembers(View)' /\ References(View)'
  BY <1>4, <1>5 DEF DistinctMembers, References, Stored
<1>7. tx'.touched \cap outdated'[holder'] = {}
  BY <1>1, <1>3
<1>. QED
  BY <1>6, <1>7 DEF ViewHolds

\* What a row of the holder's tables becomes.
LEMMA StoreRows ==
    ASSUME SafeInv, NEW r \in Row, StoreFacts(r)
    PROVE  /\ Mine'.member[r] = AsRow(Entering)
           /\ Stored(Mine') = Stored(Try.tables) \cup {r} /\ Stored(Try.tables) \subseteq Stored(Mine)
           /\ \A s \in Stored(Try.tables) : s # r => Mine'.member[s] = Mine.member[s]
           /\ \A s \in Stored(Mine) \ Stored(Try.tables) :
                 /\ Try.found # {} /\ s \in From
                 /\ MemberKey(s) \in MergeKeys /\ Mine.member[s].st \notin RosterIds(Roster)
           /\ \A s \in Stored(Mine) \ Stored(Try.tables) : s # r
<1>1. /\ IsPlaced(Mine', Try.tables, r, Entering) /\ Entering \in Entry
      /\ Mine \in Tables /\ Try.tables \in Tables
      /\ Try.found = {} => Try.tables = Mine
      /\ Try.found # {} => r = Into /\ Merging
  BY DEF StoreFacts
<1>2. Stored(Mine') = Stored(Try.tables) \cup {r} /\ Mine'.member[r] = AsRow(Entering)
  BY <1>1, PlacedStored DEF IsPlaced
<1>3. \A s \in Row : s # r => Mine'.member[s] = Try.tables.member[s]
  BY <1>1 DEF IsPlaced
<1>4. CASE Try.found = {}
  BY <1>1, <1>2, <1>3, <1>4 DEF Stored
<1>5. CASE Try.found # {}
  <2>1. /\ IsFold(Try.tables, Mine, From, Into, Entering.st) /\ r = Into
        /\ Stored(Try.tables) = Stored(Mine) \ From /\ Into \notin From
        /\ \A d \in Try.found : MemberKey(d) \in MergeKeys
    BY <1>1, <1>5 DEF Merging
  <2>2. \A s \in Stored(Try.tables) : s # r => Mine'.member[s] = Mine.member[s]
    BY <1>3, <2>1 DEF IsFold, Stored
  <2>3. \A d \in Try.found : Mine.member[d].st \notin RosterIds(Roster)
    BY FoundIn DEF StoreFacts, SafeInv
  <2>. QED
    BY <1>2, <1>5, <2>1, <2>2, <2>3 DEF From
<1>. QED
  BY <1>4, <1>5

LEMMA StorePresent ==
    ASSUME SafeInv, NEW r \in Row, StoreFacts(r)
    PROVE  Present'
<1>1. /\ holder # NoPuller /\ Roster' = Roster /\ Entering \in Entry
      /\ tx'.pairs = tx.pairs \cup {<<r, b>> : b \in Entering.leads}
      /\ tx'.present = tx.present \cup {r}
      /\ tx'.touched = Try.touched \cup {MemberKey(r)}
  BY DEF StoreFacts, Keeps, StoredOn
<1>2. /\ \A s \in tx.present : /\ MemberKey(s) \in tx.touched /\ s \in Stored(Mine)
                               /\ Mine.member[s].st \in RosterIds(Roster)
      /\ tx.pairs \subseteq tx.present \X Body
  BY <1>1 DEF SafeInv, Present
<1>3. tx.touched \subseteq Try.touched
  <2>1. CASE Try.found = {}
    BY <2>1 DEF StoreFacts
  <2>2. CASE Try.found # {}
    BY <2>2 DEF StoreFacts, Merging
  <2>. QED
    BY <2>1, <2>2
<1>4. /\ Mine'.member[r] = AsRow(Entering) /\ r \in Stored(Mine')
      /\ \A s \in tx.present : s # r => s \in Stored(Mine') /\ Mine'.member[s] = Mine.member[s]
  BY <1>2, StoreRows
<1>5. AsRow(Entering).st = Entering.st /\ Entering.st \in RosterIds(Roster)
  BY <1>1, AsRowType DEF StoreFacts, RosterIds, Entering
<1>6. \A s \in tx'.present : /\ MemberKey(s) \in tx'.touched /\ s \in Stored(Mine')
                             /\ Mine'.member[s].st \in RosterIds(Roster)
  BY <1>1, <1>2, <1>3, <1>4, <1>5
<1>7. tx'.pairs \subseteq tx'.present \X Body
  BY <1>1, <1>2 DEF Entry
<1>. QED
  BY <1>1, <1>6, <1>7 DEF Present, Stored

LEMMA StoreViewsAgree ==
    ASSUME SafeInv, NEW r \in Row, StoreFacts(r)
    PROVE  ViewsAgree'
<1>1. /\ holder # NoPuller /\ holder \in Puller /\ holder' = holder /\ outdated' = outdated
      /\ db' = db /\ Mine' = snapshot'[holder]
      /\ \A p \in Puller : p # holder => snapshot'[p] = snapshot[p]
      /\ Entering \in Entry /\ Entering.st \in StId
      /\ Mine \in Tables /\ Try.tables \in Tables /\ Mine' \in Tables
      /\ IsPlaced(Mine', Try.tables, r, Entering)
      /\ \A s \in Stored(Try.tables) : Try.tables.member[s].st = Entering.st => s = r
      /\ tx'.touched = Try.touched \cup {MemberKey(r)}
  BY DEF StoreFacts, Keeps, StoredOn, Entry, Mine
<1>2. snapshot[holder] # NoView
  BY <1>1, HolderType DEF SafeInv
<1>3. /\ AgreesOff(Mine, db, outdated[holder] \cup tx.touched)
      /\ LeadersAgree(Mine, db, outdated[holder], tx.touched)
      /\ DistinctAccounts(Mine) /\ References(Mine)
  BY <1>1, <1>2 DEF SafeInv, ViewsAgree, Mine, Touched
<1>. DEFINE K == IF Try.found = {} THEN {} ELSE MergeKeys
<1>4. /\ AgreesOff(Try.tables, Mine, K) /\ Try.touched = tx.touched \cup K
  <2>1. CASE Try.found = {}
    BY <2>1 DEF StoreFacts, AgreesOff
  <2>2. CASE Try.found # {}
    BY <2>2 DEF StoreFacts, Merging
  <2>. QED
    BY <2>1, <2>2
<1>5. DistinctAccounts(Try.tables) /\ References(Try.tables)
  <2>1. CASE Try.found = {}
    BY <1>3, <2>1 DEF StoreFacts
  <2>2. CASE Try.found # {}
    <3>1. /\ From \in SUBSET Stored(Mine) /\ Into \in Stored(Mine) \ From
          /\ IsFold(Try.tables, Mine, From, Into, Entering.st) /\ r = Into
          /\ Stored(Try.tables) = Stored(Mine) \ From
      BY <2>2 DEF StoreFacts, Merging
    <3>2. \A s \in Stored(Mine) \ From : s # Into => Mine.member[s].st # Entering.st
      <4>. SUFFICES ASSUME NEW s \in Stored(Mine) \ From, s # Into PROVE Mine.member[s].st # Entering.st
        OBVIOUS
      <4>1. Try.tables.member[s] = Mine.member[s]
        BY <3>1 DEF IsFold, Stored
      <4>. QED
        BY <1>1, <3>1, <4>1
    <3>. QED
      BY <1>1, <1>3, <3>1, <3>2, FoldDistinct, FoldReferences
  <2>. QED
    BY <2>1, <2>2
<1>6. DistinctAccounts(Mine') /\ References(Mine')
  BY <1>1, <1>5, PlacedDistinct, PlacedReferences
<1>7. AgreesOff(Mine', db, outdated[holder] \cup tx'.touched)
  <2>. HIDE DEF K
  <2>1. AgreesOff(Mine', Try.tables, {MemberKey(r)})
    BY <1>1, PlacedKey
  <2>2. AgreesOff(Mine', Mine, {MemberKey(r)} \cup K)
    BY <1>4, <2>1, AgreesChain
  <2>3. AgreesOff(Mine', db, ({MemberKey(r)} \cup K) \cup (outdated[holder] \cup tx.touched))
    BY <1>3, <2>2, AgreesChain
  <2>4. ({MemberKey(r)} \cup K) \cup (outdated[holder] \cup tx.touched) \subseteq outdated[holder] \cup tx'.touched
    BY <1>1, <1>4
  <2>. QED
    BY <2>3, <2>4, AgreesMore
<1>8. LeadersAgree(Mine', db, outdated[holder], tx'.touched)
  <2>. SUFFICES ASSUME NEW s \in Row, NEW b \in Body,
                       MemberKey(s) \notin outdated[holder] \/ RoleKey(s, b) \notin outdated[holder],
                       s \in Stored(Mine') \/ MemberKey(s) \notin tx'.touched
                PROVE  Mine'.role[s][b] = "leader" <=> db.role[s][b] = "leader"
    BY DEF LeadersAgree
  <2>1. Mine'.role[s][b] = Try.tables.role[s][b]
    BY <1>1 DEF IsPlaced
  <2>2. Try.found # {} => s \notin From
    <3>. SUFFICES ASSUME Try.found # {}, s \in From PROVE FALSE
      OBVIOUS
    <3>1. MemberKey(s) \in tx'.touched /\ s # r /\ s \notin Stored(Try.tables)
      BY <1>1 DEF StoreFacts, Merging, From
    <3>. QED
      BY <3>1, StoreRows
  <2>3. Try.tables.role[s][b] = "leader" <=> Mine.role[s][b] = "leader"
    <3>1. CASE Try.found = {}
      BY <3>1 DEF StoreFacts
    <3>2. CASE Try.found # {}
      <4>1. IsFold(Try.tables, Mine, From, Into, Entering.st)
        BY <3>2 DEF StoreFacts, Merging
      <4>. QED
        BY <2>2, <3>2, <4>1 DEF IsFold
    <3>. QED
      BY <3>1, <3>2
  <2>4. CASE s \in Stored(Mine) \/ MemberKey(s) \notin tx.touched
    BY <1>3, <2>1, <2>3, <2>4 DEF LeadersAgree
  <2>5. CASE s \notin Stored(Mine) /\ MemberKey(s) \in tx.touched
    <3>1. s = r /\ s \notin Stored(Try.tables)
      BY <1>1, <1>4, <2>5, StoreRows
    <3>2. s \notin Stored(db)
      BY <3>1 DEF StoreFacts, StoredOn, RowOf
    <3>3. References(db)
      BY DEF SafeInv, ConstraintsHold
    <3>4. Mine.role[s][b] = "none" /\ db.role[s][b] = "none"
      BY <1>3, <2>5, <3>2, <3>3 DEF References
    <3>. QED
      BY <2>1, <2>3, <3>4
  <2>. QED
    BY <2>4, <2>5
<1>9. ASSUME NEW p \in Puller, p # holder, snapshot[p] # NoView
      PROVE  /\ AgreesOff(snapshot[p], db, outdated[p]) /\ LeadersAgree(snapshot[p], db, outdated[p], {})
             /\ DistinctAccounts(snapshot[p]) /\ References(snapshot[p])
  BY <1>9 DEF SafeInv, ViewsAgree, Touched
<1>. QED
  BY <1>1, <1>6, <1>7, <1>8, <1>9 DEF ViewsAgree, Touched, DistinctAccounts, References, Stored, AgreesOff, LeadersAgree

LEMMA StoreSafe ==
    ASSUME SafeInv, StoreMember
    PROVE  SafeInv'
<1>1. PICK r \in Row : StoreFacts(r)
  BY StoreFactsHold
<1>2. ViewsAgree' /\ ViewHolds' /\ Present'
  BY <1>1, StoreViewsAgree, StoreViewHolds, StorePresent
<1>3. TypeInv' /\ db' = db
  BY <1>1, KeepsType DEF SafeInv, StoreFacts, Keeps
<1>4. ConstraintsHold'
  BY <1>3 DEF SafeInv, ConstraintsHold, DistinctMembers, References, Stored
<1>. QED
  BY <1>2, <1>3, <1>4 DEF SafeInv

-----------------------------------------------------------------------------
(* The other steps keep the constraints.                                    *)

LEMMA SkipSafe ==
    ASSUME SafeInv, SkipMember
    PROVE  SafeInv' /\ View' = View /\ Mine' = Mine /\ Roster' = Roster
<1>1. /\ Working /\ Keeps /\ snapshot'[holder] = snapshot[holder]
      /\ tx'.pairs = tx.pairs /\ tx'.present = tx.present /\ tx'.touched = tx.touched
  BY SkipIs DEF SafeInv
<1>2. snapshot' = snapshot
  BY <1>1 DEF SafeInv, TypeInv, TypeOK, Keeps
<1>3. /\ db' = db /\ holder' = holder /\ outdated' = outdated /\ Mine' = Mine /\ Roster' = Roster
      /\ TypeInv'
  BY <1>1, <1>2, KeepsType DEF Keeps, Mine, Roster, SafeInv
<1>4. View' = View
  BY <1>1, <1>3 DEF View
<1>5. ConstraintsHold'
  BY <1>3 DEF SafeInv, ConstraintsHold, DistinctMembers, References, Stored
<1>6. ViewsAgree'
  <2>1. \A p : Touched(p)' = Touched(p)
    BY <1>1, <1>3 DEF Touched
  <2>. QED
    BY <1>2, <1>3, <2>1 DEF SafeInv, ViewsAgree, AgreesOff, LeadersAgree, DistinctAccounts, References, Stored
<1>7. ViewHolds'
  BY <1>1, <1>3, <1>4 DEF SafeInv, ViewHolds, DistinctMembers, References, Stored
<1>8. Present'
  BY <1>1, <1>3 DEF SafeInv, Present, Stored
<1>. QED
  BY <1>3, <1>4, <1>5, <1>6, <1>7, <1>8 DEF SafeInv

\* Steps before the lock is taken.
LEMMA StartSafe ==
    ASSUME SafeInv, NEW p \in Puller, StartPull(p)
    PROVE  SafeInv' /\ (holder # NoPuller => Roster' = Roster /\ View' = View /\ Mine' = Mine)
<1>1. /\ UNCHANGED <<db, snapshot, outdated, queue, holder, tx>> /\ pull[p] = NoPull
      /\ \A q \in Puller : q # p => pull'[q] = pull[q]
  BY DEF StartPull, SafeInv, TypeInv, TypeOK
<1>2. TypeInv'
  BY StartType DEF SafeInv
<1>3. holder # NoPuller => Roster' = Roster
  BY <1>1, HolderType DEF Roster, SafeInv
<1>4. View' = View /\ Mine' = Mine
  BY <1>1 DEF View, Mine
<1>5. ConstraintsHold' /\ ViewHolds'
  BY <1>1, <1>4 DEF SafeInv, ConstraintsHold, ViewHolds, DistinctMembers, References, Stored
<1>6. ViewsAgree'
  BY <1>1 DEF SafeInv, ViewsAgree, AgreesOff, LeadersAgree, DistinctAccounts, References, Stored, Touched
<1>7. Present'
  BY <1>1, <1>3, <1>4 DEF SafeInv, Present, Stored
<1>. QED
  BY <1>2, <1>3, <1>4, <1>5, <1>6, <1>7 DEF SafeInv

LEMMA AskSafe ==
    ASSUME SafeInv, NEW p \in Puller, AskForLock(p)
    PROVE  SafeInv' /\ (holder # NoPuller => Roster' = Roster /\ View' = View /\ Mine' = Mine)
<1>1. /\ UNCHANGED <<db, pull, outdated, holder, tx>> /\ snapshot[p] = NoView
      /\ snapshot'[p] = db /\ \A q \in Puller : q # p => snapshot'[q] = snapshot[q]
  BY DEF AskForLock, SafeInv, TypeInv, TypeOK
<1>2. TypeInv'
  BY AskType DEF SafeInv
<1>3. holder # NoPuller => holder \in Puller /\ holder # p
  BY <1>1, HolderType DEF SafeInv
<1>4. holder # NoPuller => Roster' = Roster /\ View' = View /\ Mine' = Mine
  BY <1>1, <1>3 DEF View, Mine, Roster
<1>5. DistinctMembers(db) /\ References(db)
  BY DEF SafeInv, ConstraintsHold
<1>6. ConstraintsHold'
  BY <1>1, <1>5 DEF ConstraintsHold, DistinctMembers, References, Stored
<1>7. ViewHolds'
  BY <1>1, <1>4 DEF SafeInv, ViewHolds, DistinctMembers, References, Stored
<1>8. Present'
  BY <1>1, <1>4 DEF SafeInv, Present, Stored
<1>9. ViewsAgree'
  <2>1. DistinctAccounts(db)
    BY <1>5 DEF DistinctAccounts, DistinctMembers
  <2>2. \A K, L : AgreesOff(db, db, K) /\ LeadersAgree(db, db, K, L)
    BY DEF AgreesOff, LeadersAgree
  <2>3. ASSUME NEW q \in Puller, snapshot'[q] # NoView
        PROVE  /\ AgreesOff(snapshot'[q], db, outdated[q] \cup Touched(q))
               /\ LeadersAgree(snapshot'[q], db, outdated[q], Touched(q))
               /\ DistinctAccounts(snapshot'[q]) /\ References(snapshot'[q])
    <3>1. CASE q = p
      BY <1>1, <1>5, <2>1, <2>2, <3>1
    <3>2. CASE q # p
      BY <1>1, <2>3, <3>2 DEF SafeInv, ViewsAgree
    <3>. QED
      BY <3>1, <3>2
  <2>4. \A q : Touched(q)' = Touched(q)
    BY <1>1 DEF Touched
  <2>. QED
    BY <1>1, <2>3, <2>4 DEF ViewsAgree, AgreesOff, LeadersAgree, DistinctAccounts, References, Stored
<1>. QED
  BY <1>2, <1>4, <1>6, <1>7, <1>8, <1>9 DEF SafeInv

\* Before a pull writes anything, the indexes see the committed tables.
LEMMA TakeSafe ==
    ASSUME SafeInv, TakeLock
    PROVE  /\ SafeInv' /\ View' = db /\ db' = db /\ outdated' = outdated
           /\ Mine' = snapshot[holder'] /\ Roster' = pull[holder'].roster
           /\ tx' = [Locals EXCEPT !.fuse = LapseFuseTrips(Mine', Roster')]
<1>1. /\ holder = NoPuller /\ UNCHANGED <<db, pull, snapshot, outdated>>
      /\ holder' \in Puller /\ holder' # NoPuller
      /\ snapshot[holder'] \in Tables
      /\ tx' = [Locals EXCEPT !.fuse = LapseFuseTrips(snapshot[holder'], pull[holder'].roster)]
  BY TakenBy DEF TakeLock, SafeInv
<1>2. Mine' = snapshot[holder'] /\ Roster' = pull[holder'].roster
  BY <1>1 DEF Mine, Roster
<1>3. tx'.touched = {} /\ tx'.present = {} /\ tx'.pairs = {}
  BY <1>1 DEF Locals
<1>4. TypeInv' /\ db \in Tables
  BY TakeType DEF SafeInv, TypeInv, TypeOK
<1>5. View' = db
  <2>1. View' = Overlay(db, snapshot[holder'], {})
    BY <1>1, <1>2, <1>3 DEF View
  <2>2. AgreesOff(Overlay(db, snapshot[holder'], {}), db, {})
    BY <1>1, <1>4, OverlayOn
  <2>3. Overlay(db, snapshot[holder'], {}) \in Tables
    BY <1>1, <1>4, OverlayType
  <2>. QED
    BY <1>4, <2>1, <2>2, <2>3, SameTables
<1>6. ConstraintsHold'
  BY <1>1 DEF SafeInv, ConstraintsHold, DistinctMembers, References, Stored
<1>7. ViewHolds'
  BY <1>3, <1>5 DEF SafeInv, ConstraintsHold, ViewHolds, DistinctMembers, References, Stored
<1>8. ViewsAgree'
  <2>1. \A q \in Puller : Touched(q)' = {} /\ Touched(q) = {}
    <3>1. NoPuller \notin Puller
      BY RosterAssumption
    <3>. QED
      BY <1>1, <1>3, <3>1 DEF Touched
  <2>. QED
    BY <1>1, <2>1 DEF SafeInv, ViewsAgree, AgreesOff, LeadersAgree, DistinctAccounts, References, Stored
<1>9. Present'
  BY <1>3 DEF Present
<1>. QED
  BY <1>1, <1>2, <1>4, <1>5, <1>6, <1>7, <1>8, <1>9 DEF SafeInv

\* The rest of the callers after one of them is out.
LEMMA OthersAgree ==
    ASSUME SafeInv, db' = db, holder' = NoPuller \/ (holder' = holder /\ tx' = tx),
           NEW p \in Puller, snapshot'[p] = NoView,
           holder' = NoPuller => holder \in {p, NoPuller},
           \A q \in Puller : q # p => snapshot'[q] = snapshot[q] /\ outdated'[q] = outdated[q]
    PROVE  ViewsAgree' /\ ConstraintsHold'
<1>1. ConstraintsHold'
  BY DEF SafeInv, ConstraintsHold, DistinctMembers, References, Stored
<1>2. ASSUME NEW q \in Puller, snapshot'[q] # NoView
      PROVE  /\ q # p /\ Touched(q)' = Touched(q) /\ snapshot'[q] = snapshot[q] /\ outdated'[q] = outdated[q]
  BY <1>2, RosterAssumption DEF Touched
<1>3. ViewsAgree'
  BY <1>2 DEF SafeInv, ViewsAgree, AgreesOff, LeadersAgree, DistinctAccounts, References, Stored
<1>. QED
  BY <1>1, <1>3

LEMMA EndedSafe ==
    ASSUME SafeInv, RaiseRepeatedRow \/ LoseRace
    PROVE  SafeInv' /\ db' = db /\ holder' = NoPuller
<1>1. /\ Over /\ db' = db /\ TypeInv'
      /\ \A p \in Puller : p # holder => outdated'[p] = outdated[p]
  <2>1. TypeInv
    BY DEF SafeInv
  <2>. QED
    BY <2>1, EndedIs, TypeStep DEF Next, PullStep
<1>2. /\ holder \in Puller /\ holder' = NoPuller /\ snapshot'[holder] = NoView
      /\ \A q \in Puller : q # holder => snapshot'[q] = snapshot[q]
  BY <1>1, HolderType DEF SafeInv, Over, TypeInv, TypeOK
<1>3. ViewsAgree' /\ ConstraintsHold'
  BY <1>1, <1>2, OthersAgree
<1>4. ViewHolds' /\ Present'
  BY <1>2 DEF ViewHolds, Present
<1>. QED
  BY <1>1, <1>2, <1>3, <1>4 DEF SafeInv

LEMMA CrashSafe ==
    ASSUME SafeInv, NEW p \in Puller, Crash(p)
    PROVE  /\ SafeInv' /\ db' = db
           /\ holder' # NoPuller => /\ holder' = holder /\ tx' = tx /\ Roster' = Roster
                                    /\ View' = View /\ Mine' = Mine
                                    /\ outdated'[holder] = outdated[holder]
                                    /\ pull'[holder] = pull[holder]
<1>1. /\ TypeInv' /\ db' = db
      /\ \A q \in Puller : q # p => /\ snapshot'[q] = snapshot[q] /\ outdated'[q] = outdated[q]
                                    /\ pull'[q] = pull[q]
      /\ snapshot'[p] = NoView
      /\ holder' # NoPuller => holder' = holder /\ tx' = tx /\ p # holder
      /\ holder' = NoPuller => holder \in {p, NoPuller}
  BY CrashIs DEF SafeInv, Crash, Released
<1>2. ViewsAgree' /\ ConstraintsHold'
  BY <1>1, OthersAgree
<1>3. holder' # NoPuller => /\ holder' = holder /\ tx' = tx /\ Roster' = Roster
                            /\ View' = View /\ Mine' = Mine /\ outdated'[holder] = outdated[holder]
                            /\ pull'[holder] = pull[holder]
  <2>. SUFFICES ASSUME holder' # NoPuller
                PROVE  /\ holder' = holder /\ tx' = tx /\ Roster' = Roster
                       /\ View' = View /\ Mine' = Mine /\ outdated'[holder] = outdated[holder]
                       /\ pull'[holder] = pull[holder]
    OBVIOUS
  <2>1. holder' = holder /\ tx' = tx /\ p # holder /\ holder \in Puller
    BY <1>1, HolderType DEF SafeInv
  <2>2. snapshot'[holder] = snapshot[holder] /\ outdated'[holder] = outdated[holder]
        /\ pull'[holder] = pull[holder]
    BY <1>1, <2>1
  <2>. QED
    BY <1>1, <2>1, <2>2 DEF View, Mine, Roster
<1>4. ViewHolds'
  BY <1>3 DEF SafeInv, ViewHolds, DistinctMembers, References, Stored
<1>5. Present'
  BY <1>3 DEF SafeInv, Present, Stored
<1>. QED
  BY <1>1, <1>2, <1>3, <1>4, <1>5 DEF SafeInv

-----------------------------------------------------------------------------
(* What others commit keeps the constraints, of the tables and of the view. *)

LEMMA OverlayUnder ==
    ASSUME NEW c \in Tables, NEW d \in Tables, NEW t \in Tables, NEW L, NEW K,
           AgreesOff(c, d, K), K \cap L = {}
    PROVE  AgreesOff(Overlay(c, t, L), Overlay(d, t, L), K) /\ AgreesOn(Overlay(c, t, L), c, K)
<1>. DEFINE w == Overlay(c, t, L)
            v == Overlay(d, t, L)
<1>1. AgreesOff(w, c, L) /\ AgreesOn(w, t, L) /\ AgreesOff(v, d, L) /\ AgreesOn(v, t, L)
  BY OverlayOn
<1>. HIDE DEF w, v
<1>2. AgreesOn(w, c, K)
  BY <1>1 DEF AgreesOff, AgreesOn
<1>3. \A r \in Row : MemberKey(r) \notin K => w.member[r] = v.member[r]
  BY <1>1 DEF AgreesOff, AgreesOn
<1>4. \A r \in Row, b \in Body : RoleKey(r, b) \notin K =>
         w.role[r][b] = v.role[r][b] /\ w.addedBy[r][b] = v.addedBy[r][b]
  BY <1>1 DEF AgreesOff, AgreesOn
<1>5. \A r \in Row : BanKey(r) \notin K => (r \in w.banned <=> r \in v.banned)
  <2>. SUFFICES ASSUME NEW r \in Row, BanKey(r) \notin K PROVE r \in w.banned <=> r \in v.banned
    OBVIOUS
  <2>1. CASE BanKey(r) \in L
    BY <1>1, <2>1 DEF AgreesOff, AgreesOn
  <2>2. CASE BanKey(r) \notin L
    BY <1>1, <2>2 DEF AgreesOff, AgreesOn
  <2>. QED
    BY <2>1, <2>2
<1>6. AgreesOff(w, v, K)
  BY <1>3, <1>4, <1>5 DEF AgreesOff
<1>. QED
  BY <1>2, <1>6 DEF w, v

\* What others can refer to is in the holder's view, as they know it.
LEMMA NotBarred ==
    ASSUME SafeInv, holder # NoPuller, NEW r \in Stored(db), ~ Barred(r)
    PROVE  /\ r \in Stored(View) /\ View.member[r].st = db.member[r].st
           /\ MemberKey(r) \in tx.touched =>
                 r \in Stored(Mine) /\ Mine.member[r].st = db.member[r].st
<1>1. AgreesOn(View, Mine, tx.touched) /\ AgreesOff(View, db, tx.touched)
  BY ViewAgrees DEF SafeInv
<1>2. r \in Row /\ db.member[r] # NoMember
  BY DEF Stored
<1>3. CASE MemberKey(r) \notin tx.touched
  BY <1>1, <1>2, <1>3 DEF AgreesOff, Stored
<1>4. CASE MemberKey(r) \in tx.touched
  <2>1. Mine.member[r] # NoMember /\ Mine.member[r]["st"] = db.member[r]["st"]
    BY <1>4 DEF Barred, Mine
  <2>2. View.member[r] = Mine.member[r]
    BY <1>1, <1>2, <1>4 DEF AgreesOn
  <2>. QED
    BY <1>2, <2>1, <2>2 DEF Stored
<1>. QED
  BY <1>3, <1>4

LeadersStay ==
    \A r \in Row, b \in Body : db'.role[r][b] = "leader" <=> db.role[r][b] = "leader"

LEMMA OthersView ==
    ASSUME SafeInv, NEW K, OthersKeep(K)
    PROVE  /\ Mine' = Mine /\ Roster' = Roster /\ K \cap tx.touched = {}
           /\ holder # NoPuller =>
                 /\ View' \in Tables /\ View \in Tables
                 /\ AgreesOff(View', View, K) /\ AgreesOn(View', db', K)
                 /\ outdated'[holder] = outdated[holder] \cup K
<1>1. Mine' = Mine /\ Roster' = Roster /\ db' \in Tables /\ K \cap tx.touched = {}
      /\ AgreesOff(db', db, K) /\ holder' = holder /\ tx' = tx
  BY DEF OthersKeep, Mine, Roster
<1>2. ASSUME holder # NoPuller
      PROVE  /\ View' \in Tables /\ View \in Tables
             /\ AgreesOff(View', View, K) /\ AgreesOn(View', db', K)
             /\ outdated'[holder] = outdated[holder] \cup K
  <2>1. Mine \in Tables /\ db \in Tables /\ holder \in Puller /\ snapshot[holder] # NoView
    BY <1>2, HolderType DEF SafeInv
  <2>2. View' = Overlay(db', Mine, tx.touched)
    BY <1>1 DEF View
  <2>3. AgreesOff(View', View, K) /\ AgreesOn(View', db', K)
    BY <1>1, <2>1, <2>2, OverlayUnder DEF View
  <2>4. outdated'[holder] = outdated[holder] \cup K
    BY <2>1, OthersType DEF SafeInv
  <2>. QED
    BY <1>1, <2>1, <2>2, <2>3, <2>4, OverlayType DEF View
<1>. QED
  BY <1>1, <1>2

LEMMA OthersSafe ==
    ASSUME SafeInv, NEW K, OthersKeep(K), \A r \in Row : MemberKey(r) \notin K, LeadersStay,
           References(db'), holder # NoPuller => References(View')
    PROVE  SafeInv'
<1>1. TypeInv' /\ \A p \in Puller : snapshot[p] # NoView => outdated'[p] = outdated[p] \cup K
  BY OthersType DEF SafeInv
<1>2. /\ AgreesOff(db', db, K) /\ db'.member = db.member /\ K \cap tx.touched = {}
      /\ UNCHANGED <<snapshot, holder, tx>>
  BY DEF OthersKeep
<1>3. ConstraintsHold'
  BY <1>2 DEF SafeInv, ConstraintsHold, DistinctMembers, References, Stored
<1>4. ASSUME NEW p \in Puller, snapshot[p] # NoView
      PROVE  /\ AgreesOff(snapshot[p], db', outdated'[p] \cup Touched(p))
             /\ LeadersAgree(snapshot[p], db', outdated'[p], Touched(p))
             /\ DistinctAccounts(snapshot[p]) /\ References(snapshot[p])
  <2>1. /\ AgreesOff(snapshot[p], db, outdated[p] \cup Touched(p))
        /\ LeadersAgree(snapshot[p], db, outdated[p], Touched(p))
        /\ DistinctAccounts(snapshot[p]) /\ References(snapshot[p])
    BY <1>4 DEF SafeInv, ViewsAgree
  <2>2. AgreesOff(db, db', K)
    BY <1>2, AgreesBack
  <2>3. AgreesOff(snapshot[p], db', (outdated[p] \cup Touched(p)) \cup K)
    BY <2>1, <2>2, AgreesChain
  <2>4. outdated'[p] = outdated[p] \cup K
    BY <1>1, <1>4
  <2>5. AgreesOff(snapshot[p], db', outdated'[p] \cup Touched(p))
    BY <2>3, <2>4, AgreesMore
  <2>6. LeadersAgree(snapshot[p], db', outdated'[p], Touched(p))
    BY <2>1, <2>4 DEF LeadersAgree, LeadersStay
  <2>. QED
    BY <2>1, <2>5, <2>6
<1>5. ViewsAgree'
  BY <1>2, <1>4 DEF ViewsAgree, AgreesOff, LeadersAgree, DistinctAccounts, References, Stored, Touched
<1>6. Mine' = Mine /\ Roster' = Roster
  BY OthersView
<1>7. ViewHolds'
  <2>. SUFFICES ASSUME holder # NoPuller
                PROVE  /\ tx'.touched \cap outdated'[holder'] = {}
                       /\ DistinctMembers(View)' /\ References(View)'
    BY <1>2 DEF ViewHolds
  <2>1. /\ AgreesOff(View', View, K) /\ outdated'[holder] = outdated[holder] \cup K
        /\ View' \in Tables /\ View \in Tables
    BY OthersView
  <2>2. View'.member = View.member
    BY <2>1 DEF AgreesOff, Tables
  <2>3. DistinctMembers(View) /\ tx.touched \cap outdated[holder] = {}
    BY DEF SafeInv, ViewHolds
  <2>4. DistinctMembers(View)' /\ References(View)'
    BY <2>2, <2>3 DEF DistinctMembers, References, Stored
  <2>. QED
    BY <1>2, <2>1, <2>3, <2>4
<1>8. Present'
  BY <1>2, <1>6 DEF SafeInv, Present, Stored
<1>. QED
  BY <1>1, <1>3, <1>5, <1>7, <1>8 DEF SafeInv

\* References stay good when one membership is written.
LEMMA RoleReferences ==
    ASSUME NEW t \in Tables, NEW u \in Tables, NEW r \in Row, NEW b \in Body, NEW x, NEW by,
           References(t), AgreesOff(u, t, {RoleKey(r, b)}),
           u.role[r][b] = x, u.addedBy[r][b] = by,
           x # "none" => r \in Stored(t), by # NoRow => by \in Stored(t) /\ x = "member"
    PROVE  References(u)
<1>1. \A s \in Row : u.member[s] = t.member[s] /\ (s \in u.banned <=> s \in t.banned)
  BY KeyDistinct DEF AgreesOff
<1>2. Stored(u) = Stored(t)
  BY <1>1 DEF Stored
<1>3. \A s \in Row, c \in Body : s # r \/ c # b =>
         u.role[s][c] = t.role[s][c] /\ u.addedBy[s][c] = t.addedBy[s][c]
  BY KeyDistinct DEF AgreesOff
<1>4. u.banned \subseteq Stored(u)
  BY <1>1, <1>2 DEF References, Tables
<1>5. ASSUME NEW s \in Row, NEW c \in Body
      PROVE  /\ u.role[s][c] # "none" => s \in Stored(u)
             /\ u.addedBy[s][c] # NoRow => u.addedBy[s][c] \in Stored(u) /\ u.role[s][c] = "member"
  <2>1. CASE s = r /\ c = b
    BY <1>2, <2>1
  <2>2. CASE s # r \/ c # b
    BY <1>2, <1>3, <2>2 DEF References
  <2>. QED
    BY <2>1, <2>2
<1>. QED
  BY <1>4, <1>5 DEF References

LEMMA BanReferences ==
    ASSUME NEW t \in Tables, NEW u \in Tables, NEW r \in Row,
           References(t), AgreesOff(u, t, {BanKey(r)}), r \in u.banned => r \in Stored(t)
    PROVE  References(u)
<1>1. \A s, b : MemberKey(s) \notin {BanKey(r)} /\ RoleKey(s, b) \notin {BanKey(r)}
  BY KeyDistinct
<1>2. Stored(u) = Stored(t)
  BY <1>1 DEF AgreesOff, Stored
<1>3. \A s \in Row, c \in Body : u.role[s][c] = t.role[s][c] /\ u.addedBy[s][c] = t.addedBy[s][c]
  BY <1>1 DEF AgreesOff
<1>4. \A s \in Row : s # r => (s \in u.banned <=> s \in t.banned)
  BY KeyDistinct DEF AgreesOff
<1>5. u.banned \subseteq Stored(u)
  BY <1>2, <1>4 DEF References, Tables
<1>. QED
  BY <1>2, <1>3, <1>5 DEF References

LEMMA PanelAddSafe ==
    ASSUME SafeInv, NEW r \in Row, NEW b \in Body, NEW by \in Row, PanelAdd(r, b, by)
    PROVE  SafeInv'
<1>. DEFINE K == {RoleKey(r, b)}
<1>1. /\ r \in Stored(db) /\ by \in Stored(db) /\ db.role[r][b] = "none"
      /\ ~ Barred(r) /\ ~ Barred(by) /\ RoleWritten(r, b, "member", by)
  BY PanelAddIs DEF SafeInv
<1>2. /\ OthersKeep(K) /\ db'.role[r][b] = "member" /\ db'.addedBy[r][b] = by
      /\ db' \in Tables /\ db \in Tables /\ AgreesOff(db', db, K)
  BY <1>1 DEF RoleWritten, OthersKeep, SafeInv, TypeInv, TypeOK
<1>3. References(db')
  BY <1>1, <1>2, RoleReferences DEF SafeInv, ConstraintsHold
<1>4. LeadersStay
  <2>. SUFFICES ASSUME NEW s \in Row, NEW c \in Body
                PROVE  db'.role[s][c] = "leader" <=> db.role[s][c] = "leader"
    BY DEF LeadersStay
  <2>1. CASE s = r /\ c = b
    BY <1>1, <1>2, <2>1
  <2>2. CASE s # r \/ c # b
    BY <1>1, <2>2 DEF RoleWritten
  <2>. QED
    BY <2>1, <2>2
<1>5. ASSUME holder # NoPuller PROVE References(View')
  <2>1. /\ View' \in Tables /\ View \in Tables /\ AgreesOff(View', View, K) /\ AgreesOn(View', db', K)
    BY <1>2, <1>5, OthersView
  <2>2. r \in Stored(View) /\ by \in Stored(View)
    BY <1>1, <1>5, NotBarred
  <2>3. View'.role[r][b] = "member" /\ View'.addedBy[r][b] = by
    BY <1>2, <2>1 DEF AgreesOn
  <2>4. References(View)
    BY <1>5 DEF SafeInv, ViewHolds
  <2>. QED
    BY <2>1, <2>2, <2>3, <2>4, RoleReferences
<1>6. \A s \in Row : MemberKey(s) \notin K
  BY KeyDistinct
<1>. HIDE DEF K
<1>. QED
  BY <1>2, <1>3, <1>4, <1>5, <1>6, OthersSafe

LEMMA PanelRemoveSafe ==
    ASSUME SafeInv, NEW r \in Row, NEW b \in Body, PanelRemove(r, b)
    PROVE  SafeInv'
<1>. DEFINE K == {RoleKey(r, b)}
<1>1. db.role[r][b] = "member" /\ RoleWritten(r, b, "none", NoRow)
  BY PanelRemoveIs DEF SafeInv
<1>2. /\ OthersKeep(K) /\ db'.role[r][b] = "none" /\ db'.addedBy[r][b] = NoRow
      /\ db' \in Tables /\ db \in Tables /\ AgreesOff(db', db, K)
  BY <1>1 DEF RoleWritten, OthersKeep, SafeInv, TypeInv, TypeOK
<1>3. References(db')
  BY <1>1, <1>2, RoleReferences DEF SafeInv, ConstraintsHold
<1>4. LeadersStay
  <2>. SUFFICES ASSUME NEW s \in Row, NEW c \in Body
                PROVE  db'.role[s][c] = "leader" <=> db.role[s][c] = "leader"
    BY DEF LeadersStay
  <2>1. CASE s = r /\ c = b
    BY <1>1, <1>2, <2>1
  <2>2. CASE s # r \/ c # b
    BY <1>1, <2>2 DEF RoleWritten
  <2>. QED
    BY <2>1, <2>2
<1>5. ASSUME holder # NoPuller PROVE References(View')
  <2>1. /\ View' \in Tables /\ View \in Tables /\ AgreesOff(View', View, K) /\ AgreesOn(View', db', K)
    BY <1>2, <1>5, OthersView
  <2>2. View'.role[r][b] = "none" /\ View'.addedBy[r][b] = NoRow
    BY <1>2, <2>1 DEF AgreesOn
  <2>3. References(View)
    BY <1>5 DEF SafeInv, ViewHolds
  <2>. QED
    BY <2>1, <2>2, <2>3, RoleReferences
<1>6. \A s \in Row : MemberKey(s) \notin K
  BY KeyDistinct
<1>. HIDE DEF K
<1>. QED
  BY <1>2, <1>3, <1>4, <1>5, <1>6, OthersSafe

LEMMA BansSafe ==
    ASSUME SafeInv, NEW r \in Row, Ban(r) \/ Unban(r)
    PROVE  SafeInv'
<1>. DEFINE K == {BanKey(r)}
<1>1. /\ OthersKeep(K) /\ db'.role = db.role
      /\ r \in db'.banned => r \in Stored(db) /\ ~ Barred(r)
      /\ db' \in Tables /\ db \in Tables /\ AgreesOff(db', db, K)
  <2>1. CASE Ban(r)
    <3>1. r \in Stored(db) /\ ~ Barred(r) /\ BanWritten(r, db.banned \cup {r})
      BY <2>1, BanIs DEF SafeInv
    <3>. QED
      BY <3>1 DEF BanWritten, OthersKeep, SafeInv, TypeInv, TypeOK
  <2>2. CASE Unban(r)
    <3>1. BanWritten(r, db.banned \ {r})
      BY <2>2, UnbanIs DEF SafeInv
    <3>. QED
      BY <3>1 DEF BanWritten, OthersKeep, SafeInv, TypeInv, TypeOK
  <2>. QED
    BY <2>1, <2>2
<1>2. References(db')
  BY <1>1, BanReferences DEF SafeInv, ConstraintsHold
<1>3. LeadersStay
  BY <1>1 DEF LeadersStay
<1>4. ASSUME holder # NoPuller PROVE References(View')
  <2>1. /\ View' \in Tables /\ View \in Tables /\ AgreesOff(View', View, K) /\ AgreesOn(View', db', K)
    BY <1>1, <1>4, OthersView
  <2>2. r \in View'.banned => r \in Stored(View)
    BY <1>1, <1>4, <2>1, NotBarred DEF AgreesOn
  <2>3. References(View)
    BY <1>4 DEF SafeInv, ViewHolds
  <2>. QED
    BY <2>1, <2>2, <2>3, BanReferences
<1>5. \A s \in Row : MemberKey(s) \notin K
  BY KeyDistinct
<1>. HIDE DEF K
<1>. QED
  BY <1>1, <1>2, <1>3, <1>4, <1>5, OthersSafe

-----------------------------------------------------------------------------
(* The commit.                                                              *)

\* What others see of it: the view, with the leader rows made to match and the absent
\* lapsed.
CommitMembers ==
    /\ View \in Tables /\ db' \in Tables /\ Mine \in Tables
    /\ \A r \in Lapsing(Mine) :
          /\ r \in Stored(Mine) /\ View.member[r] = Mine.member[r] /\ db'.member[r] \in MemberRow
          /\ db'.member[r].st = Mine.member[r].st /\ db'.member[r].email = Mine.member[r].email
          /\ db'.member[r].discord = Mine.member[r].discord /\ ~ db'.member[r].good
    /\ \A r \in Row : r \notin Lapsing(Mine) => db'.member[r] = View.member[r]
    /\ Stored(db') = Stored(View) /\ db'.banned = View.banned
    /\ \A r \in tx.present : MemberKey(r) \in tx.touched /\ r \in Stored(Mine)
                             /\ View.member[r] = Mine.member[r]

CommitRoles ==
    /\ tx.pairs \cup StaleLeaderRows(Mine) \subseteq tx.present \X Body
    /\ \A r \in Row, b \in Body :
          /\ <<r, b>> \in tx.pairs => db'.role[r][b] = "leader" /\ db'.addedBy[r][b] = NoRow
          /\ <<r, b>> \in StaleLeaderRows(Mine) /\ <<r, b>> \notin tx.pairs =>
                /\ Mine.role[r][b] = "leader" /\ View.role[r][b] = "leader"
                /\ db'.role[r][b] = "none" /\ db'.addedBy[r][b] = NoRow
          /\ <<r, b>> \notin tx.pairs \cup StaleLeaderRows(Mine) =>
                db'.role[r][b] = View.role[r][b] /\ db'.addedBy[r][b] = View.addedBy[r][b]

CommitFacts == CommitMembers /\ CommitRoles

LEMMA CommitFactsHold ==
    ASSUME SafeInv, CommitPull
    PROVE  CommitFacts
<1>. DEFINE O == outdated[holder]
            RW == ReconcileWrites
<1>1. /\ holder # NoPuller /\ RW \cap O = {} /\ db' \in Tables
      /\ db' = Overlay(db, Reconciled, tx.touched \cup RW)
  BY CommitIs DEF SafeInv, LoopDone, Races
<1>2. /\ Mine \in Tables /\ db \in Tables /\ Reconciled \in Tables /\ View \in Tables
      /\ AgreesOff(Mine, View, O) /\ AgreesOn(View, Mine, tx.touched) /\ tx \in TxType
  BY <1>1, HolderType, ReconciledIs, ViewAgrees DEF SafeInv
<1>3. AgreesOff(Mine, Reconciled, RW)
  <2>1. AgreesOff(Mine, Reconciled, Written(Mine, Reconciled))
    BY <1>2, WrittenCovers
  <2>2. Written(Mine, Reconciled) \subseteq RW
    BY DEF ReconcileWrites, Mine
  <2>. QED
    BY <2>1, <2>2, AgreesMore
<1>4. AgreesOff(db', View, RW) /\ AgreesOn(db', Reconciled, RW)
  <2>1. AgreesOff(Reconciled, Mine, RW)
    BY <1>3, AgreesBack
  <2>. HIDE DEF RW
  <2>. QED
    BY <1>1, <1>2, <2>1, OverlayGrows DEF View
<1>5. /\ \A r \in tx.present : MemberKey(r) \in tx.touched /\ r \in Stored(Mine)
      /\ tx.pairs \subseteq tx.present \X Body /\ tx.present \subseteq Row
  BY <1>1, <1>2 DEF SafeInv, Present, TxType
<1>6. \A r \in tx.present : View.member[r] = Mine.member[r]
  BY <1>2, <1>5 DEF AgreesOn
<1>7. /\ \A r \in Lapsing(Mine) :
            /\ r \in Stored(Mine) /\ Mine.member[r].good /\ Reconciled.member[r] \in MemberRow
            /\ Reconciled.member[r].st = Mine.member[r].st
            /\ Reconciled.member[r].email = Mine.member[r].email
            /\ Reconciled.member[r].discord = Mine.member[r].discord
            /\ ~ Reconciled.member[r].good
      /\ \A r \in Row : r \notin Lapsing(Mine) => Reconciled.member[r] = Mine.member[r]
      /\ Reconciled.banned = Mine.banned
  BY <1>1, ReconciledIs DEF SafeInv, Absent, GoodStanding
<1>8. ASSUME NEW r \in Lapsing(Mine)
      PROVE  /\ r \in Stored(Mine) /\ View.member[r] = Mine.member[r] /\ db'.member[r] \in MemberRow
             /\ db'.member[r].st = Mine.member[r].st /\ db'.member[r].email = Mine.member[r].email
             /\ db'.member[r].discord = Mine.member[r].discord /\ ~ db'.member[r].good
  <2>1. r \in Row /\ Reconciled.member[r] # Mine.member[r]
    BY <1>7 DEF Stored
  <2>2. MemberKey(r) \in RW
    BY <1>3, <2>1 DEF AgreesOff
  <2>3. db'.member[r] = Reconciled.member[r] /\ View.member[r] = Mine.member[r]
    BY <1>1, <1>2, <1>4, <2>1, <2>2 DEF AgreesOn, AgreesOff
  <2>. QED
    BY <1>7, <2>3
<1>9. ASSUME NEW r \in Row, r \notin Lapsing(Mine) PROVE db'.member[r] = View.member[r]
  <2>1. CASE MemberKey(r) \in RW
    <3>1. db'.member[r] = Reconciled.member[r] /\ Mine.member[r] = View.member[r]
      BY <1>1, <1>2, <1>4, <2>1 DEF AgreesOn, AgreesOff
    <3>. QED
      BY <1>7, <1>9, <3>1
  <2>2. CASE MemberKey(r) \notin RW
    BY <1>4, <2>2 DEF AgreesOff
  <2>. QED
    BY <2>1, <2>2
<1>10. Stored(db') = Stored(View)
  <2>1. ASSUME NEW r \in Row PROVE r \in Stored(db') <=> r \in Stored(View)
    <3>1. CASE r \in Lapsing(Mine)
      BY <1>8, <3>1, RosterAssumption DEF Stored
    <3>2. CASE r \notin Lapsing(Mine)
      BY <1>9, <3>2 DEF Stored
    <3>. QED
      BY <3>1, <3>2
  <2>. QED
    BY <2>1 DEF Stored
<1>11. db'.banned = View.banned
  <2>1. ASSUME NEW r \in Row PROVE r \in db'.banned <=> r \in View.banned
    <3>1. CASE BanKey(r) \in RW
      <4>1. (r \in db'.banned <=> r \in Reconciled.banned) /\ (r \in Mine.banned <=> r \in View.banned)
        BY <1>1, <1>2, <1>4, <3>1 DEF AgreesOn, AgreesOff
      <4>. QED
        BY <1>7, <4>1
    <3>2. CASE BanKey(r) \notin RW
      BY <1>4, <3>2 DEF AgreesOff
    <3>. QED
      BY <3>1, <3>2
  <2>. QED
    BY <1>1, <1>2, <2>1 DEF Tables
<1>12. tx.pairs \cup StaleLeaderRows(Mine) \subseteq tx.present \X Body
  BY <1>5 DEF StaleLeaderRows
<1>13. ASSUME NEW r \in Row, NEW b \in Body
       PROVE  /\ <<r, b>> \in tx.pairs =>
                    Reconciled.role[r][b] = "leader" /\ Reconciled.addedBy[r][b] = NoRow
              /\ <<r, b>> \in StaleLeaderRows(Mine) /\ <<r, b>> \notin tx.pairs =>
                    Reconciled.role[r][b] = "none" /\ Reconciled.addedBy[r][b] = NoRow
              /\ <<r, b>> \notin tx.pairs \cup StaleLeaderRows(Mine) =>
                    Reconciled.role[r][b] = Mine.role[r][b]
                    /\ Reconciled.addedBy[r][b] = Mine.addedBy[r][b]
  BY <1>1, ReconciledIs DEF SafeInv
<1>14. ASSUME NEW r \in Row, NEW b \in Body, RoleKey(r, b) \in RW
       PROVE  /\ db'.role[r][b] = Reconciled.role[r][b] /\ db'.addedBy[r][b] = Reconciled.addedBy[r][b]
              /\ Mine.role[r][b] = View.role[r][b] /\ Mine.addedBy[r][b] = View.addedBy[r][b]
  BY <1>1, <1>2, <1>4, <1>14 DEF AgreesOn, AgreesOff
<1>15. ASSUME NEW r \in Row, NEW b \in Body, <<r, b>> \in tx.pairs
       PROVE  db'.role[r][b] = "leader" /\ db'.addedBy[r][b] = NoRow
  <2>1. <<r, b>>[1] = r /\ <<r, b>>[2] = b
    OBVIOUS
  <2>2. RoleKey(r, b) \in RW
    BY <1>15, <2>1 DEF ReconcileWrites
  <2>. HIDE DEF RW
  <2>. QED
    BY <1>13, <1>14, <1>15, <2>2
<1>16. ASSUME NEW r \in Row, NEW b \in Body, <<r, b>> \in StaleLeaderRows(Mine), <<r, b>> \notin tx.pairs
       PROVE  /\ Mine.role[r][b] = "leader" /\ View.role[r][b] = "leader"
              /\ db'.role[r][b] = "none" /\ db'.addedBy[r][b] = NoRow
  <2>1. <<r, b>>[1] = r /\ <<r, b>>[2] = b
    OBVIOUS
  <2>2. Mine.role[r][b] = "leader"
    BY <1>16, <2>1 DEF StaleLeaderRows
  <2>3. Reconciled.role[r][b] = "none" /\ Reconciled.addedBy[r][b] = NoRow
    BY <1>13, <1>16
  <2>4. RoleKey(r, b) \in RW
    BY <1>3, <2>2, <2>3 DEF AgreesOff
  <2>. HIDE DEF RW
  <2>. QED
    BY <1>14, <2>2, <2>3, <2>4
<1>17. ASSUME NEW r \in Row, NEW b \in Body, <<r, b>> \notin tx.pairs \cup StaleLeaderRows(Mine)
       PROVE  db'.role[r][b] = View.role[r][b] /\ db'.addedBy[r][b] = View.addedBy[r][b]
  <2>1. CASE RoleKey(r, b) \in RW
    BY <1>13, <1>14, <1>17, <2>1
  <2>2. CASE RoleKey(r, b) \notin RW
    BY <1>4, <2>2 DEF AgreesOff
  <2>. QED
    BY <2>1, <2>2
<1>. HIDE DEF O, RW
<1>18. CommitMembers
  BY <1>1, <1>2, <1>5, <1>6, <1>8, <1>9, <1>10, <1>11 DEF CommitMembers
<1>19. CommitRoles
  BY <1>12, <1>15, <1>16, <1>17 DEF CommitRoles
<1>. QED
  BY <1>18, <1>19 DEF CommitFacts

LEMMA CommitConstraints ==
    ASSUME SafeInv, CommitPull
    PROVE  ConstraintsHold'
<1>1. CommitFacts /\ holder # NoPuller
  BY CommitFactsHold, CommitIs DEF SafeInv, LoopDone
<1>2. DistinctMembers(View) /\ References(View)
  BY <1>1 DEF SafeInv, ViewHolds
<1>3. Stored(db') = Stored(View)
  BY <1>1 DEF CommitFacts, CommitMembers
<1>4. \A r \in Stored(db') : /\ db'.member[r].st = View.member[r].st
                             /\ db'.member[r].email = View.member[r].email
                             /\ db'.member[r].discord = View.member[r].discord
  BY <1>1 DEF CommitFacts, CommitMembers, Stored
<1>5. DistinctMembers(db')
  BY <1>2, <1>3, <1>4 DEF DistinctMembers, SameDiscord
<1>6. ASSUME NEW r \in Row, NEW b \in Body
      PROVE  /\ db'.role[r][b] # "none" => r \in Stored(db')
             /\ db'.addedBy[r][b] # NoRow => db'.addedBy[r][b] \in Stored(db') /\ db'.role[r][b] = "member"
  <2>1. CASE <<r, b>> \in tx.pairs
    <3>1. db'.role[r][b] = "leader" /\ db'.addedBy[r][b] = NoRow /\ r \in tx.present
      BY <1>1, <2>1 DEF CommitFacts, CommitRoles
    <3>2. r \in Stored(View)
      BY <1>1, <3>1 DEF CommitFacts, CommitMembers, Stored
    <3>. QED
      BY <1>3, <3>1, <3>2
  <2>2. CASE <<r, b>> \in StaleLeaderRows(Mine) /\ <<r, b>> \notin tx.pairs
    BY <1>1, <2>2 DEF CommitFacts, CommitRoles
  <2>3. CASE <<r, b>> \notin tx.pairs \cup StaleLeaderRows(Mine)
    <3>1. db'.role[r][b] = View.role[r][b] /\ db'.addedBy[r][b] = View.addedBy[r][b]
      BY <1>1, <2>3 DEF CommitFacts, CommitRoles
    <3>. QED
      BY <1>2, <1>3, <3>1 DEF References
  <2>. QED
    BY <2>1, <2>2, <2>3
<1>7. db'.banned \subseteq Stored(db')
  BY <1>1, <1>2, <1>3 DEF CommitFacts, CommitMembers, References
<1>8. References(db')
  BY <1>6, <1>7 DEF References
<1>. QED
  BY <1>5, <1>8 DEF ConstraintsHold, DistinctMembers, References, Stored

LEMMA CommitSafe ==
    ASSUME SafeInv, CommitPull
    PROVE  SafeInv'
<1>. DEFINE keys == tx.touched \cup ReconcileWrites
<1>1. /\ CommitFacts /\ holder # NoPuller /\ Over
      /\ db' = Overlay(db, Reconciled, keys)
      /\ \A p \in Puller : p # holder /\ snapshot[p] # NoView => outdated'[p] = outdated[p] \cup keys
      /\ ReconcileWrites \cap outdated[holder] = {} /\ tx.touched \cap outdated[holder] = {}
  BY CommitFactsHold, CommitIs DEF SafeInv, LoopDone, Races, ViewHolds
<1>2. TypeInv'
  BY TypeStep DEF SafeInv, Next, PullStep
<1>3. ConstraintsHold'
  BY CommitConstraints
<1>4. ViewHolds' /\ Present' /\ holder' = NoPuller
  BY <1>1 DEF Over, ViewHolds, Present
<1>5. holder \in Puller /\ snapshot[holder] # NoView /\ Mine \in Tables /\ db \in Tables /\ Reconciled \in Tables
  BY <1>1, HolderType, ReconciledIs DEF SafeInv
<1>6. AgreesOff(db', db, keys) /\ AgreesOn(db', Reconciled, keys)
  BY <1>1, <1>5, OverlayOn
<1>7. LeadersAgree(Mine, db, outdated[holder], tx.touched)
  BY <1>5 DEF SafeInv, ViewsAgree, Mine, Touched
<1>8. ASSUME NEW r \in Row, NEW b \in Body, MemberKey(r) \notin keys
      PROVE  db'.role[r][b] = "leader" <=> db.role[r][b] = "leader"
  <2>1. CASE RoleKey(r, b) \notin keys
    BY <1>6, <2>1 DEF AgreesOff
  <2>2. CASE RoleKey(r, b) \in keys
    <3>1. r \notin tx.present
      BY <1>1, <1>8 DEF CommitFacts, CommitMembers
    <3>2. <<r, b>> \notin tx.pairs \cup StaleLeaderRows(Mine)
      BY <1>1, <3>1 DEF CommitFacts, CommitRoles
    <3>3. Reconciled.role[r][b] = Mine.role[r][b]
      BY <1>1, <3>2, ReconciledIs DEF SafeInv
    <3>4. db'.role[r][b] = Reconciled.role[r][b]
      BY <1>6, <2>2 DEF AgreesOn
    <3>5. RoleKey(r, b) \notin outdated[holder] /\ MemberKey(r) \notin tx.touched
      BY <1>1, <1>8, <2>2
    <3>6. Mine.role[r][b] = "leader" <=> db.role[r][b] = "leader"
      BY <1>7, <3>5 DEF LeadersAgree
    <3>. QED
      BY <3>3, <3>4, <3>6
  <2>. QED
    BY <2>1, <2>2
<1>. HIDE DEF keys
<1>9. ASSUME NEW p \in Puller, p # holder, snapshot[p] # NoView
      PROVE  /\ AgreesOff(snapshot[p], db', outdated'[p]) /\ LeadersAgree(snapshot[p], db', outdated'[p], {})
             /\ DistinctAccounts(snapshot[p]) /\ References(snapshot[p])
  <2>1. /\ AgreesOff(snapshot[p], db, outdated[p]) /\ LeadersAgree(snapshot[p], db, outdated[p], {})
        /\ DistinctAccounts(snapshot[p]) /\ References(snapshot[p])
    BY <1>9 DEF SafeInv, ViewsAgree, Touched
  <2>2. AgreesOff(db, db', keys)
    BY <1>6, AgreesBack
  <2>3. AgreesOff(snapshot[p], db', outdated'[p])
    BY <1>1, <1>9, <2>1, <2>2, AgreesChain
  <2>4. LeadersAgree(snapshot[p], db', outdated'[p], {})
    <3>. SUFFICES ASSUME NEW r \in Row, NEW b \in Body,
                         MemberKey(r) \notin outdated'[p] \/ RoleKey(r, b) \notin outdated'[p]
                  PROVE  snapshot[p].role[r][b] = "leader" <=> db'.role[r][b] = "leader"
      BY DEF LeadersAgree
    <3>1. outdated'[p] = outdated[p] \cup keys
      BY <1>1, <1>9
    <3>2. snapshot[p].role[r][b] = "leader" <=> db.role[r][b] = "leader"
      BY <2>1, <3>1 DEF LeadersAgree
    <3>3. CASE MemberKey(r) \notin keys
      BY <1>8, <3>2, <3>3
    <3>4. CASE RoleKey(r, b) \notin keys
      BY <1>6, <3>2, <3>4 DEF AgreesOff
    <3>. QED
      BY <3>1, <3>3, <3>4
  <2>. QED
    BY <2>1, <2>3, <2>4
<1>10. ViewsAgree'
  <2>1. \A p \in Puller : Touched(p)' = {}
    BY <1>4, RosterAssumption DEF Touched
  <2>2. \A p \in Puller : snapshot'[p] # NoView => p # holder /\ snapshot'[p] = snapshot[p]
    BY <1>1 DEF Over, SafeInv, TypeInv, TypeOK
  <2>. QED
    BY <1>9, <2>1, <2>2 DEF ViewsAgree, AgreesOff, LeadersAgree, DistinctAccounts, References, Stored
<1>. QED
  BY <1>2, <1>3, <1>4, <1>10 DEF SafeInv

-----------------------------------------------------------------------------
(* The constraints of the committed tables.                                 *)

LEMMA SafeInit == Init => SafeInv
<1>. SUFFICES ASSUME Init PROVE SafeInv
  OBVIOUS
<1>1. TypeInv
  BY TypeInit
<1>2. holder = NoPuller /\ \A p \in Puller : snapshot[p] = NoView
  BY DEF Init
<1>3. ConstraintsHold
  BY StartsAssumption DEF Init, ConstraintsHold
<1>. QED
  BY <1>1, <1>2, <1>3 DEF SafeInv, ViewsAgree, ViewHolds, Present

LEMMA SafeStep == SafeInv /\ [Next]_vars => SafeInv'
<1>. SUFFICES ASSUME SafeInv, [Next]_vars PROVE SafeInv'
  OBVIOUS
<1>1. ASSUME NEW p \in Puller, StartPull(p) PROVE SafeInv'
  BY <1>1, StartSafe
<1>2. ASSUME NEW p \in Puller, AskForLock(p) PROVE SafeInv'
  BY <1>2, AskSafe
<1>3. ASSUME NEW p \in Puller, Crash(p) PROVE SafeInv'
  BY <1>3, CrashSafe
<1>4. CASE TakeLock
  BY <1>4, TakeSafe
<1>5. CASE StoreMember
  BY <1>5, StoreSafe
<1>6. CASE SkipMember
  BY <1>6, SkipSafe
<1>7. CASE CommitPull
  BY <1>7, CommitSafe
<1>8. CASE RaiseRepeatedRow \/ LoseRace
  BY <1>8, EndedSafe
<1>9. CASE Others
  BY <1>9, PanelAddSafe, PanelRemoveSafe, BansSafe DEF Others
<1>10. CASE UNCHANGED vars
  <2>1. UNCHANGED <<db, pull, snapshot, outdated, queue, holder, tx, left>>
    BY <1>10 DEF vars
  <2>2. TypeInv'
    BY TypeStep DEF SafeInv
  <2>3. View' = View /\ Mine' = Mine /\ Roster' = Roster
    BY <2>1 DEF View, Mine, Roster
  <2>4. ConstraintsHold' /\ ViewHolds'
    BY <2>1, <2>3 DEF SafeInv, ConstraintsHold, ViewHolds, DistinctMembers, References, Stored
  <2>5. ViewsAgree'
    BY <2>1 DEF SafeInv, ViewsAgree, AgreesOff, LeadersAgree, DistinctAccounts, References, Stored, Touched
  <2>6. Present'
    BY <2>1, <2>3 DEF SafeInv, Present, Stored
  <2>. QED
    BY <2>2, <2>4, <2>5, <2>6 DEF SafeInv
<1>. QED
  BY <1>1, <1>2, <1>3, <1>4, <1>5, <1>6, <1>7, <1>8, <1>9, <1>10 DEF Next, PullStep

\* The committed tables keep the constraints that the database enforces: the model lets no
\* statement through that PostgreSQL would refuse (create_membership_tables.sql).
LEMMA ConstraintsKept == Spec => []ConstraintsHold
<1>1. SafeInv => ConstraintsHold
  BY DEF SafeInv
<1>. QED
  BY <1>1, SafeInit, SafeStep, PTL DEF Spec

-----------------------------------------------------------------------------
(* What the steps do to the pull that holds the lock.                       *)

\* Nothing of the holder's, nor of what it sees, changes.
Quiet ==
    /\ UNCHANGED <<db, holder, tx>> /\ holder # NoPuller
    /\ Roster' = Roster /\ View' = View /\ Mine' = Mine
    /\ outdated'[holder] = outdated[holder] /\ pull'[holder] = pull[holder]

LEMMA StepCases ==
    ASSUME SafeInv, [Next]_vars
    PROVE  \/ holder' = NoPuller \/ Quiet \/ TakeLock \/ StoreMember \/ SkipMember \/ Others
<1>1. ASSUME NEW p \in Puller, StartPull(p) PROVE holder' = NoPuller \/ Quiet
  <2>1. /\ UNCHANGED <<db, outdated, holder, tx>> /\ pull[p] = NoPull
        /\ \A q \in Puller : q # p => pull'[q] = pull[q]
    BY <1>1 DEF StartPull, SafeInv, TypeInv, TypeOK
  <2>2. holder # NoPuller => pull'[holder] = pull[holder]
    BY <2>1, HolderType DEF SafeInv
  <2>. QED
    BY <1>1, <2>1, <2>2, StartSafe DEF Quiet
<1>2. ASSUME NEW p \in Puller, AskForLock(p) PROVE holder' = NoPuller \/ Quiet
  <2>1. UNCHANGED <<db, pull, outdated, holder, tx>>
    BY <1>2 DEF AskForLock
  <2>. QED
    BY <1>2, <2>1, AskSafe DEF Quiet
<1>3. ASSUME NEW p \in Puller, Crash(p) PROVE holder' = NoPuller \/ Quiet
  BY <1>3, CrashSafe DEF Quiet
<1>4. CASE CommitPull \/ RaiseRepeatedRow \/ LoseRace
  BY <1>4 DEF CommitPull, RaiseRepeatedRow, LoseRace, Released
<1>5. CASE UNCHANGED vars
  BY <1>5 DEF vars, Quiet, View, Mine, Roster
<1>. QED
  BY <1>1, <1>2, <1>3, <1>4, <1>5 DEF Next, PullStep

\* What others commit, of memberships and of bans.
LEMMA OthersCases ==
    ASSUME SafeInv, Others
    PROVE  \/ \E r \in Row, b \in Body, by \in Row :
                 /\ RoleWritten(r, b, "member", by) /\ db.role[r][b] = "none"
                 /\ by \in Stored(db) /\ ~ Barred(by)
           \/ \E r \in Row, b \in Body :
                 RoleWritten(r, b, "none", NoRow) /\ db.role[r][b] = "member"
           \/ \E r \in Row : BanWritten(r, db.banned \cup {r}) \/ BanWritten(r, db.banned \ {r})
<1>1. ASSUME NEW r \in Row, NEW b \in Body, NEW by \in Row, PanelAdd(r, b, by)
      PROVE  /\ RoleWritten(r, b, "member", by) /\ db.role[r][b] = "none"
             /\ by \in Stored(db) /\ ~ Barred(by)
  BY <1>1, PanelAddIs DEF SafeInv
<1>2. ASSUME NEW r \in Row, NEW b \in Body, PanelRemove(r, b)
      PROVE  RoleWritten(r, b, "none", NoRow) /\ db.role[r][b] = "member"
  BY <1>2, PanelRemoveIs DEF SafeInv
<1>3. ASSUME NEW r \in Row, Ban(r) PROVE BanWritten(r, db.banned \cup {r})
  BY <1>3, BanIs DEF SafeInv
<1>4. ASSUME NEW r \in Row, Unban(r) PROVE BanWritten(r, db.banned \ {r})
  BY <1>4, UnbanIs DEF SafeInv
<1>. QED
  BY <1>1, <1>2, <1>3, <1>4 DEF Others

\* The keys of members that a merge writes are of the rows it folds together.
LEMMA MergedMembers ==
    ASSUME TypeInv, Working, Try.found # {}, NEW s \in Row, MemberKey(s) \in MergeKeys
    PROVE  s \in From \cup {Into}
<1>1. Merging /\ Mine \in Tables /\ Try.tables \in Tables
  BY MergingIs, HolderType, TryType DEF Working
<1>2. Try.tables = Merged(Mine, Entering, Try.found)
  BY TryIs
<1>3. MemberKey(s) \in Written(Mine, Try.tables)
  BY <1>2, KeyDistinct DEF MergeKeys, MergeWrites
<1>4. CASE MemberKey(s) \in Differing(Mine, Try.tables)
  <2>1. Mine.member[s] # Try.tables.member[s]
    BY <1>4, KeyDistinct DEF Differing
  <2>. QED
    BY <1>1, <2>1 DEF Merging, IsFold
<1>5. ASSUME NEW f \in Stored(Mine) \ Stored(Try.tables), MemberKey(s) \in Cascaded(f)
      PROVE  s \in From
  <2>1. s = f
    BY <1>5, KeyDistinct DEF Cascaded
  <2>. QED
    BY <1>1, <2>1 DEF Merging
<1>. QED
  BY <1>3, <1>4, <1>5 DEF Written

\* A row found to be a duplicate is as it was committed, and nobody's survivor.
LEMMA FoundUntouched ==
    ASSUME SafeInv, Merges, Working, ~ Races(Try.writes), NEW d \in Try.found
    PROVE  /\ MemberKey(d) \notin tx.touched /\ MemberKey(d) \notin outdated[holder]
           /\ d \notin tx.present /\ d \in Row /\ d \in Stored(db)
           /\ db.member[d] = Mine.member[d]
<1>1. /\ d \in Stored(Mine) /\ d \in Row /\ Mine.member[d].st \notin RosterIds(Roster)
      /\ holder # NoPuller
  BY FoundIn DEF SafeInv, Stored, Working
<1>2. d \notin tx.present
  BY <1>1 DEF SafeInv, Present
<1>3. MemberKey(d) \notin tx.touched
  BY <1>1, <1>2 DEF Merges, Stored
<1>4. MemberKey(d) \notin outdated[holder]
  BY MergingIs DEF SafeInv, Merging, Races
<1>5. AgreesOff(Mine, db, outdated[holder] \cup tx.touched)
  <2>1. holder \in Puller /\ snapshot[holder] # NoView
    BY <1>1, HolderType DEF SafeInv
  <2>. QED
    BY <2>1 DEF SafeInv, ViewsAgree, Mine, Touched
<1>6. db.member[d] = Mine.member[d]
  BY <1>1, <1>3, <1>4, <1>5 DEF AgreesOff
<1>. QED
  BY <1>1, <1>2, <1>3, <1>4, <1>6 DEF Stored

\* What stands for a row: a survivor, or itself.
LEMMA HomeIsSurvivor ==
    ASSUME Merges, holder # NoPuller
    PROVE  /\ \A m \in tx.merges : HomeAfter(m.duplicate) = m.survivor
           /\ \A x : (\A m \in tx.merges : m.duplicate # x) => HomeAfter(x) = x
<1>1. ASSUME NEW m \in tx.merges PROVE HomeAfter(m.duplicate) = m.survivor
  <2>. DEFINE c == CHOOSE n \in tx.merges : n.duplicate = m.duplicate
  <2>1. c \in tx.merges /\ c.duplicate = m.duplicate
    OBVIOUS
  <2>2. HomeAfter(m.duplicate) = c.survivor
    BY DEF HomeAfter
  <2>. HIDE DEF c
  <2>3. c = m
    BY <2>1 DEF Merges
  <2>. QED
    BY <2>2, <2>3
<1>. QED
  BY <1>1 DEF HomeAfter

LEMMA HomeCases ==
    ASSUME Merges, holder # NoPuller, NEW x, HomeAfter(x) # x
    PROVE  \E m \in tx.merges : m.duplicate = x /\ m.survivor = HomeAfter(x) /\ m.duplicate # m.survivor
BY HomeIsSurvivor

\* Nothing more of a row that was folded into another one is written by others.
LEMMA MovedIsTouched ==
    ASSUME Merges, holder # NoPuller, NEW x, HomeAfter(x) # x
    PROVE  /\ MemberKey(x) \in tx.touched /\ BanKey(x) \in tx.touched
           /\ \A b \in Body : RoleKey(x, b) \in tx.touched
           /\ Mine.member[x] = NoMember /\ HomeAfter(x) \in tx.present
BY HomeCases DEF Merges

LEMMA HomeType ==
    ASSUME TypeInv, Merges, holder # NoPuller, NEW x \in Row
    PROVE  HomeAfter(x) \in Row
<1>1. CASE HomeAfter(x) = x
  BY <1>1
<1>2. CASE HomeAfter(x) # x
  <2>1. tx.present \subseteq Row
    BY HolderType DEF TxType
  <2>. QED
    BY <1>2, <2>1, MovedIsTouched
<1>. QED
  BY <1>1, <1>2

LEMMA StoreMerges ==
    ASSUME SafeInv, Merges, NEW r \in Row, StoreFacts(r)
    PROVE  Merges'
<1>1. /\ holder # NoPuller /\ db' = db /\ Working /\ TypeInv /\ ~ Races(Try.writes)
      /\ tx'.present = tx.present \cup {r} /\ tx'.touched = Try.touched \cup {MemberKey(r)}
      /\ tx'.merges = tx.merges \cup {[duplicate |-> d, survivor |-> r] : d \in Try.found}
      /\ IsPlaced(Mine', Try.tables, r, Entering)
  BY DEF StoreFacts, Keeps, StoredOn, SafeInv
<1>2. \A s \in Row : s # r => Mine'.member[s] = Try.tables.member[s]
  BY <1>1 DEF IsPlaced
<1>3. /\ Try.found = {} => Try.tables = Mine /\ Try.touched = tx.touched
      /\ Try.found # {} => /\ Merging /\ r = Into /\ Try.touched = tx.touched \cup MergeKeys
                           /\ IsFold(Try.tables, Mine, From, Into, Entering.st)
                           /\ From \subseteq Stored(Mine)
  BY DEF StoreFacts, Merging
<1>4. ASSUME NEW s \in Row, s # r, Mine.member[s] = NoMember PROVE Mine'.member[s] = NoMember
  <2>1. CASE Try.found = {}
    BY <1>2, <1>3, <1>4, <2>1
  <2>2. CASE Try.found # {}
    <3>1. s \notin From \cup {Into}
      BY <1>3, <1>4, <2>2 DEF Stored
    <3>2. Try.tables.member[s] = Mine.member[s]
      BY <1>3, <2>2, <3>1 DEF IsFold
    <3>. QED
      BY <1>2, <1>4, <3>2
  <2>. QED
    BY <2>1, <2>2
<1>5. ASSUME Try.found # {}, NEW s \in From
      PROVE  /\ s \in Row /\ s # r /\ Mine'.member[s] = NoMember /\ BanKey(s) \in MergeKeys
             /\ \A b \in Body : RoleKey(s, b) \in MergeKeys
  <2>1. s \in Row /\ s # r
    BY <1>3, <1>5 DEF From, Stored
  <2>2. Mine'.member[s] = NoMember
    BY <1>2, <1>3, <1>5, <2>1 DEF IsFold
  <2>3. Cascaded(s) \subseteq MergeKeys
    BY <1>3, <1>5 DEF Merging
  <2>. QED
    BY <2>1, <2>2, <2>3 DEF Cascaded
<1>6. ASSUME NEW s \in Row, MemberKey(s) \in tx'.touched
      PROVE  s \in tx'.present \/ Mine'.member[s] = NoMember
  <2>1. CASE s = r
    BY <1>1, <2>1
  <2>2. CASE s # r /\ MemberKey(s) \in tx.touched
    BY <1>1, <1>4, <2>2 DEF Merges
  <2>3. CASE s # r /\ MemberKey(s) \notin tx.touched
    <3>1. MemberKey(s) # MemberKey(r)
      BY <2>3, KeyDistinct
    <3>2. Try.found # {} /\ MemberKey(s) \in MergeKeys
      BY <1>1, <1>3, <1>6, <2>3, <3>1
    <3>3. s \in From
      BY <1>1, <1>3, <2>3, <3>2, MergedMembers
    <3>. QED
      BY <1>5, <3>2, <3>3
  <2>. QED
    BY <2>1, <2>2, <2>3
<1>7. \A d \in Try.found : /\ d \in Stored(db) /\ MemberKey(d) \notin tx.touched
                           /\ MemberKey(d) \in MergeKeys
  BY <1>1, <1>3, FoundUntouched DEF Merging
<1>8. ASSUME NEW m \in tx'.merges
      PROVE  \/ m \in tx.merges
             \/ \E d \in Try.found : m = [duplicate |-> d, survivor |-> r]
  BY <1>1, <1>8
<1>9. ASSUME NEW m \in tx.merges
      PROVE  /\ m.survivor \in tx.present
             /\ m.duplicate \in Stored(db) /\ MemberKey(m.duplicate) \in tx.touched
             /\ m.duplicate # m.survivor =>
                   /\ Mine'.member[m.duplicate] = NoMember /\ BanKey(m.duplicate) \in tx.touched
                   /\ \A b \in Body : RoleKey(m.duplicate, b) \in tx.touched
  <2>1. /\ m.survivor \in tx.present
        /\ m.duplicate \in Stored(db) /\ MemberKey(m.duplicate) \in tx.touched
        /\ m.duplicate # m.survivor =>
              /\ Mine.member[m.duplicate] = NoMember /\ BanKey(m.duplicate) \in tx.touched
              /\ \A b \in Body : RoleKey(m.duplicate, b) \in tx.touched
    BY <1>1, <1>9 DEF Merges
  <2>2. ASSUME m.duplicate # m.survivor PROVE Mine'.member[m.duplicate] = NoMember
    <3>1. Mine.member[m.duplicate] = NoMember /\ m.duplicate \in Row /\ m.duplicate \notin Stored(Mine)
      BY <2>1, <2>2 DEF Stored
    <3>2. m.duplicate # r
      <4>1. \/ r \in RowOf(Try.tables, Entering.st)
            \/ r \notin Stored(db)
        BY DEF StoreFacts, StoredOn
      <4>2. RowOf(Try.tables, Entering.st) \subseteq Stored(Mine)
        BY StoreRows DEF RowOf
      <4>. QED
        BY <2>1, <3>1, <4>1, <4>2
    <3>. QED
      BY <1>4, <3>1, <3>2
  <2>. QED
    BY <2>1, <2>2
<1>10. tx.touched \subseteq tx'.touched /\ (Try.found # {} => MergeKeys \subseteq tx'.touched)
  BY <1>1, <1>3
<1>11. ASSUME NEW m \in tx'.merges
       PROVE  /\ m.survivor \in tx'.present
              /\ m.duplicate \in Stored(db) /\ MemberKey(m.duplicate) \in tx'.touched
              /\ m.duplicate # m.survivor =>
                    /\ Mine'.member[m.duplicate] = NoMember /\ BanKey(m.duplicate) \in tx'.touched
                    /\ \A b \in Body : RoleKey(m.duplicate, b) \in tx'.touched
  <2>1. CASE m \in tx.merges
    BY <1>1, <1>9, <1>10, <2>1
  <2>2. ASSUME NEW d \in Try.found, m = [duplicate |-> d, survivor |-> r]
        PROVE  /\ m.survivor \in tx'.present
               /\ m.duplicate \in Stored(db) /\ MemberKey(m.duplicate) \in tx'.touched
               /\ m.duplicate # m.survivor =>
                     /\ Mine'.member[m.duplicate] = NoMember /\ BanKey(m.duplicate) \in tx'.touched
                     /\ \A b \in Body : RoleKey(m.duplicate, b) \in tx'.touched
    <3>1. m.duplicate = d /\ m.survivor = r
      BY <2>2
    <3>2. d # r => d \in From
      BY <1>3 DEF From
    <3>. QED
      BY <1>1, <1>5, <1>7, <1>10, <3>1, <3>2
  <2>. QED
    BY <1>8, <2>1, <2>2
<1>12. ASSUME NEW m \in tx'.merges, NEW n \in tx'.merges, m.duplicate = n.duplicate PROVE m = n
  <2>1. CASE m \in tx.merges /\ n \in tx.merges
    BY <1>1, <1>12, <2>1 DEF Merges
  <2>2. CASE m \in tx.merges /\ n \notin tx.merges
    BY <1>7, <1>8, <1>9, <1>12, <2>2
  <2>3. CASE m \notin tx.merges /\ n \in tx.merges
    BY <1>7, <1>8, <1>9, <1>12, <2>3
  <2>4. CASE m \notin tx.merges /\ n \notin tx.merges
    BY <1>8, <1>12, <2>4
  <2>. QED
    BY <2>1, <2>2, <2>3, <2>4
<1>. QED
  BY <1>1, <1>6, <1>11, <1>12 DEF Merges, Stored

\* A store moves what stands for a row on to where that is folded.
Moves == \A x : HomeAfter(x)' = IF Try.found # {} THEN Author(From, Into, HomeAfter(x))
                                                  ELSE HomeAfter(x)

LEMMA StoreMoves ==
    ASSUME SafeInv, Merges, NEW r \in Row, StoreFacts(r)
    PROVE  Moves
<1>1. /\ holder # NoPuller /\ holder' = holder /\ Working /\ ~ Races(Try.writes)
      /\ tx'.merges = tx.merges \cup {[duplicate |-> d, survivor |-> r] : d \in Try.found}
      /\ Try.found # {} => r = Into
  BY DEF StoreFacts, Keeps, StoredOn, Working
<1>2. Merges'
  BY StoreMerges
<1>3. /\ \A m \in tx'.merges : HomeAfter(m.duplicate)' = m.survivor
      /\ \A x : (\A m \in tx'.merges : m.duplicate # x) => HomeAfter(x)' = x
  <2>1. ASSUME NEW m \in tx'.merges PROVE HomeAfter(m.duplicate)' = m.survivor
    <3>. DEFINE c == CHOOSE n \in tx'.merges : n.duplicate = m.duplicate
    <3>1. c \in tx'.merges /\ c.duplicate = m.duplicate
      OBVIOUS
    <3>2. HomeAfter(m.duplicate)' = c.survivor
      BY DEF HomeAfter
    <3>. HIDE DEF c
    <3>3. c = m
      BY <1>1, <1>2, <3>1 DEF Merges
    <3>. QED
      BY <3>2, <3>3
  <2>. QED
    BY <2>1 DEF HomeAfter
<1>4. ASSUME NEW x
      PROVE  HomeAfter(x)' = IF Try.found # {} THEN Author(From, Into, HomeAfter(x)) ELSE HomeAfter(x)
  <2>1. ASSUME NEW m \in tx.merges, m.duplicate = x
        PROVE  HomeAfter(x)' = IF Try.found # {} THEN Author(From, Into, HomeAfter(x)) ELSE HomeAfter(x)
    <3>1. HomeAfter(x)' = m.survivor /\ HomeAfter(x) = m.survivor /\ m.survivor \in tx.present
      BY <1>1, <1>3, <2>1, HomeIsSurvivor DEF Merges
    <3>2. m.survivor \notin From
      BY <1>1, <3>1, FoundUntouched DEF From
    <3>. QED
      BY <3>1, <3>2 DEF Author
  <2>2. CASE (\A m \in tx.merges : m.duplicate # x) /\ x \in Try.found
    <3>1. HomeAfter(x) = x
      BY <1>1, <2>2, HomeIsSurvivor
    <3>2. [duplicate |-> x, survivor |-> r] \in tx'.merges
      BY <1>1, <2>2
    <3>3. HomeAfter(x)' = r
      BY <1>3, <3>2
    <3>. QED
      BY <1>1, <2>2, <3>1, <3>3 DEF Author, From
  <2>3. CASE (\A m \in tx.merges : m.duplicate # x) /\ x \notin Try.found
    <3>1. HomeAfter(x) = x
      BY <1>1, <2>3, HomeIsSurvivor
    <3>2. \A m \in tx'.merges : m.duplicate # x
      BY <1>1, <2>3
    <3>3. HomeAfter(x)' = x
      BY <1>3, <3>2
    <3>. QED
      BY <2>3, <3>1, <3>3 DEF Author, From
  <2>. QED
    BY <2>1, <2>2, <2>3
<1>. QED
  BY <1>4 DEF Moves

Stays == \A x : HomeAfter(x)' = HomeAfter(x)

LEMMA HomeStays ==
    ASSUME tx'.merges = tx.merges
    PROVE  Stays
BY DEF Stays, HomeAfter

LEMMA TakeMerges ==
    ASSUME SafeInv, TakeLock
    PROVE  tx'.merges = {} /\ tx'.touched = {} /\ tx'.present = {} /\ \A x : HomeAfter(x)' = x
<1>1. tx'.merges = {} /\ tx'.touched = {} /\ tx'.present = {}
  BY TakeSafe DEF Locals
<1>. QED
  BY <1>1 DEF HomeAfter

LEMMA MergesStep ==
    ASSUME SafeInv, Merges, [Next]_vars
    PROVE  Merges'
<1>1. CASE holder' = NoPuller
  BY <1>1 DEF Merges
<1>2. CASE Quiet
  BY <1>2 DEF Merges, Quiet, Stored
<1>3. CASE TakeLock
  BY <1>3, TakeMerges DEF Merges
<1>4. CASE StoreMember
  BY <1>4, StoreFactsHold, StoreMerges
<1>5. CASE SkipMember
  <2>1. /\ holder # NoPuller /\ db' = db /\ Mine' = Mine
        /\ tx'.present = tx.present /\ tx'.merges = tx.merges /\ tx'.touched = tx.touched
    BY <1>5, SkipIs, SkipSafe DEF SafeInv, Keeps
  <2>. QED
    BY <2>1 DEF Merges, Stored
<1>6. CASE Others
  <2>1. PICK K : OthersKeep(K)
    BY <1>6, OthersIs DEF SafeInv
  <2>2. holder' = holder /\ tx' = tx /\ db'.member = db.member /\ Mine' = Mine
    BY <2>1 DEF OthersKeep, Mine
  <2>. QED
    BY <2>2 DEF Merges, Stored
<1>. QED
  BY <1>1, <1>2, <1>3, <1>4, <1>5, <1>6, StepCases

-----------------------------------------------------------------------------
(* What a store leaves of the memberships and bans that the indexes see.    *)

\* A ban on a folded row is on the survivor, and written.
LEMMA StoreBans ==
    ASSUME SafeInv, NEW r \in Row, StoreFacts(r), NEW h \in View.banned
    PROVE  /\ (IF Try.found # {} THEN Author(From, Into, h) ELSE h) \in View'.banned
           /\ Try.found # {} /\ h \in From => BanKey(Into) \in tx'.touched
<1>1. /\ View'.banned = TryView.banned /\ View \in Tables /\ Mine \in Tables
      /\ holder # NoPuller /\ TypeInv /\ ViewsAgree /\ ~ Races(Try.writes)
      /\ tx'.touched = Try.touched \cup {MemberKey(r)}
  BY DEF StoreFacts, IsPlaced, StoredOn, SafeInv, Working
<1>2. h \in Row
  BY <1>1 DEF Tables
<1>3. CASE Try.found = {}
  BY <1>1, <1>3 DEF StoreFacts
<1>4. CASE Try.found # {}
  <2>1. /\ Merging /\ IsFold(TryView, View, From, Into, Entering.st) /\ Into \in Row
        /\ Try.touched = tx.touched \cup MergeKeys /\ MergeKeys \cap outdated[holder] = {}
    BY <1>1, <1>4 DEF StoreFacts, MergingInView, Merging, Races
  <2>2. CASE h \notin From
    BY <1>1, <1>2, <1>4, <2>1, <2>2 DEF IsFold, Author
  <2>3. CASE h \in From
    <3>1. Into \in TryView.banned
      BY <2>1, <2>3 DEF IsFold
    <3>2. BanKey(h) \notin outdated[holder]
      BY <2>1, <2>3 DEF Merging, Cascaded
    <3>3. h \in Mine.banned
      BY <1>1, <1>2, <3>2, ViewAgrees DEF AgreesOff
    <3>4. BanKey(Into) \in MergeKeys
      BY <2>3, <3>3 DEF MergeKeys, MergeWrites, Into, From
    <3>. QED
      BY <1>1, <1>4, <2>1, <2>3, <3>1, <3>4 DEF Author
  <2>. QED
    BY <2>2, <2>3
<1>. QED
  BY <1>3, <1>4

\* A manual add of a row that is not folded stays; one of a folded row is carried, unless
\* the survivor has a leader row of the body.
LEMMA StoreAdds ==
    ASSUME SafeInv, NEW r \in Row, StoreFacts(r), NEW h \in Row, NEW b \in Body,
           View.role[h][b] = "member"
    PROVE  /\ Try.found = {} \/ h \notin From => View'.role[h][b] = "member"
           /\ Try.found # {} /\ h \in From =>
                 /\ RoleKey(Into, b) \in tx'.touched
                 /\ db.role[Into][b] = "leader" \/ View'.role[Into][b] = "member"
<1>1. /\ View'.role = TryView.role /\ View \in Tables /\ Mine \in Tables
      /\ holder # NoPuller /\ TypeInv /\ ViewsAgree /\ ~ Races(Try.writes)
      /\ tx'.touched = Try.touched \cup {MemberKey(r)}
  BY DEF StoreFacts, IsPlaced, StoredOn, SafeInv, Working
<1>2. CASE Try.found = {}
  BY <1>1, <1>2 DEF StoreFacts
<1>3. CASE Try.found # {}
  <2>1. /\ Merging /\ MergingInView /\ IsFold(TryView, View, From, Into, Entering.st)
        /\ Into \in Row \ From /\ Into \in Stored(Mine) /\ From \in SUBSET Row
        /\ Try.touched = tx.touched \cup MergeKeys /\ MergeKeys \cap outdated[holder] = {}
    BY <1>1, <1>3 DEF StoreFacts, MergingInView, Merging, Races
  <2>2. CASE h \notin From
    BY <1>1, <1>3, <2>1, <2>2 DEF IsFold, Carries
  <2>3. CASE h \in From
    <3>1. RoleKey(h, b) \notin outdated[holder]
      BY <2>1, <2>3 DEF Merging, Cascaded
    <3>2. Mine.role[h][b] = "member"
      BY <1>1, <3>1, ViewAgrees DEF AgreesOff
    <3>3. CarriedFrom(Mine, From, b) # {}
      <4>1. {f \in From : Mine.role[f][b] = "member"} \in SUBSET Stored(Mine)
        BY <2>1 DEF Merging
      <4>2. {f \in From : Mine.role[f][b] = "member"} # {}
        BY <2>3, <3>2
      <4>. QED
        BY <1>1, <4>1, <4>2, FirstExists DEF CarriedFrom
    <3>4. RoleKey(Into, b) \in MergeKeys
      BY <3>3 DEF MergeKeys, MergeWrites, Into, From
    <3>5. CarriedFrom(View, From, b) # {}
      BY <2>1, <3>3 DEF MergingInView
    <3>6. View.role[Into][b] \in Role
      BY <1>1, <2>1 DEF Tables
    <3>7. CASE View.role[Into][b] = "none"
      <4>1. Carries(View, From, Into, b)
        BY <3>5, <3>7 DEF Carries
      <4>. QED
        BY <1>1, <1>3, <2>1, <2>3, <3>4, <4>1 DEF IsFold
    <3>8. CASE View.role[Into][b] = "member"
      BY <1>1, <1>3, <2>1, <2>3, <3>4, <3>8 DEF IsFold, Carries
    <3>9. CASE View.role[Into][b] = "leader"
      <4>1. RoleKey(Into, b) \notin outdated[holder]
        BY <2>1, <3>4
      <4>2. Mine.role[Into][b] = "leader"
        BY <1>1, <2>1, <3>9, <4>1, ViewAgrees DEF AgreesOff
      <4>3. LeadersAgree(Mine, db, outdated[holder], tx.touched)
        <5>1. holder \in Puller /\ snapshot[holder] # NoView
          BY <1>1, HolderType
        <5>. QED
          BY <1>1, <5>1 DEF ViewsAgree, Mine, Touched
      <4>4. db.role[Into][b] = "leader"
        BY <2>1, <4>1, <4>2, <4>3 DEF LeadersAgree
      <4>. QED
        BY <1>1, <1>3, <2>1, <2>3, <3>4, <4>4
    <3>. QED
      BY <3>6, <3>7, <3>8, <3>9 DEF Role
  <2>. QED
    BY <2>2, <2>3
<1>. QED
  BY <1>2, <1>3

\* Where a membership that a store leaves comes from.
LEMMA StoreAdders ==
    ASSUME SafeInv, NEW r \in Row, StoreFacts(r), NEW y \in Row, NEW b \in Body,
           View'.role[y][b] = "member"
    PROVE  /\ Try.found = {} => /\ View.role[y][b] = "member"
                                /\ View'.addedBy[y][b] = View.addedBy[y][b]
           /\ Try.found # {} =>
                 \E f \in Row : /\ View.role[f][b] = "member" /\ Author(From, Into, f) = y
                                /\ View'.addedBy[y][b] = Author(From, Into, View.addedBy[f][b])
<1>1. /\ View'.role = TryView.role /\ View'.addedBy = TryView.addedBy
  BY DEF StoreFacts, IsPlaced
<1>2. CASE Try.found = {}
  BY <1>1, <1>2 DEF StoreFacts
<1>3. CASE Try.found # {}
  <2>1. IsFold(TryView, View, From, Into, Entering.st) /\ From \in SUBSET Row /\ Into \in Row \ From
    BY <1>3 DEF StoreFacts, MergingInView, Merging
  <2>2. y \notin From
    BY <1>1, <2>1 DEF IsFold
  <2>3. CASE y = Into /\ Carries(View, From, Into, b)
    <3>1. PICK f \in CarriedFrom(View, From, b) :
             TryView.addedBy[Into][b] = Author(From, Into, View.addedBy[f][b])
      BY <2>1, <2>3 DEF IsFold
    <3>2. f \in From /\ View.role[f][b] = "member"
      BY CarriedIn
    <3>. QED
      BY <1>1, <1>3, <2>1, <2>3, <3>1, <3>2 DEF Author
  <2>4. CASE y # Into \/ ~ Carries(View, From, Into, b)
    <3>1. /\ View.role[y][b] = "member"
          /\ View'.addedBy[y][b] = Author(From, Into, View.addedBy[y][b])
      BY <1>1, <2>1, <2>2, <2>4 DEF IsFold
    <3>. QED
      BY <1>3, <2>2, <3>1 DEF Author
  <2>. QED
    BY <2>3, <2>4
<1>. QED
  BY <1>2, <1>3

-----------------------------------------------------------------------------
(* Bans and manual adds stay with who they are of, until the commit.        *)

\* What the holder sees of a membership or of a ban that others write.
RoleSeen(r, b, x, by) ==
    /\ holder' = holder /\ tx' = tx /\ Stays /\ RoleKey(r, b) \notin tx.touched
    /\ db'.banned = db.banned /\ \A s \in Row : s \in View'.banned <=> s \in View.banned
    /\ View'.role[r][b] = x /\ View'.addedBy[r][b] = by
    /\ db'.role[r][b] = x /\ db'.addedBy[r][b] = by
    /\ \A s \in Row, c \in Body : s # r \/ c # b =>
          /\ View'.role[s][c] = View.role[s][c] /\ View'.addedBy[s][c] = View.addedBy[s][c]
          /\ db'.role[s][c] = db.role[s][c] /\ db'.addedBy[s][c] = db.addedBy[s][c]

LEMMA RoleIsSeen ==
    ASSUME SafeInv, holder # NoPuller, NEW r \in Row, NEW b \in Body, NEW x, NEW by,
           RoleWritten(r, b, x, by)
    PROVE  RoleSeen(r, b, x, by)
<1>. DEFINE K == {RoleKey(r, b)}
<1>1. /\ OthersKeep(K) /\ db'.role[r][b] = x /\ db'.addedBy[r][b] = by /\ db'.banned = db.banned
      /\ \A s \in Row, c \in Body : s # r \/ c # b =>
            db'.role[s][c] = db.role[s][c] /\ db'.addedBy[s][c] = db.addedBy[s][c]
  BY DEF RoleWritten
<1>2. holder' = holder /\ tx' = tx /\ K \cap tx.touched = {}
  BY <1>1 DEF OthersKeep
<1>3. AgreesOff(View', View, K) /\ AgreesOn(View', db', K)
  BY <1>1, OthersView
<1>4. \A s \in Row : s \in View'.banned <=> s \in View.banned
  BY <1>3, KeyDistinct DEF AgreesOff
<1>5. \A s \in Row, c \in Body : s # r \/ c # b =>
         View'.role[s][c] = View.role[s][c] /\ View'.addedBy[s][c] = View.addedBy[s][c]
  BY <1>3, KeyDistinct DEF AgreesOff
<1>6. View'.role[r][b] = x /\ View'.addedBy[r][b] = by
  BY <1>1, <1>3 DEF AgreesOn
<1>7. Stays
  BY <1>2, HomeStays
<1>. QED
  BY <1>1, <1>2, <1>4, <1>5, <1>6, <1>7 DEF RoleSeen

BanSeen(r, B) ==
    /\ holder' = holder /\ tx' = tx /\ Stays /\ BanKey(r) \notin tx.touched
    /\ db'.role = db.role /\ db'.addedBy = db.addedBy /\ db'.banned = B
    /\ r \in View'.banned <=> r \in B
    /\ \A s \in Row : s # r => (s \in View'.banned <=> s \in View.banned)
    /\ \A s \in Row, c \in Body :
          View'.role[s][c] = View.role[s][c] /\ View'.addedBy[s][c] = View.addedBy[s][c]

LEMMA BanIsSeen ==
    ASSUME SafeInv, holder # NoPuller, NEW r \in Row, NEW B, BanWritten(r, B)
    PROVE  BanSeen(r, B)
<1>. DEFINE K == {BanKey(r)}
<1>1. OthersKeep(K) /\ db'.role = db.role /\ db'.addedBy = db.addedBy /\ db'.banned = B
  BY DEF BanWritten
<1>2. holder' = holder /\ tx' = tx /\ K \cap tx.touched = {}
  BY <1>1 DEF OthersKeep
<1>3. AgreesOff(View', View, K) /\ AgreesOn(View', db', K)
  BY <1>1, OthersView
<1>4. \A s \in Row : s # r => (s \in View'.banned <=> s \in View.banned)
  BY <1>3, KeyDistinct DEF AgreesOff
<1>5. \A s \in Row, c \in Body :
         View'.role[s][c] = View.role[s][c] /\ View'.addedBy[s][c] = View.addedBy[s][c]
  BY <1>3, KeyDistinct DEF AgreesOff
<1>6. r \in View'.banned <=> r \in B
  BY <1>1, <1>3 DEF AgreesOn
<1>7. Stays
  BY <1>2, HomeStays
<1>. QED
  BY <1>1, <1>2, <1>4, <1>5, <1>6, <1>7 DEF BanSeen

LEMMA BansFollowStep ==
    ASSUME SafeInv, Merges, BansFollow, [Next]_vars
    PROVE  BansFollow'
<1>1. CASE holder' = NoPuller
  BY <1>1 DEF BansFollow
<1>2. CASE Quiet
  <2>1. Stays
    BY <1>2, HomeStays DEF Quiet
  <2>. QED
    BY <1>2, <2>1 DEF BansFollow, Quiet, Stays
<1>3. CASE TakeLock
  BY <1>3, TakeMerges, TakeSafe DEF BansFollow
<1>4. CASE StoreMember
  <2>1. PICK r \in Row : StoreFacts(r)
    BY <1>4, StoreFactsHold
  <2>2. /\ holder # NoPuller /\ db' = db /\ Moves
        /\ Try.found # {} => Into \notin From /\ Try.touched = tx.touched \cup MergeKeys
        /\ Try.found = {} => Try.touched = tx.touched
        /\ tx'.touched = Try.touched \cup {MemberKey(r)}
    BY <2>1, StoreMoves DEF StoreFacts, Keeps, StoredOn, Merging
  <2>3. ASSUME NEW x \in db.banned
        PROVE  /\ HomeAfter(x)' \in View'.banned
               /\ HomeAfter(x)' # x => BanKey(HomeAfter(x)') \in tx'.touched
    <3>1. HomeAfter(x) \in View.banned /\ (HomeAfter(x) # x => BanKey(HomeAfter(x)) \in tx.touched)
      BY <2>2 DEF BansFollow
    <3>2. HomeAfter(x)' = IF Try.found # {} THEN Author(From, Into, HomeAfter(x)) ELSE HomeAfter(x)
      BY <2>2 DEF Moves
    <3>3. HomeAfter(x)' \in View'.banned
      BY <2>1, <3>1, <3>2, StoreBans
    <3>4. CASE Try.found # {} /\ HomeAfter(x) \in From
      <4>1. BanKey(Into) \in tx'.touched
        BY <2>1, <3>1, <3>4, StoreBans
      <4>. QED
        BY <3>2, <3>3, <3>4, <4>1 DEF Author
    <3>5. CASE Try.found = {} \/ HomeAfter(x) \notin From
      <4>1. HomeAfter(x)' = HomeAfter(x)
        BY <3>2, <3>5 DEF Author
      <4>. QED
        BY <2>2, <3>1, <3>3, <4>1
    <3>. QED
      BY <3>4, <3>5
  <2>. QED
    BY <2>2, <2>3 DEF BansFollow
<1>5. CASE SkipMember
  <2>1. /\ holder # NoPuller /\ db' = db /\ View' = View
        /\ tx'.merges = tx.merges /\ tx'.touched = tx.touched
    BY <1>5, SkipIs, SkipSafe DEF SafeInv, Keeps
  <2>2. Stays
    BY <2>1, HomeStays
  <2>. QED
    BY <2>1, <2>2 DEF BansFollow, Stays
<1>6. CASE Others /\ holder # NoPuller
  <2>0. \A x \in db.banned : x \in Row /\ HomeAfter(x) \in Row
    BY <1>6, HomeType DEF SafeInv, TypeInv, TypeOK, Tables
  <2>1. ASSUME NEW r \in Row, NEW b \in Body, NEW x, NEW by, RoleWritten(r, b, x, by)
        PROVE  BansFollow'
    <3>1. RoleSeen(r, b, x, by)
      BY <1>6, <2>1, RoleIsSeen
    <3>. QED
      BY <2>0, <3>1 DEF RoleSeen, BansFollow, Stays
  <2>2. ASSUME NEW r \in Row, BanWritten(r, db.banned \cup {r}) \/ BanWritten(r, db.banned \ {r})
        PROVE  BansFollow'
    <3>1. \/ BanSeen(r, db.banned \cup {r})
          \/ BanSeen(r, db.banned \ {r})
      BY <1>6, <2>2, BanIsSeen
    <3>2. BanKey(r) \notin tx.touched /\ Stays /\ tx' = tx
      BY <3>1 DEF BanSeen
    <3>3. HomeAfter(r) = r
      BY <1>6, <3>2, MovedIsTouched
    <3>4. ASSUME NEW x \in db'.banned
          PROVE  /\ HomeAfter(x) \in View'.banned
                 /\ HomeAfter(x) # x => BanKey(HomeAfter(x)) \in tx.touched
      <4>1. CASE x = r
        BY <3>1, <3>3, <3>4, <4>1 DEF BanSeen
      <4>2. CASE x # r
        <5>1. x \in db.banned
          BY <3>1, <3>4, <4>2 DEF BanSeen
        <5>2. HomeAfter(x) \in View.banned /\ (HomeAfter(x) # x => BanKey(HomeAfter(x)) \in tx.touched)
          BY <1>6, <5>1 DEF BansFollow
        <5>3. HomeAfter(x) # r
          BY <3>2, <4>2, <5>2
        <5>. QED
          BY <2>0, <3>1, <5>1, <5>2, <5>3 DEF BanSeen
      <4>. QED
        BY <4>1, <4>2
    <3>. QED
      BY <3>2, <3>4 DEF BansFollow, Stays
  <2>. QED
    BY <1>6, <2>1, <2>2, OthersCases
<1>7. CASE Others /\ holder = NoPuller
  <2>1. holder' = NoPuller
    BY <1>7, OthersIs DEF OthersKeep, SafeInv
  <2>. QED
    BY <2>1 DEF BansFollow
<1>. QED
  BY <1>1, <1>2, <1>3, <1>4, <1>5, <1>6, <1>7, StepCases

LEMMA AddsFollowStep ==
    ASSUME SafeInv, Merges, AddsFollow, [Next]_vars
    PROVE  AddsFollow'
<1>1. CASE holder' = NoPuller
  BY <1>1 DEF AddsFollow
<1>2. CASE Quiet
  <2>1. Stays
    BY <1>2, HomeStays DEF Quiet
  <2>. QED
    BY <1>2, <2>1 DEF AddsFollow, Quiet, Stays
<1>3. CASE TakeLock
  BY <1>3, TakeMerges, TakeSafe DEF AddsFollow
<1>4. CASE StoreMember
  <2>1. PICK r \in Row : StoreFacts(r)
    BY <1>4, StoreFactsHold
  <2>2. /\ holder # NoPuller /\ db' = db /\ Moves /\ Working /\ ~ Races(Try.writes)
        /\ Try.found # {} => Into \notin From /\ Try.touched = tx.touched \cup MergeKeys
        /\ Try.found = {} => Try.touched = tx.touched
        /\ tx'.touched = Try.touched \cup {MemberKey(r)}
    BY <2>1, StoreMoves DEF StoreFacts, Keeps, StoredOn, Merging
  <2>3. ASSUME NEW x \in Row, NEW b \in Body, db.role[x][b] = "member"
        PROVE  /\ db.role[HomeAfter(x)'][b] = "leader" \/ View'.role[HomeAfter(x)'][b] = "member"
               /\ HomeAfter(x)' # x => RoleKey(HomeAfter(x)', b) \in tx'.touched
    <3>1. /\ db.role[HomeAfter(x)][b] = "leader" \/ View.role[HomeAfter(x)][b] = "member"
          /\ HomeAfter(x) # x => RoleKey(HomeAfter(x), b) \in tx.touched
      BY <2>2, <2>3 DEF AddsFollow
    <3>2. HomeAfter(x)' = IF Try.found # {} THEN Author(From, Into, HomeAfter(x)) ELSE HomeAfter(x)
      BY <2>2 DEF Moves
    <3>3. HomeAfter(x) \in Row
      BY <2>2, <2>3, HomeType DEF SafeInv
    <3>4. CASE Try.found # {} /\ HomeAfter(x) \in From
      <4>1. HomeAfter(x) \notin tx.present
        BY <2>2, <3>4, FoundUntouched DEF From
      <4>2. HomeAfter(x) = x
        BY <2>2, <4>1, MovedIsTouched
      <4>3. View.role[x][b] = "member"
        BY <2>3, <3>1, <4>2
      <4>4. /\ RoleKey(Into, b) \in tx'.touched
            /\ db.role[Into][b] = "leader" \/ View'.role[Into][b] = "member"
        BY <2>1, <2>3, <3>4, <4>2, <4>3, StoreAdds
      <4>. QED
        BY <3>2, <3>4, <4>4 DEF Author
    <3>5. CASE Try.found = {} \/ HomeAfter(x) \notin From
      <4>1. HomeAfter(x)' = HomeAfter(x)
        BY <3>2, <3>5 DEF Author
      <4>2. View.role[HomeAfter(x)][b] = "member" => View'.role[HomeAfter(x)][b] = "member"
        BY <2>1, <3>3, <3>5, StoreAdds
      <4>. QED
        BY <2>2, <3>1, <4>1, <4>2
    <3>. QED
      BY <3>4, <3>5
  <2>. QED
    BY <2>2, <2>3 DEF AddsFollow
<1>5. CASE SkipMember
  <2>1. /\ holder # NoPuller /\ db' = db /\ View' = View
        /\ tx'.merges = tx.merges /\ tx'.touched = tx.touched
    BY <1>5, SkipIs, SkipSafe DEF SafeInv, Keeps
  <2>2. Stays
    BY <2>1, HomeStays
  <2>. QED
    BY <2>1, <2>2 DEF AddsFollow, Stays
<1>6. CASE Others /\ holder # NoPuller
  <2>1. ASSUME NEW r \in Row, NEW c \in Body, NEW z, NEW by, RoleWritten(r, c, z, by),
               \/ z = "member" /\ db.role[r][c] = "none"
               \/ z = "none" /\ db.role[r][c] = "member"
        PROVE  AddsFollow'
    <3>1. RoleSeen(r, c, z, by)
      BY <1>6, <2>1, RoleIsSeen
    <3>2. Stays /\ tx' = tx /\ RoleKey(r, c) \notin tx.touched
      BY <3>1 DEF RoleSeen
    <3>3. HomeAfter(r) = r
      BY <1>6, <3>2, MovedIsTouched
    <3>4. ASSUME NEW x \in Row, NEW b \in Body, db'.role[x][b] = "member"
          PROVE  /\ db'.role[HomeAfter(x)][b] = "leader" \/ View'.role[HomeAfter(x)][b] = "member"
                 /\ HomeAfter(x) # x => RoleKey(HomeAfter(x), b) \in tx.touched
      <4>1. CASE x = r /\ b = c
        BY <3>1, <3>3, <3>4, <4>1 DEF RoleSeen
      <4>2. CASE x # r \/ b # c
        <5>1. db.role[x][b] = "member" /\ HomeAfter(x) \in Row
          BY <1>6, <3>1, <3>4, <4>2, HomeType DEF RoleSeen, SafeInv
        <5>2. /\ db.role[HomeAfter(x)][b] = "leader" \/ View.role[HomeAfter(x)][b] = "member"
              /\ HomeAfter(x) # x => RoleKey(HomeAfter(x), b) \in tx.touched
          BY <1>6, <5>1 DEF AddsFollow
        <5>3. HomeAfter(x) # r \/ b # c
          BY <3>2, <4>2, <5>2
        <5>. QED
          BY <3>1, <5>1, <5>2, <5>3 DEF RoleSeen
      <4>. QED
        BY <4>1, <4>2
    <3>. QED
      BY <3>2, <3>4 DEF AddsFollow, Stays
  <2>2. ASSUME NEW r \in Row, NEW B, BanWritten(r, B)
        PROVE  AddsFollow'
    <3>1. BanSeen(r, B)
      BY <1>6, <2>2, BanIsSeen
    <3>2. \A x \in Row : HomeAfter(x) \in Row
      BY <1>6, HomeType DEF SafeInv
    <3>. QED
      BY <1>6, <3>1, <3>2 DEF BanSeen, AddsFollow, Stays
  <2>. QED
    BY <1>6, <2>1, <2>2, OthersCases
<1>7. CASE Others /\ holder = NoPuller
  <2>1. holder' = NoPuller
    BY <1>7, OthersIs DEF OthersKeep, SafeInv
  <2>. QED
    BY <2>1 DEF AddsFollow
<1>. QED
  BY <1>1, <1>2, <1>3, <1>4, <1>5, <1>6, <1>7, StepCases

LEMMA AddersFollowStep ==
    ASSUME SafeInv, Merges, AddersFollow, [Next]_vars
    PROVE  AddersFollow'
<1>1. CASE holder' = NoPuller
  BY <1>1 DEF AddersFollow
<1>2. CASE Quiet
  <2>1. Stays
    BY <1>2, HomeStays DEF Quiet
  <2>. QED
    BY <1>2, <2>1 DEF AddersFollow, Quiet, Stays
<1>3. CASE TakeLock
  BY <1>3, TakeMerges, TakeSafe DEF AddersFollow
<1>4. CASE StoreMember
  <2>1. PICK r \in Row : StoreFacts(r)
    BY <1>4, StoreFactsHold
  <2>2. holder # NoPuller /\ db' = db /\ Moves
    BY <2>1, StoreMoves DEF StoreFacts, Keeps
  <2>3. ASSUME NEW y \in Row, NEW b \in Body, View'.role[y][b] = "member"
        PROVE  \E x \in Row : /\ HomeAfter(x)' = y /\ db.role[x][b] = "member"
                              /\ View'.addedBy[y][b] = HomeAfter(db.addedBy[x][b])'
    <3>1. CASE Try.found = {}
      <4>1. View.role[y][b] = "member" /\ View'.addedBy[y][b] = View.addedBy[y][b]
        BY <2>1, <2>3, <3>1, StoreAdders
      <4>2. PICK x \in Row : /\ HomeAfter(x) = y /\ db.role[x][b] = "member"
                             /\ View.addedBy[y][b] = HomeAfter(db.addedBy[x][b])
        BY <2>2, <4>1 DEF AddersFollow
      <4>. QED
        BY <2>2, <3>1, <4>1, <4>2 DEF Moves
    <3>2. CASE Try.found # {}
      <4>1. PICK f \in Row : /\ View.role[f][b] = "member" /\ Author(From, Into, f) = y
                             /\ View'.addedBy[y][b] = Author(From, Into, View.addedBy[f][b])
        BY <2>1, <2>3, <3>2, StoreAdders
      <4>2. PICK x \in Row : /\ HomeAfter(x) = f /\ db.role[x][b] = "member"
                             /\ View.addedBy[f][b] = HomeAfter(db.addedBy[x][b])
        BY <2>2, <4>1 DEF AddersFollow
      <4>3. /\ HomeAfter(x)' = Author(From, Into, HomeAfter(x))
            /\ HomeAfter(db.addedBy[x][b])' = Author(From, Into, HomeAfter(db.addedBy[x][b]))
        <5>1. \A z : HomeAfter(z)' = Author(From, Into, HomeAfter(z))
          BY <2>2, <3>2 DEF Moves
        <5>. QED
          BY <2>2, <5>1
      <4>. QED
        BY <4>1, <4>2, <4>3
    <3>. QED
      BY <3>1, <3>2
  <2>. QED
    BY <2>2, <2>3 DEF AddersFollow
<1>5. CASE SkipMember
  <2>1. holder # NoPuller /\ db' = db /\ View' = View /\ tx'.merges = tx.merges
    BY <1>5, SkipIs, SkipSafe DEF SafeInv, Keeps
  <2>2. Stays
    BY <2>1, HomeStays
  <2>. QED
    BY <2>1, <2>2 DEF AddersFollow, Stays
<1>6. CASE Others /\ holder # NoPuller
  <2>1. ASSUME NEW r \in Row, NEW c \in Body, NEW z, NEW by, RoleWritten(r, c, z, by),
               \/ z = "member" /\ db.role[r][c] = "none" /\ by \in Stored(db) /\ ~ Barred(by)
               \/ z = "none" /\ db.role[r][c] = "member"
        PROVE  AddersFollow'
    <3>1. RoleSeen(r, c, z, by)
      BY <1>6, <2>1, RoleIsSeen
    <3>2. Stays /\ tx' = tx /\ RoleKey(r, c) \notin tx.touched
      BY <3>1 DEF RoleSeen
    <3>3. HomeAfter(r) = r
      BY <1>6, <3>2, MovedIsTouched
    <3>4. ASSUME NEW y \in Row, NEW b \in Body, View'.role[y][b] = "member"
          PROVE  \E x \in Row : /\ HomeAfter(x) = y /\ db'.role[x][b] = "member"
                                /\ View'.addedBy[y][b] = HomeAfter(db'.addedBy[x][b])
      <4>1. CASE y = r /\ b = c
        <5>1. z = "member" /\ by \in Stored(db) /\ ~ Barred(by)
          BY <2>1, <3>1, <3>4, <4>1 DEF RoleSeen
        <5>2. HomeAfter(by) = by
          BY <1>6, <5>1, NotBarred, MovedIsTouched DEF Stored
        <5>. QED
          BY <3>1, <3>3, <4>1, <5>1, <5>2 DEF RoleSeen
      <4>2. CASE y # r \/ b # c
        <5>1. View.role[y][b] = "member" /\ View'.addedBy[y][b] = View.addedBy[y][b]
          BY <3>1, <3>4, <4>2 DEF RoleSeen
        <5>2. PICK x \in Row : /\ HomeAfter(x) = y /\ db.role[x][b] = "member"
                               /\ View.addedBy[y][b] = HomeAfter(db.addedBy[x][b])
          BY <1>6, <5>1 DEF AddersFollow
        <5>3. x # r \/ b # c
          BY <3>3, <4>2, <5>2
        <5>4. db'.role[x][b] = db.role[x][b] /\ db'.addedBy[x][b] = db.addedBy[x][b]
          BY <3>1, <5>3 DEF RoleSeen
        <5>. QED
          BY <5>1, <5>2, <5>4
      <4>. QED
        BY <4>1, <4>2
    <3>. QED
      BY <1>6, <3>2, <3>4 DEF AddersFollow, Stays
  <2>2. ASSUME NEW r \in Row, NEW B, BanWritten(r, B)
        PROVE  AddersFollow'
    <3>1. BanSeen(r, B)
      BY <1>6, <2>2, BanIsSeen
    <3>. QED
      BY <1>6, <3>1 DEF BanSeen, AddersFollow, Stays
  <2>. QED
    BY <1>6, <2>1, <2>2, OthersCases
<1>7. CASE Others /\ holder = NoPuller
  <2>1. holder' = NoPuller
    BY <1>7, OthersIs DEF OthersKeep, SafeInv
  <2>. QED
    BY <2>1 DEF AddersFollow
<1>. QED
  BY <1>1, <1>2, <1>3, <1>4, <1>5, <1>6, <1>7, StepCases

CarryInv == SafeInv /\ Merges /\ BansFollow /\ AddsFollow /\ AddersFollow

LEMMA CarryInit == Init => CarryInv
<1>. SUFFICES ASSUME Init PROVE CarryInv
  OBVIOUS
<1>1. SafeInv /\ holder = NoPuller
  BY SafeInit DEF Init
<1>. QED
  BY <1>1 DEF CarryInv, Merges, BansFollow, AddsFollow, AddersFollow

LEMMA CarryStep == CarryInv /\ [Next]_vars => CarryInv'
<1>. SUFFICES ASSUME CarryInv, [Next]_vars PROVE CarryInv'
  OBVIOUS
<1>1. SafeInv'
  BY SafeStep DEF CarryInv
<1>2. Merges'
  BY MergesStep DEF CarryInv
<1>3. BansFollow'
  BY BansFollowStep DEF CarryInv
<1>4. AddsFollow' /\ AddersFollow'
  BY AddsFollowStep, AddersFollowStep DEF CarryInv
<1>. QED
  BY <1>1, <1>2, <1>3, <1>4 DEF CarryInv

\* Only a pull that ends well changes the tables and gives the lock back.
LEMMA CommittingIs ==
    ASSUME SafeInv, [Next]_vars, Committing
    PROVE  CommitPull /\ CommitFacts /\ holder # NoPuller
<1>1. ASSUME NEW p \in Puller, StartPull(p) \/ AskForLock(p) \/ Crash(p) PROVE FALSE
  BY <1>1 DEF StartPull, AskForLock, Crash, Committing
<1>2. CASE TakeLock \/ StoreMember \/ SkipMember \/ RaiseRepeatedRow \/ LoseRace
  BY <1>2 DEF TakeLock, StoreMember, SkipMember, RaiseRepeatedRow, LoseRace, Committing
<1>3. CASE Others
  BY <1>3, OthersIs DEF OthersKeep, Committing, SafeInv
<1>4. CASE UNCHANGED vars
  BY <1>4 DEF vars, Committing
<1>5. CommitPull
  BY <1>1, <1>2, <1>3, <1>4 DEF Next, PullStep
<1>. QED
  BY <1>5, CommitFactsHold, CommitIs DEF LoopDone, SafeInv

\* A ban outlives the pull that folds the banned row into another one, also a ban placed
\* while the pull is under way (roster.py, _CARRY_BAN, _DELETE_FOLDED_MEMBER).
THEOREM BansOutliveFolds == Spec => BansCarried
<1>1. ASSUME CarryInv, [Next]_vars, Committing, NEW r \in db.banned
      PROVE  HomeAfter(r) \in db'.banned
  <2>1. CommitFacts /\ holder # NoPuller
    BY <1>1, CommittingIs DEF CarryInv
  <2>2. HomeAfter(r) \in View.banned
    BY <1>1, <2>1 DEF CarryInv, BansFollow
  <2>. QED
    BY <2>1, <2>2 DEF CommitFacts, CommitMembers
<1>2. CarryInv /\ [Next]_vars => (Committing => \A r \in db.banned : HomeAfter(r) \in db'.banned)
  BY <1>1
<1>. QED
  BY <1>2, CarryInit, CarryStep, PTL DEF Spec, BansCarried

AddKept(r, b) ==
    db.role[r][b] = "member" =>
       LET h == HomeAfter(r) IN
       \/ <<h, b>> \in tx.pairs
       \/ db.role[h][b] = "leader"
       \/ /\ db'.role[h][b] = "member"
          /\ db'.addedBy[h][b] \in {HomeAfter(a) : a \in AddersOf(h, b)}

LEMMA AddsKept ==
    ASSUME CarryInv, [Next]_vars, Committing, NEW r \in Row, NEW b \in Body
    PROVE  AddKept(r, b)
<1>. SUFFICES ASSUME db.role[r][b] = "member", <<HomeAfter(r), b>> \notin tx.pairs,
                     db.role[HomeAfter(r)][b] # "leader"
              PROVE  /\ db'.role[HomeAfter(r)][b] = "member"
                     /\ db'.addedBy[HomeAfter(r)][b] \in {HomeAfter(a) : a \in AddersOf(HomeAfter(r), b)}
  BY DEF AddKept
<1>. DEFINE h == HomeAfter(r)
<1>1. CommitFacts /\ holder # NoPuller
  BY CommittingIs DEF CarryInv
<1>2. h \in Row
  BY <1>1, HomeType DEF CarryInv, SafeInv
<1>3. View.role[h][b] = "member"
  BY <1>1 DEF CarryInv, AddsFollow
<1>4. <<h, b>> \notin tx.pairs
  OBVIOUS
<1>. HIDE DEF h
<1>5. <<h, b>> \notin StaleLeaderRows(Mine)
  BY <1>1, <1>2, <1>3, <1>4 DEF CommitFacts, CommitRoles
<1>6. db'.role[h][b] = View.role[h][b] /\ db'.addedBy[h][b] = View.addedBy[h][b]
  BY <1>1, <1>2, <1>4, <1>5 DEF CommitFacts, CommitRoles
<1>7. PICK x \in Row : /\ HomeAfter(x) = h /\ db.role[x][b] = "member"
                       /\ View.addedBy[h][b] = HomeAfter(db.addedBy[x][b])
  BY <1>1, <1>2, <1>3 DEF CarryInv, AddersFollow
<1>8. db.addedBy[x][b] \in AddersOf(h, b)
  BY <1>7 DEF AddersOf
<1>9. db'.role[h][b] = "member" /\ db'.addedBy[h][b] \in {HomeAfter(a) : a \in AddersOf(h, b)}
  BY <1>3, <1>6, <1>7, <1>8
<1>. QED
  BY <1>9 DEF h

\* A manual add outlives every pull, and stays credited to who made it or to who stands
\* for them, unless the records make the member a leader (roster.py, _CARRY_MANUAL_ADDS,
\* _CARRY_ATTRIBUTION).
THEOREM ManualAddsOutliveFolds == Spec => ManualAddsCarried
<1>1. CarryInv /\ [Next]_vars => (Committing => \A r \in Row, b \in Body : AddKept(r, b))
  BY AddsKept
<1>. QED
  BY <1>1, CarryInit, CarryStep, PTL DEF Spec, ManualAddsCarried, AddKept

-----------------------------------------------------------------------------
(* What the loop has done so far.                                           *)

LEMMA ThroughMore ==
    ASSUME TypeInv, Working, Roster' = Roster, tx'.next = tx.next + 1
    PROVE  Through' = Through \cup {tx.next}
<1>1. Roster \in Seq(Entry) /\ tx.next \in Nat /\ tx.next \in DOMAIN Roster
  BY HolderType, EntryType DEF TxType, Working
<1>2. DOMAIN Roster \subseteq Nat
  BY <1>1, LenProperties
<1>3. \A i \in DOMAIN Roster : i < tx.next + 1 <=> i < tx.next \/ i = tx.next
  BY <1>1, <1>2
<1>4. Through' = {i \in DOMAIN Roster : i < tx.next + 1}
  BY DEF Through
<1>. QED
  BY <1>1, <1>3, <1>4 DEF Through

\* Who has been stored stays so, under the same account; only the entry's own row changes.
LEMMA StoreKeepsStored ==
    ASSUME SafeInv, NEW r \in Row, StoreFacts(r), NEW s \in tx.present
    PROVE  /\ s \in Stored(Mine) /\ s \in Stored(Mine') /\ Mine'.member[s].st = Mine.member[s].st
           /\ s # r => Mine'.member[s] = Mine.member[s] /\ Mine.member[s].st # Entering.st
           /\ s = r => Mine.member[s].st = Entering.st
<1>1. /\ holder # NoPuller /\ Entering \in Entry /\ IsPlaced(Mine', Try.tables, r, Entering)
      /\ \A x \in Stored(Try.tables) : Try.tables.member[x].st = Entering.st => x = r
      /\ Working /\ TypeInv
  BY DEF StoreFacts, Keeps, Working, SafeInv
<1>2. s \in Stored(Mine) /\ Mine.member[s].st \in RosterIds(Roster) /\ s \in Row
  BY <1>1 DEF SafeInv, Present, Stored
<1>3. s \in Stored(Try.tables) /\ s \in Stored(Mine')
  BY <1>2, StoreRows
<1>4. Mine'.member[r].st = Entering.st
  BY <1>1, StoreRows, AsRowType
<1>5. CASE s # r
  <2>1. Mine'.member[s] = Mine.member[s] /\ Mine'.member[s] = Try.tables.member[s]
    BY <1>1, <1>2, <1>3, <1>5, StoreRows DEF IsPlaced
  <2>. QED
    BY <1>1, <1>2, <1>3, <1>5, <2>1
<1>6. CASE s = r
  <2>1. r \in RowOf(Try.tables, Entering.st)
    BY <1>3, <1>6 DEF StoreFacts, StoredOn
  <2>2. CASE Try.found = {}
    <3>1. Try.tables = Mine
      BY <2>2 DEF StoreFacts
    <3>. QED
      BY <1>2, <1>3, <1>4, <1>6, <2>1, <3>1 DEF RowOf
  <2>3. CASE Try.found # {}
    <3>1. Into \in RowOf(Mine, Entering.st) \/ Into \in Try.found
      BY <2>3 DEF StoreFacts, Merging
    <3>2. r = Into
      BY <2>3 DEF StoreFacts
    <3>3. r \notin Try.found
      BY <1>1, <1>2, <1>6, FoundIn
    <3>. QED
      BY <1>2, <1>3, <1>4, <1>6, <3>1, <3>2, <3>3 DEF RowOf
  <2>. QED
    BY <2>2, <2>3
<1>. QED
  BY <1>5, <1>6

LEMMA StoreLoop ==
    ASSUME SafeInv, Loop, NEW r \in Row, StoreFacts(r)
    PROVE  Loop'
<1>1. /\ holder # NoPuller /\ Roster' = Roster /\ Working /\ TypeInv
      /\ tx'.present = tx.present \cup {r} /\ tx'.skipped = tx.skipped /\ tx'.next = tx.next + 1
      /\ Entering \in Entry
  BY DEF StoreFacts, Keeps, StoredOn, SafeInv
<1>2. Through' = Through \cup {tx.next} /\ Roster[tx.next] = Entering
  BY <1>1, ThroughMore DEF Entering
<1>3. Mine'.member[r] = AsRow(Entering) /\ Mine'.member[r].st = Entering.st
  BY <1>1, StoreRows, AsRowType
<1>4. \A s \in tx'.present : \E i \in Through' : Mine'.member[s] = AsRow(Roster[i])
  <2>1. ASSUME NEW s \in tx.present, s # r PROVE \E i \in Through : Mine'.member[s] = AsRow(Roster[i])
    BY <1>1, <2>1, StoreKeepsStored DEF Loop
  <2>. QED
    BY <1>1, <1>2, <1>3, <2>1
<1>5. \A i \in Through' : \/ Roster[i].st \in tx'.skipped
                          \/ \E s \in tx'.present : Mine'.member[s].st = Roster[i].st
  <2>1. ASSUME NEW i \in Through
        PROVE  \/ Roster[i].st \in tx.skipped
               \/ \E s \in tx.present : Mine'.member[s].st = Roster[i].st
    BY <1>1, StoreKeepsStored DEF Loop
  <2>. QED
    BY <1>1, <1>2, <1>3, <2>1
<1>6. \A st \in tx'.skipped : \E i \in Through' : Roster[i].st = st
  BY <1>1, <1>2 DEF Loop
<1>7. ASSUME NEW s \in tx'.present, Mine'.member[s].st \in tx'.skipped
      PROVE  ~ NamedOnce(Mine'.member[s].st)
  <2>1. CASE s = r
    <3>1. PICK i \in Through : Roster[i].st = Entering.st
      BY <1>1, <1>3, <1>7, <2>1 DEF Loop
    <3>2. i \in DOMAIN Roster /\ i # tx.next /\ tx.next \in DOMAIN Roster
      BY <1>1, EntryType, HolderType DEF Through, TxType
    <3>. QED
      BY <1>2, <1>3, <2>1, <3>1, <3>2 DEF NamedOnce
  <2>2. CASE s # r
    BY <1>1, <1>7, <2>2, StoreKeepsStored DEF Loop
  <2>. QED
    BY <2>1, <2>2
<1>8. \A st : NamedOnce(st)' = NamedOnce(st)
  BY <1>1 DEF NamedOnce
<1>. QED
  BY <1>1, <1>4, <1>5, <1>6, <1>7, <1>8 DEF Loop

LEMMA SkipLoop ==
    ASSUME SafeInv, Loop, SkipMember
    PROVE  Loop'
<1>1. /\ holder # NoPuller /\ Roster' = Roster /\ Mine' = Mine /\ Working /\ TypeInv
      /\ tx'.present = tx.present /\ tx'.skipped = tx.skipped \cup {Entering.st}
      /\ tx'.next = tx.next + 1
  BY SkipIs, SkipSafe DEF SafeInv, Keeps
<1>2. Through' = Through \cup {tx.next} /\ Roster[tx.next] = Entering
  BY <1>1, ThroughMore DEF Entering
<1>3. ASSUME NEW s \in tx.present, Mine.member[s].st \in tx'.skipped
      PROVE  ~ NamedOnce(Mine.member[s].st)
  <2>1. CASE Mine.member[s].st \in tx.skipped
    BY <1>1, <2>1 DEF Loop
  <2>2. CASE Mine.member[s].st = Entering.st
    <3>1. PICK i \in Through : Mine.member[s] = AsRow(Roster[i])
      BY <1>1 DEF Loop
    <3>2. i \in DOMAIN Roster /\ i # tx.next /\ tx.next \in DOMAIN Roster /\ Roster \in Seq(Entry)
      BY <1>1, EntryType, HolderType DEF Through, TxType
    <3>3. Roster[i].st = Entering.st
      BY <2>2, <3>1, <3>2, AsRowType, ElementOfSeq
    <3>. QED
      BY <1>2, <2>2, <3>2, <3>3 DEF NamedOnce
  <2>. QED
    BY <1>1, <1>3, <2>1, <2>2
<1>4. \A st : NamedOnce(st)' = NamedOnce(st)
  BY <1>1 DEF NamedOnce
<1>. QED
  BY <1>1, <1>2, <1>3, <1>4 DEF Loop

LEMMA StorePairs ==
    ASSUME SafeInv, Loop, Pairs, NEW r \in Row, StoreFacts(r)
    PROVE  Pairs'
<1>1. /\ holder # NoPuller /\ Roster' = Roster /\ Working /\ TypeInv
      /\ tx'.present = tx.present \cup {r} /\ tx'.skipped = tx.skipped /\ tx'.next = tx.next + 1
      /\ tx'.pairs = tx.pairs \cup {<<r, b>> : b \in Entering.leads}
      /\ tx.pairs \subseteq tx.present \X Body
  BY DEF StoreFacts, Keeps, StoredOn, SafeInv, Present
<1>2. Through' = Through \cup {tx.next} /\ Roster[tx.next] = Entering
  BY <1>1, ThroughMore DEF Entering
<1>3. Mine'.member[r].st = Entering.st
  BY StoreRows, AsRowType DEF StoreFacts
<1>4. ASSUME NEW s \in tx.present, Mine.member[s].st \notin tx.skipped, NEW b \in Body
      PROVE  <<s, b>> \in tx.pairs <=>
                \E i \in Through : Roster[i].st = Mine.member[s].st /\ b \in Roster[i].leads
  BY <1>1, <1>4 DEF Pairs
<1>5. ASSUME NEW s \in tx'.present, Mine'.member[s].st \notin tx'.skipped, NEW b \in Body
      PROVE  <<s, b>> \in tx'.pairs <=>
                \E i \in Through' : Roster[i].st = Mine'.member[s].st /\ b \in Roster[i].leads
  <2>1. CASE s # r
    <3>1. s \in tx.present /\ Mine'.member[s].st = Mine.member[s].st /\ Mine.member[s].st # Entering.st
      BY <1>1, <2>1, StoreKeepsStored
    <3>2. <<s, b>> \in tx'.pairs <=> <<s, b>> \in tx.pairs
      BY <1>1, <2>1
    <3>. QED
      BY <1>1, <1>2, <1>4, <1>5, <3>1, <3>2
  <2>2. CASE s = r /\ r \in tx.present
    <3>1. Mine.member[r].st = Entering.st
      BY <2>2, StoreKeepsStored
    <3>2. <<s, b>> \in tx'.pairs <=> <<s, b>> \in tx.pairs \/ b \in Entering.leads
      BY <1>1, <2>2
    <3>3. <<r, b>> \in tx.pairs <=>
             \E i \in Through : Roster[i].st = Entering.st /\ b \in Roster[i].leads
      BY <1>1, <1>3, <1>4, <1>5, <2>2, <3>1
    <3>. QED
      BY <1>2, <1>3, <2>2, <3>2, <3>3
  <2>3. CASE s = r /\ r \notin tx.present
    <3>1. <<s, b>> \notin tx.pairs
      BY <1>1, <2>3
    <3>2. <<s, b>> \in tx'.pairs <=> b \in Entering.leads
      BY <1>1, <2>3, <3>1
    <3>3. ASSUME NEW i \in Through, Roster[i].st = Entering.st PROVE FALSE
      <4>1. PICK x \in tx.present : Mine.member[x].st = Entering.st
        BY <1>1, <1>3, <1>5, <2>3, <3>3 DEF Loop
      <4>. QED
        BY <2>3, <4>1, StoreKeepsStored
    <3>. QED
      BY <1>2, <1>3, <2>3, <3>2, <3>3
  <2>. QED
    BY <1>1, <2>1, <2>2, <2>3
<1>. QED
  BY <1>1, <1>5 DEF Pairs

LEMMA SkipPairs ==
    ASSUME SafeInv, Pairs, SkipMember
    PROVE  Pairs'
<1>1. /\ holder # NoPuller /\ Roster' = Roster /\ Mine' = Mine /\ Working /\ TypeInv
      /\ tx'.present = tx.present /\ tx'.skipped = tx.skipped \cup {Entering.st}
      /\ tx'.next = tx.next + 1 /\ tx'.pairs = tx.pairs
  BY SkipIs, SkipSafe DEF SafeInv, Keeps
<1>2. Through' = Through \cup {tx.next} /\ Roster[tx.next] = Entering
  BY <1>1, ThroughMore DEF Entering
<1>3. ASSUME NEW s \in tx.present, Mine.member[s].st \notin tx'.skipped, NEW b \in Body
      PROVE  <<s, b>> \in tx.pairs <=>
                \E i \in Through' : Roster[i].st = Mine.member[s].st /\ b \in Roster[i].leads
  <2>1. <<s, b>> \in tx.pairs <=>
           \E i \in Through : Roster[i].st = Mine.member[s].st /\ b \in Roster[i].leads
    BY <1>1, <1>3 DEF Pairs
  <2>. QED
    BY <1>1, <1>2, <1>3, <2>1
<1>. QED
  BY <1>1, <1>3 DEF Pairs

\* The holder's tables agree with the committed ones where nothing was written.
LEMMA HolderAgrees ==
    ASSUME SafeInv, holder # NoPuller
    PROVE  /\ AgreesOff(Mine, db, outdated[holder] \cup tx.touched)
           /\ LeadersAgree(Mine, db, outdated[holder], tx.touched)
           /\ tx.touched \cap outdated[holder] = {}
<1>1. holder \in Puller /\ snapshot[holder] # NoView
  BY HolderType DEF SafeInv
<1>. QED
  BY <1>1 DEF SafeInv, ViewsAgree, ViewHolds, Mine, Touched

LEMMA StoreFolds ==
    ASSUME SafeInv, Merges, Folds, NEW r \in Row, StoreFacts(r)
    PROVE  Folds'
<1>1. /\ holder # NoPuller /\ Roster' = Roster /\ Working /\ TypeInv /\ db' = db
      /\ pull'[holder'] = pull[holder] /\ tx'.fuse = tx.fuse /\ ~ Races(Try.writes)
      /\ tx'.next = tx.next + 1 /\ tx'.touched = Try.touched \cup {MemberKey(r)}
      /\ tx'.merges = tx.merges \cup {[duplicate |-> d, survivor |-> r] : d \in Try.found}
      /\ IsPlaced(Mine', Try.tables, r, Entering)
  BY DEF StoreFacts, Keeps, StoredOn, SafeInv
<1>2. Through' = Through \cup {tx.next} /\ Roster[tx.next] = Entering
  BY <1>1, ThroughMore DEF Entering
<1>3. Mine'.member[r].st = Entering.st
  BY StoreRows, AsRowType DEF StoreFacts
<1>4. ASSUME NEW m \in tx.merges
      PROVE  /\ db.member[m.duplicate].st \notin RosterIds(Roster)
             /\ ~ pull[holder].dryRun /\ ~ tx.fuse
             /\ \E i \in Through' : /\ Roster[i].st = Mine'.member[m.survivor].st
                                    /\ Claims(Roster[i], db.member[m.duplicate])
  <2>1. m.survivor \in tx.present
    BY <1>1 DEF Merges
  <2>. QED
    BY <1>1, <1>2, <2>1, StoreKeepsStored DEF Folds
<1>5. ASSUME NEW d \in Try.found
      PROVE  /\ db.member[d].st \notin RosterIds(Roster)
             /\ ~ pull[holder].dryRun /\ ~ tx.fuse
             /\ \E i \in Through' : /\ Roster[i].st = Mine'.member[r].st
                                    /\ Claims(Roster[i], db.member[d])
  <2>1. db.member[d] = Mine.member[d]
    BY <1>1, FoundUntouched
  <2>2. Mine.member[d].st \notin RosterIds(Roster) /\ Claims(Entering, Mine.member[d])
    BY <1>1, FoundIn
  <2>3. ~ pull[holder].dryRun /\ ~ tx.fuse
    BY <1>1, TryIs
  <2>. QED
    BY <1>2, <1>3, <2>1, <2>2, <2>3
<1>6. ASSUME NEW m \in tx'.merges
      PROVE  /\ db.member[m.duplicate].st \notin RosterIds(Roster)
             /\ ~ pull[holder].dryRun /\ ~ tx.fuse
             /\ \E i \in Through' : /\ Roster[i].st = Mine'.member[m.survivor].st
                                    /\ Claims(Roster[i], db.member[m.duplicate])
  <2>1. CASE m \in tx.merges
    BY <1>4, <2>1
  <2>2. ASSUME NEW d \in Try.found, m = [duplicate |-> d, survivor |-> r]
        PROVE  m.duplicate = d /\ m.survivor = r
    BY <2>2
  <2>. QED
    BY <1>1, <1>5, <1>6, <2>1, <2>2
<1>7. ASSUME NEW s \in Stored(db), MemberKey(s) \in tx'.touched,
             s \notin Stored(Mine') \/ Mine'.member[s].st # db.member[s].st
      PROVE  \E m \in tx'.merges : m.duplicate = s
  <2>1. s \in Row
    BY DEF Stored
  <2>2. CASE MemberKey(s) \in tx.touched
    <3>1. s \notin Stored(Mine) \/ Mine.member[s].st # db.member[s].st
      <4>1. s \in tx.present \/ s \notin Stored(Mine)
        BY <1>1, <2>1, <2>2 DEF Merges, Stored
      <4>. QED
        BY <1>7, <4>1, StoreKeepsStored
    <3>. QED
      BY <1>1, <2>2, <3>1 DEF Folds
  <2>3. CASE MemberKey(s) \notin tx.touched /\ s \in Try.found
    <3>1. [duplicate |-> s, survivor |-> r] \in tx'.merges
      BY <1>1, <2>3
    <3>. QED
      BY <3>1
  <2>4. CASE MemberKey(s) \notin tx.touched /\ s \notin Try.found
    <3>1. s = r
      <4>1. CASE Try.found = {}
        BY <1>1, <1>7, <2>4, <4>1, KeyDistinct DEF StoreFacts
      <4>2. CASE Try.found # {}
        <5>1. MemberKey(s) \in MergeKeys \/ s = r
          BY <1>1, <1>7, <2>4, <4>2, KeyDistinct DEF StoreFacts, Merging
        <5>2. MemberKey(s) \in MergeKeys => s \in From \cup {Into}
          BY <1>1, <2>1, <4>2, MergedMembers
        <5>. QED
          BY <2>4, <4>2, <5>1, <5>2 DEF StoreFacts, From
      <4>. QED
        BY <4>1, <4>2
    <3>2. MemberKey(s) \notin outdated[holder]
      BY <3>1 DEF StoreFacts
    <3>3. Mine.member[s] = db.member[s]
      BY <1>1, <2>1, <2>4, <3>2, HolderAgrees DEF AgreesOff
    <3>4. s \in Stored(Mine') /\ Mine'.member[s].st = Entering.st
      BY <1>3, <3>1, StoreRows
    <3>5. r \in RowOf(Try.tables, Entering.st)
      BY <3>1 DEF StoreFacts, StoredOn
    <3>6. CASE Try.found = {}
      BY <1>7, <3>1, <3>3, <3>4, <3>5, <3>6 DEF StoreFacts, RowOf
    <3>7. CASE Try.found # {}
      BY <1>7, <2>4, <3>1, <3>3, <3>4, <3>7 DEF StoreFacts, Merging, RowOf
    <3>. QED
      BY <3>6, <3>7
  <2>. QED
    BY <2>2, <2>3, <2>4
<1>8. Stored(db)' = Stored(db) /\ Stored(Mine)' = Stored(Mine')
  BY <1>1 DEF Stored
<1>. QED
  BY <1>1, <1>6, <1>7, <1>8 DEF Folds

LEMMA LoopStep ==
    ASSUME SafeInv, Merges, Loop, Pairs, Folds, [Next]_vars
    PROVE  Loop' /\ Pairs' /\ Folds'
<1>1. CASE holder' = NoPuller
  BY <1>1 DEF Loop, Pairs, Folds
<1>2. CASE Quiet
  <2>1. Through' = Through /\ \A st : NamedOnce(st)' = NamedOnce(st)
    BY <1>2 DEF Quiet, Through, NamedOnce
  <2>2. Loop' /\ Pairs'
    BY <1>2, <2>1 DEF Quiet, Loop, Pairs
  <2>3. Folds'
    BY <1>2, <2>1 DEF Quiet, Folds, Stored
  <2>. QED
    BY <2>2, <2>3
<1>3. CASE TakeLock
  <2>1. /\ tx'.next = 1 /\ tx'.present = {} /\ tx'.skipped = {} /\ tx'.merges = {} /\ tx'.touched = {}
    BY <1>3, TakeSafe DEF Locals
  <2>2. holder' # NoPuller /\ TypeInv'
    BY <1>3, TakeSafe, TakenBy DEF SafeInv
  <2>3. Roster' \in Seq(Entry)
    BY <1>3, TakeSafe, TakenBy, RosterAssumption DEF SafeInv, TypeInv, TypeOK, Places
  <2>4. Through' = {}
    BY <2>1, <2>3, LenProperties DEF Through
  <2>. QED
    BY <2>1, <2>4 DEF Loop, Pairs, Folds
<1>4. CASE StoreMember
  BY <1>4, StoreFactsHold, StoreLoop, StorePairs, StoreFolds
<1>5. CASE SkipMember
  <2>1. /\ holder # NoPuller /\ Roster' = Roster /\ Mine' = Mine /\ Working /\ TypeInv /\ db' = db
        /\ tx'.merges = tx.merges /\ tx'.touched = tx.touched /\ tx'.next = tx.next + 1
        /\ tx'.fuse = tx.fuse /\ pull' = pull /\ holder' = holder
    BY <1>5, SkipIs, SkipSafe DEF SafeInv, Keeps
  <2>2. Through \subseteq Through'
    BY <2>1, ThroughMore
  <2>3. Folds'
    BY <2>1, <2>2 DEF Folds, Stored
  <2>. QED
    BY <1>5, <2>3, SkipLoop, SkipPairs
<1>6. CASE Others
  <2>1. PICK K : OthersKeep(K)
    BY <1>6, OthersIs DEF SafeInv
  <2>2. /\ holder' = holder /\ tx' = tx /\ db'.member = db.member /\ Mine' = Mine /\ Roster' = Roster
        /\ pull' = pull
    BY <2>1 DEF OthersKeep, Mine, Roster
  <2>3. Through' = Through /\ \A st : NamedOnce(st)' = NamedOnce(st)
    BY <2>2 DEF Through, NamedOnce
  <2>. QED
    BY <2>2, <2>3 DEF Loop, Pairs, Folds, Stored
<1>. QED
  BY <1>1, <1>2, <1>3, <1>4, <1>5, <1>6, StepCases

PullInv == SafeInv /\ Merges /\ Loop /\ Pairs /\ Folds

LEMMA PullInit == Init => PullInv
<1>. SUFFICES ASSUME Init PROVE PullInv
  OBVIOUS
<1>1. SafeInv /\ holder = NoPuller
  BY SafeInit DEF Init
<1>. QED
  BY <1>1 DEF PullInv, Merges, Loop, Pairs, Folds

LEMMA PullStepKeeps == PullInv /\ [Next]_vars => PullInv'
BY SafeStep, MergesStep, LoopStep DEF PullInv

-----------------------------------------------------------------------------
(* What a commit makes of members, by whether the pull has written them.    *)

LEMMA StoredAtCommit ==
    ASSUME PullInv, [Next]_vars, Committing, NEW s \in tx.present
    PROVE  /\ s \in Stored(db') /\ db'.member[s] = Mine.member[s]
           /\ Mine.member[s].st \in RosterIds(Roster)
           /\ \E i \in DOMAIN Roster : Mine.member[s] = AsRow(Roster[i])
           /\ Mine.member[s].st \in tx.skipped => ~ NamedOnce(Mine.member[s].st)
<1>1. CommitFacts /\ holder # NoPuller
  BY CommittingIs DEF PullInv
<1>2. s \in Stored(Mine) /\ s \in Row /\ View.member[s] = Mine.member[s] /\ Mine.member[s].st \in RosterIds(Roster)
  BY <1>1 DEF PullInv, SafeInv, Present, CommitFacts, CommitMembers, Stored
<1>3. s \notin Lapsing(Mine)
  BY <1>2 DEF Lapsing, Absent, Roster
<1>4. db'.member[s] = Mine.member[s]
  BY <1>1, <1>2, <1>3 DEF CommitFacts, CommitMembers
<1>5. s \in Stored(db')
  BY <1>2, <1>4 DEF Stored
<1>6. \E i \in DOMAIN Roster : Mine.member[s] = AsRow(Roster[i])
  BY <1>1 DEF PullInv, Loop, Through
<1>7. Mine.member[s].st \in tx.skipped => ~ NamedOnce(Mine.member[s].st)
  BY <1>1 DEF PullInv, Loop
<1>. QED
  BY <1>2, <1>4, <1>5, <1>6, <1>7

\* A row is as it was but for its standing, or was stored, or was folded away.
LEMMA RowsAtCommit ==
    ASSUME PullInv, [Next]_vars, Committing, NEW r \in Stored(db)
    PROVE  \/ /\ View.member[r] = db.member[r] /\ r \in Stored(db')
              /\ db'.member[r].st = db.member[r].st /\ MemberKey(r) \notin tx.touched
           \/ /\ r \in tx.present /\ Mine.member[r].st = db.member[r].st
              /\ db'.member[r].st = db.member[r].st /\ r \in Stored(db')
           \/ \E m \in tx.merges : m.duplicate = r
<1>1. CommitFacts /\ holder # NoPuller /\ r \in Row
  BY CommittingIs DEF PullInv, Stored
<1>2. /\ AgreesOn(View, Mine, tx.touched) /\ AgreesOff(View, db, tx.touched)
  BY <1>1, ViewAgrees DEF PullInv, SafeInv
<1>3. /\ Stored(db') = Stored(View)
      /\ db'.member[r].st = View.member[r].st
  BY <1>1 DEF CommitFacts, CommitMembers
<1>4. CASE MemberKey(r) \notin tx.touched
  BY <1>1, <1>2, <1>3, <1>4 DEF AgreesOff, Stored
<1>5. CASE MemberKey(r) \in tx.touched
  <2>1. CASE r \in Stored(Mine) /\ Mine.member[r].st = db.member[r].st
    <3>1. r \in tx.present
      BY <1>1, <1>5, <2>1 DEF PullInv, Merges, Stored
    <3>. QED
      BY <2>1, <3>1, StoredAtCommit
  <2>2. CASE ~ (r \in Stored(Mine) /\ Mine.member[r].st = db.member[r].st)
    BY <1>1, <1>5, <2>2 DEF PullInv, Folds
  <2>. QED
    BY <2>1, <2>2
<1>. QED
  BY <1>4, <1>5

FoldJustified(r) ==
    /\ db.member[r].st \notin RosterIds(Roster)
    /\ ~ pull[holder].dryRun /\ ~ tx.fuse
    /\ \E i \in DOMAIN Roster :
          /\ \/ Roster[i].email = db.member[r].email
             \/ SameDiscord(Roster[i], db.member[r])
          /\ \E s \in Stored(db') : db'.member[s].st = Roster[i].st
          /\ NamedOnce(Roster[i].st) =>
                /\ Roster[i].st \notin tx.skipped
                /\ \E s \in Stored(db') : db'.member[s] = AsRow(Roster[i])

LEMMA FoldsJustified ==
    ASSUME PullInv, [Next]_vars, Committing, NEW r \in Stored(db), FoldedAway(r)
    PROVE  FoldJustified(r)
<1>1. holder # NoPuller
  BY CommittingIs DEF PullInv
<1>2. PICK m \in tx.merges : m.duplicate = r
  BY RowsAtCommit DEF FoldedAway
<1>3. /\ db.member[r].st \notin RosterIds(Roster)
      /\ ~ pull[holder].dryRun /\ ~ tx.fuse
  BY <1>1, <1>2 DEF PullInv, Folds
<1>4. PICK i \in Through : /\ Roster[i].st = Mine.member[m.survivor].st
                           /\ Claims(Roster[i], db.member[r])
  BY <1>1, <1>2 DEF PullInv, Folds
<1>5. m.survivor \in tx.present /\ i \in DOMAIN Roster
  BY <1>1 DEF PullInv, Merges, Through
<1>6. /\ m.survivor \in Stored(db') /\ db'.member[m.survivor] = Mine.member[m.survivor]
      /\ Mine.member[m.survivor].st \in tx.skipped => ~ NamedOnce(Mine.member[m.survivor].st)
  BY <1>5, StoredAtCommit
<1>7. PICK j \in DOMAIN Roster : Mine.member[m.survivor] = AsRow(Roster[j])
  BY <1>5, StoredAtCommit
<1>8. Roster[j].st = Roster[i].st
  <2>1. Roster \in Seq(Entry)
    BY <1>1, HolderType DEF PullInv, SafeInv
  <2>2. Roster[j] \in Entry
    BY <2>1, ElementOfSeq
  <2>. QED
    BY <1>4, <1>7, <2>2, AsRowType
<1>9. NamedOnce(Roster[i].st) => i = j
  BY <1>5, <1>8 DEF NamedOnce
<1>10. NamedOnce(Roster[i].st) => /\ Roster[i].st \notin tx.skipped
                                  /\ \E s \in Stored(db') : db'.member[s] = AsRow(Roster[i])
  BY <1>4, <1>6, <1>7, <1>9
<1>. QED
  BY <1>3, <1>4, <1>5, <1>6, <1>10 DEF FoldJustified, Claims

\* Only a row that the roster leaves out is folded or re-keyed, only by a pull that may,
\* and only for a member it stores who claims the row's email or Discord id: a skipped
\* member leaves no fold behind (roster.py, _SELECT_MERGE_DUPLICATES, _store_member).
THEOREM FoldsAreComplete == Spec => FoldsComplete
<1>1. PullInv /\ [Next]_vars =>
         (Committing => \A r \in Stored(db) : FoldedAway(r) => FoldJustified(r))
  BY FoldsJustified
<1>. QED
  BY <1>1, PullInit, PullStepKeeps, PTL DEF Spec, FoldsComplete, FoldJustified

\* A row after a commit was stored by it, or is as it was but for its standing.
LEMMA RowsAfterCommit ==
    ASSUME PullInv, [Next]_vars, Committing, NEW r \in Row, r \in Stored(db'), r \notin tx.present
    PROVE  /\ r \in Stored(db) /\ db'.member[r].st = db.member[r].st
           /\ db.member[r].st \in RosterIds(Roster) => db'.member[r] = db.member[r]
<1>1. CommitFacts /\ holder # NoPuller
  BY CommittingIs DEF PullInv
<1>2. AgreesOn(View, Mine, tx.touched) /\ AgreesOff(View, db, tx.touched)
  BY <1>1, ViewAgrees DEF PullInv, SafeInv
<1>3. /\ Stored(db') = Stored(View)
      /\ db'.member[r].st = View.member[r].st
  BY <1>1 DEF CommitFacts, CommitMembers
<1>4. MemberKey(r) \notin tx.touched
  <2>1. SUFFICES ASSUME MemberKey(r) \in tx.touched PROVE FALSE
    OBVIOUS
  <2>2. View.member[r] = Mine.member[r] /\ Mine.member[r] = NoMember
    BY <1>1, <1>2, <2>1 DEF AgreesOn, PullInv, Merges
  <2>. QED
    BY <1>3, <2>2 DEF Stored
<1>5. View.member[r] = db.member[r]
  BY <1>2, <1>4 DEF AgreesOff
<1>6. r \in Stored(db)
  BY <1>3, <1>5 DEF Stored
<1>7. ASSUME db.member[r].st \in RosterIds(Roster) PROVE db'.member[r] = db.member[r]
  <2>1. r \notin Lapsing(Mine)
    <3>1. r \in Lapsing(Mine) => View.member[r] = Mine.member[r] /\ Mine.member[r].st \notin RosterIds(Roster)
      BY <1>1 DEF CommitFacts, CommitMembers, Lapsing, Absent, Roster
    <3>. QED
      BY <1>5, <1>7, <3>1
  <2>. QED
    BY <1>1, <1>5, <2>1 DEF CommitFacts, CommitMembers
<1>. QED
  BY <1>3, <1>5, <1>6, <1>7

LEMMA EntriesAreReported ==
    ASSUME PullInv, [Next]_vars, Committing, NEW i \in DOMAIN Roster, NamedOnce(Roster[i].st)
    PROVE  AsReported(Roster[i])
<1>. DEFINE st == Roster[i].st
<1>1. /\ CommitPull /\ holder # NoPuller /\ SafeInv /\ TypeInv /\ st \in RosterIds(Roster)
      /\ Roster \in Seq(Entry)
  BY CommittingIs, HolderType DEF PullInv, SafeInv, RosterIds
<1>2. i \in Through
  <2>1. tx.next \in Nat /\ tx.next > Len(Roster)
    BY <1>1, HolderType, CommitIs DEF TxType, LoopDone, Roster
  <2>. QED
    BY <1>1, <2>1, LenProperties DEF Through
<1>3. CASE st \notin tx.skipped
  <2>1. PICK s \in tx.present : Mine.member[s].st = st
    BY <1>1, <1>2, <1>3 DEF PullInv, Loop
  <2>2. /\ s \in Stored(db') /\ db'.member[s] = Mine.member[s]
        /\ \E j \in DOMAIN Roster : Mine.member[s] = AsRow(Roster[j])
    BY StoredAtCommit
  <2>3. PICK j \in DOMAIN Roster : Mine.member[s] = AsRow(Roster[j])
    BY <2>2
  <2>4. Roster[j].st = st
    <3>1. Roster[j] \in Entry
      BY <1>1, ElementOfSeq
    <3>. QED
      BY <2>1, <2>3, <3>1, AsRowType
  <2>5. j = i
    BY <2>4 DEF NamedOnce
  <2>. QED
    BY <1>3, <2>2, <2>3, <2>5 DEF AsReported
<1>4. CASE st \in tx.skipped
  <2>1. ASSUME NEW r \in Row, r \in tx.present, Mine.member[r].st = st PROVE FALSE
    BY <1>4, <2>1, StoredAtCommit
  <2>2. ASSUME NEW r \in Row, r \in RowOf(db', st) PROVE db'.member[r] = db.member[r]
    <3>1. r \in Stored(db') /\ db'.member[r].st = st
      BY <2>2 DEF RowOf
    <3>2. r \notin tx.present
      BY <2>1, <3>1, StoredAtCommit
    <3>. QED
      BY <1>1, <3>1, <3>2, RowsAfterCommit
  <2>3. ASSUME NEW r \in Row, r \in RowOf(db, st) PROVE db'.member[r] = db.member[r]
    <3>1. r \in Stored(db) /\ db.member[r].st = st
      BY <2>3 DEF RowOf
    <3>2. ASSUME NEW m \in tx.merges, m.duplicate = r PROVE FALSE
      BY <1>1, <3>1, <3>2 DEF PullInv, Folds
    <3>3. ASSUME r \in tx.present, Mine.member[r].st = db.member[r].st PROVE FALSE
      BY <2>1, <3>1, <3>3
    <3>4. r \in Stored(db') /\ db'.member[r].st = db.member[r].st
      BY <3>1, <3>2, <3>3, RowsAtCommit
    <3>. QED
      BY <2>2, <3>1, <3>4 DEF RowOf
  <2>. QED
    BY <1>4, <2>2, <2>3 DEF AsReported
<1>. QED
  BY <1>3, <1>4

\* What a pull reports as skipped is as it was, and whatever else its roster names is stored
\* as the roster says, whatever the entries before and after it made of it (roster.py,
\* pull_roster, _store_member).
THEOREM ReportsAreTrue == Spec => StoredAsReported
<1>1. PullInv /\ [Next]_vars =>
         (Committing => \A i \in DOMAIN Roster : NamedOnce(Roster[i].st) => AsReported(Roster[i]))
  BY EntriesAreReported
<1>. QED
  BY <1>1, PullInit, PullStepKeeps, PTL DEF Spec, StoredAsReported

LEMMA StandingKept ==
    ASSUME PullInv, [Next]_vars, Committing, NEW r \in GoodStanding(db),
           db.member[r].st \in RosterIds(Roster),
           \A i \in DOMAIN Roster : Roster[i].st = db.member[r].st => Roster[i].good
    PROVE  \E s \in GoodStanding(db') : db'.member[s].st = db.member[r].st
<1>1. CommitFacts /\ holder # NoPuller /\ r \in Row /\ r \in Stored(db) /\ db.member[r].good
  BY CommittingIs DEF PullInv, Stored, GoodStanding
<1>2. ASSUME NEW m \in tx.merges, m.duplicate = r PROVE FALSE
  BY <1>1, <1>2 DEF PullInv, Folds
<1>3. CASE /\ View.member[r] = db.member[r] /\ r \in Stored(db')
           /\ db'.member[r].st = db.member[r].st
  <2>1. r \notin Lapsing(Mine)
    <3>1. r \in Lapsing(Mine) => View.member[r] = Mine.member[r] /\ Mine.member[r].st \notin RosterIds(Roster)
      BY <1>1 DEF CommitFacts, CommitMembers, Lapsing, Absent, Roster
    <3>. QED
      BY <1>3, <3>1
  <2>2. db'.member[r] = db.member[r]
    BY <1>1, <1>3, <2>1 DEF CommitFacts, CommitMembers
  <2>. QED
    BY <1>1, <1>3, <2>2 DEF GoodStanding
<1>4. CASE r \in tx.present /\ Mine.member[r].st = db.member[r].st
  <2>1. r \in Stored(db') /\ db'.member[r] = Mine.member[r]
    BY <1>4, StoredAtCommit
  <2>2. PICK i \in DOMAIN Roster : Mine.member[r] = AsRow(Roster[i])
    BY <1>4, StoredAtCommit
  <2>3. Roster[i] \in Entry
    BY <1>1, HolderType, ElementOfSeq DEF PullInv, SafeInv
  <2>4. Roster[i].st = db.member[r].st /\ Mine.member[r].good = Roster[i].good
    BY <1>4, <2>2, <2>3, AsRowType DEF AsRow
  <2>. QED
    BY <1>4, <2>1, <2>4 DEF GoodStanding
<1>. QED
  BY <1>1, <1>2, <1>3, <1>4, RowsAtCommit

\* Nobody whom the roster shows in good standing loses it, stored or skipped (roster.py,
\* _LAPSE_ABSENT_MEMBERS).
THEOREM RosterStandingKept == Spec => RosterKeepsStanding
<1>1. PullInv /\ [Next]_vars =>
        (Committing =>
           \A r \in GoodStanding(db) :
              (/\ db.member[r].st \in RosterIds(Roster)
               /\ \A i \in DOMAIN Roster : Roster[i].st = db.member[r].st => Roster[i].good)
              => \E s \in GoodStanding(db') : db'.member[s].st = db.member[r].st)
  BY StandingKept
<1>. QED
  BY <1>1, PullInit, PullStepKeeps, PTL DEF Spec, RosterKeepsStanding

-----------------------------------------------------------------------------
(* Who leads what after a commit.                                           *)

\* Of a member the pull stored: what its pairs say.
LEMMA StoredLeads ==
    ASSUME PullInv, [Next]_vars, Committing, NEW r \in tx.present, NEW b \in Body
    PROVE  db'.role[r][b] = "leader" <=> <<r, b>> \in tx.pairs
<1>1. CommitFacts /\ holder # NoPuller /\ r \in Row /\ r \in Stored(Mine) /\ MemberKey(r) \in tx.touched
  BY CommittingIs DEF PullInv, CommitFacts, CommitMembers, Stored
<1>2. CASE <<r, b>> \in tx.pairs
  BY <1>1, <1>2 DEF CommitFacts, CommitRoles
<1>3. CASE <<r, b>> \notin tx.pairs /\ <<r, b>> \in StaleLeaderRows(Mine)
  BY <1>1, <1>3 DEF CommitFacts, CommitRoles
<1>4. CASE <<r, b>> \notin tx.pairs \cup StaleLeaderRows(Mine)
  <2>1. db'.role[r][b] = View.role[r][b]
    BY <1>1, <1>4 DEF CommitFacts, CommitRoles
  <2>2. Mine.role[r][b] # "leader"
    <3>1. <<r, b>> \in tx.present \X Body /\ <<r, b>>[1] = r /\ <<r, b>>[2] = b
      OBVIOUS
    <3>. QED
      BY <1>4, <3>1 DEF StaleLeaderRows
  <2>3. AgreesOn(View, Mine, tx.touched) /\ AgreesOff(View, db, tx.touched)
    BY <1>1, ViewAgrees DEF PullInv, SafeInv
  <2>4. CASE RoleKey(r, b) \in tx.touched
    BY <1>1, <1>4, <2>1, <2>2, <2>3, <2>4 DEF AgreesOn
  <2>5. CASE RoleKey(r, b) \notin tx.touched
    <3>1. View.role[r][b] = db.role[r][b]
      BY <1>1, <2>3, <2>5 DEF AgreesOff
    <3>2. MemberKey(r) \notin outdated[holder]
      BY <1>1, HolderAgrees DEF PullInv
    <3>3. db.role[r][b] # "leader"
      BY <1>1, <2>2, <3>2, HolderAgrees DEF PullInv, LeadersAgree
    <3>. QED
      BY <1>4, <2>1, <3>1, <3>3
  <2>. QED
    BY <2>4, <2>5
<1>. QED
  BY <1>2, <1>3, <1>4

\* Of everybody else: what they led before.
LEMMA OthersLead ==
    ASSUME PullInv, [Next]_vars, Committing, NEW r \in Stored(db'), r \notin tx.present, NEW b \in Body
    PROVE  db'.role[r][b] = "leader" <=> db.role[r][b] = "leader"
<1>1. CommitFacts /\ holder # NoPuller /\ r \in Row /\ r \in Stored(View)
  BY CommittingIs DEF PullInv, CommitFacts, CommitMembers, Stored
<1>2. db'.role[r][b] = View.role[r][b]
  BY <1>1 DEF CommitFacts, CommitRoles
<1>3. AgreesOn(View, Mine, tx.touched) /\ AgreesOff(View, db, tx.touched)
  BY <1>1, ViewAgrees DEF PullInv, SafeInv
<1>4. CASE RoleKey(r, b) \notin tx.touched
  BY <1>1, <1>2, <1>3, <1>4 DEF AgreesOff
<1>5. CASE RoleKey(r, b) \in tx.touched
  <2>1. View.role[r][b] = Mine.role[r][b]
    BY <1>1, <1>3, <1>5 DEF AgreesOn
  <2>2. MemberKey(r) \in tx.touched => r \in Stored(Mine)
    BY <1>1, <1>3 DEF AgreesOn, Stored
  <2>3. RoleKey(r, b) \notin outdated[holder]
    BY <1>1, <1>5, HolderAgrees DEF PullInv
  <2>4. Mine.role[r][b] = "leader" <=> db.role[r][b] = "leader"
    BY <1>1, <2>2, <2>3, HolderAgrees DEF PullInv, LeadersAgree
  <2>. QED
    BY <1>2, <2>1, <2>4
<1>. QED
  BY <1>4, <1>5

LeadsRight(r) ==
    LET st == db'.member[r].st IN
    /\ st \in RosterIds(Roster) \ tx.skipped =>
          LeaderOf(db', r) = UNION {Roster[i].leads : i \in {j \in DOMAIN Roster : Roster[j].st = st}}
    /\ st \notin RosterIds(Roster) \/ (st \in tx.skipped /\ NamedOnce(st)) =>
          LeaderOf(db', r) = LeaderOf(db, r)

LEMMA LeadersAreRight ==
    ASSUME PullInv, [Next]_vars, Committing, NEW r \in Stored(db')
    PROVE  LeadsRight(r)
<1>. DEFINE st == db'.member[r].st
            led == UNION {Roster[i].leads : i \in {j \in DOMAIN Roster : Roster[j].st = st}}
<1>1. CommitPull /\ CommitFacts /\ holder # NoPuller
  BY CommittingIs DEF PullInv
<1>2. Roster \in Seq(Entry) /\ tx.next \in Nat
  BY <1>1, HolderType DEF PullInv, SafeInv, TxType
<1>3. Through = DOMAIN Roster
  <2>1. tx.next > Len(Roster)
    BY <1>1 DEF CommitPull, LoopDone, Roster
  <2>2. DOMAIN Roster = 1 .. Len(Roster) /\ Len(Roster) \in Nat
    BY <1>2, LenProperties
  <2>. QED
    BY <1>2, <2>1, <2>2 DEF Through
<1>4. DistinctMembers(db')
  BY <1>1, CommitConstraints DEF PullInv, ConstraintsHold, DistinctMembers, Stored
<1>5. ASSUME st \in RosterIds(Roster) \ tx.skipped PROVE LeaderOf(db', r) = led
  <2>1. PICK i \in Through : Roster[i].st = st
    BY <1>3, <1>5 DEF RosterIds
  <2>2. PICK s \in tx.present : Mine.member[s].st = st
    BY <1>1, <1>5, <2>1 DEF PullInv, Loop
  <2>3. s = r
    BY <1>4, <2>2, StoredAtCommit DEF DistinctMembers
  <2>4. ASSUME NEW b \in Body PROVE b \in LeaderOf(db', r) <=> b \in led
    <3>1. b \in LeaderOf(db', r) <=> <<r, b>> \in tx.pairs
      BY <2>2, <2>3, StoredLeads DEF LeaderOf
    <3>2. <<r, b>> \in tx.pairs <=> \E j \in Through : Roster[j].st = st /\ b \in Roster[j].leads
      BY <1>1, <1>5, <2>2, <2>3 DEF PullInv, Pairs
    <3>. QED
      BY <1>3, <3>1, <3>2
  <2>5. LeaderOf(db', r) \subseteq Body /\ led \subseteq Body
    <3>1. \A k \in DOMAIN Roster : Roster[k] \in Entry
      BY <1>2, ElementOfSeq
    <3>2. \A k \in DOMAIN Roster : Roster[k].leads \subseteq Body
      BY <3>1 DEF Entry
    <3>. QED
      BY <3>2 DEF LeaderOf
  <2>. QED
    BY <2>4, <2>5
<1>6. ASSUME st \notin RosterIds(Roster) \/ (st \in tx.skipped /\ NamedOnce(st))
      PROVE  LeaderOf(db', r) = LeaderOf(db, r)
  <2>1. r \notin tx.present
    BY <1>6, StoredAtCommit
  <2>. QED
    BY <2>1, OthersLead DEF LeaderOf
<1>. QED
  BY <1>5, <1>6 DEF LeadsRight

\* A member the pull stored leads exactly what the roster says, and everybody else what
\* they led before (roster.py, _DELETE_STALE_LEADER_ROWS, _INSERT_LEADER_ROWS).
THEOREM LeadersAreTheRosters == Spec => LeadersFollowRoster
<1>1. PullInv /\ [Next]_vars => (Committing => \A r \in Stored(db') : LeadsRight(r))
  BY LeadersAreRight
<1>. QED
  BY <1>1, PullInit, PullStepKeeps, PTL DEF Spec, LeadersFollowRoster, LeadsRight

-----------------------------------------------------------------------------
(* What the fuse has judged.                                                *)

JudgedBy(S) ==
    /\ tx.fuse = LapseFuseTrips(S, Roster)
    /\ \A r \in Row : MemberKey(r) \notin outdated[holder] => S.member[r] = db.member[r]
    /\ \A r \in Row : MemberKey(r) \notin tx.touched => S.member[r] = Mine.member[r]
    /\ \A i \in Through : \A r \in RowOf(S, Roster[i].st) : MemberKey(r) \notin outdated[holder]

\* The rows of the account of the next entry are as the fuse has judged them.
LEMMA EnteringIsJudged ==
    ASSUME SafeInv, Working, ~ Races(Try.writes), NEW S \in Tables, JudgedBy(S),
           NEW r \in RowOf(S, Entering.st)
    PROVE  MemberKey(r) \notin outdated[holder]
<1>1. r \in Row /\ S.member[r] # NoMember /\ S.member[r].st = Entering.st /\ holder # NoPuller
  BY DEF RowOf, Stored, Working
<1>2. CASE MemberKey(r) \in tx.touched
  BY <1>1, <1>2, HolderAgrees
<1>3. CASE MemberKey(r) \notin tx.touched
  <2>1. Mine.member[r] = S.member[r]
    BY <1>1, <1>3 DEF JudgedBy
  <2>2. r \in RowOf(Mine, Entering.st)
    BY <1>1, <2>1 DEF RowOf, Stored
  <2>3. MemberKey(r) \in Try.writes
    BY <2>2, TryIs DEF SafeInv
  <2>. QED
    BY <2>3 DEF Races
<1>. QED
  BY <1>2, <1>3

LEMMA StoreJudged ==
    ASSUME SafeInv, NEW r \in Row, StoreFacts(r), NEW S \in Tables, JudgedBy(S)
    PROVE  JudgedBy(S)'
<1>1. /\ holder # NoPuller /\ Roster' = Roster /\ Working /\ TypeInv /\ db' = db
      /\ holder' = holder /\ outdated' = outdated /\ tx'.fuse = tx.fuse /\ ~ Races(Try.writes)
      /\ tx'.next = tx.next + 1 /\ tx'.touched = Try.touched \cup {MemberKey(r)}
      /\ IsPlaced(Mine', Try.tables, r, Entering)
  BY DEF StoreFacts, Keeps, StoredOn, SafeInv
<1>2. Through' = Through \cup {tx.next} /\ Roster[tx.next] = Entering
  BY <1>1, ThroughMore DEF Entering
<1>3. tx'.fuse = LapseFuseTrips(S, Roster')
  BY <1>1 DEF JudgedBy
<1>4. ASSUME NEW s \in Row, MemberKey(s) \notin tx'.touched PROVE S.member[s] = Mine'.member[s]
  <2>1. MemberKey(s) \notin Try.touched /\ s # r
    BY <1>1, <1>4
  <2>2. Mine'.member[s] = Try.tables.member[s]
    BY <1>1, <2>1 DEF IsPlaced
  <2>3. CASE Try.found = {}
    BY <2>1, <2>2, <2>3 DEF StoreFacts, JudgedBy
  <2>4. CASE Try.found # {}
    <3>1. AgreesOff(Try.tables, Mine, MergeKeys) /\ Try.touched = tx.touched \cup MergeKeys
      BY <2>4 DEF StoreFacts, Merging
    <3>2. Try.tables.member[s] = Mine.member[s] /\ MemberKey(s) \notin tx.touched
      BY <2>1, <3>1 DEF AgreesOff
    <3>. QED
      BY <2>2, <3>2 DEF JudgedBy
  <2>. QED
    BY <2>3, <2>4
<1>5. ASSUME NEW i \in Through', NEW s \in RowOf(S, Roster[i].st) PROVE MemberKey(s) \notin outdated[holder]
  BY <1>1, <1>2, <1>5, EnteringIsJudged DEF JudgedBy
<1>6. \A st : RowOf(S, st)' = RowOf(S, st)
  BY DEF RowOf, Stored
<1>. QED
  BY <1>1, <1>3, <1>4, <1>5, <1>6 DEF JudgedBy

LEMMA SkipJudged ==
    ASSUME SafeInv, SkipMember, NEW S \in Tables, JudgedBy(S)
    PROVE  JudgedBy(S)'
<1>1. /\ holder # NoPuller /\ Roster' = Roster /\ Mine' = Mine /\ Working /\ TypeInv /\ db' = db
      /\ holder' = holder /\ outdated' = outdated /\ tx'.fuse = tx.fuse /\ tx'.touched = tx.touched
      /\ tx'.next = tx.next + 1
  BY SkipIs, SkipSafe DEF SafeInv, Keeps
<1>2. ~ Races(Try.writes)
  BY DEF SkipMember
<1>3. Through' = Through \cup {tx.next} /\ Roster[tx.next] = Entering
  BY <1>1, ThroughMore DEF Entering
<1>4. ASSUME NEW i \in Through', NEW s \in RowOf(S, Roster[i].st) PROVE MemberKey(s) \notin outdated[holder]
  BY <1>1, <1>2, <1>3, <1>4, EnteringIsJudged DEF JudgedBy
<1>5. \A st : RowOf(S, st)' = RowOf(S, st)
  BY DEF RowOf, Stored
<1>. QED
  BY <1>1, <1>4, <1>5 DEF JudgedBy

LEMMA OthersJudged ==
    ASSUME SafeInv, Others, holder # NoPuller, NEW S \in Tables, JudgedBy(S)
    PROVE  JudgedBy(S)'
<1>1. PICK K : /\ OthersKeep(K)
               /\ \A r \in Row : MemberKey(r) \notin K
  <2>1. ASSUME NEW r \in Row, NEW b \in Body, OthersKeep({RoleKey(r, b)})
        PROVE  \E K : OthersKeep(K) /\ \A s \in Row : MemberKey(s) \notin K
    <3>1. \A s \in Row : MemberKey(s) \notin {RoleKey(r, b)}
      BY KeyDistinct
    <3>. QED
      BY <2>1, <3>1
  <2>2. ASSUME NEW r \in Row, OthersKeep({BanKey(r)})
        PROVE  \E K : OthersKeep(K) /\ \A s \in Row : MemberKey(s) \notin K
    <3>1. \A s \in Row : MemberKey(s) \notin {BanKey(r)}
      BY KeyDistinct
    <3>. QED
      BY <2>2, <3>1
  <2>. QED
    BY <2>1, <2>2, OthersCases DEF RoleWritten, BanWritten
<1>2. /\ holder' = holder /\ tx' = tx /\ db'.member = db.member /\ Mine' = Mine /\ Roster' = Roster
  BY <1>1 DEF OthersKeep, Mine, Roster
<1>3. outdated'[holder] = outdated[holder] \cup K
  BY <1>1, OthersType, HolderType DEF SafeInv
<1>4. Through' = Through /\ \A st : RowOf(S, st)' = RowOf(S, st)
  BY <1>2 DEF Through, RowOf, Stored
<1>5. tx'.fuse = LapseFuseTrips(S, Roster')
  BY <1>2 DEF JudgedBy
<1>6. ASSUME NEW r \in Row, MemberKey(r) \notin outdated'[holder] PROVE S.member[r] = db'.member[r]
  BY <1>2, <1>3, <1>6 DEF JudgedBy
<1>7. \A r \in Row : MemberKey(r) \notin tx'.touched => S.member[r] = Mine'.member[r]
  BY <1>2 DEF JudgedBy
<1>8. ASSUME NEW i \in Through, NEW r \in RowOf(S, Roster[i].st) PROVE MemberKey(r) \notin outdated'[holder]
  BY <1>1, <1>3, <1>8 DEF JudgedBy, RowOf, Stored
<1>. QED
  BY <1>2, <1>4, <1>5, <1>6, <1>7, <1>8 DEF JudgedBy

LEMMA TakeJudged ==
    ASSUME SafeInv, TakeLock
    PROVE  \E S \in Tables : JudgedBy(S)'
<1>. DEFINE S == snapshot[queue[1]]
<1>1. /\ S \in Tables /\ S # NoView /\ holder' = queue[1] /\ queue[1] \in Puller
  BY TakenBy DEF SafeInv
<1>2. /\ Mine' = S /\ db' = db /\ outdated' = outdated /\ holder' # NoPuller /\ TypeInv'
      /\ Roster' = pull[queue[1]].roster
  BY <1>1, TakeSafe, TakenBy DEF SafeInv
<1>3. tx' = [Locals EXCEPT !.fuse = LapseFuseTrips(S, pull[queue[1]].roster)]
  BY <1>1, TakenBy, TakeSafe DEF SafeInv, TakeLock
<1>4. tx'.next = 1 /\ tx'.touched = {} /\ tx'.fuse = LapseFuseTrips(S, Roster')
  BY <1>2, <1>3 DEF Locals
<1>5. Through' = {}
  <2>1. Roster' \in Seq(Entry)
    BY <1>2, TakeSafe, TakenBy, RosterAssumption DEF SafeInv, TypeInv, TypeOK, Places
  <2>. QED
    BY <1>4, <2>1, LenProperties DEF Through
<1>6. \A r \in Row : MemberKey(r) \notin outdated[queue[1]] => S.member[r] = db.member[r]
  <2>1. Touched(queue[1]) = {}
    BY <1>1 DEF Touched, TakeLock, SafeInv, TypeInv, Places, RosterAssumption, Locals
  <2>2. AgreesOff(S, db, outdated[queue[1]] \cup Touched(queue[1]))
    BY <1>1 DEF SafeInv, ViewsAgree
  <2>. QED
    BY <2>1, <2>2 DEF AgreesOff
<1>. HIDE DEF S
<1>7. PICK T : T = S
  OBVIOUS
<1>8. JudgedBy(T)'
  BY <1>1, <1>2, <1>4, <1>5, <1>6, <1>7 DEF JudgedBy
<1>. QED
  BY <1>1, <1>7, <1>8

LEMMA JudgedStep ==
    ASSUME SafeInv, Judged, [Next]_vars
    PROVE  Judged'
<1>1. CASE holder' = NoPuller
  BY <1>1 DEF Judged
<1>2. CASE TakeLock
  BY <1>2, TakeJudged DEF Judged, JudgedBy
<1>3. ASSUME holder # NoPuller PROVE \E S \in Tables : JudgedBy(S)
  BY <1>3 DEF Judged, JudgedBy
<1>4. CASE Quiet
  <2>1. PICK S \in Tables : JudgedBy(S)
    BY <1>3, <1>4 DEF Quiet
  <2>2. Through' = Through /\ \A st : RowOf(S, st)' = RowOf(S, st)
    BY <1>4 DEF Quiet, Through, RowOf, Stored
  <2>3. JudgedBy(S)'
    BY <1>4, <2>1, <2>2 DEF Quiet, JudgedBy
  <2>. QED
    BY <2>3 DEF Judged, JudgedBy
<1>5. CASE StoreMember
  <2>1. PICK r \in Row : StoreFacts(r)
    BY <1>5, StoreFactsHold
  <2>2. PICK S \in Tables : JudgedBy(S)
    BY <1>3, <2>1 DEF StoreFacts, Keeps
  <2>3. JudgedBy(S)'
    BY <2>1, <2>2, StoreJudged
  <2>. QED
    BY <2>3 DEF Judged, JudgedBy
<1>6. CASE SkipMember
  <2>1. PICK S \in Tables : JudgedBy(S)
    BY <1>3, <1>6 DEF SkipMember, Working
  <2>2. JudgedBy(S)'
    BY <1>6, <2>1, SkipJudged
  <2>. QED
    BY <2>2 DEF Judged, JudgedBy
<1>7. CASE Others
  <2>1. CASE holder = NoPuller
    BY <1>1, <1>7, <2>1, OthersIs DEF OthersKeep, SafeInv
  <2>2. CASE holder # NoPuller
    <3>1. PICK S \in Tables : JudgedBy(S)
      BY <1>3, <2>2
    <3>2. JudgedBy(S)'
      BY <1>7, <2>2, <3>1, OthersJudged
    <3>. QED
      BY <3>2 DEF Judged, JudgedBy
  <2>. QED
    BY <2>1, <2>2
<1>. QED
  BY <1>1, <1>2, <1>4, <1>5, <1>6, <1>7, StepCases

FuseInv == PullInv /\ Judged

LEMMA FuseInit == Init => FuseInv
<1>1. Init => PullInv /\ holder = NoPuller
  BY PullInit DEF Init
<1>. QED
  BY <1>1 DEF FuseInv, Judged

LEMMA FuseStep == FuseInv /\ [Next]_vars => FuseInv'
BY PullStepKeeps, JudgedStep DEF FuseInv, PullInv

-----------------------------------------------------------------------------
(* The budget.                                                              *)

LEMMA DivIs ==
    ASSUME NEW a \in Nat, NEW D \in Nat \ {0}
    PROVE  /\ a \div D \in Nat /\ D * (a \div D) <= a /\ a < D * (a \div D) + D
OBVIOUS

LEMMA DivGrows ==
    ASSUME NEW a \in Nat, NEW k \in Nat, NEW D \in Nat \ {0}
    PROVE  (a + k) \div D <= (a \div D) + k
<1>. DEFINE q == a \div D
            p == (a + k) \div D
<1>1. /\ q \in Nat /\ p \in Nat /\ a < D * q + D /\ D * p <= a + k
  BY DivIs
<1>2. SUFFICES ASSUME p > q + k PROVE FALSE
  BY <1>1
<1>. HIDE DEF p, q
<1>3. PICK x \in Nat : p = q + k + 1 + x
  <2>1. p - (q + k + 1) \in Nat
    BY <1>1, <1>2
  <2>. QED
    BY <1>1, <2>1
<1>4. D * p = D * q + D * k + D + D * x
  BY <1>1, <1>3
<1>5. D * k >= k /\ D * x \in Nat
  OBVIOUS
<1>. QED
  BY <1>1, <1>4, <1>5

LEMMA DivMonotone ==
    ASSUME NEW a \in Nat, NEW b \in Nat, a <= b, NEW D \in Nat \ {0}
    PROVE  a \div D <= b \div D
<1>. DEFINE q == a \div D
            p == b \div D
<1>1. /\ q \in Nat /\ p \in Nat /\ D * q <= a /\ b < D * p + D
  BY DivIs
<1>2. SUFFICES ASSUME p < q PROVE FALSE
  BY <1>1
<1>. HIDE DEF p, q
<1>3. PICK x \in Nat : q = p + 1 + x
  <2>1. q - (p + 1) \in Nat
    BY <1>1, <1>2
  <2>. QED
    BY <1>1, <2>1
<1>4. D * q = D * p + D + D * x
  BY <1>1, <1>3
<1>5. D * x \in Nat
  OBVIOUS
<1>. QED
  BY <1>1, <1>4, <1>5

LEMMA BudgetGrows ==
    ASSUME NEW g \in Nat, NEW h \in Nat, NEW k \in Nat, g <= h + k
    PROVE  LapseBudget(h) \in Nat /\ LapseBudget(g) \in Nat /\ LapseBudget(g) <= LapseBudget(h) + k
<1>. DEFINE share(n) == (n + LapseFuseDivisor - 1) \div LapseFuseDivisor
<1>1. LapseFuseDivisor \in Nat \ {0} /\ LapseFuseFloor \in Nat
  BY RosterAssumption
<1>2. ASSUME NEW n \in Nat PROVE n + LapseFuseDivisor - 1 \in Nat
  BY <1>1
<1>3. share(g) \in Nat /\ share(h) \in Nat
  BY <1>1, <1>2, DivIs
<1>4. share(g) <= share(h) + k
  <2>1. share(g) <= share(h + k)
    <3>1. /\ g + LapseFuseDivisor - 1 \in Nat /\ (h + k) + LapseFuseDivisor - 1 \in Nat
          /\ g + LapseFuseDivisor - 1 <= (h + k) + LapseFuseDivisor - 1
      BY <1>1, <1>2
    <3>. QED
      BY <1>1, <3>1, DivMonotone
  <2>2. share(h + k) <= share(h) + k
    <3>1. /\ h + LapseFuseDivisor - 1 \in Nat
          /\ (h + k) + LapseFuseDivisor - 1 = (h + LapseFuseDivisor - 1) + k
      BY <1>1, <1>2
    <3>. QED
      BY <1>1, <3>1, DivGrows
  <2>3. share(h + k) \in Nat
    BY <1>1, <1>2, DivIs
  <2>. QED
    BY <1>3, <2>1, <2>2, <2>3
<1>5. \A n : LapseBudget(n) = IF share(n) > LapseFuseFloor THEN share(n) ELSE LapseFuseFloor
  BY DEF LapseBudget
<1>. HIDE DEF share
<1>. QED
  BY <1>1, <1>3, <1>4, <1>5

LEMMA ApartTogether ==
    ASSUME NEW S, NEW T, IsFiniteSet(S), IsFiniteSet(T), S \cap T = {}
    PROVE  /\ IsFiniteSet(S \cup T)
           /\ Cardinality(S \cup T) = Cardinality(S) + Cardinality(T)
<1>1. /\ IsFiniteSet(S \cup T)
      /\ Cardinality(S \cup T) = Cardinality(S) + Cardinality(T) - Cardinality(S \cap T)
  BY FS_Union
<1>2. Cardinality(S \cap T) = 0
  BY FS_EmptySet
<1>3. Cardinality(S) \in Nat /\ Cardinality(T) \in Nat
  BY FS_CardinalityType
<1>. QED
  BY <1>1, <1>2, <1>3

\* Who is lost, of whom the fuse has let through, is within the budget of those who are
\* in good standing by now.
LEMMA FewLost ==
    ASSUME NEW A, NEW G, NEW H, IsFiniteSet(A), IsFiniteSet(G), IsFiniteSet(H),
           NEW L \in SUBSET A, L \subseteq H, G \ H \subseteq A,
           Cardinality(A) <= LapseBudget(Cardinality(G))
    PROVE  Cardinality(L) <= LapseBudget(Cardinality(H))
<1>. DEFINE K == G \ H
<1>1. IsFiniteSet(L) /\ IsFiniteSet(K)
  BY FS_Subset, FS_Difference
<1>2. L \cap K = {} /\ L \cup K \in SUBSET A /\ G \in SUBSET (H \cup K)
  OBVIOUS
<1>3. /\ Cardinality(L) \in Nat /\ Cardinality(K) \in Nat /\ Cardinality(A) \in Nat
      /\ Cardinality(G) \in Nat /\ Cardinality(H) \in Nat
  BY <1>1, FS_CardinalityType
<1>4. Cardinality(L \cup K) = Cardinality(L) + Cardinality(K)
  BY <1>1, <1>2, ApartTogether
<1>5. Cardinality(L \cup K) <= Cardinality(A)
  BY <1>2, FS_Subset
<1>6. Cardinality(G) <= Cardinality(H) + Cardinality(K)
  <2>1. H \cap K = {}
    OBVIOUS
  <2>2. /\ IsFiniteSet(H \cup K)
        /\ Cardinality(H \cup K) = Cardinality(H) + Cardinality(K)
    BY <1>1, <2>1, ApartTogether
  <2>. QED
    BY <1>2, <2>2, FS_Subset
<1>. HIDE DEF K
<1>7. /\ LapseBudget(Cardinality(H)) \in Nat /\ LapseBudget(Cardinality(G)) \in Nat
      /\ LapseBudget(Cardinality(G)) <= LapseBudget(Cardinality(H)) + Cardinality(K)
  BY <1>3, <1>6, BudgetGrows
<1>. QED
  BY <1>3, <1>4, <1>5, <1>7

Lost ==
    {r \in Absent(db, Roster) : \/ r \notin GoodStanding(db')
                                \/ db'.member[r].st # db.member[r].st}

\* Who is lost is lost to a pull whose fuse has not tripped, in a row that nobody else
\* has written since its snapshot.
LEMMA LostIsJudged ==
    ASSUME PullInv, [Next]_vars, Committing, NEW r \in Lost
    PROVE  MemberKey(r) \notin outdated[holder] /\ ~ tx.fuse
<1>1. /\ CommitFacts /\ holder # NoPuller /\ r \in Row /\ r \in Stored(db) /\ db.member[r].good
      /\ db.member[r].st \notin RosterIds(Roster) /\ SafeInv /\ TypeInv
      /\ r \notin GoodStanding(db') \/ db'.member[r].st # db.member[r].st
  BY CommittingIs DEF PullInv, SafeInv, Lost, Absent, GoodStanding, Stored
<1>2. CASE /\ View.member[r] = db.member[r] /\ r \in Stored(db')
           /\ db'.member[r].st = db.member[r].st
  <2>1. db'.member[r] # db.member[r]
    BY <1>1, <1>2 DEF GoodStanding
  <2>2. r \in Lapsing(Mine)
    BY <1>1, <1>2, <2>1 DEF CommitFacts, CommitMembers
  <2>3. ~ tx.fuse /\ Mine.member[r].good /\ ~ Reconciled.member[r].good
    BY <1>1, <2>2, ReconciledIs DEF Absent, GoodStanding
  <2>4. MemberKey(r) \in ReconcileWrites
    <3>1. AgreesOff(Mine, Reconciled, Written(Mine, Reconciled))
      BY <1>1, HolderType, ReconciledIs, WrittenCovers
    <3>. QED
      BY <1>1, <2>3, <3>1 DEF AgreesOff, ReconcileWrites, Mine
  <2>5. ~ Races(ReconcileWrites)
    BY <1>1, CommittingIs, CommitIs
  <2>. QED
    BY <2>3, <2>4, <2>5 DEF Races
<1>3. ASSUME r \in tx.present, Mine.member[r].st = db.member[r].st PROVE FALSE
  BY <1>1, <1>3, StoredAtCommit
<1>4. ASSUME NEW m \in tx.merges, m.duplicate = r
      PROVE  MemberKey(r) \notin outdated[holder] /\ ~ tx.fuse
  <2>1. MemberKey(r) \in tx.touched
    BY <1>1, <1>4 DEF PullInv, Merges
  <2>2. ~ tx.fuse
    BY <1>1, <1>4 DEF PullInv, Folds
  <2>. QED
    BY <1>1, <2>1, <2>2, HolderAgrees
<1>. QED
  BY <1>1, <1>2, <1>3, <1>4, RowsAtCommit

LEMMA LossesAreFew ==
    ASSUME FuseInv, [Next]_vars, Committing
    PROVE  Cardinality(Lost) <= LapseBudget(Cardinality(GoodStanding(db)))
<1>1. /\ CommitPull /\ holder # NoPuller /\ SafeInv /\ TypeInv /\ PullInv /\ IsFiniteSet(Row)
      /\ db \in Tables
  BY CommittingIs, RosterAssumption, HolderType DEF FuseInv, PullInv, SafeInv
<1>2. PICK S \in Tables : JudgedBy(S)
  BY <1>1 DEF FuseInv, Judged, JudgedBy
<1>3. /\ IsFiniteSet(Absent(S, Roster)) /\ IsFiniteSet(GoodStanding(S))
      /\ IsFiniteSet(GoodStanding(db)) /\ Absent(S, Roster) \subseteq GoodStanding(S)
  <2>1. /\ Absent(S, Roster) \in SUBSET Row /\ GoodStanding(S) \in SUBSET Row
        /\ GoodStanding(db) \in SUBSET Row /\ Absent(S, Roster) \subseteq GoodStanding(S)
    BY DEF Absent, GoodStanding, Stored
  <2>. QED
    BY <1>1, <2>1, FS_Subset
<1>4. Cardinality(GoodStanding(db)) \in Nat /\ LapseBudget(Cardinality(GoodStanding(db))) \in Nat
  BY <1>3, FS_CardinalityType, BudgetGrows
<1>5. CASE Lost = {}
  BY <1>4, <1>5, FS_EmptySet
<1>6. CASE Lost # {}
  <2>1. ~ tx.fuse
    BY <1>1, <1>6, LostIsJudged
  <2>2. Cardinality(Absent(S, Roster)) <= LapseBudget(Cardinality(GoodStanding(S)))
    <3>1. Cardinality(Absent(S, Roster)) \in Nat /\ LapseBudget(Cardinality(GoodStanding(S))) \in Nat
      BY <1>3, FS_CardinalityType, BudgetGrows
    <3>2. ~ LapseFuseTrips(S, Roster)
      BY <1>2, <2>1 DEF JudgedBy
    <3>. QED
      BY <3>1, <3>2 DEF LapseFuseTrips
  <2>3. Lost \subseteq GoodStanding(db)
    BY DEF Lost, Absent
  <2>4. Lost \in SUBSET Absent(S, Roster)
    <3>1. ASSUME NEW r \in Lost PROVE r \in Absent(S, Roster)
      <4>1. r \in Row /\ r \in Absent(db, Roster)
        BY DEF Lost, Absent, GoodStanding, Stored
      <4>2. S.member[r] = db.member[r]
        BY <1>1, <1>2, <4>1, LostIsJudged DEF JudgedBy
      <4>. QED
        BY <4>1, <4>2 DEF Absent, GoodStanding, Stored
    <3>. QED
      BY <3>1
  <2>5. GoodStanding(S) \ GoodStanding(db) \subseteq Absent(S, Roster)
    <3>1. ASSUME NEW r \in GoodStanding(S), r \notin GoodStanding(db),
                 S.member[r].st \in RosterIds(Roster)
          PROVE  FALSE
      <4>1. PICK i \in DOMAIN Roster : Roster[i].st = S.member[r].st
        BY <3>1 DEF RosterIds
      <4>2. i \in Through
        <5>1. Roster \in Seq(Entry) /\ tx.next \in Nat /\ tx.next > Len(Roster)
          BY <1>1, HolderType, CommitIs DEF TxType, LoopDone, Roster
        <5>. QED
          BY <5>1, LenProperties DEF Through
      <4>3. r \in Row /\ r \in RowOf(S, Roster[i].st)
        BY <4>1 DEF RowOf, GoodStanding, Stored
      <4>4. S.member[r] = db.member[r]
        BY <1>2, <4>2, <4>3 DEF JudgedBy
      <4>. QED
        BY <3>1, <4>4 DEF GoodStanding, Stored
    <3>. QED
      BY <3>1 DEF Absent
  <2>. QED
    BY <1>3, <2>2, <2>3, <2>4, <2>5, FewLost
<1>. QED
  BY <1>5, <1>6

LEMMA BudgetIs ==
    ASSUME NEW n \in Nat, NEW total \in Nat, n <= LapseBudget(total)
    PROVE  WithinLapseBudget(n, total)
<1>. DEFINE a == total + LapseFuseDivisor - 1
            q == a \div LapseFuseDivisor
<1>1. LapseFuseDivisor \in Nat \ {0} /\ LapseFuseFloor \in Nat /\ a \in Nat
  BY RosterAssumption
<1>2. q \in Nat /\ LapseFuseDivisor * q <= a
  BY <1>1, DivIs
<1>3. n <= q \/ n <= LapseFuseFloor
  BY DEF LapseBudget
<1>4. CASE n <= q
  <2>1. PICK x \in Nat : q = n + x
    <3>1. q - n \in Nat
      BY <1>2, <1>4
    <3>. QED
      BY <1>2, <3>1
  <2>2. /\ LapseFuseDivisor * q = LapseFuseDivisor * n + LapseFuseDivisor * x
        /\ LapseFuseDivisor * x \in Nat /\ LapseFuseDivisor * n \in Nat
        /\ (n - 1) * LapseFuseDivisor = LapseFuseDivisor * n - LapseFuseDivisor
    <3>. HIDE DEF q, a
    <3>. QED
      BY <1>1, <2>1
  <2>3. LapseFuseDivisor * n <= total + LapseFuseDivisor - 1
    <3>. HIDE DEF q
    <3>. QED
      BY <1>1, <1>2, <2>2
  <2>4. LapseFuseDivisor * n - LapseFuseDivisor < total
    BY <1>1, <2>2, <2>3
  <2>. QED
    BY <2>2, <2>4 DEF WithinLapseBudget
<1>. QED
  BY <1>3, <1>4 DEF WithinLapseBudget

\* One pull takes good standing from no more accounts that its roster leaves out than the
\* budget allows, lapsed and folded together, and whatever else has been committed since
\* the fuse was judged (roster.py, LAPSE_FUSE_FLOOR).
THEOREM AbsenceIsHeldBack == Spec => MassAbsenceHeldBack
<1>1. FuseInv /\ [Next]_vars =>
         (Committing => WithinLapseBudget(Cardinality(Lost), Cardinality(GoodStanding(db))))
  <2>. SUFFICES ASSUME FuseInv, [Next]_vars, Committing
                PROVE  WithinLapseBudget(Cardinality(Lost), Cardinality(GoodStanding(db)))
    OBVIOUS
  <2>1. Lost \in SUBSET Row /\ GoodStanding(db) \in SUBSET Row /\ IsFiniteSet(Row)
    BY RosterAssumption DEF Lost, Absent, GoodStanding, Stored
  <2>2. Cardinality(Lost) \in Nat /\ Cardinality(GoodStanding(db)) \in Nat
    BY <2>1, FS_Subset, FS_CardinalityType
  <2>. QED
    BY <2>2, LossesAreFew, BudgetIs
<1>. QED
  BY <1>1, FuseInit, FuseStep, PTL DEF Spec, MassAbsenceHeldBack, Lost
===============================================================================

------------------------------- MODULE Listing -------------------------------
(***************************************************************************)
(* Reading the roster from Solidarity Tech (solidarity_tech/client.py and  *)
(* decode.py): page by page, by offset, from a collection that others      *)
(* change meanwhile; and what the pull that follows makes of the standing  *)
(* of those it read and of those it did not.  The pull is here as the      *)
(* listing meets it, coarser than in Roster: without merges, and within    *)
(* what its fuse lets through.                                             *)
(*                                                                         *)
(* Solidarity Tech keeps its users in an order of its own.  An account     *)
(* that is deleted does not come back, and a new one may come anywhere.    *)
(***************************************************************************)
EXTENDS Integers, FiniteSets, SequencesExt

CONSTANTS
    User,           \* the ids of accounts, there from the start or later
    First,          \* the ids of those there at the start, as Solidarity Tech orders them
    Leader,         \* those whose record names a body they lead
    Puller,         \* the callers of a pull
    Periodic,       \* those of them that a timer starts again and again
    NoListing,
    PageSize,       \* PAGE_SIZE
    RateLimitAttempts,
    Bounds          \* how often each thing of BoundKind may happen

BoundKind == {"pull", "create", "delete", "edit", "limit", "error"}

\* What a user's record is to decode_user: a member of some standing, one without an
\* email, or one whose status is missing or not known.
Record == {"good_standing", "lapsed", "no_email", "no_status"}

Standing == {"good_standing", "lapsed"}

\* A Member, as decoded, with the place in the listing it was decoded from.
Entry == [at : Nat, id : User, standing : Standing]

Listings == [offset : Nat, attempts : 1..RateLimitAttempts, members : SUBSET Entry,
             stage : {"reading", "storing"}]

ASSUME ListingAssumption ==
    /\ User \subseteq Nat
    /\ First \in Seq(User) /\ IsInjective(First)
    /\ Leader \subseteq User
    /\ Periodic \subseteq Puller
    /\ NoListing \notin Listings
    /\ PageSize \in Nat \ {0}
    /\ RateLimitAttempts \in Nat \ {0}
    /\ Bounds \subseteq [BoundKind -> Nat]

VARIABLES
    users,      \* Solidarity Tech's collection, in its order
    record,     \* per account, its record, or "none" before it is created
    stored,     \* members: per account, the standing in the records, or "none"
    listing,    \* per puller, the listing it is at
    steady,     \* history: per puller, the accounts that have been in the collection,
                \* and could be decoded, for as long as the listing has run
    shifted,    \* history: per puller, the accounts created and deleted since then
                \* before where the listing has come to
    left        \* what is left of the behaviour's bounds

history == <<steady, shifted>>
vars == <<users, record, stored, listing, steady, shifted, left>>

Spend(kind) == left[kind] > 0 /\ left' = [left EXCEPT ![kind] = @ - 1]

-----------------------------------------------------------------------------

Decodes(u) == record[u] \in Standing

\* The places of one page.
Page(offset) == {i \in DOMAIN users : offset < i /\ i =< offset + PageSize}

\* decode_user of each; a record that does not decode is skipped.
Decoded(page) ==
    {[at |-> i, id |-> users[i], standing |-> record[users[i]]]
        : i \in {j \in page : Decodes(users[j])}}

\* The total is taken for the last offset.
LastByTotal(page, offset, total) == Cardinality(page) < PageSize \/ offset + PageSize >= total - 1

\* A short page is the last, and one that reaches the total if there is one.
LastPage(page, offset, total) == Cardinality(page) < PageSize \/ offset + PageSize >= total

Ids(members) == {e.id : e \in members}

\* How many of the entries are of an account that was listed before.
Repeats(members) == Cardinality(members) - Cardinality(Ids(members))

Init ==
    /\ users = First
    /\ record = [u \in User |-> IF u \in ToSet(First) THEN "good_standing" ELSE "none"]
    /\ stored = record
    /\ listing = [p \in Puller |-> NoListing]
    /\ steady = [p \in Puller |-> {}]
    /\ shifted = [p \in Puller |-> [created |-> 0, deleted |-> 0]]
    /\ left \in Bounds

Start(p) ==
    /\ listing[p] = NoListing
    /\ IF p \in Periodic THEN UNCHANGED left ELSE Spend("pull")
    /\ listing' = [listing EXCEPT ![p] =
                     [offset |-> 0, attempts |-> RateLimitAttempts, members |-> {},
                      stage |-> "reading"]]
    /\ steady' = [steady EXCEPT ![p] = {u \in ToSet(users) : Decodes(u)}]
    /\ shifted' = [shifted EXCEPT ![p] = [created |-> 0, deleted |-> 0]]
    /\ UNCHANGED <<users, record, stored>>

Reading(p) == listing[p] # NoListing /\ listing[p].stage = "reading"

\* A page answers.  Its total_count may be left out, which is as one never reached.
Read(p) ==
    LET page == Page(listing[p].offset)
    IN /\ Reading(p)
       /\ \E total \in {Len(users), listing[p].offset + PageSize + 1} :
            listing' = [listing EXCEPT ![p] =
              [offset |-> @.offset + PageSize, attempts |-> RateLimitAttempts,
               members |-> @.members \cup Decoded(page),
               stage |-> IF LastPage(page, @.offset, total) THEN "storing" ELSE "reading"]]
       /\ UNCHANGED <<users, record, stored, history, left>>

\* The listing fails, and the pull with it.
Fails(p) ==
    /\ listing' = [listing EXCEPT ![p] = NoListing]
    /\ steady' = [steady EXCEPT ![p] = {}]
    /\ shifted' = [shifted EXCEPT ![p] = [created |-> 0, deleted |-> 0]]
    /\ UNCHANGED <<users, record, stored>>

\* A 429 is waited out until the attempts are spent.
Limited(p) ==
    /\ Reading(p)
    /\ Spend("limit")
    /\ IF listing[p].attempts = 1
       THEN Fails(p)
       ELSE /\ listing' = [listing EXCEPT ![p].attempts = @ - 1]
            /\ UNCHANGED <<users, record, stored, history>>

Errs(p) == Reading(p) /\ Spend("error") /\ Fails(p)

\* Of an account listed twice the later entry stands, except that two pairs of one leader
\* and one body are more than the INSERT of the leader rows takes.
Storable(members) ==
    \A e, f \in members : (e.id = f.id /\ e # f) => e.id \notin Leader

\* The standing by the last entry of an account.
StandingOf(u, members) ==
    (CHOOSE e \in members :
       e.id = u /\ \A f \in members : f.id = u => f.at =< e.at).standing

\* Who has been lapsed for their absence stays so.
AppliedForGood(members) ==
    [u \in User |->
        IF u \in Ids(members) /\ stored[u] # "lapsed" THEN StandingOf(u, members)
        ELSE IF stored[u] = "none" THEN "none" ELSE "lapsed"]

Applied(members) ==
    [u \in User |->
        IF u \in Ids(members) THEN StandingOf(u, members)
        ELSE IF stored[u] = "none" THEN "none" ELSE "lapsed"]

\* pull_roster, in one transaction that another pull's comes before or after.
Store(p) ==
    /\ listing[p] # NoListing /\ listing[p].stage = "storing"
    /\ stored' = IF Storable(listing[p].members) THEN Applied(listing[p].members) ELSE stored
    /\ listing' = [listing EXCEPT ![p] = NoListing]
    /\ steady' = [steady EXCEPT ![p] = {}]
    /\ shifted' = [shifted EXCEPT ![p] = [created |-> 0, deleted |-> 0]]
    /\ UNCHANGED <<users, record, left>>

-----------------------------------------------------------------------------
(* What happens at Solidarity Tech. *)

\* A user comes or goes at index i, which a listing that is past it feels.
Shift(i, kind) ==
    shifted' = [p \in Puller |->
                  IF Reading(p) /\ i =< listing[p].offset
                  THEN [shifted[p] EXCEPT ![kind] = @ + 1] ELSE shifted[p]]

Create(u, i) ==
    /\ record[u] = "none" /\ \A w \in User : record[w] = "none" => u =< w
    /\ Spend("create")
    /\ record' = [record EXCEPT ![u] = "good_standing"]
    /\ users' = InsertAt(users, i, u)
    /\ Shift(i, "created")
    /\ UNCHANGED <<stored, listing, steady>>

Delete(i) ==
    /\ Spend("delete")
    /\ users' = RemoveAt(users, i)
    /\ Shift(i, "deleted")
    /\ steady' = [p \in Puller |-> steady[p] \ {users[i]}]
    /\ UNCHANGED <<record, stored, listing>>

Edit(u, r) ==
    /\ u \in ToSet(users) /\ r # record[u]
    /\ Spend("edit")
    /\ record' = [record EXCEPT ![u] = r]
    /\ steady' = IF r \in Standing THEN steady ELSE [p \in Puller |-> steady[p] \ {u}]
    /\ UNCHANGED <<users, stored, listing, shifted>>

PullerStep(p) == Start(p) \/ Read(p) \/ Store(p)

Next ==
    \/ \E p \in Puller : PullerStep(p) \/ Limited(p) \/ Errs(p)
    \/ \E u \in User, i \in 1..(Len(users) + 1) : Create(u, i)
    \/ \E i \in DOMAIN users : Delete(i)
    \/ \E u \in User, r \in Record : Edit(u, r)

Spec == Init /\ [][Next]_vars

\* The sweep's timer comes round, and a listing that is not refused goes on.
FairSpec ==
    Spec /\ (\A p \in Periodic : WF_vars(PullerStep(p)))
         /\ (\A p \in Puller \ Periodic : WF_vars(Read(p) \/ Store(p)))
=============================================================================

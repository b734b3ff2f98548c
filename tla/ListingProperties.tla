-------------------------- MODULE ListingProperties --------------------------
(***************************************************************************)
(* What a listing by offset promises of a collection that changes.         *)
(***************************************************************************)
EXTENDS Listing

\* Every variable has its type (solidarity_tech/client.py).
TypeOK ==
    /\ users \in Seq(User) /\ IsInjective(users)
    /\ record \in [User -> Record \cup {"none"}]
    /\ stored \in [User -> Standing \cup {"none"}]
    /\ listing \in [Puller -> Listings \cup {NoListing}]
    /\ steady \in [Puller -> SUBSET User]
    /\ shifted \in [Puller -> [created : Nat, deleted : Nat]]
    /\ left \in [BoundKind -> Nat]

\* A listing goes wrong by no more than the collection shifted under it: for each account
\* deleted before where it had come to, one that was there all along may be missing, and
\* for each that was created there, one may be listed twice; nothing else is lost,
\* neither by a 429 nor by a total that is left out or has changed
\* (solidarity_tech/client.py, list_members, _get_users).
ErrsByTheShifts ==
    \A p \in Puller :
       (listing[p] # NoListing /\ listing[p].stage = "storing") =>
          /\ Cardinality(steady[p] \ Ids(listing[p].members)) =< shifted[p].deleted
          /\ Repeats(listing[p].members) =< shifted[p].created

\* The accounts whose standing in the records is what their record says.
Restored == \A u \in ToSet(users) : Decodes(u) => stored[u] = record[u]

\* A member who was missed and lapsed for it, a pull that failed for a leader listed twice
\* and a roster that was read earlier and applied later all "self-restore on the next
\* clean pull" (db/roster.py, the module's docstring), and there is one.
EventuallyRestored == <>[]Restored
=============================================================================

--------------------------- MODULE PanelProperties ---------------------------
(***************************************************************************)
(* What the panel's writes promise.                                        *)
(***************************************************************************)
EXTENDS Panel

\* Every variable has its type (web/records.py).
TypeOK ==
    /\ role \in [Member -> Role]
    /\ member \in [Member -> MemberRow]
    /\ link \in MailGroup \cup {NoGroup}
    /\ IsStatuses(statuses)
    /\ google \in [MailGroup -> SUBSET Address]
    /\ request \in [Request -> Locals \cup {NoRequest}]
    /\ stray \subseteq [op : {"add", "remove"}, group : MailGroup, address : Address]
    /\ sweep \in Sweeps \cup {NoSweep}
    /\ service \in {"up", "draining", "cancelling", "closed"}
    /\ pending \subseteq Request
    /\ unrecorded \subseteq Request
    /\ blurred \subseteq Member
    /\ left \in [BoundKind -> Nat]

-----------------------------------------------------------------------------
(* Safety. *)

\* Leader rows come and go with the records only: a member whom a pull makes a
\* leader between the panel's check and its claim is out of its reach
\* (db/mutations.py, _DELETE_MEMBER, _INSERT_MEMBER).
LeaderRowsAreThePulls ==
    [][\A m \in Member : (role[m] = "leader") # (role'[m] = "leader")
          => left'["records"] < left["records"]]_vars

\* A write that has been committed has its audit row, whatever Google said and also
\* where Google was not asked, or a task that still owes it; only one that ends
\* by an unforeseen exception or with the process owes nothing more
\* (web/records.py, _mirror_add, _mirror_remove, _member_group_email).
CommittedWritesRecorded == \A r \in unrecorded : Busy(r) /\ request[r].stage \in Owing

\* "a mirror task is never left running against a closed pool" (web/records.py,
\* drain): the drain waits for the tasks it has seen when it began, and those it
\* cancels may take their time to end; when the pool is closed there is no request and
\* no task, pending or younger than the drain (service.py, lifespan).
PoolClosedLast == service = "closed" => \A r \in Request : ~ Busy(r)

\* The addresses of a member, of which one at most is in the group.
Mirrored(m) == CandidateSet(member[m].addresses) \cap google[link]

\* No address of theirs is ever another member's too.  The table keeps emails unique but
\* not alternates.
Alone(m) == \A n \in Member \ {m} : Addresses(m) \cap Addresses(n) = {}

\* One write at a time, the panel keeps Google equal to the records by itself: who
\* was added is in the group, and who was removed is not, under whichever of their
\* addresses it was.  Excepted are members for whom a call failed, the records
\* changed or a sweep or another task crossed, those who share an address with another
\* member, and addresses Google has no account for (web/records.py, _target_address).
UncrossedMirrorFollows ==
    link # NoGroup =>
       \A m \in Member \ blurred :
          Alone(m) /\ OwingFor(m) = {} =>
             /\ role[m] = "none" => Mirrored(m) = {}
             /\ (role[m] = "member" /\ Eligible(m)
                 /\ CandidateSet(member[m].addresses) \subseteq Takes \ Example)
                   => Mirrored(m) # {}

-----------------------------------------------------------------------------
(* Liveness. *)

Entitled(m) ==
    /\ role[m] = "member" /\ Eligible(m)
    /\ member[m].addresses.email \notin Example
    /\ CandidateSet(member[m].addresses) \cap Takes # {}

\* Whatever order the tasks ran in, were lost in or met a sweep in, the sweeps that
\* follow leave each entitled member in the linked group under one address, and
\* nobody else (web/records.py, module docstring; group_sync.py, sync_target).
EventuallyMirrored ==
    <>[](link # NoGroup =>
           \A m \in Member : IF Entitled(m) THEN Cardinality(Mirrored(m)) = 1
                                            ELSE Mirrored(m) = {})

-----------------------------------------------------------------------------
(* What the proofs carry from step to step besides the invariants above.      *)

\* A task that is about to call Google, or has, knows the address.
AddressPicked ==
    \A r \in Request : Busy(r) /\ request[r].stage \in {"calling", "remembering"}
                         => request[r].address \in Address

\* While the drain goes on there is nothing but what it waits for.
TasksPending ==
    service \in {"draining", "cancelling"} => \A r \in Request : Busy(r) => r \in pending

PanelInv ==
    TypeOK /\ AddressPicked /\ CommittedWritesRecorded /\ PoolClosedLast /\ TasksPending
=============================================================================

---------------------------- MODULE ListingProofs ----------------------------
(***************************************************************************)
(* A listing errs by no more than the collection shifted under it, for     *)
(* every number of accounts, of pullers and of places on a page.           *)
(*                                                                         *)
(* That a listing at its end has missed or repeated no more than it may is *)
(* not inductive: an account is missed when one before it is deleted, long *)
(* before the end.  WithinShifts counts from the start, with those that    *)
(* the listing has still to come to: who was there all along is listed, is *)
(* still to come, or is one of those the deletions account for; what was   *)
(* listed twice, and who was listed and is still to come, are those the    *)
(* creations account for.  A change of the collection moves at most one    *)
(* account across the place the listing has come to (RestAfterInsert,      *)
(* RestAfterRemove), and a page turns what was to come into what is listed *)
(* (ReadWithin).                                                           *)
(***************************************************************************)
EXTENDS ListingProperties, FiniteSetTheorems, SequenceTheorems, TLAPS

\* What InsertAt makes of a sequence: the element at its place, those from there on one
\* place further.
LEMMA Inserted ==
    ASSUME NEW S, NEW s \in Seq(S), NEW u \in S, NEW i \in 1..(Len(s) + 1)
    PROVE  /\ InsertAt(s, i, u) \in Seq(S)
           /\ Len(InsertAt(s, i, u)) = Len(s) + 1
           /\ \A j \in 1..(Len(s) + 1) :
                InsertAt(s, i, u)[j] = IF j < i THEN s[j] ELSE IF j = i THEN u ELSE s[j - 1]
<1>n. Len(s) \in Nat /\ \A j \in 1..Len(s) : s[j] \in S
  BY LenProperties, ElementOfSeq
<1> DEFINE before == SubSeq(s, 1, i - 1)
           after == SubSeq(s, i, Len(s))
           one == <<u>>
<1>1. /\ before \in Seq(S) /\ Len(before) = i - 1
      /\ \A j \in 1..(i - 1) : before[j] = s[j]
  <2>1. \A j \in 1..(i - 1) : s[j] \in S
    BY <1>n
  <2>2. /\ before \in Seq(S) /\ Len(before) = IF 1 =< i - 1 THEN (i - 1) - 1 + 1 ELSE 0
        /\ \A j \in 1..((i - 1) - 1 + 1) : before[j] = s[1 + j - 1]
    BY <2>1, <1>n, SubSeqProperties
  <2> HIDE DEF before
  <2> QED BY <2>2, <1>n
<1>2. /\ after \in Seq(S) /\ Len(after) = Len(s) - i + 1
      /\ \A j \in 1..(Len(s) - i + 1) : after[j] = s[i + j - 1]
  <2>1. \A j \in i..Len(s) : s[j] \in S
    BY <1>n
  <2>2. /\ after \in Seq(S) /\ Len(after) = IF i =< Len(s) THEN Len(s) - i + 1 ELSE 0
        /\ \A j \in 1..(Len(s) - i + 1) : after[j] = s[i + j - 1]
    BY <2>1, <1>n, SubSeqProperties
  <2> HIDE DEF after
  <2> QED BY <2>2, <1>n
<1>3. one \in Seq(S) /\ Len(one) = 1 /\ one[1] = u
  OBVIOUS
<1> HIDE DEF before, after, one
<1> DEFINE front == before \o one
           all == front \o after
<1>4. /\ front \in Seq(S) /\ Len(front) = i
      /\ \A j \in 1..i : front[j] = IF j < i THEN s[j] ELSE u
  <2>1. /\ front \in Seq(S) /\ Len(front) = Len(before) + Len(one)
        /\ \A j \in 1..(Len(before) + Len(one)) :
             front[j] = IF j =< Len(before) THEN before[j] ELSE one[j - Len(before)]
    BY <1>1, <1>3, ConcatProperties
  <2> HIDE DEF front
  <2> QED BY <2>1, <1>1, <1>3, <1>n
<1> HIDE DEF front
<1>5. /\ all \in Seq(S)
      /\ Len(all) = Len(front) + Len(after)
      /\ \A j \in 1..(Len(front) + Len(after)) :
           all[j] = IF j =< Len(front) THEN front[j] ELSE after[j - Len(front)]
  BY <1>4, <1>2, ConcatProperties
<1>6. InsertAt(s, i, u) = all
  BY DEF InsertAt, before, one, after, front
<1> HIDE DEF all
<1>7. ASSUME NEW j \in 1..(Len(s) + 1)
      PROVE  all[j] = IF j < i THEN s[j] ELSE IF j = i THEN u ELSE s[j - 1]
  <2>1. CASE j =< i
    BY <2>1, <1>5, <1>4, <1>2, <1>n
  <2>2. CASE j > i
    <3>1. all[j] = after[j - i]
      BY <2>2, <1>5, <1>4, <1>2, <1>n
    <3>2. after[j - i] = s[i + (j - i) - 1]
      BY <2>2, <1>2, <1>n
    <3> QED BY <3>1, <3>2, <2>2, <1>n
  <2>3. j \in Int /\ i \in Int
    BY <1>n
  <2> QED BY <2>1, <2>2, <2>3
<1>8. Len(all) = Len(s) + 1
  BY <1>5, <1>4, <1>2, <1>n
<1> QED BY <1>5, <1>6, <1>7, <1>8

\* What RemoveAt makes of one: those after the place one place nearer.
LEMMA Removed ==
    ASSUME NEW S, NEW s \in Seq(S), NEW i \in 1..Len(s)
    PROVE  /\ RemoveAt(s, i) \in Seq(S)
           /\ Len(RemoveAt(s, i)) = Len(s) - 1
           /\ \A j \in 1..(Len(s) - 1) :
                RemoveAt(s, i)[j] = IF j < i THEN s[j] ELSE s[j + 1]
<1>n. Len(s) \in Nat /\ \A j \in 1..Len(s) : s[j] \in S
  BY LenProperties, ElementOfSeq
<1> DEFINE before == SubSeq(s, 1, i - 1)
           after == SubSeq(s, i + 1, Len(s))
<1>1. /\ before \in Seq(S) /\ Len(before) = i - 1
      /\ \A j \in 1..(i - 1) : before[j] = s[j]
  <2>1. \A j \in 1..(i - 1) : s[j] \in S
    BY <1>n
  <2>2. /\ before \in Seq(S) /\ Len(before) = IF 1 =< i - 1 THEN (i - 1) - 1 + 1 ELSE 0
        /\ \A j \in 1..((i - 1) - 1 + 1) : before[j] = s[1 + j - 1]
    BY <2>1, <1>n, SubSeqProperties
  <2> HIDE DEF before
  <2> QED BY <2>2, <1>n
<1>2. /\ after \in Seq(S) /\ Len(after) = Len(s) - i
      /\ \A j \in 1..(Len(s) - i) : after[j] = s[i + j]
  <2>1. \A j \in (i + 1)..Len(s) : s[j] \in S
    BY <1>n
  <2>2. /\ after \in Seq(S)
        /\ Len(after) = IF i + 1 =< Len(s) THEN Len(s) - (i + 1) + 1 ELSE 0
        /\ \A j \in 1..(Len(s) - (i + 1) + 1) : after[j] = s[(i + 1) + j - 1]
    BY <2>1, <1>n, SubSeqProperties
  <2> HIDE DEF after
  <2> QED BY <2>2, <1>n
<1> HIDE DEF before, after
<1> DEFINE all == before \o after
<1>3. /\ all \in Seq(S)
      /\ Len(all) = Len(before) + Len(after)
      /\ \A j \in 1..(Len(before) + Len(after)) :
           all[j] = IF j =< Len(before) THEN before[j] ELSE after[j - Len(before)]
  BY <1>1, <1>2, ConcatProperties
<1>4. RemoveAt(s, i) = all
  BY DEF RemoveAt, before, after
<1> HIDE DEF all
<1>5. ASSUME NEW j \in 1..(Len(s) - 1)
      PROVE  all[j] = IF j < i THEN s[j] ELSE s[j + 1]
  <2>0. j \in 1..(Len(before) + Len(after)) /\ Len(before) = i - 1
    BY <1>1, <1>2, <1>n
  <2>4. all[j] = IF j =< Len(before) THEN before[j] ELSE after[j - Len(before)]
    BY <2>0, <1>3
  <2>1. CASE j < i
    <3>1. j \in 1..(i - 1) /\ j =< Len(before)
      BY <2>1, <2>0, <1>n
    <3> QED BY <3>1, <2>1, <2>4, <1>1
  <2>2. CASE j >= i
    <3>1. all[j] = after[j - (i - 1)]
      <4>1. ~(j =< Len(before))
        BY <2>2, <2>0, <1>n
      <4> QED BY <4>1, <2>4, <2>0
    <3>2. after[j - (i - 1)] = s[i + (j - (i - 1))]
      BY <2>2, <1>2, <1>n
    <3> QED BY <3>1, <3>2, <2>2, <1>n
  <2>3. j \in Int /\ i \in Int
    BY <1>n
  <2> QED BY <2>1, <2>2, <2>3
<1>6. Len(all) = Len(s) - 1
  BY <1>3, <1>1, <1>2, <1>n
<1> QED BY <1>3, <1>4, <1>5, <1>6
-----------------------------------------------------------------------------
(* Where the others' accounts go when one comes or goes. *)

\* The accounts that a listing which has come to offset has still to come to.
Rest(us, offset) == {us[i] : i \in {j \in DOMAIN us : j > offset}}

\* An account comes in: before where a listing has come to, it pushes at most one that was
\* listed back in front of it; behind, it is itself the one more to come.
LEMMA RestAfterInsert ==
    ASSUME NEW S, NEW s \in Seq(S), NEW u \in S, NEW i \in 1..(Len(s) + 1),
           NEW offset \in Nat
    PROVE  /\ Rest(s, offset) \subseteq Rest(InsertAt(s, i, u), offset)
           /\ \E w : /\ Rest(InsertAt(s, i, u), offset) \subseteq Rest(s, offset) \cup {w}
                     /\ i > offset => w = u
<1> DEFINE t == InsertAt(s, i, u)
<1>n. Len(s) \in Nat /\ DOMAIN s = 1..Len(s)
  BY LenProperties
<1>1. /\ Len(t) = Len(s) + 1 /\ DOMAIN t = 1..(Len(s) + 1)
      /\ \A j \in 1..(Len(s) + 1) : t[j] = IF j < i THEN s[j] ELSE IF j = i THEN u ELSE s[j - 1]
  <2>1. /\ t \in Seq(S) /\ Len(t) = Len(s) + 1
        /\ \A j \in 1..(Len(s) + 1) :
             t[j] = IF j < i THEN s[j] ELSE IF j = i THEN u ELSE s[j - 1]
    <3>1. t \in Seq(S) /\ Len(t) = Len(s) + 1
      BY Inserted, SMTT(30)
    <3>2. \A j \in 1..(Len(s) + 1) :
             t[j] = IF j < i THEN s[j] ELSE IF j = i THEN u ELSE s[j - 1]
      BY Inserted, SMTT(30)
    <3> QED BY <3>1, <3>2
  <2> HIDE DEF t
  <2>2. DOMAIN t = 1..Len(t)
    BY <2>1, LenProperties
  <2> QED BY <2>1, <2>2
<1> HIDE DEF t
<1>2. Rest(s, offset) \subseteq Rest(t, offset)
  <2> SUFFICES ASSUME NEW k \in 1..Len(s), k > offset
               PROVE  s[k] \in Rest(t, offset)
    BY <1>n DEF Rest
  <2>1. CASE k < i
    <3>1. k \in 1..(Len(s) + 1) /\ t[k] = s[k]
      BY <2>1, <1>1, <1>n
    <3> QED BY <3>1, <1>1 DEF Rest
  <2>2. CASE k >= i
    <3>1. /\ k + 1 \in 1..(Len(s) + 1) /\ k + 1 > offset
          /\ ~(k + 1 < i) /\ k + 1 # i /\ (k + 1) - 1 = k
      BY <2>2, <1>n
    <3>2. t[k + 1] = s[k]
      BY <3>1, <1>1
    <3> QED BY <3>1, <3>2, <1>1 DEF Rest
  <2>3. k < i \/ k >= i
    BY <1>n
  <2> QED BY <2>1, <2>2, <2>3
<1>3. CASE i > offset
  <2>1. Rest(t, offset) \subseteq Rest(s, offset) \cup {u}
    <3> SUFFICES ASSUME NEW k \in 1..(Len(s) + 1), k > offset, t[k] # u
                 PROVE  t[k] \in Rest(s, offset)
      BY <1>1 DEF Rest
    <3>1. CASE k < i
      <4>1. k \in 1..Len(s) /\ t[k] = s[k]
        BY <3>1, <1>1, <1>n
      <4> QED BY <4>1, <1>n DEF Rest
    <3>2. CASE k > i
      <4>1. k - 1 \in 1..Len(s) /\ k - 1 > offset /\ t[k] = s[k - 1]
        BY <3>2, <1>3, <1>1, <1>n
      <4> QED BY <4>1, <1>n DEF Rest
    <3>3. k < i \/ k > i \/ k = i
      BY <1>n
    <3>4. k # i
      BY <1>1, <1>n
    <3> QED BY <3>1, <3>2, <3>3, <3>4
  <2> QED BY <2>1, <1>2 DEF t
<1>4. CASE ~(i > offset)
  <2>1. Rest(t, offset) \subseteq Rest(s, offset) \cup {s[offset]}
    <3> SUFFICES ASSUME NEW k \in 1..(Len(s) + 1), k > offset, t[k] # s[offset]
                 PROVE  t[k] \in Rest(s, offset)
      BY <1>1 DEF Rest
    <3>1. ~(k < i) /\ k # i /\ k - 1 \in 1..Len(s)
      BY <1>4, <1>n
    <3>2. t[k] = s[k - 1]
      BY <3>1, <1>1
    <3>3. k - 1 # offset
      BY <3>2
    <3>4. k - 1 > offset
      BY <3>3, <1>n
    <3> QED BY <3>1, <3>2, <3>4, <1>n DEF Rest
  <2> QED BY <2>1, <1>2, <1>4 DEF t
<1> QED BY <1>3, <1>4

\* One goes: before where a listing has come to, it pulls at most one that was still to be
\* listed behind it; further on, it is itself the one less to come.
LEMMA RestAfterRemove ==
    ASSUME NEW S, NEW s \in Seq(S), NEW i \in 1..Len(s), NEW offset \in Nat
    PROVE  /\ Rest(RemoveAt(s, i), offset) \subseteq Rest(s, offset)
           /\ \E w : /\ Rest(s, offset) \subseteq Rest(RemoveAt(s, i), offset) \cup {w}
                     /\ i > offset => w = s[i]
<1> DEFINE t == RemoveAt(s, i)
<1>n. Len(s) \in Nat /\ DOMAIN s = 1..Len(s)
  BY LenProperties
<1>1. /\ Len(t) = Len(s) - 1 /\ DOMAIN t = 1..(Len(s) - 1)
      /\ \A j \in 1..(Len(s) - 1) : t[j] = IF j < i THEN s[j] ELSE s[j + 1]
  <2>1. t \in Seq(S) /\ Len(t) = Len(s) - 1
    BY Removed
  <2>2. DOMAIN t = 1..Len(t)
    BY <2>1, LenProperties
  <2> QED BY <2>1, <2>2, Removed
<1> HIDE DEF t
<1>2. Rest(t, offset) \subseteq Rest(s, offset)
  <2> SUFFICES ASSUME NEW k \in 1..(Len(s) - 1), k > offset
               PROVE  t[k] \in Rest(s, offset)
    BY <1>1 DEF Rest
  <2>1. CASE k < i
    <3>1. k \in 1..Len(s) /\ t[k] = s[k]
      BY <2>1, <1>1, <1>n
    <3> QED BY <3>1, <1>n DEF Rest
  <2>2. CASE ~(k < i)
    <3>1. k + 1 \in 1..Len(s) /\ k + 1 > offset
      BY <1>n
    <3>2. t[k] = s[k + 1]
      BY <2>2, <1>1
    <3> QED BY <3>1, <3>2, <1>n DEF Rest
  <2> QED BY <2>1, <2>2
<1>3. ASSUME NEW w, w = IF i > offset THEN s[i] ELSE s[offset + 1]
      PROVE  Rest(s, offset) \subseteq Rest(t, offset) \cup {w}
  <2> SUFFICES ASSUME NEW k \in 1..Len(s), k > offset, s[k] # w
               PROVE  s[k] \in Rest(t, offset)
    BY <1>n DEF Rest
  <2>1. CASE k < i
    <3>1. k \in 1..(Len(s) - 1) /\ t[k] = s[k]
      BY <2>1, <1>1, <1>n
    <3> QED BY <3>1, <1>1 DEF Rest
  <2>2. CASE k > i
    <3>1. k # offset + 1 \/ i > offset
      BY <1>3
    <3>2. k - 1 > offset /\ k - 1 \in 1..(Len(s) - 1) /\ ~(k - 1 < i) /\ (k - 1) + 1 = k
      BY <3>1, <2>2, <1>n
    <3>3. t[k - 1] = s[k]
      BY <3>2, <1>1
    <3> QED BY <3>2, <3>3, <1>1 DEF Rest
  <2>3. CASE k = i
    BY <2>3, <1>3
  <2>4. k < i \/ k > i \/ k = i
    BY <1>n
  <2> QED BY <2>1, <2>2, <2>3, <2>4
<1>4. CASE i > offset
  <2>1. Rest(s, offset) \subseteq Rest(t, offset) \cup {s[i]}
    BY <1>4, <1>3
  <2> QED BY <2>1, <1>2 DEF t
<1>5. CASE ~(i > offset)
  <2>1. Rest(s, offset) \subseteq Rest(t, offset) \cup {s[offset + 1]}
    BY <1>5, <1>3
  <2> QED BY <2>1, <1>2, <1>5 DEF t
<1> QED BY <1>4, <1>5
-----------------------------------------------------------------------------
(* Counting. *)

\* A function has no more values than arguments.
LEMMA ImageBound ==
    ASSUME NEW S, IsFiniteSet(S), NEW f, DOMAIN f = S
    PROVE  LET T == {f[x] : x \in S}
           IN  IsFiniteSet(T) /\ Cardinality(T) =< Cardinality(S)
<1> DEFINE T == {f[x] : x \in S}
           g == [x \in S |-> f[x]]
<1>1. g \in Surjection(S, T)
  BY DEF Surjection
<1> HIDE DEF T, g
<1>2. IsFiniteSet(T) /\ Cardinality(T) =< Cardinality(S)
  BY <1>1, FS_Surjection
<1> QED BY <1>2 DEF T

\* At most one more element is at most one more in number.
LEMMA OneMore ==
    ASSUME NEW A, NEW B, IsFiniteSet(B), NEW w, A \subseteq B \cup {w}
    PROVE  IsFiniteSet(A) /\ Cardinality(A) =< Cardinality(B) + 1
<1>0. Cardinality(B) \in Nat
  BY FS_CardinalityType
<1>1. IsFiniteSet(B \cup {w}) /\ Cardinality(B \cup {w}) =< Cardinality(B) + 1
  <2>1. /\ IsFiniteSet(B \cup {w})
        /\ Cardinality(B \cup {w}) = IF w \in B THEN Cardinality(B) ELSE Cardinality(B) + 1
    BY FS_AddElement
  <2> QED BY <2>1, <1>0
<1>2. IsFiniteSet(A) /\ Cardinality(A) =< Cardinality(B \cup {w})
  BY <1>1, FS_Subset
<1>3. Cardinality(A) \in Nat /\ Cardinality(B \cup {w}) \in Nat
  BY <1>1, <1>2, FS_CardinalityType
<1> QED BY <1>0, <1>1, <1>2, <1>3

LEMMA NoMore ==
    ASSUME NEW A, NEW B, IsFiniteSet(B), A \subseteq B
    PROVE  IsFiniteSet(A) /\ Cardinality(A) =< Cardinality(B)
BY FS_Subset

-----------------------------------------------------------------------------
(* The inductive invariant. *)

\* The accounts a listing has still to come to: none, once its last page is read.
Coming(us, l) == IF l.stage = "reading" THEN Rest(us, l.offset) ELSE {}

\* Those that were there all along and that it has missed or is to miss, and those it has
\* listed and is to list again.
Missed(us, l, st) == st \ (Ids(l.members) \cup Coming(us, l))
Again(us, l) == Ids(l.members) \cap Coming(us, l)

\* A listing, the accounts that were there all along, and the shifts it has felt: it knows
\* only accounts that exist and places it has been at, and its errors, those to come
\* included, are within the shifts.
WithinShifts(us, rec, l, st, sh) ==
    /\ st \subseteq {u \in ToSet(us) : rec[u] \in Standing}
    /\ IsFiniteSet(l.members)
    /\ \A e \in l.members : e.at =< l.offset /\ rec[e.id] # "none"
    /\ Cardinality(Missed(us, l, st)) =< sh.deleted
    /\ Repeats(l.members) + Cardinality(Again(us, l)) =< sh.created

Existing(us, rec) == \A u \in ToSet(us) : rec[u] # "none"

ErrsInv ==
    /\ TypeOK
    /\ Existing(users, record)
    /\ \A p \in Puller : listing[p] # NoListing =>
          WithinShifts(users, record, listing[p], steady[p], shifted[p])

\* All these sets are finite.
LEMMA CountsAreFinite ==
    ASSUME NEW us \in Seq(User), NEW rec, NEW l \in Listings, NEW st, NEW sh,
           st \subseteq ToSet(us), IsFiniteSet(l.members)
    PROVE  /\ IsFiniteSet(ToSet(us))
           /\ IsFiniteSet(Ids(l.members))
           /\ IsFiniteSet(Missed(us, l, st)) /\ IsFiniteSet(Again(us, l))
           /\ Cardinality(Missed(us, l, st)) \in Nat /\ Cardinality(Again(us, l)) \in Nat
           /\ Repeats(l.members) \in Nat
<1>1. IsFiniteSet(ToSet(us))
  <2>1. DOMAIN us = 1..Len(us) /\ Len(us) \in Nat
    BY LenProperties
  <2>2. IsFiniteSet(DOMAIN us)
    BY <2>1, FS_Interval
  <2> QED BY <2>2, ImageBound DEF ToSet
<1>2. IsFiniteSet(Ids(l.members)) /\ Cardinality(Ids(l.members)) =< Cardinality(l.members)
  <2> DEFINE f == [e \in l.members |-> e.id]
  <2>1. DOMAIN f = l.members
    OBVIOUS
  <2>2. {f[e] : e \in l.members} = Ids(l.members)
    BY DEF Ids
  <2> HIDE DEF f
  <2> QED BY <2>1, <2>2, ImageBound
<1>3. IsFiniteSet(Missed(us, l, st))
  BY <1>1, FS_Subset DEF Missed
<1>4. IsFiniteSet(Again(us, l))
  BY <1>2, FS_Subset DEF Again
<1>5. Cardinality(l.members) \in Nat /\ Cardinality(Ids(l.members)) \in Nat
  BY <1>2, FS_CardinalityType
<1>6. Repeats(l.members) \in Nat
  BY <1>2, <1>5 DEF Repeats
<1> QED BY <1>1, <1>2, <1>3, <1>4, <1>6, FS_CardinalityType
\* What is on a page: it decodes to entries of as many accounts, from places that the
\* listing has not been at.
LEMMA PageEntries ==
    ASSUME TypeOK, NEW o \in Nat
    PROVE  LET E == Decoded(Page(o))
           IN  /\ E \subseteq Entry /\ IsFiniteSet(E) /\ IsFiniteSet(Page(o))
               /\ \A e \in E : /\ e.at \in DOMAIN users /\ e.id = users[e.at]
                               /\ o < e.at /\ e.at =< o + PageSize
                               /\ record[e.id] \in Standing
               /\ Cardinality(E) = Cardinality(Ids(E))
<1> DEFINE E == Decoded(Page(o))
           read == {j \in Page(o) : Decodes(users[j])}
           made == [i \in read |-> [at |-> i, id |-> users[i], standing |-> record[users[i]]]]
<1>n. /\ Len(users) \in Nat /\ DOMAIN users = 1..Len(users)
      /\ \A i \in 1..Len(users) : users[i] \in User
  BY LenProperties, ElementOfSeq DEF TypeOK
<1>1. IsFiniteSet(Page(o))
  <2>1. IsFiniteSet(1..Len(users))
    BY <1>n, FS_Interval
  <2> QED BY <2>1, <1>n, FS_Subset DEF Page
<1>2. IsFiniteSet(read)
  BY <1>1, FS_Subset
<1>3. DOMAIN made = read /\ {made[i] : i \in read} = E
  BY DEF Decoded
<1>4. \A i \in read : i \in 1..Len(users) /\ o < i /\ i =< o + PageSize /\ record[users[i]] \in Standing
  BY <1>n DEF Page, Decodes
<1>5. \A e \in E : \E i \in read : e = [at |-> i, id |-> users[i], standing |-> record[users[i]]]
  BY DEF Decoded
<1> HIDE DEF E, read, made
<1>6. IsFiniteSet(E)
  BY <1>2, <1>3, ImageBound
<1>7. E \subseteq Entry
  BY <1>4, <1>5, <1>n DEF Entry
<1>8. \A e \in E : /\ e.at \in DOMAIN users /\ e.id = users[e.at]
                   /\ o < e.at /\ e.at =< o + PageSize
                   /\ record[e.id] \in Standing
  BY <1>4, <1>5, <1>n
<1>9. \A e, f \in E : e.id = f.id => e = f
  <2> SUFFICES ASSUME NEW e \in E, NEW f \in E, e.id = f.id PROVE e = f
    OBVIOUS
  <2>1. PICK i \in read : e = [at |-> i, id |-> users[i], standing |-> record[users[i]]]
    BY <1>5
  <2>2. PICK j \in read : f = [at |-> j, id |-> users[j], standing |-> record[users[j]]]
    BY <1>5
  <2>3. users[i] = users[j]
    BY <2>1, <2>2
  <2>4. i = j
    BY <2>3, <1>4, <1>n DEF TypeOK, IsInjective
  <2> QED BY <2>1, <2>2, <2>4
<1>10. Cardinality(E) = Cardinality(Ids(E))
  <2> DEFINE f == [e \in E |-> e.id]
  <2>1. f \in Surjection(E, Ids(E)) /\ f \in Injection(E, Ids(E))
    BY <1>9 DEF Surjection, Injection, IsInjective, Ids
  <2> HIDE DEF f
  <2> QED BY <2>1, <1>6, FS_Surjection
<1> QED BY <1>1, <1>6, <1>7, <1>8, <1>10 DEF E

\* Of the accounts a listing had still to come to, those that decode are on the page, or
\* it is to come to them: a last page is the last.
LEMMA PageCovers ==
    ASSUME TypeOK, NEW o \in Nat, NEW total \in {Len(users), o + PageSize + 1},
           NEW u \in Rest(users, o), record[u] \in Standing,
           ~(/\ ~LastPage(Page(o), o, total) /\ u \in Rest(users, o + PageSize))
    PROVE  u \in Ids(Decoded(Page(o)))
<1>n. /\ Len(users) \in Nat /\ DOMAIN users = 1..Len(users) /\ PageSize \in Nat \ {0}
      /\ \A i \in 1..Len(users) : users[i] \in User
  BY LenProperties, ElementOfSeq, ListingAssumption DEF TypeOK
<1>1. PICK i \in 1..Len(users) : i > o /\ u = users[i]
  BY <1>n DEF Rest
<1>2. i =< o + PageSize
  <2> SUFFICES ASSUME i > o + PageSize PROVE FALSE
    BY <1>n
  <2>1. u \in Rest(users, o + PageSize)
    BY <1>1, <1>n DEF Rest
  <2>2. LastPage(Page(o), o, total)
    BY <2>1
  <2>3. Page(o) = (o + 1)..(o + PageSize)
    BY <1>n DEF Page
  <2>4. Cardinality(Page(o)) = PageSize
    <3>1. Cardinality((o + 1)..(o + PageSize)) =
            IF o + 1 > o + PageSize THEN 0 ELSE (o + PageSize) - (o + 1) + 1
      BY <1>n, FS_Interval
    <3> QED BY <3>1, <2>3, <1>n
  <2>5. o + PageSize >= total
    BY <2>2, <2>4, <1>n DEF LastPage
  <2> QED BY <2>5, <1>n
<1>3. i \in {j \in Page(o) : Decodes(users[j])}
  BY <1>1, <1>2, <1>n DEF Page, Decodes
<1>4. [at |-> i, id |-> users[i], standing |-> record[users[i]]] \in Decoded(Page(o))
  BY <1>3 DEF Decoded
<1> QED BY <1>4, <1>1 DEF Ids
\* A page read leaves a listing within its shifts: what it has listed again is what it was
\* to list again.
LEMMA ReadWithin ==
    ASSUME TypeOK, Existing(users, record),
           NEW l \in Listings, l.stage = "reading",
           NEW st, NEW sh \in [created : Nat, deleted : Nat],
           WithinShifts(users, record, l, st, sh),
           NEW total \in {Len(users), l.offset + PageSize + 1},
           NEW m,
           m = [offset |-> l.offset + PageSize, attempts |-> RateLimitAttempts,
                members |-> l.members \cup Decoded(Page(l.offset)),
                stage |-> IF LastPage(Page(l.offset), l.offset, total)
                          THEN "storing" ELSE "reading"]
    PROVE  m \in Listings /\ WithinShifts(users, record, m, st, sh)
<1>n. /\ l.offset \in Nat /\ PageSize \in Nat \ {0} /\ l.members \subseteq Entry
      /\ RateLimitAttempts \in Nat \ {0} /\ users \in Seq(User)
  BY ListingAssumption DEF TypeOK, Listings
<1>len. Len(users) \in Nat /\ DOMAIN users = 1..Len(users)
  BY <1>n, LenProperties
<1> DEFINE E == Decoded(Page(l.offset))
           D == Ids(E)
           I == Ids(l.members)
           last == LastPage(Page(l.offset), l.offset, total)
<1>1. /\ E \subseteq Entry /\ IsFiniteSet(E)
      /\ \A e \in E : /\ e.at \in DOMAIN users /\ e.id = users[e.at]
                      /\ l.offset < e.at /\ e.at =< l.offset + PageSize
                      /\ record[e.id] \in Standing
      /\ Cardinality(E) = Cardinality(D)
  BY <1>n, PageEntries
<1>w. /\ st \subseteq {u \in ToSet(users) : record[u] \in Standing}
      /\ IsFiniteSet(l.members)
      /\ \A e \in l.members : e.at =< l.offset /\ record[e.id] # "none"
      /\ Cardinality(Missed(users, l, st)) =< sh.deleted
      /\ Repeats(l.members) + Cardinality(Again(users, l)) =< sh.created
  BY DEF WithinShifts
<1>c. \A u \in Rest(users, l.offset) :
        record[u] \in Standing =>
          u \in D \/ (~last /\ u \in Rest(users, l.offset + PageSize))
  <2> SUFFICES ASSUME NEW u \in Rest(users, l.offset), record[u] \in Standing,
                      ~(~last /\ u \in Rest(users, l.offset + PageSize))
               PROVE  u \in D
    OBVIOUS
  <2> QED BY <1>n, PageCovers
<1>m. /\ m.offset = l.offset + PageSize /\ m.members = l.members \cup E
      /\ m.stage \in {"reading", "storing"} /\ (m.stage = "reading" <=> ~last)
      /\ m.attempts = RateLimitAttempts
  BY DEF E, last
<1> HIDE DEF E, last
<1>2. m \in Listings
  <2>1. /\ m.offset \in Nat /\ m.attempts \in 1..RateLimitAttempts /\ m.members \in SUBSET Entry
    BY <1>m, <1>n, <1>1
  <2>2. m = [offset |-> m.offset, attempts |-> m.attempts, members |-> m.members,
             stage |-> m.stage]
    OBVIOUS
  <2> HIDE DEF Listings
  <2>3. [offset |-> m.offset, attempts |-> m.attempts, members |-> m.members,
             stage |-> m.stage] \in Listings
    BY <2>1, <1>m DEF Listings
  <2> QED BY <2>2, <2>3
<1>3. IsFiniteSet(m.members)
  BY <1>m, <1>1, <1>w, FS_Union
<1>4. \A e \in m.members : e.at =< m.offset /\ record[e.id] # "none"
  <2> SUFFICES ASSUME NEW e \in m.members PROVE e.at =< m.offset /\ record[e.id] # "none"
    OBVIOUS
  <2>1. CASE e \in E
    <3>1. record[e.id] \in {"good_standing", "lapsed"}
      BY <2>1, <1>1 DEF Standing
    <3> QED BY <2>1, <3>1, <1>1, <1>m
  <2>2. CASE e \in l.members
    <3>1. e.at \in Nat
      BY <2>2, <1>n DEF Entry
    <3> QED BY <2>2, <3>1, <1>w, <1>m, <1>n
  <2> QED BY <2>1, <2>2, <1>m
<1>5. Ids(m.members) = I \cup D
  BY <1>m DEF Ids
<1>6. Coming(users, l) = Rest(users, l.offset)
  BY DEF Coming
<1>7. Coming(users, m) = IF last THEN {} ELSE Rest(users, l.offset + PageSize)
  BY <1>m DEF Coming
<1>8. D \subseteq Rest(users, l.offset)
  BY <1>1, <1>n, <1>len DEF Ids, Rest
<1>9. Coming(users, m) \subseteq Rest(users, l.offset)
  <2>1. \A k \in DOMAIN users : k > l.offset + PageSize => k > l.offset
    BY <1>n, <1>len
  <2> QED BY <2>1, <1>7 DEF Rest
<1>10. D \cap Coming(users, m) = {}
  <2> SUFFICES ASSUME NEW u \in D, u \in Rest(users, l.offset + PageSize) PROVE FALSE
    BY <1>7
  <2>1. PICK e \in E : u = e.id
    BY DEF Ids
  <2>2. PICK k \in DOMAIN users : k > l.offset + PageSize /\ u = users[k]
    BY DEF Rest
  <2>3. k = e.at
    BY <2>1, <2>2, <1>1 DEF TypeOK, IsInjective
  <2> QED BY <2>3, <2>2, <1>1, <1>n, <1>len
<1>11. Missed(users, m, st) \subseteq Missed(users, l, st)
  <2> SUFFICES ASSUME NEW u \in st, u \notin I, u \notin D, u \notin Coming(users, m)
               PROVE  u \notin Rest(users, l.offset)
    BY <1>5, <1>6 DEF Missed
  <2>1. record[u] \in Standing
    BY <1>w
  <2>2. ~(~last /\ u \in Rest(users, l.offset + PageSize))
    BY <1>7
  <2> HIDE DEF D
  <2> QED BY <2>1, <2>2, <1>c
<1>12. Again(users, m) = I \cap Coming(users, m)
  BY <1>5, <1>10 DEF Again
<1>13. /\ (I \cap D) \cup Again(users, m) \subseteq Again(users, l)
       /\ (I \cap D) \cap Again(users, m) = {}
  BY <1>12, <1>10, <1>8, <1>9, <1>6 DEF Again
<1>f. /\ IsFiniteSet(I) /\ IsFiniteSet(Missed(users, l, st)) /\ IsFiniteSet(Again(users, l))
      /\ Cardinality(Missed(users, l, st)) \in Nat /\ Cardinality(Again(users, l)) \in Nat
      /\ Repeats(l.members) \in Nat
  <2>1. st \subseteq ToSet(users)
    BY <1>w
  <2> QED BY <2>1, <1>w, <1>n, CountsAreFinite
<1>g. /\ IsFiniteSet(D) /\ IsFiniteSet(Again(users, m)) /\ IsFiniteSet(I \cap D)
      /\ Cardinality(D) \in Nat /\ Cardinality(Again(users, m)) \in Nat
      /\ Cardinality(I \cap D) \in Nat /\ Cardinality(I) \in Nat
      /\ Cardinality(l.members) \in Nat /\ Cardinality(E) \in Nat
  <2>1. IsFiniteSet(D)
    <3> DEFINE f == [e \in E |-> e.id]
    <3>1. DOMAIN f = E /\ {f[e] : e \in E} = D
      BY DEF Ids
    <3> HIDE DEF f
    <3> QED BY <3>1, <1>1, ImageBound
  <2>2. IsFiniteSet(I \cap D) /\ IsFiniteSet(Again(users, m))
    BY <1>f, <1>12, FS_Intersection
  <2> QED BY <2>1, <2>2, <1>f, <1>1, <1>w, FS_CardinalityType
<1>14. Cardinality(Missed(users, m, st)) =< sh.deleted
  <2>1. /\ IsFiniteSet(Missed(users, m, st))
        /\ Cardinality(Missed(users, m, st)) =< Cardinality(Missed(users, l, st))
    BY <1>11, <1>f, NoMore
  <2>2. Cardinality(Missed(users, m, st)) \in Nat
    BY <2>1, FS_CardinalityType
  <2> QED BY <2>1, <2>2, <1>f, <1>w
<1>15. Cardinality(I \cap D) + Cardinality(Again(users, m)) =< Cardinality(Again(users, l))
  <2>1. Cardinality((I \cap D) \cup Again(users, m)) =
          Cardinality(I \cap D) + Cardinality(Again(users, m))
            - Cardinality((I \cap D) \cap Again(users, m))
    BY <1>g, FS_Union
  <2>2. Cardinality((I \cap D) \cap Again(users, m)) = 0
    BY <1>13, FS_EmptySet
  <2>3. Cardinality((I \cap D) \cup Again(users, m)) =< Cardinality(Again(users, l))
    BY <1>13, <1>f, NoMore
  <2> QED BY <2>1, <2>2, <2>3, <1>g, <1>f
<1>16. Repeats(m.members) = Repeats(l.members) + Cardinality(I \cap D)
  <2>1. Cardinality(l.members \cup E) =
          Cardinality(l.members) + Cardinality(E) - Cardinality(l.members \cap E)
    BY <1>1, <1>w, FS_Union
  <2>2. l.members \cap E = {}
    <3> SUFFICES ASSUME NEW e \in E, e \in l.members PROVE FALSE
      OBVIOUS
    <3>1. e.at \in Nat /\ l.offset < e.at /\ e.at =< l.offset
      BY <1>1, <1>w, <1>n DEF Entry
    <3> QED BY <3>1, <1>n
  <2>3. Cardinality(l.members \cap E) = 0
    BY <2>2, FS_EmptySet
  <2>4. Cardinality(I \cup D) = Cardinality(I) + Cardinality(D) - Cardinality(I \cap D)
    BY <1>f, <1>g, FS_Union
  <2>5. Repeats(m.members) = Cardinality(l.members \cup E) - Cardinality(I \cup D)
    BY <1>5, <1>m DEF Repeats
  <2>6. Repeats(l.members) = Cardinality(l.members) - Cardinality(I)
    BY DEF Repeats
  <2> HIDE DEF I, D
  <2> QED BY <2>1, <2>3, <2>4, <2>5, <2>6, <1>1, <1>g
<1>17. Repeats(m.members) + Cardinality(Again(users, m)) =< sh.created
  <2> HIDE DEF I, D
  <2> QED BY <1>15, <1>16, <1>f, <1>g, <1>w
<1> QED BY <1>2, <1>3, <1>4, <1>14, <1>17, <1>w DEF WithinShifts

\* Whatever comes or goes, what a listing has still to come to grows by at most one, which
\* a creation before where it is accounts for, or shrinks by at most one, which a deletion
\* does.
LEMMA GrowWithin ==
    ASSUME NEW us \in Seq(User), NEW vs \in Seq(User), NEW rec, NEW rec2,
           NEW l \in Listings, NEW st, NEW sh \in [created : Nat, deleted : Nat],
           WithinShifts(us, rec, l, st, sh),
           \A u \in User : rec[u] # "none" => rec2[u] = rec[u],
           ToSet(us) \subseteq ToSet(vs),
           Coming(us, l) \subseteq Coming(vs, l),
           NEW sh2 \in [created : Nat, deleted : Nat],
           sh2.deleted = sh.deleted,
           \/ /\ sh2.created = sh.created + 1
              /\ \E w : Coming(vs, l) \subseteq Coming(us, l) \cup {w}
           \/ /\ sh2.created = sh.created
              /\ Again(vs, l) \subseteq Again(us, l)
    PROVE  WithinShifts(vs, rec2, l, st, sh2)
<1>w. /\ st \subseteq {u \in ToSet(us) : rec[u] \in Standing}
      /\ IsFiniteSet(l.members)
      /\ \A e \in l.members : e.at =< l.offset /\ rec[e.id] # "none"
      /\ Cardinality(Missed(us, l, st)) =< sh.deleted
      /\ Repeats(l.members) + Cardinality(Again(us, l)) =< sh.created
  BY DEF WithinShifts
<1>u. ToSet(us) \subseteq User /\ l.members \subseteq Entry
  BY ElementOfSeq, LenProperties DEF ToSet, Listings
<1>f. /\ IsFiniteSet(Missed(us, l, st)) /\ IsFiniteSet(Again(us, l))
      /\ Cardinality(Missed(us, l, st)) \in Nat /\ Cardinality(Again(us, l)) \in Nat
      /\ Repeats(l.members) \in Nat
  <2>1. st \subseteq ToSet(us)
    BY <1>w
  <2> QED BY <2>1, <1>w, CountsAreFinite
<1>1. st \subseteq {u \in ToSet(vs) : rec2[u] \in Standing}
  <2> SUFFICES ASSUME NEW u \in st PROVE u \in ToSet(vs) /\ rec2[u] \in Standing
    OBVIOUS
  <2>1. u \in User /\ rec[u] \in {"good_standing", "lapsed"}
    BY <1>w, <1>u DEF Standing
  <2> QED BY <2>1, <1>w
<1>2. \A e \in l.members : e.at =< l.offset /\ rec2[e.id] # "none"
  <2> SUFFICES ASSUME NEW e \in l.members PROVE e.at =< l.offset /\ rec2[e.id] # "none"
    OBVIOUS
  <2>1. e.id \in User
    BY <1>u DEF Entry
  <2> QED BY <2>1, <1>w
<1>3. Cardinality(Missed(vs, l, st)) =< sh2.deleted
  <2>1. Missed(vs, l, st) \subseteq Missed(us, l, st)
    BY DEF Missed
  <2>2. /\ IsFiniteSet(Missed(vs, l, st))
        /\ Cardinality(Missed(vs, l, st)) =< Cardinality(Missed(us, l, st))
    BY <2>1, <1>f, NoMore
  <2>3. Cardinality(Missed(vs, l, st)) \in Nat
    BY <2>2, FS_CardinalityType
  <2> QED BY <2>2, <2>3, <1>f, <1>w
<1>4. Repeats(l.members) + Cardinality(Again(vs, l)) =< sh2.created
  <2>1. CASE /\ sh2.created = sh.created + 1
             /\ \E w : Coming(vs, l) \subseteq Coming(us, l) \cup {w}
    <3>1. PICK w : Coming(vs, l) \subseteq Coming(us, l) \cup {w}
      BY <2>1
    <3>2. Again(vs, l) \subseteq Again(us, l) \cup {w}
      BY <3>1 DEF Again
    <3>3. IsFiniteSet(Again(vs, l)) /\ Cardinality(Again(vs, l)) =< Cardinality(Again(us, l)) + 1
      BY <3>2, <1>f, OneMore
    <3>4. Cardinality(Again(vs, l)) \in Nat
      BY <3>3, FS_CardinalityType
    <3> QED BY <3>3, <3>4, <2>1, <1>f, <1>w
  <2>2. CASE sh2.created = sh.created /\ Again(vs, l) \subseteq Again(us, l)
    <3>1. IsFiniteSet(Again(vs, l)) /\ Cardinality(Again(vs, l)) =< Cardinality(Again(us, l))
      BY <2>2, <1>f, NoMore
    <3>2. Cardinality(Again(vs, l)) \in Nat
      BY <3>1, FS_CardinalityType
    <3> QED BY <3>1, <3>2, <2>2, <1>f, <1>w
  <2> QED BY <2>1, <2>2
<1> QED BY <1>1, <1>2, <1>3, <1>4, <1>w DEF WithinShifts

LEMMA ShrinkWithin ==
    ASSUME NEW us \in Seq(User), NEW vs \in Seq(User), NEW rec, NEW rec2,
           NEW l \in Listings, NEW st, NEW sh \in [created : Nat, deleted : Nat],
           WithinShifts(us, rec, l, st, sh),
           \A u \in User : rec[u] # "none" => rec2[u] # "none",
           Coming(vs, l) \subseteq Coming(us, l),
           NEW st2 \in SUBSET st, st2 \subseteq {u \in ToSet(vs) : rec2[u] \in Standing},
           NEW sh2 \in [created : Nat, deleted : Nat],
           sh2.created = sh.created,
           \/ /\ sh2.deleted = sh.deleted + 1
              /\ \E w : Coming(us, l) \subseteq Coming(vs, l) \cup {w}
           \/ /\ sh2.deleted = sh.deleted
              /\ Missed(vs, l, st2) \subseteq Missed(us, l, st)
    PROVE  WithinShifts(vs, rec2, l, st2, sh2)
<1>w. /\ st \subseteq {u \in ToSet(us) : rec[u] \in Standing}
      /\ IsFiniteSet(l.members)
      /\ \A e \in l.members : e.at =< l.offset /\ rec[e.id] # "none"
      /\ Cardinality(Missed(us, l, st)) =< sh.deleted
      /\ Repeats(l.members) + Cardinality(Again(us, l)) =< sh.created
  BY DEF WithinShifts
<1>f. /\ IsFiniteSet(Missed(us, l, st)) /\ IsFiniteSet(Again(us, l))
      /\ Cardinality(Missed(us, l, st)) \in Nat /\ Cardinality(Again(us, l)) \in Nat
      /\ Repeats(l.members) \in Nat
  <2>1. st \subseteq ToSet(us)
    BY <1>w
  <2> QED BY <2>1, <1>w, CountsAreFinite
<1>2. \A e \in l.members : e.at =< l.offset /\ rec2[e.id] # "none"
  <2> SUFFICES ASSUME NEW e \in l.members PROVE e.at =< l.offset /\ rec2[e.id] # "none"
    OBVIOUS
  <2>1. e.id \in User
    BY DEF Entry, Listings
  <2> QED BY <2>1, <1>w
<1>3. Repeats(l.members) + Cardinality(Again(vs, l)) =< sh2.created
  <2>1. Again(vs, l) \subseteq Again(us, l)
    BY DEF Again
  <2>2. IsFiniteSet(Again(vs, l)) /\ Cardinality(Again(vs, l)) =< Cardinality(Again(us, l))
    BY <2>1, <1>f, NoMore
  <2>3. Cardinality(Again(vs, l)) \in Nat
    BY <2>2, FS_CardinalityType
  <2> QED BY <2>2, <2>3, <1>f, <1>w
<1>4. Cardinality(Missed(vs, l, st2)) =< sh2.deleted
  <2>1. CASE /\ sh2.deleted = sh.deleted + 1
             /\ \E w : Coming(us, l) \subseteq Coming(vs, l) \cup {w}
    <3>1. PICK w : Coming(us, l) \subseteq Coming(vs, l) \cup {w}
      BY <2>1
    <3>2. Missed(vs, l, st2) \subseteq Missed(us, l, st) \cup {w}
      BY <3>1 DEF Missed
    <3>3. /\ IsFiniteSet(Missed(vs, l, st2))
          /\ Cardinality(Missed(vs, l, st2)) =< Cardinality(Missed(us, l, st)) + 1
      BY <3>2, <1>f, OneMore
    <3>4. Cardinality(Missed(vs, l, st2)) \in Nat
      BY <3>3, FS_CardinalityType
    <3> QED BY <3>3, <3>4, <2>1, <1>f, <1>w
  <2>2. CASE sh2.deleted = sh.deleted /\ Missed(vs, l, st2) \subseteq Missed(us, l, st)
    <3>1. /\ IsFiniteSet(Missed(vs, l, st2))
          /\ Cardinality(Missed(vs, l, st2)) =< Cardinality(Missed(us, l, st))
      BY <2>2, <1>f, NoMore
    <3>2. Cardinality(Missed(vs, l, st2)) \in Nat
      BY <3>1, FS_CardinalityType
    <3> QED BY <3>1, <3>2, <2>2, <1>f, <1>w
  <2> QED BY <2>1, <2>2
<1> QED BY <1>2, <1>3, <1>4, <1>w DEF WithinShifts
-----------------------------------------------------------------------------
(* One lemma per action. *)

LEMMA ErrsInit == Init => ErrsInv
<1> SUFFICES ASSUME Init PROVE ErrsInv
  OBVIOUS
<1>1. users = First /\ First \in Seq(User) /\ IsInjective(First)
  BY ListingAssumption DEF Init
<1>2. \A u \in User : record[u] = IF u \in ToSet(users) THEN "good_standing" ELSE "none"
  BY <1>1 DEF Init
<1>3. record \in [User -> {"good_standing", "none"}]
  BY DEF Init
<1>4. TypeOK
  <2>1. record \in [User -> Record \cup {"none"}] /\ stored \in [User -> Standing \cup {"none"}]
    BY <1>3 DEF Init, Record, Standing
  <2>2. listing \in [Puller -> Listings \cup {NoListing}] /\ steady \in [Puller -> SUBSET User]
    BY DEF Init
  <2>3. shifted \in [Puller -> [created : Nat, deleted : Nat]]
    BY DEF Init
  <2>4. left \in [BoundKind -> Nat]
    BY ListingAssumption DEF Init
  <2> QED BY <1>1, <2>1, <2>2, <2>3, <2>4 DEF TypeOK
<1>5. ToSet(users) \subseteq User
  BY <1>1, ElementOfSeq, LenProperties DEF ToSet
<1>6. Existing(users, record)
  BY <1>2, <1>5 DEF Existing
<1>7. \A p \in Puller : listing[p] = NoListing
  BY DEF Init
<1> QED BY <1>4, <1>6, <1>7 DEF ErrsInv

\* A puller's own step moves its listing, and what is recorded of it, alone.
LEMMA OwnStep ==
    ASSUME ErrsInv, NEW p \in Puller,
           UNCHANGED <<users, record>>,
           NEW l, NEW st, NEW sh,
           listing' = [listing EXCEPT ![p] = l],
           steady' = [steady EXCEPT ![p] = st],
           shifted' = [shifted EXCEPT ![p] = sh],
           l \in Listings \cup {NoListing}, st \in SUBSET User,
           sh \in [created : Nat, deleted : Nat],
           l # NoListing => WithinShifts(users, record, l, st, sh),
           stored' \in [User -> Standing \cup {"none"}],
           left' \in [BoundKind -> Nat]
    PROVE  ErrsInv'
<1>1. TypeOK'
  BY DEF ErrsInv, TypeOK
<1>2. Existing(users, record)'
  BY DEF ErrsInv
<1>3. ASSUME NEW q \in Puller, listing'[q] # NoListing
      PROVE  WithinShifts(users, record, listing[q], steady[q], shifted[q])'
  <2>1. CASE q = p
    <3>1. listing'[q] = l /\ steady'[q] = st /\ shifted'[q] = sh
      BY <2>1 DEF ErrsInv, TypeOK
    <3>2. WithinShifts(users, record, l, st, sh)
      BY <3>1, <1>3
    <3>3. WithinShifts(users', record', listing'[q], steady'[q], shifted'[q])
      BY <3>1, <3>2
    <3> QED BY <3>3
  <2>2. CASE q # p
    <3>1. listing'[q] = listing[q] /\ steady'[q] = steady[q] /\ shifted'[q] = shifted[q]
      BY <2>2 DEF ErrsInv, TypeOK
    <3>2. WithinShifts(users, record, listing[q], steady[q], shifted[q])
      BY <3>1, <1>3 DEF ErrsInv
    <3>3. WithinShifts(users', record', listing'[q], steady'[q], shifted'[q])
      BY <3>1, <3>2
    <3> QED BY <3>3
  <2> QED BY <2>1, <2>2
<1> QED BY <1>1, <1>2, <1>3 DEF ErrsInv

LEMMA SpendKeepsType ==
    ASSUME TypeOK, NEW kind \in BoundKind, Spend(kind)
    PROVE  left' \in [BoundKind -> Nat]
<1>1. left[kind] \in Nat /\ left[kind] > 0
  BY DEF TypeOK, Spend
<1>2. left[kind] - 1 \in Nat
  BY <1>1
<1> QED BY <1>2 DEF TypeOK, Spend

\* A listing starts from what is there.
LEMMA StartErrs == ASSUME ErrsInv, NEW p \in Puller, Start(p) PROVE ErrsInv'
<1> DEFINE l == [offset |-> 0, attempts |-> RateLimitAttempts, members |-> {},
                 stage |-> "reading"]
           st == {u \in ToSet(users) : Decodes(u)}
           sh == [created |-> 0, deleted |-> 0]
<1>1. /\ listing' = [listing EXCEPT ![p] = l]
      /\ steady' = [steady EXCEPT ![p] = st]
      /\ shifted' = [shifted EXCEPT ![p] = sh]
      /\ UNCHANGED <<users, record, stored>>
  BY DEF Start
<1>n. /\ users \in Seq(User) /\ Len(users) \in Nat /\ DOMAIN users = 1..Len(users)
  BY LenProperties DEF ErrsInv, TypeOK
<1>2. ToSet(users) \subseteq User
  BY <1>n, ElementOfSeq DEF ToSet
<1>3. left' \in [BoundKind -> Nat]
  <2>1. CASE p \in Periodic
    BY <2>1 DEF Start, ErrsInv, TypeOK
  <2>2. CASE p \notin Periodic
    BY <2>2, SpendKeepsType DEF Start, ErrsInv, BoundKind
  <2> QED BY <2>1, <2>2
<1>4. l \in Listings
  BY ListingAssumption DEF Listings
<1>5. Coming(users, l) = ToSet(users)
  BY <1>n DEF Coming, Rest, ToSet
<1>6. Ids(l.members) = {}
  BY DEF Ids
<1>7. Missed(users, l, st) = {} /\ Again(users, l) = {}
  BY <1>5, <1>6 DEF Missed, Again
<1>8. Repeats(l.members) = 0
  BY <1>6, FS_EmptySet DEF Repeats
<1>9. WithinShifts(users, record, l, st, sh)
  <2>1. Cardinality(Missed(users, l, st)) = 0 /\ Cardinality(Again(users, l)) = 0
    BY <1>7, FS_EmptySet
  <2>2. st \subseteq {u \in ToSet(users) : record[u] \in Standing}
    BY DEF Decodes
  <2>3. IsFiniteSet(l.members)
    BY FS_EmptySet
  <2> QED BY <2>1, <2>2, <2>3, <1>8 DEF WithinShifts
<1>10. st \in SUBSET User /\ sh \in [created : Nat, deleted : Nat]
  BY <1>2
<1>11. stored' \in [User -> Standing \cup {"none"}]
  BY <1>1 DEF ErrsInv, TypeOK
<1> HIDE DEF l, st, sh
<1> QED BY <1>1, <1>3, <1>4, <1>9, <1>10, <1>11, OwnStep

\* The puller's history stays as it is, written as a change of it.
LEMMA SameHistory ==
    ASSUME TypeOK, NEW p \in Puller, UNCHANGED history
    PROVE  /\ steady' = [steady EXCEPT ![p] = steady[p]]
           /\ shifted' = [shifted EXCEPT ![p] = shifted[p]]
           /\ steady[p] \in SUBSET User /\ shifted[p] \in [created : Nat, deleted : Nat]
BY DEF TypeOK, history

LEMMA ReadErrs == ASSUME ErrsInv, NEW p \in Puller, Read(p) PROVE ErrsInv'
<1> DEFINE l == listing[p]
<1>1. PICK total \in {Len(users), l.offset + PageSize + 1} :
         listing' = [listing EXCEPT ![p] =
              [offset |-> @.offset + PageSize, attempts |-> RateLimitAttempts,
               members |-> @.members \cup Decoded(Page(l.offset)),
               stage |-> IF LastPage(Page(l.offset), @.offset, total)
                         THEN "storing" ELSE "reading"]]
  BY DEF Read
<1>2. PICK m : m = [offset |-> l.offset + PageSize, attempts |-> RateLimitAttempts,
               members |-> l.members \cup Decoded(Page(l.offset)),
               stage |-> IF LastPage(Page(l.offset), l.offset, total)
                         THEN "storing" ELSE "reading"]
  OBVIOUS
<1>3. listing' = [listing EXCEPT ![p] = m]
  BY <1>1, <1>2 DEF ErrsInv, TypeOK
<1>4. /\ l \in Listings /\ l # NoListing /\ l.stage = "reading"
      /\ UNCHANGED <<users, record, stored, left>> /\ UNCHANGED history
  BY DEF Read, Reading, ErrsInv, TypeOK
<1>5. /\ TypeOK /\ Existing(users, record)
      /\ WithinShifts(users, record, l, steady[p], shifted[p])
      /\ shifted[p] \in [created : Nat, deleted : Nat]
  BY <1>4 DEF ErrsInv, TypeOK
<1>6. m \in Listings /\ WithinShifts(users, record, m, steady[p], shifted[p])
  <2> HIDE DEF l
  <2> QED BY <1>2, <1>4, <1>5, ReadWithin
<1>7. stored' \in [User -> Standing \cup {"none"}] /\ left' \in [BoundKind -> Nat]
  BY <1>4, <1>5 DEF TypeOK
<1>8. /\ steady' = [steady EXCEPT ![p] = steady[p]]
      /\ shifted' = [shifted EXCEPT ![p] = shifted[p]]
      /\ steady[p] \in SUBSET User
  BY <1>4, <1>5, SameHistory
<1> HIDE DEF l
<1> QED BY <1>3, <1>4, <1>5, <1>6, <1>7, <1>8, OwnStep

\* A listing that ends, in the records or in an error.
LEMMA EndErrs ==
    ASSUME ErrsInv, NEW p \in Puller,
           listing' = [listing EXCEPT ![p] = NoListing],
           steady' = [steady EXCEPT ![p] = {}],
           shifted' = [shifted EXCEPT ![p] = [created |-> 0, deleted |-> 0]],
           UNCHANGED <<users, record>>,
           stored' \in [User -> Standing \cup {"none"}],
           left' \in [BoundKind -> Nat]
    PROVE  ErrsInv'
<1>1. {} \in SUBSET User /\ [created |-> 0, deleted |-> 0] \in [created : Nat, deleted : Nat]
  OBVIOUS
<1>2. NoListing \in Listings \cup {NoListing}
  OBVIOUS
<1> QED BY <1>1, <1>2, OwnStep

LEMMA LimitedErrs == ASSUME ErrsInv, NEW p \in Puller, Limited(p) PROVE ErrsInv'
<1>1. TypeOK /\ left' \in [BoundKind -> Nat]
  BY SpendKeepsType DEF Limited, ErrsInv, BoundKind
<1>2. CASE listing[p].attempts = 1
  <2>1. /\ listing' = [listing EXCEPT ![p] = NoListing]
        /\ steady' = [steady EXCEPT ![p] = {}]
        /\ shifted' = [shifted EXCEPT ![p] = [created |-> 0, deleted |-> 0]]
        /\ UNCHANGED <<users, record, stored>>
    BY <1>2 DEF Limited, Fails
  <2>2. stored' \in [User -> Standing \cup {"none"}]
    BY <2>1, <1>1 DEF TypeOK
  <2> QED BY <2>1, <2>2, <1>1, EndErrs
<1>3. CASE listing[p].attempts # 1
  <2>1. /\ listing' = [listing EXCEPT ![p].attempts = @ - 1]
        /\ UNCHANGED <<users, record, stored>> /\ UNCHANGED history
        /\ listing[p] # NoListing
    BY <1>3 DEF Limited, Reading
  <2>2. PICK l : l = listing[p]
    OBVIOUS
  <2>3. l \in Listings /\ WithinShifts(users, record, l, steady[p], shifted[p])
    BY <2>1, <2>2, <1>1 DEF TypeOK, ErrsInv
  <2>4. PICK m : m = [l EXCEPT !.attempts = @ - 1]
    OBVIOUS
  <2>5. listing' = [listing EXCEPT ![p] = m]
    BY <2>1, <2>2, <2>4, <1>1 DEF TypeOK
  <2>6. l.attempts \in 1..RateLimitAttempts /\ l.attempts # 1
    BY <2>2, <2>3, <1>3 DEF Listings
  <2>7. /\ m.offset = l.offset /\ m.members = l.members /\ m.stage = l.stage
        /\ m.attempts = l.attempts - 1
        /\ m = [offset |-> l.offset, attempts |-> l.attempts - 1, members |-> l.members,
                stage |-> l.stage]
    BY <2>3, <2>4 DEF Listings
  <2>8. WithinShifts(users, record, m, steady[p], shifted[p])
    BY <2>3, <2>7 DEF WithinShifts, Missed, Again, Coming
  <2>9. m \in Listings
    <3>1. l.attempts - 1 \in 1..RateLimitAttempts
      BY <2>6, ListingAssumption
    <3>2. /\ l.offset \in Nat /\ l.members \in SUBSET Entry
          /\ l.stage \in {"reading", "storing"}
      BY <2>3 DEF Listings
    <3> QED BY <3>1, <3>2, <2>7 DEF Listings
  <2>10. /\ steady' = [steady EXCEPT ![p] = steady[p]]
         /\ shifted' = [shifted EXCEPT ![p] = shifted[p]]
         /\ steady[p] \in SUBSET User /\ shifted[p] \in [created : Nat, deleted : Nat]
    BY <2>1, <1>1, SameHistory
  <2>11. stored' \in [User -> Standing \cup {"none"}] /\ UNCHANGED <<users, record>>
    BY <2>1, <1>1 DEF TypeOK
  <2> QED BY <2>5, <2>8, <2>9, <2>10, <2>11, <1>1, OwnStep
<1> QED BY <1>2, <1>3

LEMMA ErrsErrs == ASSUME ErrsInv, NEW p \in Puller, Errs(p) PROVE ErrsInv'
<1>1. TypeOK /\ left' \in [BoundKind -> Nat]
  BY SpendKeepsType DEF Errs, ErrsInv, BoundKind
<1>2. /\ listing' = [listing EXCEPT ![p] = NoListing]
      /\ steady' = [steady EXCEPT ![p] = {}]
      /\ shifted' = [shifted EXCEPT ![p] = [created |-> 0, deleted |-> 0]]
      /\ UNCHANGED <<users, record, stored>>
  BY DEF Errs, Fails
<1>3. stored' \in [User -> Standing \cup {"none"}]
  BY <1>1, <1>2 DEF TypeOK
<1> QED BY <1>1, <1>2, <1>3, EndErrs

\* Of the entries of an account that is listed there is a last one.
LEMMA StandingOfListed ==
    ASSUME NEW members \in SUBSET Entry, NEW o \in Nat, \A e \in members : e.at =< o,
           NEW u \in Ids(members)
    PROVE  StandingOf(u, members) \in Standing
<1> DEFINE less == OpToRel(<, Nat)
           mine == {e \in members : e.id = u}
           back == {o - e.at : e \in mine}
<1>1. mine # {} /\ \A e \in mine : e.at \in Nat /\ o - e.at \in Nat
  <2>1. \A e \in members : e.at \in Nat
    BY DEF Entry
  <2>2. mine # {}
    BY DEF Ids
  <2> QED BY <2>1, <2>2
<1>2. back \subseteq Nat /\ back # {}
  BY <1>1
<1>3. IsWellFoundedOn(less, Nat)
  BY NatLessThanWellFounded, Zenon
<1> HIDE DEF less, back
<1>4. PICK x \in back : \A y \in back : <<y, x>> \notin less
  BY <1>2, <1>3, WFMin
<1>5. \A y \in back : ~(y < x)
  BY <1>2, <1>4 DEF less, OpToRel
<1>6. PICK e \in mine : x = o - e.at
  BY DEF back
<1>7. ASSUME NEW f \in members, f.id = u PROVE f.at =< e.at
  <2>1. f \in mine /\ o - f.at \in back
    BY <1>7 DEF back
  <2>2. ~(o - f.at < o - e.at)
    BY <2>1, <1>5, <1>6
  <2> QED BY <2>1, <2>2, <1>1
<1>8. \E y \in members : y.id = u /\ \A f \in members : f.id = u => f.at =< y.at
  BY <1>7
<1>9. (CHOOSE y \in members :
         y.id = u /\ \A f \in members : f.id = u => f.at =< y.at) \in members
  BY <1>8
<1> QED BY <1>9 DEF StandingOf, Entry

LEMMA StoreErrs == ASSUME ErrsInv, NEW p \in Puller, Store(p) PROVE ErrsInv'
<1>1. /\ listing' = [listing EXCEPT ![p] = NoListing]
      /\ steady' = [steady EXCEPT ![p] = {}]
      /\ shifted' = [shifted EXCEPT ![p] = [created |-> 0, deleted |-> 0]]
      /\ UNCHANGED <<users, record, left>>
  BY DEF Store
<1>2. TypeOK
  BY DEF ErrsInv
<1>3. stored' \in [User -> Standing \cup {"none"}]
  <2>1. /\ listing[p] \in Listings
        /\ WithinShifts(users, record, listing[p], steady[p], shifted[p])
    BY <1>2 DEF Store, TypeOK, ErrsInv
  <2>2. PICK members : members = listing[p].members
    OBVIOUS
  <2>3. PICK o : o = listing[p].offset
    OBVIOUS
  <2>4. members \in SUBSET Entry /\ o \in Nat /\ \A e \in members : e.at =< o
    BY <2>1, <2>2, <2>3 DEF Listings, WithinShifts
  <2>5. \A u \in Ids(members) : StandingOf(u, members) \in Standing
    BY <2>4, StandingOfListed
  <2>6. Applied(members) \in [User -> Standing \cup {"none"}]
    BY <2>5 DEF Applied, Standing
  <2>7. stored' = Applied(members) \/ stored' = stored
    BY <2>2 DEF Store
  <2> QED BY <2>6, <2>7, <1>2 DEF TypeOK
<1>4. left' \in [BoundKind -> Nat]
  BY <1>1, <1>2 DEF TypeOK
<1> QED BY <1>1, <1>3, <1>4, EndErrs

-----------------------------------------------------------------------------
(* What happens at Solidarity Tech. *)

\* What an account that comes or goes adds to what a listing has felt.
LEMMA ShiftFelt ==
    ASSUME TypeOK, NEW i \in Nat, NEW kind \in {"created", "deleted"}, Shift(i, kind)
    PROVE  /\ shifted' \in [Puller -> [created : Nat, deleted : Nat]]
           /\ \A q \in Puller :
                shifted'[q] = IF Reading(q) /\ i =< listing[q].offset
                              THEN [shifted[q] EXCEPT ![kind] = @ + 1] ELSE shifted[q]
<1>1. \A q \in Puller : shifted[q] \in [created : Nat, deleted : Nat]
  BY DEF TypeOK
<1>2. \A q \in Puller : [shifted[q] EXCEPT ![kind] = @ + 1] \in [created : Nat, deleted : Nat]
  BY <1>1
<1> QED BY <1>1, <1>2 DEF Shift

LEMMA CreateErrs ==
    ASSUME ErrsInv, NEW u \in User, NEW i \in 1..(Len(users) + 1), Create(u, i)
    PROVE  ErrsInv'
<1>t. TypeOK /\ Existing(users, record)
  BY DEF ErrsInv
<1>a. /\ record[u] = "none" /\ record' = [record EXCEPT ![u] = "good_standing"]
      /\ users' = InsertAt(users, i, u) /\ Shift(i, "created") /\ Spend("create")
      /\ UNCHANGED <<stored, listing, steady>>
  BY DEF Create
<1>n. /\ users \in Seq(User) /\ Len(users) \in Nat /\ DOMAIN users = 1..Len(users)
      /\ i \in Nat
  BY <1>t, LenProperties DEF TypeOK
<1>r. \A w \in User : record[w] # "none" => record'[w] = record[w]
  BY <1>a, <1>t DEF TypeOK
<1>1. /\ users' \in Seq(User) /\ Len(users') = Len(users) + 1
      /\ DOMAIN users' = 1..(Len(users) + 1)
      /\ \A j \in 1..(Len(users) + 1) :
           users'[j] = IF j < i THEN users[j] ELSE IF j = i THEN u ELSE users[j - 1]
  <2>1. /\ users' \in Seq(User) /\ Len(users') = Len(users) + 1
        /\ \A j \in 1..(Len(users) + 1) :
             users'[j] = IF j < i THEN users[j] ELSE IF j = i THEN u ELSE users[j - 1]
    <3> DEFINE t == InsertAt(users, i, u)
    <3>1. /\ t \in Seq(User) /\ Len(t) = Len(users) + 1
          /\ \A j \in 1..(Len(users) + 1) :
               t[j] = IF j < i THEN users[j] ELSE IF j = i THEN u ELSE users[j - 1]
      BY <1>n, Inserted
    <3>2. users' = t
      BY <1>a
    <3> HIDE DEF t
    <3> QED BY <3>1, <3>2
  <2>2. DOMAIN users' = 1..Len(users')
    BY <2>1, LenProperties
  <2> QED BY <2>1, <2>2
<1>2. \A j \in 1..Len(users) : users[j] # u
  BY <1>a, <1>t, <1>n DEF Existing, ToSet
<1>3. IsInjective(users')
  <2> SUFFICES ASSUME NEW a \in 1..(Len(users) + 1), NEW b \in 1..(Len(users) + 1),
                      users'[a] = users'[b], a < b
               PROVE  FALSE
    BY <1>1, <1>n DEF IsInjective
  <2> DEFINE old(j) == IF j < i THEN j ELSE j - 1
  <2>1. \A j \in 1..(Len(users) + 1) :
           j # i => old(j) \in 1..Len(users) /\ users'[j] = users[old(j)]
    BY <1>1, <1>n
  <2>2. users'[i] = u
    BY <1>1, <1>n
  <2>3. CASE a = i \/ b = i
    BY <2>1, <2>2, <2>3, <1>2
  <2>4. CASE a # i /\ b # i
    <3>1. old(a) = old(b)
      <4>1. /\ old(a) \in DOMAIN users /\ old(b) \in DOMAIN users
            /\ users[old(a)] = users[old(b)]
        BY <2>1, <2>4, <1>n
      <4> HIDE DEF old
      <4> QED BY <4>1, <1>t DEF TypeOK, IsInjective
    <3> QED BY <3>1, <2>4, <1>n
  <2> QED BY <2>3, <2>4
<1>4. /\ ToSet(users) \subseteq ToSet(users') /\ ToSet(users') \subseteq ToSet(users) \cup {u}
  <2>1. ASSUME NEW j \in 1..Len(users) PROVE users[j] \in ToSet(users')
    <3>1. CASE j < i
      BY <3>1, <1>1, <1>n DEF ToSet
    <3>2. CASE ~(j < i)
      <4>1. j + 1 \in 1..(Len(users) + 1) /\ users'[j + 1] = users[j]
        BY <3>2, <1>1, <1>n
      <4> QED BY <4>1, <1>1 DEF ToSet
    <3> QED BY <3>1, <3>2
  <2>2. ASSUME NEW j \in 1..(Len(users) + 1) PROVE users'[j] \in ToSet(users) \cup {u}
    <3>1. j < i => j \in 1..Len(users)
      BY <1>n
    <3>2. j > i => j - 1 \in 1..Len(users)
      BY <1>n
    <3> QED BY <3>1, <3>2, <1>1, <1>n DEF ToSet
  <2> QED BY <2>1, <2>2, <1>1, <1>n DEF ToSet
<1>5. shifted' \in [Puller -> [created : Nat, deleted : Nat]]
  BY <1>a, <1>n, <1>t, ShiftFelt
<1>6. TypeOK'
  <2>1. record' \in [User -> Record \cup {"none"}]
    BY <1>a, <1>t DEF TypeOK, Record
  <2>2. left' \in [BoundKind -> Nat]
    BY <1>a, <1>t, SpendKeepsType DEF BoundKind
  <2> QED BY <2>1, <2>2, <1>1, <1>3, <1>5, <1>a, <1>t DEF TypeOK
<1>7. Existing(users, record)'
  <2> SUFFICES ASSUME NEW w \in ToSet(users) \cup {u} PROVE record'[w] # "none"
    BY <1>4 DEF Existing
  <2>1. ToSet(users) \subseteq User
    BY <1>n, ElementOfSeq DEF ToSet
  <2> QED BY <2>1, <1>a, <1>t, <1>r DEF Existing, TypeOK
<1>8. ASSUME NEW q \in Puller, listing'[q] # NoListing
      PROVE  WithinShifts(users, record, listing[q], steady[q], shifted[q])'
  <2>1. PICK l : l = listing[q]
    OBVIOUS
  <2>2. /\ l \in Listings /\ listing'[q] = l /\ steady'[q] = steady[q] /\ l # NoListing
        /\ WithinShifts(users, record, l, steady[q], shifted[q])
        /\ shifted[q] \in [created : Nat, deleted : Nat]
        /\ shifted'[q] \in [created : Nat, deleted : Nat]
        /\ l.offset \in Nat
    BY <2>1, <1>8, <1>a, <1>t, <1>5 DEF ErrsInv, TypeOK, Listings
  <2>3. /\ Rest(users, l.offset) \subseteq Rest(users', l.offset)
        /\ \E w : /\ Rest(users', l.offset) \subseteq Rest(users, l.offset) \cup {w}
                  /\ i > l.offset => w = u
    <3>1. /\ Rest(users, l.offset) \subseteq Rest(InsertAt(users, i, u), l.offset)
          /\ \E w : /\ Rest(InsertAt(users, i, u), l.offset)
                           \subseteq Rest(users, l.offset) \cup {w}
                    /\ i > l.offset => w = u
      BY <2>2, <1>n, RestAfterInsert
    <3> QED BY <3>1, <1>a
  <2>4. Coming(users, l) \subseteq Coming(users', l)
    BY <2>3 DEF Coming
  <2>5. shifted'[q] = IF l.stage = "reading" /\ i =< l.offset
                      THEN [shifted[q] EXCEPT !["created"] = @ + 1] ELSE shifted[q]
    BY <2>1, <2>2, <1>a, <1>n, <1>t, ShiftFelt DEF Reading
  <2>6. u \notin Ids(l.members)
    BY <2>2, <1>a DEF WithinShifts, Ids
  <2>7. /\ shifted'[q].deleted = shifted[q].deleted
        /\ \/ /\ shifted'[q].created = shifted[q].created + 1
              /\ \E w : Coming(users', l) \subseteq Coming(users, l) \cup {w}
           \/ /\ shifted'[q].created = shifted[q].created
              /\ Again(users', l) \subseteq Again(users, l)
    <3>1. CASE l.stage = "reading" /\ i =< l.offset
      <4>1. /\ shifted'[q].created = shifted[q].created + 1
            /\ shifted'[q].deleted = shifted[q].deleted
        BY <3>1, <2>2, <2>5
      <4>2. \E w : Coming(users', l) \subseteq Coming(users, l) \cup {w}
        BY <3>1, <2>3 DEF Coming
      <4> QED BY <4>1, <4>2
    <3>2. CASE l.stage = "reading" /\ ~(i =< l.offset)
      <4>1. i > l.offset
        BY <3>2, <2>2, <1>n
      <4>2. Coming(users', l) \subseteq Coming(users, l) \cup {u}
        BY <4>1, <3>2, <2>3 DEF Coming
      <4>3. Again(users', l) \subseteq Again(users, l)
        BY <4>2, <2>6 DEF Again
      <4> QED BY <4>3, <3>2, <2>5
    <3>3. CASE l.stage # "reading"
      BY <3>3, <2>5 DEF Coming, Again
    <3> QED BY <3>1, <3>2, <3>3
  <2>8. WithinShifts(users', record', l, steady[q], shifted'[q])
    BY <2>2, <2>4, <2>7, <1>n, <1>1, <1>4, <1>r, GrowWithin
  <2> QED BY <2>2, <2>8
<1> QED BY <1>6, <1>7, <1>8 DEF ErrsInv
LEMMA DeleteErrs ==
    ASSUME ErrsInv, NEW i \in DOMAIN users, Delete(i)
    PROVE  ErrsInv'
<1>t. TypeOK /\ Existing(users, record)
  BY DEF ErrsInv
<1>n. /\ users \in Seq(User) /\ Len(users) \in Nat /\ DOMAIN users = 1..Len(users)
      /\ i \in 1..Len(users) /\ i \in Nat
  BY <1>t, LenProperties DEF TypeOK
<1>a. /\ users' = RemoveAt(users, i) /\ Shift(i, "deleted") /\ Spend("delete")
      /\ steady' = [p \in Puller |-> steady[p] \ {users[i]}]
      /\ UNCHANGED <<record, stored, listing>>
  BY DEF Delete
<1>1. /\ users' \in Seq(User) /\ Len(users') = Len(users) - 1
      /\ DOMAIN users' = 1..(Len(users) - 1)
      /\ \A j \in 1..(Len(users) - 1) : users'[j] = IF j < i THEN users[j] ELSE users[j + 1]
  <2> DEFINE t == RemoveAt(users, i)
  <2>1. /\ t \in Seq(User) /\ Len(t) = Len(users) - 1
        /\ \A j \in 1..(Len(users) - 1) : t[j] = IF j < i THEN users[j] ELSE users[j + 1]
    BY <1>n, Removed
  <2>2. users' = t
    BY <1>a
  <2> HIDE DEF t
  <2>3. DOMAIN t = 1..Len(t)
    BY <2>1, LenProperties
  <2> QED BY <2>1, <2>2, <2>3
<1>2. IsInjective(users')
  <2> SUFFICES ASSUME NEW a \in 1..(Len(users) - 1), NEW b \in 1..(Len(users) - 1),
                      users'[a] = users'[b], a < b
               PROVE  FALSE
    BY <1>1, <1>n DEF IsInjective
  <2> DEFINE old(j) == IF j < i THEN j ELSE j + 1
  <2>1. \A j \in 1..(Len(users) - 1) :
           old(j) \in 1..Len(users) /\ users'[j] = users[old(j)]
    BY <1>1, <1>n
  <2>2. old(a) = old(b)
    <3>1. /\ old(a) \in DOMAIN users /\ old(b) \in DOMAIN users
          /\ users[old(a)] = users[old(b)]
      BY <2>1, <1>n
    <3> HIDE DEF old
    <3> QED BY <3>1, <1>t DEF TypeOK, IsInjective
  <2> QED BY <2>2, <1>n
<1>3. ToSet(users') \subseteq ToSet(users)
  <2>1. ASSUME NEW j \in 1..(Len(users) - 1) PROVE users'[j] \in ToSet(users)
    <3>1. j \in 1..Len(users) /\ j + 1 \in 1..Len(users)
      BY <1>n
    <3> QED BY <3>1, <1>1, <1>n DEF ToSet
  <2> QED BY <2>1, <1>1 DEF ToSet
<1>4. ToSet(users) \subseteq ToSet(users') \cup {users[i]}
  <2>1. ASSUME NEW j \in 1..Len(users), j # i PROVE users[j] \in ToSet(users')
    <3>1. CASE j < i
      <4>1. j \in 1..(Len(users) - 1)
        BY <3>1, <1>n
      <4> QED BY <4>1, <3>1, <1>1 DEF ToSet
    <3>2. CASE j > i
      <4>1. j - 1 \in 1..(Len(users) - 1) /\ users'[j - 1] = users[j]
        BY <3>2, <1>1, <1>n
      <4> QED BY <4>1, <1>1 DEF ToSet
    <3> QED BY <3>1, <3>2, <2>1, <1>n
  <2> QED BY <2>1, <1>n DEF ToSet
<1>5. shifted' \in [Puller -> [created : Nat, deleted : Nat]]
  BY <1>a, <1>n, <1>t, ShiftFelt
<1>6. TypeOK'
  <2>1. left' \in [BoundKind -> Nat]
    BY <1>a, <1>t, SpendKeepsType DEF BoundKind
  <2>2. steady' \in [Puller -> SUBSET User]
    BY <1>a, <1>t DEF TypeOK
  <2> QED BY <2>1, <2>2, <1>1, <1>2, <1>5, <1>a, <1>t DEF TypeOK
<1>7. Existing(users, record)'
  BY <1>3, <1>a, <1>t DEF Existing
<1>8. ASSUME NEW q \in Puller, listing'[q] # NoListing
      PROVE  WithinShifts(users, record, listing[q], steady[q], shifted[q])'
  <2>1. PICK l : l = listing[q]
    OBVIOUS
  <2>2. /\ l \in Listings /\ listing'[q] = l /\ l # NoListing
        /\ steady'[q] = steady[q] \ {users[i]}
        /\ WithinShifts(users, record, l, steady[q], shifted[q])
        /\ shifted[q] \in [created : Nat, deleted : Nat]
        /\ shifted'[q] \in [created : Nat, deleted : Nat]
        /\ l.offset \in Nat
    BY <2>1, <1>8, <1>a, <1>t, <1>5 DEF ErrsInv, TypeOK, Listings
  <2>3. /\ Rest(users', l.offset) \subseteq Rest(users, l.offset)
        /\ \E w : /\ Rest(users, l.offset) \subseteq Rest(users', l.offset) \cup {w}
                  /\ i > l.offset => w = users[i]
    <3>1. /\ Rest(RemoveAt(users, i), l.offset) \subseteq Rest(users, l.offset)
          /\ \E w : /\ Rest(users, l.offset)
                           \subseteq Rest(RemoveAt(users, i), l.offset) \cup {w}
                    /\ i > l.offset => w = users[i]
      BY <2>2, <1>n, RestAfterRemove
    <3> QED BY <3>1, <1>a
  <2>4. Coming(users', l) \subseteq Coming(users, l)
    BY <2>3 DEF Coming
  <2>5. shifted'[q] = IF l.stage = "reading" /\ i =< l.offset
                      THEN [shifted[q] EXCEPT !["deleted"] = @ + 1] ELSE shifted[q]
    BY <2>1, <2>2, <1>a, <1>n, <1>t, ShiftFelt DEF Reading
  <2>6. /\ shifted'[q].created = shifted[q].created
        /\ \/ /\ shifted'[q].deleted = shifted[q].deleted + 1
              /\ \E w : Coming(users, l) \subseteq Coming(users', l) \cup {w}
           \/ /\ shifted'[q].deleted = shifted[q].deleted
              /\ Missed(users', l, steady'[q]) \subseteq Missed(users, l, steady[q])
    <3>1. CASE l.stage = "reading" /\ i =< l.offset
      <4>1. /\ shifted'[q].deleted = shifted[q].deleted + 1
            /\ shifted'[q].created = shifted[q].created
        BY <3>1, <2>2, <2>5
      <4>2. \E w : Coming(users, l) \subseteq Coming(users', l) \cup {w}
        BY <3>1, <2>3 DEF Coming
      <4> QED BY <4>1, <4>2
    <3>2. CASE l.stage = "reading" /\ ~(i =< l.offset)
      <4>1. i > l.offset
        BY <3>2, <2>2, <1>n
      <4>2. Coming(users, l) \subseteq Coming(users', l) \cup {users[i]}
        BY <4>1, <3>2, <2>3 DEF Coming
      <4>3. Missed(users', l, steady'[q]) \subseteq Missed(users, l, steady[q])
        BY <4>2, <2>2 DEF Missed
      <4> QED BY <4>3, <3>2, <2>5
    <3>3. CASE l.stage # "reading"
      BY <3>3, <2>2, <2>5 DEF Coming, Missed
    <3> QED BY <3>1, <3>2, <3>3
  <2>7. /\ steady'[q] \in SUBSET steady[q]
        /\ steady'[q] \subseteq {u \in ToSet(users') : record'[u] \in Standing}
    BY <2>2, <1>4, <1>a DEF WithinShifts
  <2>8. \A u \in User : record[u] # "none" => record'[u] # "none"
    BY <1>a
  <2>9. WithinShifts(users', record', l, steady'[q], shifted'[q])
    <3>1. PICK st : st = steady'[q]
      OBVIOUS
    <3>2. PICK sh : sh = shifted'[q]
      OBVIOUS
    <3>3. PICK vs : vs = users'
      OBVIOUS
    <3>4. /\ vs \in Seq(User) /\ sh \in [created : Nat, deleted : Nat]
          /\ st \in SUBSET steady[q]
          /\ st \subseteq {w \in ToSet(vs) : record'[w] \in Standing}
          /\ Coming(vs, l) \subseteq Coming(users, l)
          /\ sh.created = shifted[q].created
          /\ \/ /\ sh.deleted = shifted[q].deleted + 1
                /\ \E w : Coming(users, l) \subseteq Coming(vs, l) \cup {w}
             \/ /\ sh.deleted = shifted[q].deleted
                /\ Missed(vs, l, st) \subseteq Missed(users, l, steady[q])
      BY <3>1, <3>2, <3>3, <2>2, <2>4, <2>6, <2>7, <1>1
    <3>5. WithinShifts(vs, record', l, st, sh)
      <4>1. PICK r : r = record'
        OBVIOUS
      <4>2. /\ users \in Seq(User) /\ l \in Listings
            /\ WithinShifts(users, record, l, steady[q], shifted[q])
            /\ shifted[q] \in [created : Nat, deleted : Nat]
            /\ \A u \in User : record[u] # "none" => r[u] # "none"
            /\ st \subseteq {w \in ToSet(vs) : r[w] \in Standing}
        BY <3>4, <2>2, <2>8, <1>n, <4>1
      <4>3. CASE /\ sh.deleted = shifted[q].deleted + 1
                 /\ \E w : Coming(users, l) \subseteq Coming(vs, l) \cup {w}
        <5>1. WithinShifts(vs, r, l, st, sh)
          BY <3>4, <4>2, <4>3, ShrinkWithin
        <5> QED BY <5>1, <4>1
      <4>4. CASE /\ sh.deleted = shifted[q].deleted
                 /\ Missed(vs, l, st) \subseteq Missed(users, l, steady[q])
        <5>1. WithinShifts(vs, r, l, st, sh)
          BY <3>4, <4>2, <4>4, ShrinkWithin
        <5> QED BY <5>1, <4>1
      <4> QED BY <4>3, <4>4, <3>4
    <3> QED BY <3>5, <3>1, <3>2, <3>3
  <2> QED BY <2>2, <2>9
<1> QED BY <1>6, <1>7, <1>8 DEF ErrsInv

LEMMA EditErrs ==
    ASSUME ErrsInv, NEW u \in User, NEW r \in Record, Edit(u, r)
    PROVE  ErrsInv'
<1>t. TypeOK /\ Existing(users, record)
  BY DEF ErrsInv
<1>a. /\ record' = [record EXCEPT ![u] = r] /\ Spend("edit")
      /\ steady' = IF r \in Standing THEN steady ELSE [p \in Puller |-> steady[p] \ {u}]
      /\ UNCHANGED <<users, stored, listing, shifted>>
  BY DEF Edit
<1>r. \A w \in User : /\ record[w] # "none" => record'[w] # "none"
                      /\ record'[w] = IF w = u THEN r ELSE record[w]
  BY <1>a, <1>t DEF TypeOK, Record
<1>u. users \in Seq(User) /\ ToSet(users) \subseteq User
  BY <1>t, ElementOfSeq, LenProperties DEF TypeOK, ToSet
<1>1. TypeOK'
  <2>1. record' \in [User -> Record \cup {"none"}]
    BY <1>a, <1>t DEF TypeOK
  <2>2. left' \in [BoundKind -> Nat]
    BY <1>a, <1>t, SpendKeepsType DEF BoundKind
  <2>3. steady' \in [Puller -> SUBSET User]
    BY <1>a, <1>t DEF TypeOK
  <2> QED BY <2>1, <2>2, <2>3, <1>a, <1>t DEF TypeOK
<1>2. Existing(users, record)'
  BY <1>a, <1>r, <1>t, <1>u DEF Existing
<1>3. ASSUME NEW q \in Puller, listing'[q] # NoListing
      PROVE  WithinShifts(users, record, listing[q], steady[q], shifted[q])'
  <2>1. PICK l : l = listing[q]
    OBVIOUS
  <2>2. /\ l \in Listings /\ listing'[q] = l /\ shifted'[q] = shifted[q]
        /\ WithinShifts(users, record, l, steady[q], shifted[q])
        /\ shifted[q] \in [created : Nat, deleted : Nat]
    BY <2>1, <1>3, <1>a, <1>t DEF ErrsInv, TypeOK
  <2>3. steady'[q] = IF r \in Standing THEN steady[q] ELSE steady[q] \ {u}
    BY <1>a
  <2>4. steady[q] \subseteq {w \in ToSet(users) : record[w] \in Standing}
    BY <2>2 DEF WithinShifts
  <2>5. /\ steady'[q] \in SUBSET steady[q]
        /\ steady'[q] \subseteq {w \in ToSet(users) : record'[w] \in Standing}
    BY <2>3, <2>4, <1>r, <1>u
  <2>6. Missed(users, l, steady'[q]) \subseteq Missed(users, l, steady[q])
    BY <2>5 DEF Missed
  <2>7. WithinShifts(users, record', l, steady'[q], shifted[q])
    BY <2>2, <2>5, <2>6, <1>r, <1>u, ShrinkWithin
  <2> QED BY <2>2, <2>7, <1>a
<1> QED BY <1>1, <1>2, <1>3 DEF ErrsInv

LEMMA ErrsNext == ErrsInv /\ [Next]_vars => ErrsInv'
<1> SUFFICES ASSUME ErrsInv, [Next]_vars PROVE ErrsInv'
  OBVIOUS
<1>1. ASSUME NEW p \in Puller, PullerStep(p) \/ Limited(p) \/ Errs(p) PROVE ErrsInv'
  BY <1>1, StartErrs, ReadErrs, StoreErrs, LimitedErrs, ErrsErrs DEF PullerStep
<1>2. ASSUME NEW u \in User, NEW i \in 1..(Len(users) + 1), Create(u, i) PROVE ErrsInv'
  BY <1>2, CreateErrs
<1>3. ASSUME NEW i \in DOMAIN users, Delete(i) PROVE ErrsInv'
  BY <1>3, DeleteErrs
<1>4. ASSUME NEW u \in User, NEW r \in Record, Edit(u, r) PROVE ErrsInv'
  BY <1>4, EditErrs
<1>5. CASE UNCHANGED vars
  BY <1>5 DEF vars, history, ErrsInv, TypeOK
<1> QED BY <1>1, <1>2, <1>3, <1>4, <1>5 DEF Next

\* Every variable keeps its type (solidarity_tech/client.py).
THEOREM TypeCorrect == Spec => []TypeOK
<1>1. ErrsInv => TypeOK
  BY DEF ErrsInv
<1> QED BY ErrsInit, ErrsNext, <1>1, PTL DEF Spec

\* However many accounts there are, however long the pages and however many pulls go on at
\* once: a listing that has ended has missed no more of those who were there all along
\* than were deleted before where it was, and listed no more of them twice than were
\* created there (solidarity_tech/client.py, _get_users).
THEOREM ListingsErrByShifts == Spec => []ErrsByTheShifts
<1>1. ErrsInv => ErrsByTheShifts
  <2> SUFFICES ASSUME ErrsInv, NEW p \in Puller,
                      listing[p] # NoListing, listing[p].stage = "storing"
               PROVE  /\ Cardinality(steady[p] \ Ids(listing[p].members)) =< shifted[p].deleted
                      /\ Repeats(listing[p].members) =< shifted[p].created
    BY DEF ErrsByTheShifts
  <2>1. WithinShifts(users, record, listing[p], steady[p], shifted[p])
    BY DEF ErrsInv
  <2>2. Coming(users, listing[p]) = {}
    BY DEF Coming
  <2>3. Missed(users, listing[p], steady[p]) = steady[p] \ Ids(listing[p].members)
    BY <2>2 DEF Missed
  <2>4. Cardinality(Again(users, listing[p])) = 0
    BY <2>2, FS_EmptySet DEF Again
  <2>5. Repeats(listing[p].members) \in Nat /\ shifted[p].created \in Nat
    <3>1. /\ users \in Seq(User) /\ listing[p] \in Listings
          /\ shifted[p] \in [created : Nat, deleted : Nat]
      BY DEF ErrsInv, TypeOK
    <3>2. steady[p] \subseteq ToSet(users) /\ IsFiniteSet(listing[p].members)
      BY <2>1 DEF WithinShifts
    <3> QED BY <3>1, <3>2, CountsAreFinite
  <2> QED BY <2>1, <2>3, <2>4, <2>5 DEF WithinShifts
<1> QED BY ErrsInit, ErrsNext, <1>1, PTL DEF Spec
=============================================================================

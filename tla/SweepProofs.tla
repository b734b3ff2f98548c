----------------------------- MODULE SweepProofs -----------------------------
(***************************************************************************)
(* The sweep's invariants and what its last step reports, for every set of *)
(* members, addresses and groups, every bound and every size of the fuses. *)
(***************************************************************************)
EXTENDS SweepProperties, SyncRulesProofs

-----------------------------------------------------------------------------
(* Types. *)

\* The idle sweep's locals have their types.
LEMMA NothingTypes ==
    /\ IsStatuses(NoStatuses)
    /\ IsRun(NoRun)
    /\ IsJob(NoJob)
    /\ NoCommit \in Commit
<1>1. IsStatuses(NoStatuses)
  BY DEF IsStatuses, NoStatuses
<1>2. NoOutcome \in Outcome
  BY DEF NoOutcome, Outcome
<1>3. IsRun(NoRun)
  BY <1>1, <1>2 DEF IsRun, NoRun, Mode, TimerMode
<1>4. NoPlan \in GroupPlan
  BY DEF NoPlan, GroupPlan
<1>5. NoTally \in Tally /\ NoListing \in Listing
  BY DEF NoTally, Tally, NoListing, Listing, Kind
<1>6. IsJob(NoJob)
  BY <1>4, <1>5 DEF IsJob, NoJob
<1>7. NoCommit \in Commit
  BY DEF NoCommit, Commit
<1>. QED
  BY <1>1, <1>3, <1>6, <1>7

\* The desired set of a group is a set of addresses.
LEMMA DesiredForGroupType ==
    ASSUME TypeOK, NEW g \in Group
    PROVE  DesiredForGroup(g) \subseteq Address
<1>1. {row[m] : m \in audience[g]} \in SUBSET SyncAddresses
  BY DEF TypeOK
<1>. QED
  BY <1>1, DesiredOfType DEF DesiredForGroup, TypeOK, IsRun

\* The initial states have the types.
LEMMA TypeInit == Init => TypeOK
<1>. SUFFICES ASSUME Init PROVE TypeOK
  OBVIOUS
<1>. QED
  BY NothingTypes, SweepAssumption DEF Init, TypeOK

\* Bounds are spent, never created.
LEMMA SpendType ==
    ASSUME left \in [BoundKind -> Nat], NEW k \in BoundKind, Spend(k)
    PROVE  left' \in [BoundKind -> Nat]
BY DEF Spend

\* An answer to a write spends at most a fault.
LEMMA AnsweredType ==
    ASSUME left \in [BoundKind -> Nat], NEW rs, NEW r, Answered(rs, r)
    PROVE  left' \in [BoundKind -> Nat]
BY SpendType DEF Answered, BoundKind

\* So does an answer about a group's presence.
LEMMA PresenceAnsweredType ==
    ASSUME left \in [BoundKind -> Nat], NEW g, NEW p, PresenceAnswered(g, p)
    PROVE  left' \in [BoundKind -> Nat]
BY SpendType DEF PresenceAnswered, BoundKind

\* A run that ends leaves nothing of itself but its report.
LEMMA StopType ==
    ASSUME TypeOK, NEW how \in {"green", "red", "raised"}, Stop(how)
    PROVE  /\ pc' = "idle" /\ IsRun(run)' /\ IsJob(job)' /\ (commit \in Commit)'
           /\ report' = how /\ steady' \in [Group -> SUBSET Member]
           /\ sound' \subseteq Address /\ revived' \in BOOLEAN /\ calm' \in BOOLEAN
BY NothingTypes DEF Stop, TypeOK

\* Each step of the opening keeps the types.
LEMMA TypeOpening ==
    ASSUME TypeOK,
           TimerStarts \/ OperatorStarts \/ PullUnsafe \/ ReadStatuses
             \/ ReadAudiences \/ ReportDesiredOnly \/ Crash
    PROVE  TypeOK'
<1>. USE DEF recordVars, statusVars, googleVars, historyVars
<1>1. ASSUME NEW mode \in Mode, Begin(mode), left' \in [BoundKind -> Nat]
      PROVE  TypeOK'
  <2>1. IsRun([NoRun EXCEPT !.mode = mode])
    BY NothingTypes DEF IsRun, NoRun
  <2>. QED
    BY <1>1, <2>1 DEF Begin, TypeOK, IsRun, IsJob, IsStatuses
<1>2. ASSUME NEW how \in {"green", "red", "raised"}, Stop(how),
             UNCHANGED <<recordVars, statusVars, googleVars>>,
             left' \in [BoundKind -> Nat]
      PROVE  TypeOK'
  BY <1>2, StopType DEF TypeOK, IsStatuses
<1>3. CASE TimerStarts
  BY <1>1, <1>3 DEF TimerStarts, TypeOK, TimerMode, Mode
<1>4. CASE OperatorStarts
  BY <1>1, <1>4, SpendType DEF OperatorStarts, TypeOK, BoundKind
<1>5. CASE PullUnsafe
  BY <1>2, <1>5, SpendType DEF PullUnsafe, TypeOK, BoundKind
<1>6. CASE ReadStatuses
  <2>1. IsRun(run')
    BY <1>6 DEF ReadStatuses, TypeOK, IsRun
  <2>. QED
    BY <1>6, <2>1 DEF ReadStatuses, TypeOK, IsJob, IsStatuses
<1>7. CASE ReadAudiences
  <2>1. [g \in Group |-> DesiredForGroup(g)] \in [Group -> SUBSET Address]
    BY DesiredForGroupType
  <2>2. Lapsed(run.snap) \subseteq Address /\ run.snap.live \subseteq Address
    BY DEF Lapsed, TypeOK, IsRun, IsStatuses
  <2>3. /\ run' = [mode |-> run.mode, snap |-> run.snap,
                     wanted |-> [g \in Group |-> DesiredForGroup(g)],
                     todo |-> Group, unmirrorable |-> run.snap.live,
                     lapsed |-> Lapsed(run.snap), slots |-> RetriesPerRun,
                     refusals |-> run.refusals, accepted |-> run.accepted,
                     outcome |-> run.outcome]
    BY <1>7 DEF ReadAudiences, TypeOK, IsRun
  <2>4. IsRun(run')
    BY <2>1, <2>2, <2>3, SweepAssumption DEF TypeOK, IsRun
  <2>. QED
    BY <1>7, <2>4 DEF ReadAudiences, TypeOK, IsJob, IsStatuses
<1>8. CASE ReportDesiredOnly
  BY <1>2, <1>8 DEF ReportDesiredOnly, TypeOK
<1>9. CASE Crash
  BY <1>2, <1>9, SpendType DEF Crash, TypeOK, BoundKind
<1>. QED
  BY <1>3, <1>4, <1>5, <1>6, <1>7, <1>8, <1>9

\* What a plan is made of.
LEMMA PlannedForType ==
    ASSUME TypeOK, NEW g \in Group, NEW plan, plan = PlannedFor(g)
    PROVE  /\ plan \in GroupPlan
           /\ Cardinality(plan.retried) \in Nat
           /\ plan.adds \cap run.unmirrorable = {}
           /\ plan.adds \cap run.lapsed = plan.retried
           /\ plan.retried \subseteq run.lapsed
           /\ run.slots \in Nat => Cardinality(plan.retried) <= run.slots
<1>1. /\ run.wanted[g] \in SUBSET Address
      /\ run.unmirrorable \in SUBSET Address
      /\ run.lapsed \in SUBSET Address
  BY DEF TypeOK, IsRun
<1>0. plan = PlanGroup(run.wanted[g], entries[g], run.unmirrorable, run.lapsed,
                       run.slots, run.mode.allowMassRemoval)
  BY DEF PlannedFor
<1>2. /\ plan \in GroupPlan
      /\ plan.adds \cap run.unmirrorable = {}
      /\ plan.adds \cap run.lapsed = plan.retried
      /\ plan.retried \subseteq run.lapsed
      /\ run.slots \in Nat => Cardinality(plan.retried) <= run.slots
  <2>1. PlanSound(plan, run.wanted[g], entries[g], run.unmirrorable, run.lapsed,
                  run.slots)
    BY <1>0, <1>1, PlanGroupSound
  <2>. QED
    BY <2>1 DEF PlanSound
<1>3. plan.retried \in SUBSET Address
  BY <1>2 DEF GroupPlan
<1>4. Cardinality(plan.retried) \in Nat
  BY <1>3, AddressSets
<1>. QED
  BY <1>2, <1>4

\* Listing, planning and rechecking a group keep the types.
LEMMA TypePlanning ==
    ASSUME TypeInv, ListFails \/ ListAndPlan \/ RecheckPlan
    PROVE  TypeOK'
<1>. USE DEF recordVars, statusVars, googleVars, historyVars, TypeInv
<1>1. CASE ListFails
  <2>1. PICK g \in FirstOf(run.todo) :
          /\ run' = [run EXCEPT !.todo = @ \ {g},
                                !.outcome[g] = [NoOutcome EXCEPT !.failed = 1]]
          /\ IF up[g] THEN Spend("fault") ELSE UNCHANGED left
    BY <1>1 DEF ListFails
  <2>2. g \in Group
    BY DEF FirstOf, TypeOK, IsRun
  <2>3. left' \in [BoundKind -> Nat]
    BY <2>1, SpendType DEF TypeOK, BoundKind
  <2>4. [NoOutcome EXCEPT !.failed = 1] \in Outcome
    BY DEF NoOutcome, Outcome
  <2>5. IsRun(run')
    BY <2>1, <2>2, <2>4 DEF TypeOK, IsRun
  <2>. QED
    BY <1>1, <2>3, <2>5 DEF ListFails, TypeOK, IsJob, IsStatuses
<1>2. CASE ListAndPlan
  <2>. DEFINE plan(g) == PlannedFor(g)
              busy(g) == PlansSomething(plan(g))
  <2>1. PICK g \in FirstOf(run.todo) :
          /\ run' = [run EXCEPT
                       !.lapsed = @ \ plan(g).retried,
                       !.slots = @ - Cardinality(plan(g).retried),
                       !.todo = IF busy(g) THEN @ ELSE @ \ {g},
                       !.outcome[g] = [NoOutcome EXCEPT !.refused = plan(g).refused]]
          /\ job' = IF busy(g)
                    THEN [NoJob EXCEPT !.group = g, !.actual = entries[g],
                                       !.plan = plan(g)]
                    ELSE NoJob
    BY <1>2 DEF ListAndPlan
  <2>2. g \in Group
    BY DEF FirstOf, TypeOK, IsRun
  <2>3. plan(g) \in GroupPlan /\ Cardinality(plan(g).retried) \in Nat
    BY <2>2, PlannedForType
  <2>. HIDE DEF plan, busy
  <2>4. [NoOutcome EXCEPT !.refused = plan(g).refused] \in Outcome
    BY <2>3 DEF NoOutcome, Outcome, GroupPlan
  <2>5. /\ run' = [mode |-> run.mode, snap |-> run.snap, wanted |-> run.wanted,
                   todo |-> IF busy(g) THEN run.todo ELSE run.todo \ {g},
                   unmirrorable |-> run.unmirrorable,
                   lapsed |-> run.lapsed \ plan(g).retried,
                   slots |-> run.slots - Cardinality(plan(g).retried),
                   refusals |-> run.refusals, accepted |-> run.accepted,
                   outcome |-> [run.outcome EXCEPT ![g] =
                                  [NoOutcome EXCEPT !.refused = plan(g).refused]]]
    BY <2>1 DEF TypeOK, IsRun
  <2>6. IsRun(run')
    BY <2>2, <2>3, <2>4, <2>5 DEF TypeOK, IsRun
  <2>7. IsJob(job')
    <3>1. entries[g] \in Listing
      BY <2>2 DEF TypeOK
    <3>2. NoTally \in Tally
      BY DEF NoTally, Tally
    <3>3. CASE busy(g)
      <4>1. job' = [NoJob EXCEPT !.group = g, !.actual = entries[g], !.plan = plan(g)]
        BY <2>1, <3>3
      <4>2. job' = [group |-> g, actual |-> entries[g], plan |-> plan(g),
                    adds |-> {}, removes |-> {}, tally |-> NoTally,
                    presence |-> "Unasked", found |-> {}, removesConverged |-> 0]
        BY <4>1 DEF NoJob
      <4>. QED
        BY <2>2, <2>3, <3>1, <3>2, <4>2 DEF IsJob
    <3>. QED
      BY <2>1, <3>3, NothingTypes
  <2>. QED
    BY <1>2, <2>6, <2>7 DEF ListAndPlan, TypeOK, IsStatuses
<1>3. CASE RecheckPlan
  <2>. DEFINE plan == Recheck(job.plan, DesiredForGroup(job.group))
  <2>1. plan \in GroupPlan
    BY RecheckFacts DEF TypeOK, IsJob
  <2>2. plan.adds \subseteq Address /\ plan.removes \subseteq Address
    BY <2>1 DEF GroupPlan
  <2>3. job' = [job EXCEPT !.plan = plan, !.adds = plan.adds,
                           !.removes = plan.removes]
    BY <1>3 DEF RecheckPlan
  <2>. HIDE DEF plan
  <2>4. job' = [group |-> job.group, actual |-> job.actual, plan |-> plan,
                adds |-> plan.adds, removes |-> plan.removes, tally |-> job.tally,
                presence |-> job.presence, found |-> job.found,
                removesConverged |-> job.removesConverged]
    BY <2>3 DEF TypeOK, IsJob
  <2>5. IsJob(job')
    BY <2>1, <2>2, <2>4 DEF TypeOK, IsJob
  <2>6. steady' \in [Group -> SUBSET Member]
    BY <1>3 DEF RecheckPlan, TypeOK
  <2>. QED
    BY <1>3, <2>5, <2>6 DEF RecheckPlan, TypeOK, IsRun, IsStatuses
<1>. QED
  BY <1>1, <1>2, <1>3

\* Google's answers, and the refusals to ask it, are outcomes.
LEMMA RepliesType ==
    ASSUME NEW g, NEW a, NEW reply,
           \/ \E rs \in {Gated(a, InsertReplies(g, a))} :
                reply \in rs.sound \cup rs.faulty
           \/ \E rs \in {Gated(a, DeleteReplies(g, a))} :
                reply \in rs.sound \cup rs.faulty
    PROVE  reply.outcome \in SyncOutcome
BY DEF Gated, InsertReplies, DeleteReplies, InsertVerdict, Reply, SyncOutcome

\* One more of an outcome in a tally.
LEMMA TalliedType ==
    ASSUME NEW t \in Tally, NEW o \in SyncOutcome
    PROVE  Tallied(t, o) \in Tally
BY DEF Tallied, Tally

\* What becomes of a job when an add is settled, but for what it found.
LEMMA SettledKeeps ==
    ASSUME NEW j, IsJob(j), j.group \in Group, NEW a \in Address,
           NEW o \in SyncOutcome, NEW k, k = Settled(j, a, o)
    PROVE  /\ IsJob(k)
           /\ k.group = j.group /\ k.plan = j.plan /\ k.removes = j.removes
           /\ k.presence = j.presence /\ k.adds = j.adds \ {a}
<1>. DEFINE tally == Tallied(j.tally, o)
            found == IF o \in UNMIRRORABLE
                     THEN j.found \cup {[address |-> a, group |-> j.group,
                                         outcome |-> o]}
                     ELSE j.found
<1>1. k = [j EXCEPT !.tally = tally, !.adds = @ \ {a}, !.found = found]
  BY DEF Settled, IsJob
<1>2. tally \in Tally
  BY TalliedType DEF IsJob
<1>3. found \in SUBSET Refusal
  BY DEF IsJob, Refusal
<1>. HIDE DEF tally, found
<1>4. k = [group |-> j.group, actual |-> j.actual, plan |-> j.plan,
           adds |-> j.adds \ {a}, removes |-> j.removes, tally |-> tally,
           presence |-> j.presence, found |-> found,
           removesConverged |-> j.removesConverged]
  BY <1>1 DEF IsJob
<1>5. IsJob(k)
  BY <1>2, <1>3, <1>4 DEF IsJob
<1>. QED
  BY <1>4, <1>5

\* What it found: a refusal, with the group it was met in.
LEMMA SettledFound ==
    ASSUME NEW j, IsJob(j), NEW a, NEW o, NEW k, k = Settled(j, a, o)
    PROVE  k.found = IF o \in UNMIRRORABLE
                     THEN j.found \cup {[address |-> a, group |-> j.group,
                                         outcome |-> o]}
                     ELSE j.found
BY DEF Settled, IsJob

\* What becomes of a job when an add could not be read.
LEMMA UnreadableFacts ==
    ASSUME NEW j, IsJob(j), NEW a \in Address, NEW k, k = Unreadable(j, a)
    PROVE  /\ IsJob(k)
           /\ k.group = j.group /\ k.plan = j.plan /\ k.removes = j.removes
           /\ k.presence = j.presence /\ k.actual = j.actual
           /\ k.adds = j.adds \ {a} /\ k.found = j.found
<1>. DEFINE tally == Tallied(j.tally, "Failed")
<1>1. k = [j EXCEPT !.tally = tally, !.adds = @ \ {a}]
  BY DEF Unreadable, IsJob
<1>2. tally \in Tally
  BY TalliedType DEF IsJob, SyncOutcome
<1>. HIDE DEF tally
<1>4. k = [group |-> j.group, actual |-> j.actual, plan |-> j.plan,
           adds |-> j.adds \ {a}, removes |-> j.removes, tally |-> tally,
           presence |-> j.presence, found |-> j.found,
           removesConverged |-> j.removesConverged]
  BY <1>1 DEF IsJob
<1>5. IsJob(k)
  BY <1>2, <1>4 DEF IsJob
<1>. QED
  BY <1>4, <1>5

\* What a run learns from an outcome.
LEMMA LearnedFacts ==
    ASSUME NEW r, IsRun(r), NEW a \in Address, NEW o, NEW s, s = Learned(r, a, o)
    PROVE  /\ IsRun(s)
           /\ s.mode = r.mode /\ s.snap = r.snap /\ s.todo = r.todo
           /\ s.lapsed = r.lapsed /\ s.slots = r.slots
           /\ s.refusals = r.refusals
           /\ s.unmirrorable = r.unmirrorable
                                 \cup (IF o \in UNMIRRORABLE THEN {a} ELSE {})
<1>. DEFINE accepted == IF o \in ACCEPTED THEN r.accepted \cup {a} ELSE r.accepted
            unmirrorable == IF o \in UNMIRRORABLE THEN r.unmirrorable \cup {a}
                                                  ELSE r.unmirrorable
<1>1. s = [r EXCEPT !.accepted = accepted, !.unmirrorable = unmirrorable]
  BY DEF Learned, IsRun
<1>2. accepted \in SUBSET Address /\ unmirrorable \in SUBSET Address
  BY DEF IsRun
<1>3. unmirrorable = r.unmirrorable \cup (IF o \in UNMIRRORABLE THEN {a} ELSE {})
  OBVIOUS
<1>. HIDE DEF accepted, unmirrorable
<1>4. s = [mode |-> r.mode, snap |-> r.snap, wanted |-> r.wanted,
           todo |-> r.todo, unmirrorable |-> unmirrorable, lapsed |-> r.lapsed,
           slots |-> r.slots, refusals |-> r.refusals, accepted |-> accepted,
           outcome |-> r.outcome]
  BY <1>1 DEF IsRun
<1>5. IsRun(s)
  BY <1>2, <1>4 DEF IsRun
<1>. QED
  BY <1>3, <1>4, <1>5

\* A group given up on.
LEMMA AbandonFacts ==
    ASSUME TypeOK, job.group \in Group, Abandon
    PROVE  /\ IsRun(run') /\ job' = NoJob /\ pc' = "groups"
           /\ run'.mode = run.mode /\ run'.snap = run.snap
           /\ run'.lapsed = run.lapsed /\ run'.slots = run.slots
           /\ run'.refusals = run.refusals
           /\ run'.unmirrorable = run.unmirrorable
<1>. DEFINE o == AbandonedOutcome(job)
<1>1. run' = [run EXCEPT !.todo = @ \ {job.group}, !.outcome[job.group] = o]
  BY DEF Abandon
<1>2. /\ Cardinality(job.plan.adds) \in Nat
      /\ Cardinality(job.plan.removes) \in Nat
      /\ job.plan.refused \in Nat
  BY AddressSets DEF TypeOK, IsJob, GroupPlan
<1>3. \A x \in SyncOutcome : job.tally[x] \in Nat
  BY DEF TypeOK, IsJob, Tally
<1>4. o \in Outcome
  BY <1>2, <1>3 DEF AbandonedOutcome, SettledCount, Outcome, SyncOutcome
<1>. HIDE DEF o
<1>5. run' = [mode |-> run.mode, snap |-> run.snap, wanted |-> run.wanted,
              todo |-> run.todo \ {job.group}, unmirrorable |-> run.unmirrorable,
              lapsed |-> run.lapsed, slots |-> run.slots,
              refusals |-> run.refusals, accepted |-> run.accepted,
              outcome |-> [run.outcome EXCEPT ![job.group] = o]]
  BY <1>1 DEF TypeOK, IsRun
<1>6. IsRun(run')
  BY <1>4, <1>5 DEF TypeOK, IsRun
<1>. QED
  BY <1>5, <1>6 DEF Abandon

\* The group in hand is one of the groups.
LEMMA GroupInHandType ==
    ASSUME TypeInv, pc \in Working
    PROVE  job.group \in Group
BY DEF TypeInv, GroupInHand, TypeOK, IsRun

\* The three ways an offered add goes: the group's presence is asked first, the
\* refusal may not be read, or the outcome is taken as it is.
LEMMA OfferAddCases ==
    ASSUME TypeInv, OfferAdd
    PROVE  \E a \in FirstOf(job.adds), o \in SyncOutcome :
             /\ \E reply \in Gated(a, InsertReplies(job.group, a)).sound
                       \cup Gated(a, InsertReplies(job.group, a)).faulty :
                  /\ o = reply.outcome
                  /\ Answered(Gated(a, InsertReplies(job.group, a)), reply)
                  /\ entries' = IF reply.landed
                                THEN [entries EXCEPT ![job.group][a] = "member"]
                                ELSE entries
             /\ \/ /\ o = "AddressNotFound" /\ job.presence = "Unasked"
                   /\ pc' = "asking" /\ run' = run /\ job' = job
                \/ /\ pc' = "adding" /\ run' = run /\ job' = Unreadable(job, a)
                \/ /\ pc' = "adding" /\ job' = Settled(job, a, o)
                   /\ run' = Learned(run, a, o)
                   /\ o = "AddressNotFound" => job.presence = "Present"
<1>1. PICK a \in FirstOf(job.adds) :
        \E reply \in Gated(a, InsertReplies(job.group, a)).sound
             \cup Gated(a, InsertReplies(job.group, a)).faulty :
          /\ Answered(Gated(a, InsertReplies(job.group, a)), reply)
          /\ entries' = IF reply.landed
                        THEN [entries EXCEPT ![job.group][a] = "member"]
                        ELSE entries
          /\ IF reply.outcome = "AddressNotFound" /\ job.presence # "Present"
             THEN IF job.presence = "Unasked"
                  THEN pc' = "asking" /\ UNCHANGED <<run, job>>
                  ELSE job' = Unreadable(job, a) /\ UNCHANGED <<pc, run>>
             ELSE /\ job' = Settled(job, a, reply.outcome)
                  /\ run' = Learned(run, a, reply.outcome)
                  /\ UNCHANGED pc
  BY DEF OfferAdd
<1>2. PICK reply \in Gated(a, InsertReplies(job.group, a)).sound
             \cup Gated(a, InsertReplies(job.group, a)).faulty :
          /\ Answered(Gated(a, InsertReplies(job.group, a)), reply)
          /\ entries' = IF reply.landed
                        THEN [entries EXCEPT ![job.group][a] = "member"]
                        ELSE entries
          /\ IF reply.outcome = "AddressNotFound" /\ job.presence # "Present"
             THEN IF job.presence = "Unasked"
                  THEN pc' = "asking" /\ UNCHANGED <<run, job>>
                  ELSE job' = Unreadable(job, a) /\ UNCHANGED <<pc, run>>
             ELSE /\ job' = Settled(job, a, reply.outcome)
                  /\ run' = Learned(run, a, reply.outcome)
                  /\ UNCHANGED pc
  BY <1>1
<1>3. reply.outcome \in SyncOutcome
  BY RepliesType
<1>4. pc = "adding"
  BY DEF OfferAdd
<1>. QED
  BY <1>2, <1>3, <1>4

\* Adding keeps the types.
LEMMA TypeAdding ==
    ASSUME TypeInv, OfferAdd \/ AskPresence \/ AddsSettled \/ AskPresenceAgain
    PROVE  TypeOK'
<1>. USE DEF recordVars, statusVars, googleVars, historyVars
<1>0. job.group \in Group /\ TypeOK /\ IsJob(job) /\ IsRun(run)
      /\ \A a \in FirstOf(job.adds) : a \in Address
  BY GroupInHandType
     DEF OfferAdd, AskPresence, AddsSettled, AskPresenceAgain, Working, TypeInv,
         TypeOK, FirstOf, IsJob
<1>1. CASE OfferAdd
  <2>1. PICK a \in FirstOf(job.adds), o \in SyncOutcome :
             /\ \E reply \in Gated(a, InsertReplies(job.group, a)).sound
                       \cup Gated(a, InsertReplies(job.group, a)).faulty :
                  /\ o = reply.outcome
                  /\ Answered(Gated(a, InsertReplies(job.group, a)), reply)
                  /\ entries' = IF reply.landed
                                THEN [entries EXCEPT ![job.group][a] = "member"]
                                ELSE entries
             /\ \/ /\ o = "AddressNotFound" /\ job.presence = "Unasked"
                   /\ pc' = "asking" /\ run' = run /\ job' = job
                \/ /\ pc' = "adding" /\ run' = run /\ job' = Unreadable(job, a)
                \/ /\ pc' = "adding" /\ job' = Settled(job, a, o)
                   /\ run' = Learned(run, a, o)
                   /\ o = "AddressNotFound" => job.presence = "Present"
    BY <1>1, OfferAddCases
  <2>2. left' \in [BoundKind -> Nat]
    BY <1>0, <2>1, AnsweredType DEF TypeOK
  <2>3. entries' \in [Group -> Listing]
    <3>1. \A x \in Address : [entries EXCEPT ![job.group][x] = "member"] \in [Group -> Listing]
      BY <1>0 DEF TypeOK, Listing, Kind
    <3>2. entries \in [Group -> Listing]
      BY <1>0 DEF TypeOK
    <3>. QED
      BY <1>0, <2>1, <3>1, <3>2
  <2>4. IsJob(job')
    <3>1. CASE job' = Unreadable(job, a)
      BY <1>0, <3>1, UnreadableFacts
    <3>2. CASE job' = Settled(job, a, o)
      BY <1>0, <3>2, SettledKeeps
    <3>. QED
      BY <1>0, <2>1, <3>1, <3>2
  <2>5. IsRun(run')
    BY <1>0, <2>1, LearnedFacts
  <2>6. pc' \in {"asking", "adding"}
    BY <2>1
  <2>. QED
    BY <1>0, <1>1, <2>2, <2>3, <2>4, <2>5, <2>6 DEF OfferAdd, TypeOK, IsStatuses
<1>2. CASE AskPresence
  <2>1. PICK a \in FirstOf(job.adds), p \in {"Present", "Gone", "Unknown"} :
           /\ PresenceAnswered(job.group, p)
           /\ \/ p = "Gone" /\ Abandon
              \/ /\ pc' = "adding" /\ run' = run
                 /\ job' = Unreadable([job EXCEPT !.presence = p], a)
              \/ /\ pc' = "adding"
                 /\ job' = Settled([job EXCEPT !.presence = p], a, "AddressNotFound")
                 /\ run' = Learned(run, a, "AddressNotFound")
    BY <1>2 DEF AskPresence
  <2>. DEFINE asked == [job EXCEPT !.presence = p]
  <2>2. IsJob(asked) /\ asked.group = job.group
    BY <1>0 DEF IsJob
  <2>3. left' \in [BoundKind -> Nat]
    BY <1>0, <2>1, PresenceAnsweredType DEF TypeOK
  <2>. HIDE DEF asked
  <2>4. IsJob(job')
    <3>1. CASE Abandon
      BY <3>1, NothingTypes DEF Abandon
    <3>2. CASE job' = Unreadable(asked, a)
      BY <1>0, <2>2, <3>2, UnreadableFacts
    <3>3. CASE job' = Settled(asked, a, "AddressNotFound")
      BY <1>0, <2>2, <3>3, SettledKeeps DEF SyncOutcome
    <3>. QED
      BY <2>1, <3>1, <3>2, <3>3 DEF asked
  <2>5. IsRun(run')
    BY <1>0, <2>1, LearnedFacts, AbandonFacts
  <2>6. pc' \in {"groups", "adding"}
    BY <2>1 DEF Abandon
  <2>. QED
    BY <1>0, <1>2, <2>3, <2>4, <2>5, <2>6 DEF AskPresence, TypeOK, IsStatuses
<1>3. ASSUME BelieveRefusals
      PROVE  IsRun(run') /\ pc' = "removing"
  BY <1>0, <1>3 DEF BelieveRefusals, IsRun, IsJob
<1>4. CASE AddsSettled
  BY <1>0, <1>3, <1>4 DEF AddsSettled, TypeOK, IsJob, IsStatuses
<1>5. CASE AskPresenceAgain
  <2>1. PICK p \in {"Present", "Gone", "Unknown"} :
          /\ PresenceAnswered(job.group, p)
          /\ IF p = "Present"
             THEN BelieveRefusals /\ job' = [job EXCEPT !.presence = p]
             ELSE Abandon
    BY <1>5 DEF AskPresenceAgain
  <2>2. left' \in [BoundKind -> Nat]
    BY <1>0, <2>1, PresenceAnsweredType DEF TypeOK
  <2>3. IsJob(job')
    <3>1. IsJob([job EXCEPT !.presence = p])
      BY <1>0 DEF IsJob
    <3>. QED
      BY <2>1, <3>1, NothingTypes DEF Abandon
  <2>4. IsRun(run') /\ pc' \in {"removing", "groups"}
    BY <1>0, <1>3, <2>1, AbandonFacts
  <2>. QED
    BY <1>0, <1>5, <2>2, <2>3, <2>4 DEF AskPresenceAgain, TypeOK, IsStatuses
<1>. QED
  BY <1>1, <1>2, <1>4, <1>5

\* A group's last step, and the removals before it, keep the types.
LEMMA TypeRemoving ==
    ASSUME TypeInv, SendRemove \/ FinishGroup
    PROVE  TypeOK'
<1>. USE DEF recordVars, statusVars, googleVars, historyVars
<1>0. job.group \in Group /\ TypeOK /\ IsJob(job) /\ IsRun(run)
  BY GroupInHandType DEF SendRemove, FinishGroup, Working, TypeInv, TypeOK
<1>1. CASE SendRemove
  <2>1. PICK a \in job.removes :
          \E reply \in Gated(a, DeleteReplies(job.group, a)).sound
                       \cup Gated(a, DeleteReplies(job.group, a)).faulty :
            /\ Answered(Gated(a, DeleteReplies(job.group, a)), reply)
            /\ entries' = IF reply.landed
                          THEN [entries EXCEPT ![job.group][a] = "absent"]
                          ELSE entries
            /\ job' = [job EXCEPT
                         !.removes = @ \ {a},
                         !.tally   = Tallied(@, reply.outcome),
                         !.removesConverged =
                             IF reply.outcome = "AlreadyConverged"
                             THEN @ + 1 ELSE @]
    BY <1>1 DEF SendRemove
  <2>1a. PICK reply \in Gated(a, DeleteReplies(job.group, a)).sound
                        \cup Gated(a, DeleteReplies(job.group, a)).faulty :
            /\ Answered(Gated(a, DeleteReplies(job.group, a)), reply)
            /\ entries' = IF reply.landed
                          THEN [entries EXCEPT ![job.group][a] = "absent"]
                          ELSE entries
            /\ job' = [job EXCEPT
                         !.removes = @ \ {a},
                         !.tally   = Tallied(@, reply.outcome),
                         !.removesConverged =
                             IF reply.outcome = "AlreadyConverged"
                             THEN @ + 1 ELSE @]
    BY <2>1
  <2>2. a \in Address /\ reply.outcome \in SyncOutcome
    BY <1>0, <2>1, <2>1a, RepliesType DEF IsJob
  <2>3. left' \in [BoundKind -> Nat]
    BY <1>0, <2>1, <2>1a, AnsweredType DEF TypeOK
  <2>4. entries' \in [Group -> Listing]
    <3>1. [entries EXCEPT ![job.group][a] = "absent"] \in [Group -> Listing]
      BY <1>0, <2>2 DEF TypeOK, Listing, Kind
    <3>. QED
      BY <1>0, <2>1, <2>1a, <3>1 DEF TypeOK
  <2>5. IsJob(job')
    <3>. DEFINE tally == Tallied(job.tally, reply.outcome)
                n == IF reply.outcome = "AlreadyConverged"
                     THEN job.removesConverged + 1 ELSE job.removesConverged
    <3>1. tally \in Tally
      BY <1>0, <2>2, TalliedType DEF IsJob
    <3>2. n \in Nat
      BY <1>0 DEF IsJob
    <3>3. job' = [job EXCEPT !.removes = @ \ {a}, !.tally = tally,
                             !.removesConverged = n]
      BY <2>1, <2>1a
    <3>. HIDE DEF tally, n
    <3>4. job' = [group |-> job.group, actual |-> job.actual, plan |-> job.plan,
                  adds |-> job.adds, removes |-> job.removes \ {a},
                  tally |-> tally, presence |-> job.presence,
                  found |-> job.found, removesConverged |-> n]
      BY <1>0, <3>3 DEF IsJob
    <3>. QED
      BY <1>0, <3>1, <3>2, <3>4 DEF IsJob
  <2>. QED
    BY <1>0, <1>1, <2>3, <2>4, <2>5 DEF SendRemove, TypeOK, IsStatuses
<1>2. CASE FinishGroup
  <2>1. PICK p \in {"Present", "Gone", "Unknown"} :
          /\ IF LooksDeleted(job)
             THEN PresenceAnswered(job.group, p)
             ELSE p = "Present" /\ UNCHANGED left
          /\ run' = [run EXCEPT
                       !.todo = @ \ {job.group},
                       !.outcome[job.group] =
                           IF p = "Gone" THEN MissingOutcome(job)
                                         ELSE SettledOutcome(job)]
    BY <1>2 DEF FinishGroup
  <2>2. left' \in [BoundKind -> Nat]
    BY <1>0, <2>1, PresenceAnsweredType DEF TypeOK
  <2>3. IsRun(run')
    <3>. DEFINE o == IF p = "Gone" THEN MissingOutcome(job) ELSE SettledOutcome(job)
    <3>1. /\ Cardinality(job.plan.adds) \in Nat
          /\ Cardinality(job.plan.removes) \in Nat
          /\ job.plan.refused \in Nat
      BY <1>0, AddressSets DEF IsJob, GroupPlan
    <3>2. \A x \in SyncOutcome : job.tally[x] \in Nat
      BY <1>0 DEF IsJob, Tally
    <3>3. o \in Outcome
      BY <3>1, <3>2 DEF MissingOutcome, SettledOutcome, Outcome, SyncOutcome
    <3>4. run' = [run EXCEPT !.todo = @ \ {job.group}, !.outcome[job.group] = o]
      BY <2>1
    <3>. HIDE DEF o
    <3>5. run' = [mode |-> run.mode, snap |-> run.snap, wanted |-> run.wanted,
                  todo |-> run.todo \ {job.group},
                  unmirrorable |-> run.unmirrorable,
                  lapsed |-> run.lapsed, slots |-> run.slots,
                  refusals |-> run.refusals, accepted |-> run.accepted,
                  outcome |-> [run.outcome EXCEPT ![job.group] = o]]
      BY <1>0, <3>4 DEF IsRun
    <3>. QED
      BY <1>0, <3>3, <3>5 DEF IsRun
  <2>. QED
    BY <1>0, <1>2, <2>2, <2>3, NothingTypes
       DEF FinishGroup, TypeOK, IsStatuses
<1>. QED
  BY <1>1, <1>2

\* So does the run's close.
LEMMA TypeClosing ==
    ASSUME TypeOK,
           StartCommit \/ WriteRefusal \/ MarkLearned \/ RememberAccepted
             \/ EndRun \/ EndDryRun
    PROVE  TypeOK'
<1>. USE DEF recordVars, statusVars, googleVars, historyVars
<1>0. ToRemember \in SUBSET Address /\ run.refusals \in SUBSET Refusal
  BY DEF ToRemember, TypeOK, IsRun
<1>1. CASE StartCommit
  <2>. DEFINE blown == RefusalFuse(learned, run.refusals, Lapsed(run.snap))
  <2>0. blown \in BOOLEAN
    BY DEF RefusalFuse, TypeOK
  <2>1. /\ commit' = [NoCommit EXCEPT
                        !.armed = learned,
                        !.fuseRefused = blown,
                        !.unwritten = IF blown THEN {} ELSE run.refusals,
                        !.unremembered = IF blown THEN ToRemember ELSE {}]
        /\ pc' = IF blown THEN "remembering" ELSE "recording"
    BY <1>1 DEF StartCommit
  <2>. HIDE DEF blown
  <2>2. commit' = [armed |-> learned, fuseRefused |-> blown, recorded |-> 0,
                   unwritten |-> IF blown THEN {} ELSE run.refusals,
                   unremembered |-> IF blown THEN ToRemember ELSE {}]
    BY <2>1 DEF NoCommit
  <2>3. commit' \in Commit
    BY <1>0, <2>0, <2>2 DEF Commit, TypeOK
  <2>. QED
    BY <1>1, <2>1, <2>3 DEF StartCommit, TypeOK, IsRun, IsJob, IsStatuses
<1>2. CASE WriteRefusal
  <2>1. PICK r \in commit.unwritten :
          \/ /\ statuses' = RecordRefused(statuses, r.address)
             /\ commit' = [commit EXCEPT !.unwritten = @ \ {r}, !.recorded = @ + 1]
             /\ UNCHANGED left
          \/ /\ Spend("fault")
             /\ commit' = [commit EXCEPT !.unwritten = @ \ {r}]
             /\ UNCHANGED statuses
    BY <1>2 DEF WriteRefusal
  <2>2. r.address \in Address
    BY DEF TypeOK, Commit, Refusal
  <2>3. IsStatuses(statuses')
    BY <2>1, <2>2, RecordRefusedType DEF TypeOK
  <2>4. commit' \in Commit
    <3>1. CASE commit' = [commit EXCEPT !.unwritten = @ \ {r}, !.recorded = @ + 1]
      <4>. DEFINE n == commit.recorded + 1
      <4>1. n \in Nat
        BY DEF TypeOK, Commit
      <4>2. commit' = [commit EXCEPT !.unwritten = @ \ {r}, !.recorded = n]
        BY <3>1
      <4>. HIDE DEF n
      <4>. QED
        BY <4>1, <4>2 DEF TypeOK, Commit
    <3>2. CASE commit' = [commit EXCEPT !.unwritten = @ \ {r}]
      BY <3>2 DEF TypeOK, Commit
    <3>. QED
      BY <2>1, <3>1, <3>2
  <2>5. left' \in [BoundKind -> Nat]
    BY <2>1, SpendType DEF TypeOK, BoundKind
  <2>. QED
    BY <1>2, <2>3, <2>4, <2>5 DEF WriteRefusal, TypeOK, IsRun, IsJob
<1>3. CASE MarkLearned
  <2>1. commit' \in Commit
    BY <1>0, <1>3 DEF MarkLearned, TypeOK, Commit
  <2>2. learned' \in BOOLEAN
    BY <1>3 DEF MarkLearned, TypeOK
  <2>. QED
    BY <1>3, <2>1, <2>2 DEF MarkLearned, TypeOK, IsRun, IsJob, IsStatuses
<1>4. CASE RememberAccepted
  <2>1. PICK a \in commit.unremembered :
          /\ \/ statuses' = RecordAccepted(statuses, a) /\ UNCHANGED left
             \/ Spend("fault") /\ UNCHANGED statuses
          /\ commit' = [commit EXCEPT !.unremembered = @ \ {a}]
    BY <1>4 DEF RememberAccepted
  <2>2. a \in Address
    BY DEF TypeOK, Commit
  <2>3. IsStatuses(statuses')
    BY <2>1, <2>2, RecordAcceptedType DEF TypeOK
  <2>4. commit' \in Commit
    BY <2>1 DEF TypeOK, Commit
  <2>5. left' \in [BoundKind -> Nat]
    BY <2>1, SpendType DEF TypeOK, BoundKind
  <2>. QED
    BY <1>4, <2>3, <2>4, <2>5 DEF RememberAccepted, TypeOK, IsRun, IsJob
<1>5. CASE EndRun
  <2>1. PICK how \in {"green", "red", "raised"} : Stop(how)
    BY <1>5 DEF EndRun
  <2>. QED
    BY <1>5, <2>1, StopType DEF EndRun, TypeOK, IsStatuses
<1>6. CASE EndDryRun
  <2>1. PICK how \in {"green", "red", "raised"} : Stop(how)
    BY <1>6 DEF EndDryRun
  <2>. QED
    BY <1>6, <2>1, StopType DEF EndDryRun, TypeOK, IsStatuses
<1>. QED
  BY <1>1, <1>2, <1>3, <1>4, <1>5, <1>6

\* What happens outside the sweep keeps the types.
LEMMA TypeOutside ==
    ASSUME TypeOK, Outside
    PROVE  TypeOK'
<1>. USE DEF recordVars, statusVars, googleVars, historyVars, sweepVars
<1>1. ASSUME NEW k \in BoundKind, Elsewhere(k)
      PROVE  left' \in [BoundKind -> Nat] /\ calm' \in BOOLEAN
  BY <1>1, SpendType DEF Elsewhere, TypeOK
<1>2. CASE RecordsChange
  <2>1. audience' \in [Group -> SUBSET Member] /\ steady' \in [Group -> SUBSET Member]
    BY <1>2 DEF RecordsChange, TypeOK
  <2>. QED
    BY <1>1, <1>2, <2>1
       DEF RecordsChange, Elsewhere, TypeOK, BoundKind
<1>3. CASE RowChange
  <2>1. row' \in [Member -> SyncAddresses] /\ steady' \in [Group -> SUBSET Member]
    BY <1>3, SweepAssumption DEF RowChange, TypeOK
  <2>. QED
    BY <1>1, <1>3, <2>1
       DEF RowChange, Elsewhere, TypeOK, BoundKind
<1>4. CASE OutsideEdit
  <2>1. entries' \in [Group -> Listing]
    BY <1>4 DEF OutsideEdit, TypeOK, Listing
  <2>. QED
    BY <1>1, <1>4, <2>1
       DEF OutsideEdit, Elsewhere, TypeOK, BoundKind
<1>5. CASE PanelAccepts
  <2>1. IsStatuses(statuses')
    BY <1>5, RecordAcceptedType DEF PanelAccepts, TypeOK
  <2>. QED
    BY <1>1, <1>5, <2>1
       DEF PanelAccepts, Elsewhere, TypeOK, BoundKind
<1>6. CASE GroupDeleted
  <2>1. up' \in [Group -> BOOLEAN] /\ entries' \in [Group -> Listing]
    BY <1>6, NothingTypes DEF GroupDeleted, TypeOK, NoListing, Listing, Kind
  <2>. QED
    BY <1>1, <1>6, <2>1
       DEF GroupDeleted, Elsewhere, TypeOK, BoundKind
<1>7. CASE GroupRestored
  <2>1. up' \in [Group -> BOOLEAN] /\ revived' \in BOOLEAN
    BY <1>7 DEF GroupRestored, TypeOK
  <2>. QED
    BY <1>1, <1>7, <2>1
       DEF GroupRestored, Elsewhere, TypeOK, BoundKind
<1>8. CASE AccountChange
  <2>1. account' \in [Address -> Account] /\ sound' \subseteq Address
    BY <1>8 DEF AccountChange, TypeOK
  <2>. QED
    BY <1>1, <1>8, <2>1
       DEF AccountChange, Elsewhere, TypeOK, BoundKind
<1>9. CASE RefusalLapses
  <2>1. IsStatuses(statuses')
    BY <1>9 DEF RefusalLapses, TypeOK, IsStatuses
  <2>. QED
    BY <1>9, <2>1 DEF RefusalLapses, TypeOK
<1>. QED
  BY <1>2, <1>3, <1>4, <1>5, <1>6, <1>7, <1>8, <1>9 DEF Outside

\* Every step keeps the types, when it starts with the right group in hand.
LEMMA TypeNext == TypeInv /\ [Next]_vars => TypeOK'
<1>. SUFFICES ASSUME TypeInv, [Next]_vars PROVE TypeOK'
  OBVIOUS
<1>1. CASE Next
  BY <1>1, TypeOpening, TypePlanning, TypeAdding, TypeRemoving, TypeClosing,
     TypeOutside
     DEF Next, SweepStep, TypeInv
<1>2. CASE UNCHANGED vars
  BY <1>2 DEF vars, recordVars, statusVars, googleVars, historyVars, TypeInv,
              TypeOK, IsRun, IsJob, IsStatuses
<1>. QED
  BY <1>1, <1>2

\* Every step leaves the group in hand the one whose turn it is.
LEMMA HandNext == TypeInv /\ [Next]_vars => GroupInHand'
<1>. SUFFICES ASSUME TypeInv, [Next]_vars PROVE GroupInHand'
  OBVIOUS
<1>. USE DEF GroupInHand, Working, TypeInv
<1>1. CASE TimerStarts \/ OperatorStarts
  BY <1>1 DEF TimerStarts, OperatorStarts, Begin
<1>2. CASE ReadStatuses \/ ReadAudiences
  BY <1>2 DEF ReadStatuses, ReadAudiences
<1>3. CASE PullUnsafe \/ ReportDesiredOnly \/ Crash \/ EndRun \/ EndDryRun
  BY <1>3 DEF PullUnsafe, ReportDesiredOnly, Crash, EndRun, EndDryRun, Stop
<1>4. CASE ListFails
  BY <1>4 DEF ListFails
<1>5. CASE ListAndPlan
  <2>1. PICK g \in FirstOf(run.todo) :
          LET plan == PlannedFor(g)
              busy == PlansSomething(plan)
          IN  /\ pc' = IF busy THEN "recheck" ELSE "groups"
              /\ job' = IF busy
                        THEN [NoJob EXCEPT !.group = g, !.actual = entries[g],
                                           !.plan = plan]
                        ELSE NoJob
              /\ run' = [run EXCEPT
                           !.lapsed = @ \ plan.retried,
                           !.slots = @ - Cardinality(plan.retried),
                           !.todo = IF busy THEN @ ELSE @ \ {g},
                           !.outcome[g] = [NoOutcome EXCEPT !.refused = plan.refused]]
    BY <1>5 DEF ListAndPlan
  <2>. DEFINE plan == PlannedFor(g)
              busy == PlansSomething(plan)
  <2>2. CASE busy
    <3>1. job' = [NoJob EXCEPT !.group = g, !.actual = entries[g], !.plan = plan]
      BY <2>1, <2>2
    <3>2. job'.group = g
      BY <3>1 DEF NoJob
    <3>3. run'.todo = run.todo
      BY <2>1, <2>2 DEF TypeOK, IsRun
    <3>. QED
      BY <2>1, <2>2, <3>2, <3>3 DEF FirstOf
  <2>3. CASE ~busy
    BY <2>1, <2>3
  <2>. QED
    BY <2>2, <2>3
<1>6. CASE RecheckPlan
  BY <1>6 DEF RecheckPlan, TypeOK, IsJob
<1>7. CASE OfferAdd \/ AskPresence \/ AddsSettled \/ AskPresenceAgain
  <2>1. job.group \in Group /\ IsJob(job) /\ IsRun(run) /\ job.group \in run.todo
        /\ \A a \in FirstOf(job.adds) : a \in Address
    BY <1>7, GroupInHandType
       DEF OfferAdd, AskPresence, AddsSettled, AskPresenceAgain, TypeOK, FirstOf,
           IsJob
  <2>2. CASE OfferAdd
    <3>1. PICK a \in FirstOf(job.adds), o \in SyncOutcome :
             \/ pc' = "asking" /\ run' = run /\ job' = job
             \/ pc' = "adding" /\ run' = run /\ job' = Unreadable(job, a)
             \/ /\ pc' = "adding" /\ job' = Settled(job, a, o)
                /\ run' = Learned(run, a, o)
      BY <2>2, OfferAddCases
    <3>2. CASE pc' = "asking" /\ run' = run /\ job' = job
      BY <2>1, <3>2
    <3>3. CASE pc' = "adding" /\ run' = run /\ job' = Unreadable(job, a)
      BY <2>1, <3>3, UnreadableFacts
    <3>4. CASE /\ pc' = "adding" /\ job' = Settled(job, a, o)
               /\ run' = Learned(run, a, o)
      <4>1. IsJob(job') /\ job'.group = job.group
        BY <2>1, <3>4, SettledKeeps
      <4>2. run'.todo = run.todo
        BY <2>1, <3>4, LearnedFacts
      <4>. QED
        BY <2>1, <3>4, <4>1, <4>2
    <3>. QED
      BY <3>1, <3>2, <3>3, <3>4
  <2>3. CASE AskPresence
    <3>1. PICK a \in FirstOf(job.adds), p \in {"Present", "Gone", "Unknown"} :
             \/ Abandon
             \/ /\ pc' = "adding" /\ run' = run
                /\ job' = Unreadable([job EXCEPT !.presence = p], a)
             \/ /\ pc' = "adding"
                /\ job' = Settled([job EXCEPT !.presence = p], a, "AddressNotFound")
                /\ run' = Learned(run, a, "AddressNotFound")
      BY <2>3 DEF AskPresence
    <3>. DEFINE asked == [job EXCEPT !.presence = p]
    <3>2. IsJob(asked) /\ asked.group = job.group
      BY <2>1 DEF IsJob
    <3>. HIDE DEF asked
    <3>3. CASE Abandon
      BY <3>3 DEF Abandon
    <3>4. CASE pc' = "adding" /\ run' = run /\ job' = Unreadable(asked, a)
      BY <2>1, <3>2, <3>4, UnreadableFacts
    <3>5. CASE /\ pc' = "adding" /\ job' = Settled(asked, a, "AddressNotFound")
               /\ run' = Learned(run, a, "AddressNotFound")
      <4>1. IsJob(job') /\ job'.group = asked.group
        BY <2>1, <3>2, <3>5, SettledKeeps DEF SyncOutcome
      <4>2. run'.todo = run.todo
        BY <2>1, <3>5, LearnedFacts
      <4>. QED
        BY <2>1, <3>2, <3>5, <4>1, <4>2
    <3>. QED
      BY <3>1, <3>3, <3>4, <3>5 DEF asked
  <2>4. CASE AddsSettled
    BY <2>1, <2>4 DEF AddsSettled, BelieveRefusals, IsRun
  <2>5. CASE AskPresenceAgain
    BY <2>1, <2>5 DEF AskPresenceAgain, BelieveRefusals, Abandon, IsRun, IsJob
  <2>. QED
    BY <1>7, <2>2, <2>3, <2>4, <2>5
<1>8. CASE SendRemove
  BY <1>8 DEF SendRemove, TypeOK, IsJob
<1>9. CASE FinishGroup
  BY <1>9 DEF FinishGroup
<1>10. CASE StartCommit \/ WriteRefusal \/ MarkLearned \/ RememberAccepted
  BY <1>10 DEF StartCommit, WriteRefusal, MarkLearned, RememberAccepted
<1>11. CASE Outside \/ UNCHANGED vars
  BY <1>11 DEF Outside, RecordsChange, RowChange, OutsideEdit, PanelAccepts,
               GroupDeleted, GroupRestored, AccountChange, RefusalLapses,
               Elsewhere, sweepVars, vars
<1>. QED
  BY <1>1, <1>2, <1>3, <1>4, <1>5, <1>6, <1>7, <1>8, <1>9, <1>10, <1>11
     DEF Next, SweepStep

\* Every variable keeps its type, whatever the instance.
THEOREM TypeCorrect == Spec => []TypeOK
<1>1. Init => TypeInv
  BY TypeInit DEF TypeInv, GroupInHand, Working, Init
<1>2. TypeInv /\ [Next]_vars => TypeInv'
  BY TypeNext, HandNext DEF TypeInv
<1>3. TypeInv => TypeOK
  BY DEF TypeInv
<1>. QED
  BY <1>1, <1>2, <1>3, PTL DEF Spec
-----------------------------------------------------------------------------
(* Members desired since the recheck are kept (KeptInv).                    *)

\* More rows resolve to more addresses.
LEMMA DesiredOfMonotone ==
    ASSUME NEW R, NEW S \in SUBSET R, NEW st
    PROVE  DesiredOf(S, st) \subseteq DesiredOf(R, st)
BY DEF DesiredOf

\* Fewer removals, and no more rows to spare, keep the invariant.
LEMMA KeptCarried ==
    ASSUME KeptInv, pc \in {"adding", "asking", "removing"},
           job'.group = job.group, job'.removes \subseteq job.removes,
           run'.snap = run.snap,
           {row'[m] : m \in steady'[job.group]}
               \subseteq {row[m] : m \in steady[job.group]}
    PROVE  KeptInv'
<1>1. DesiredOf({row'[m] : m \in steady'[job.group]}, run.snap)
        \subseteq DesiredOf({row[m] : m \in steady[job.group]}, run.snap)
  BY DesiredOfMonotone
<1>. QED
  BY <1>1 DEF KeptInv

\* The same, when the records and the recheck are left alone.
LEMMA KeptUntouched ==
    ASSUME KeptInv, pc \in {"adding", "asking", "removing"},
           job'.group = job.group, job'.removes \subseteq job.removes,
           run'.snap = run.snap, UNCHANGED <<row, steady>>
    PROVE  KeptInv'
<1>1. {row'[m] : m \in steady'[job.group]}
        \subseteq {row[m] : m \in steady[job.group]}
  OBVIOUS
<1>. QED
  BY <1>1, KeptCarried

\* The recheck drops from the removals whatever the records want by then.
LEMMA KeptRecheck ==
    ASSUME TypeInv, RecheckPlan
    PROVE  KeptInv'
<1>. DEFINE fresh == DesiredForGroup(job.group)
            plan == Recheck(job.plan, fresh)
<1>1. job.group \in Group /\ IsJob(job)
  BY GroupInHandType DEF RecheckPlan, Working, TypeInv, TypeOK
<1>2. plan.removes \cap fresh = {}
  BY <1>1, RecheckFacts DEF IsJob
<1>3. job' = [job EXCEPT !.plan = plan, !.adds = plan.adds,
                         !.removes = plan.removes]
  BY DEF RecheckPlan
<1>4. steady' = [steady EXCEPT ![job.group] = audience[job.group]]
      /\ run' = run /\ row' = row
  BY DEF RecheckPlan, recordVars
<1>. HIDE DEF plan
<1>5. job'.group = job.group /\ job'.removes = plan.removes
  BY <1>1, <1>3 DEF IsJob
<1>6. steady'[job.group] = audience[job.group]
  BY <1>1, <1>4 DEF TypeInv, TypeOK
<1>7. DesiredOf({row'[m] : m \in steady'[job'.group]}, run'.snap) = fresh
  BY <1>4, <1>5, <1>6 DEF DesiredForGroup
<1>. QED
  BY <1>2, <1>5, <1>7 DEF KeptInv

\* No step offering adds touches the removals.
LEMMA KeptAdding ==
    ASSUME TypeInv, KeptInv,
           OfferAdd \/ AskPresence \/ AddsSettled \/ AskPresenceAgain
    PROVE  KeptInv'
<1>0. /\ pc \in {"adding", "asking"} /\ UNCHANGED <<row, steady>>
      /\ job.group \in Group /\ IsJob(job) /\ IsRun(run)
      /\ \A a \in FirstOf(job.adds) : a \in Address
  BY GroupInHandType
     DEF OfferAdd, AskPresence, AddsSettled, AskPresenceAgain, Working, TypeInv,
         TypeOK, FirstOf, IsJob, recordVars, historyVars
<1>1. CASE OfferAdd
  <2>1. PICK a \in FirstOf(job.adds), o \in SyncOutcome :
           \/ run' = run /\ job' = job
           \/ run' = run /\ job' = Unreadable(job, a)
           \/ job' = Settled(job, a, o) /\ run' = Learned(run, a, o)
    BY <1>1, OfferAddCases
  <2>2. CASE run' = run /\ job' = job
    BY <1>0, <2>2, KeptUntouched
  <2>3. CASE run' = run /\ job' = Unreadable(job, a)
    BY <1>0, <2>3, KeptUntouched, UnreadableFacts
  <2>4. CASE job' = Settled(job, a, o) /\ run' = Learned(run, a, o)
    <3>1. job'.group = job.group /\ job'.removes = job.removes
      BY <1>0, <2>4, SettledKeeps
    <3>2. run'.snap = run.snap
      BY <1>0, <2>4, LearnedFacts
    <3>. QED
      BY <1>0, <3>1, <3>2, KeptUntouched
  <2>. QED
    BY <2>1, <2>2, <2>3, <2>4
<1>2. CASE AskPresence
  <2>1. PICK a \in FirstOf(job.adds), p \in {"Present", "Gone", "Unknown"} :
           \/ Abandon
           \/ run' = run /\ job' = Unreadable([job EXCEPT !.presence = p], a)
           \/ /\ job' = Settled([job EXCEPT !.presence = p], a, "AddressNotFound")
              /\ run' = Learned(run, a, "AddressNotFound")
    BY <1>2 DEF AskPresence
  <2>. DEFINE asked == [job EXCEPT !.presence = p]
  <2>2. IsJob(asked) /\ asked.group = job.group /\ asked.removes = job.removes
    BY <1>0 DEF IsJob
  <2>. HIDE DEF asked
  <2>3. CASE Abandon
    BY <2>3 DEF Abandon, KeptInv
  <2>4. CASE run' = run /\ job' = Unreadable(asked, a)
    BY <1>0, <2>2, <2>4, KeptUntouched, UnreadableFacts
  <2>5. CASE /\ job' = Settled(asked, a, "AddressNotFound")
             /\ run' = Learned(run, a, "AddressNotFound")
    <3>1. job'.group = asked.group /\ job'.removes = asked.removes
      BY <1>0, <2>2, <2>5, SettledKeeps DEF SyncOutcome
    <3>2. run'.snap = run.snap
      BY <1>0, <2>5, LearnedFacts
    <3>. QED
      BY <1>0, <2>2, <3>1, <3>2, KeptUntouched
  <2>. QED
    BY <2>1, <2>3, <2>4, <2>5 DEF asked
<1>3. CASE AddsSettled
  <2>1. job' = job /\ run'.snap = run.snap
    BY <1>0, <1>3 DEF AddsSettled, BelieveRefusals, IsRun
  <2>. QED
    BY <1>0, <2>1, KeptUntouched
<1>4. CASE AskPresenceAgain
  <2>1. CASE Abandon
    BY <2>1 DEF Abandon, KeptInv
  <2>2. CASE BelieveRefusals /\ job' = [job EXCEPT !.presence = "Present"]
    <3>1. /\ job'.group = job.group /\ job'.removes = job.removes
          /\ run'.snap = run.snap
      BY <1>0, <2>2 DEF BelieveRefusals, IsRun, IsJob
    <3>. QED
      BY <1>0, <3>1, KeptUntouched
  <2>. QED
    BY <1>4, <2>1, <2>2 DEF AskPresenceAgain
<1>. QED
  BY <1>1, <1>2, <1>3, <1>4

\* What changes in the records leaves no new row to spare.
LEMMA KeptOutside ==
    ASSUME TypeInv, KeptInv, Outside \/ UNCHANGED vars
    PROVE  KeptInv'
<1>0. /\ pc' = pc /\ job' = job /\ run' = run
  BY DEF Outside, RecordsChange, RowChange, OutsideEdit, PanelAccepts,
         GroupDeleted, GroupRestored, AccountChange, RefusalLapses,
         Elsewhere, sweepVars, vars
<1>1. CASE pc \in {"adding", "asking", "removing"}
  <2>0. job.group \in Group
    BY <1>1, GroupInHandType DEF Working
  <2>1. CASE RecordsChange
    <3>1. steady'[job.group] \subseteq steady[job.group] /\ row' = row
      BY <2>0, <2>1 DEF RecordsChange, TypeInv, TypeOK
    <3>2. {row'[m] : m \in steady'[job.group]}
            \subseteq {row[m] : m \in steady[job.group]}
      BY <3>1
    <3>. QED
      BY <1>0, <1>1, <3>2, KeptCarried
  <2>2. CASE RowChange
    <3>1. PICK m \in Member : \E r \in Rows :
            /\ row' = [row EXCEPT ![m] = r[m]]
            /\ steady' = [g \in Group |-> steady[g] \ {m}]
      BY <2>2 DEF RowChange
    <3>2. steady'[job.group] = steady[job.group] \ {m}
      BY <2>0, <3>1
    <3>3. \A x \in steady'[job.group] : x \in Member /\ x # m
      BY <2>0, <3>2 DEF TypeInv, TypeOK
    <3>4. \A x \in steady'[job.group] : row'[x] = row[x]
      BY <3>1, <3>3 DEF TypeInv, TypeOK
    <3>5. {row'[x] : x \in steady'[job.group]}
            \subseteq {row[x] : x \in steady[job.group]}
      BY <3>2, <3>4
    <3>. QED
      BY <1>0, <1>1, <3>5, KeptCarried
  <2>3. CASE UNCHANGED <<row, steady>>
    BY <1>0, <1>1, <2>3, KeptUntouched
  <2>. QED
    BY <2>1, <2>2, <2>3
       DEF Outside, OutsideEdit, PanelAccepts, GroupDeleted, GroupRestored,
           AccountChange, RefusalLapses, recordVars, vars, historyVars
<1>2. CASE pc \notin {"adding", "asking", "removing"}
  BY <1>0, <1>2 DEF KeptInv
<1>. QED
  BY <1>1, <1>2

\* Every step keeps the invariant.
LEMMA KeptNext == TypeInv /\ KeptInv /\ [Next]_vars => KeptInv'
<1>. SUFFICES ASSUME TypeInv, KeptInv, [Next]_vars PROVE KeptInv'
  OBVIOUS
<1>1. CASE \/ TimerStarts \/ OperatorStarts \/ PullUnsafe \/ Crash
           \/ ReadStatuses \/ ReadAudiences \/ ReportDesiredOnly
           \/ ListFails \/ ListAndPlan \/ FinishGroup
           \/ StartCommit \/ WriteRefusal \/ MarkLearned \/ RememberAccepted
           \/ EndRun \/ EndDryRun
  BY <1>1 DEF TimerStarts, OperatorStarts, Begin, PullUnsafe, Crash, Stop,
              ReadStatuses, ReadAudiences, ReportDesiredOnly, ListFails,
              ListAndPlan, FinishGroup, StartCommit, WriteRefusal, MarkLearned,
              RememberAccepted, EndRun, EndDryRun, KeptInv
<1>2. CASE RecheckPlan
  BY <1>2, KeptRecheck
<1>3. CASE OfferAdd \/ AskPresence \/ AddsSettled \/ AskPresenceAgain
  BY <1>3, KeptAdding
<1>4. CASE SendRemove
  <2>1. PICK a \in job.removes : \E t, n :
          job' = [job EXCEPT !.removes = @ \ {a}, !.tally = t,
                             !.removesConverged = n]
    BY <1>4 DEF SendRemove
  <2>2. job'.group = job.group /\ job'.removes \subseteq job.removes
    BY <2>1 DEF TypeInv, TypeOK, IsJob
  <2>3. pc = "removing" /\ run' = run /\ UNCHANGED <<row, steady>>
    BY <1>4 DEF SendRemove, recordVars, historyVars
  <2>. QED
    BY <2>2, <2>3, KeptUntouched
<1>5. CASE Outside \/ UNCHANGED vars
  BY <1>5, KeptOutside
<1>. QED
  BY <1>1, <1>2, <1>3, <1>4, <1>5 DEF Next, SweepStep

\* A member the records have wanted in a group ever since the recheck, at the
\* same addresses, is never about to be removed from it.
THEOREM DesiredKept == Spec => []DesiredSinceRecheckKept
<1>1. Init => TypeInv /\ KeptInv
  BY TypeInit DEF TypeInv, GroupInHand, Working, KeptInv, Init
<1>2. TypeInv /\ KeptInv /\ [Next]_vars => (TypeInv /\ KeptInv)'
  BY TypeNext, HandNext, KeptNext DEF TypeInv
<1>3. KeptInv => DesiredSinceRecheckKept
  BY DEF KeptInv, DesiredSinceRecheckKept
<1>. QED
  BY <1>1, <1>2, <1>3, PTL DEF Spec

-----------------------------------------------------------------------------
(* A refused address is met once (MetInv).                                  *)

\* A run starts with no refusals, and a group's turn with none of its own.
LEMMA ClearedNext == TypeInv /\ Cleared /\ [Next]_vars => Cleared'
<1>. SUFFICES ASSUME TypeInv, Cleared, [Next]_vars PROVE Cleared'
  OBVIOUS
<1>1. CASE TimerStarts \/ OperatorStarts
  BY <1>1 DEF TimerStarts, OperatorStarts, Begin, NoRun, Cleared
<1>2. CASE PullUnsafe \/ ReportDesiredOnly \/ Crash \/ EndRun \/ EndDryRun
  BY <1>2 DEF PullUnsafe, ReportDesiredOnly, Crash, EndRun, EndDryRun, Stop,
              NoRun, Cleared
<1>3. CASE ReadStatuses
  BY <1>3 DEF ReadStatuses, Cleared, TypeInv, TypeOK, IsRun
<1>4. CASE ListAndPlan
  <2>1. PICK g \in FirstOf(run.todo) : \E plan :
          job' = [NoJob EXCEPT !.group = g, !.actual = entries[g], !.plan = plan]
            \/ job' = NoJob
    BY <1>4 DEF ListAndPlan
  <2>2. job'.found = {}
    <3>1. PICK plan :
            job' = [NoJob EXCEPT !.group = g, !.actual = entries[g],
                                 !.plan = plan]
              \/ job' = NoJob
      BY <2>1
    <3>2. CASE job' = [NoJob EXCEPT !.group = g, !.actual = entries[g],
                                    !.plan = plan]
      BY <3>2 DEF NoJob
    <3>3. CASE job' = NoJob
      BY <3>3 DEF NoJob
    <3>. QED
      BY <3>1, <3>2, <3>3
  <2>3. pc' \in {"recheck", "groups"}
    BY <1>4 DEF ListAndPlan
  <2>. QED
    BY <2>2, <2>3 DEF Cleared
<1>5. CASE \/ ReadAudiences \/ ListFails \/ RecheckPlan \/ OfferAdd \/ AskPresence
           \/ AddsSettled \/ AskPresenceAgain \/ SendRemove \/ FinishGroup
           \/ StartCommit \/ WriteRefusal \/ MarkLearned \/ RememberAccepted
  <2>1. pc' \in {"groups", "adding", "asking", "removing", "recording",
                 "remembering"}
    BY <1>5 DEF ReadAudiences, ListFails, RecheckPlan, OfferAdd, AskPresence,
                AddsSettled, AskPresenceAgain, SendRemove, FinishGroup,
                StartCommit, WriteRefusal, MarkLearned, RememberAccepted,
                Abandon, BelieveRefusals
  <2>. QED
    BY <2>1 DEF Cleared
<1>6. CASE Outside \/ UNCHANGED vars
  BY <1>6 DEF Outside, RecordsChange, RowChange, OutsideEdit, PanelAccepts,
              GroupDeleted, GroupRestored, AccountChange, RefusalLapses,
              Elsewhere, sweepVars, vars, Cleared
<1>. QED
  BY <1>1, <1>2, <1>3, <1>4, <1>5, <1>6 DEF Next, SweepStep

\* Outside a group's turn nothing is found, nothing is offered.
LEMMA NothingFound ==
    ASSUME TypeInv, pc \notin Working
    PROVE  job = NoJob /\ job.found = {}
BY DEF TypeInv, GroupInHand, NoJob

\* Holding no more refusals, and withholding no fewer addresses, keeps what
\* MetInv says of the refusals held.
LEMMA MetCarried ==
    ASSUME MetInv,
           run'.refusals \cup job'.found \subseteq run.refusals \cup job.found,
           run.unmirrorable \subseteq run'.unmirrorable,
           pc' \in {"adding", "asking"} => job'.adds \cap run'.unmirrorable = {},
           pc' = "recheck" => job'.plan.adds \cap run'.unmirrorable = {}
    PROVE  MetInv'
BY DEF MetInv, RefusalMetOnce

\* Settling an offered address: if it is refused, it has never been before, and
\* is never offered again.
LEMMA MetSettled ==
    ASSUME MetInv, IsRun(run), pc \in {"adding", "asking"}, pc' = "adding",
           NEW j, IsJob(j), j.group \in Group, j.adds = job.adds,
           j.found = job.found,
           NEW a \in j.adds, NEW o \in SyncOutcome,
           job' = Settled(j, a, o), run' = Learned(run, a, o)
    PROVE  MetInv'
<1>0. a \in Address
  BY DEF IsJob
<1>1. /\ run'.refusals = run.refusals
      /\ run'.unmirrorable = run.unmirrorable
                               \cup (IF o \in UNMIRRORABLE THEN {a} ELSE {})
  BY <1>0, LearnedFacts
<1>2. job'.adds = job.adds \ {a}
  BY <1>0, SettledKeeps
<1>3. job'.found = IF o \in UNMIRRORABLE
                   THEN job.found \cup {[address |-> a, group |-> j.group,
                                         outcome |-> o]}
                   ELSE job.found
  BY DEF Settled, IsJob
<1>4. a \notin run.unmirrorable
  BY DEF MetInv
<1>5. job'.adds \cap run'.unmirrorable = {}
  BY <1>1, <1>2 DEF MetInv
<1>6. CASE o \notin UNMIRRORABLE
  BY <1>1, <1>3, <1>5, <1>6, MetCarried
<1>7. CASE o \in UNMIRRORABLE
  <2>. DEFINE new == [address |-> a, group |-> j.group, outcome |-> o]
  <2>1. new.address = a
    OBVIOUS
  <2>. HIDE DEF new
  <2>2. run'.refusals \cup job'.found = run.refusals \cup job.found \cup {new}
    BY <1>1, <1>3, <1>7 DEF new
  <2>3. \A r \in run.refusals \cup job.found : r.address # a
    BY <1>4 DEF MetInv
  <2>4. RefusalMetOnce'
    BY <2>1, <2>2, <2>3 DEF RefusalMetOnce, MetInv
  <2>5. \A r \in run'.refusals \cup job'.found : r.address \in run'.unmirrorable
    BY <1>1, <1>7, <2>1, <2>2 DEF MetInv
  <2>. QED
    BY <1>5, <2>4, <2>5 DEF MetInv
<1>. QED
  BY <1>6, <1>7

\* No step offering adds meets an address twice.
LEMMA MetAdding ==
    ASSUME TypeInv, MetInv,
           OfferAdd \/ AskPresence \/ AddsSettled \/ AskPresenceAgain
    PROVE  MetInv'
<1>0. /\ pc \in {"adding", "asking"}
      /\ job.group \in Group /\ TypeOK /\ IsJob(job) /\ IsRun(run)
      /\ \A a \in FirstOf(job.adds) : a \in Address /\ a \in job.adds
  BY GroupInHandType
     DEF OfferAdd, AskPresence, AddsSettled, AskPresenceAgain, Working, TypeInv,
         TypeOK, FirstOf, IsJob
<1>1. ASSUME Abandon PROVE MetInv'
  <2>1. /\ job' = NoJob /\ pc' = "groups" /\ run'.refusals = run.refusals
        /\ run'.unmirrorable = run.unmirrorable
    BY <1>0, <1>1, AbandonFacts
  <2>2. job'.found = {}
    BY <2>1 DEF NoJob
  <2>. QED
    BY <2>1, <2>2, MetCarried
<1>2. ASSUME BelieveRefusals, job'.found = job.found PROVE MetInv'
  <2>1. /\ run'.refusals = run.refusals \cup job.found /\ pc' = "removing"
        /\ run'.unmirrorable = run.unmirrorable
    BY <1>0, <1>2 DEF BelieveRefusals, IsRun
  <2>. QED
    BY <1>2, <2>1, MetCarried
<1>3. ASSUME NEW j, IsJob(j), j.adds = job.adds, j.found = job.found,
             NEW a \in job.adds, a \in Address,
             pc' = "adding", run' = run, job' = Unreadable(j, a)
      PROVE  MetInv'
  <2>1. job'.adds = job.adds \ {a} /\ job'.found = job.found
    BY <1>3, UnreadableFacts
  <2>2. job'.adds \cap run'.unmirrorable = {}
    BY <1>0, <1>3, <2>1 DEF MetInv
  <2>. QED
    BY <1>3, <2>1, <2>2, MetCarried
<1>4. CASE OfferAdd
  <2>1. PICK a \in FirstOf(job.adds), o \in SyncOutcome :
           \/ pc' = "asking" /\ run' = run /\ job' = job
           \/ pc' = "adding" /\ run' = run /\ job' = Unreadable(job, a)
           \/ /\ pc' = "adding" /\ job' = Settled(job, a, o)
              /\ run' = Learned(run, a, o)
    BY <1>4, OfferAddCases
  <2>2. CASE pc' = "asking" /\ run' = run /\ job' = job
    BY <1>0, <2>2, MetCarried DEF MetInv
  <2>3. CASE pc' = "adding" /\ run' = run /\ job' = Unreadable(job, a)
    BY <1>0, <1>3, <2>3
  <2>4. CASE /\ pc' = "adding" /\ job' = Settled(job, a, o)
             /\ run' = Learned(run, a, o)
    BY <1>0, <2>4, MetSettled
  <2>. QED
    BY <2>1, <2>2, <2>3, <2>4
<1>5. CASE AskPresence
  <2>1. PICK a \in FirstOf(job.adds), p \in {"Present", "Gone", "Unknown"} :
           \/ Abandon
           \/ /\ pc' = "adding" /\ run' = run
              /\ job' = Unreadable([job EXCEPT !.presence = p], a)
           \/ /\ pc' = "adding"
              /\ job' = Settled([job EXCEPT !.presence = p], a, "AddressNotFound")
              /\ run' = Learned(run, a, "AddressNotFound")
    BY <1>5 DEF AskPresence
  <2>. DEFINE asked == [job EXCEPT !.presence = p]
  <2>2. /\ IsJob(asked) /\ asked.group = job.group
        /\ asked.adds = job.adds /\ asked.found = job.found
    BY <1>0 DEF IsJob
  <2>. HIDE DEF asked
  <2>3. CASE pc' = "adding" /\ run' = run /\ job' = Unreadable(asked, a)
    BY <1>0, <1>3, <2>2, <2>3
  <2>4. CASE /\ pc' = "adding" /\ job' = Settled(asked, a, "AddressNotFound")
             /\ run' = Learned(run, a, "AddressNotFound")
    <3>1. "AddressNotFound" \in SyncOutcome /\ a \in asked.adds
      BY <1>0, <2>2 DEF SyncOutcome
    <3>. QED
      BY <1>0, <2>2, <2>4, <3>1, MetSettled
  <2>. QED
    BY <1>1, <2>1, <2>3, <2>4 DEF asked
<1>6. CASE AddsSettled
  BY <1>2, <1>6 DEF AddsSettled
<1>7. CASE AskPresenceAgain
  <2>1. CASE BelieveRefusals /\ job' = [job EXCEPT !.presence = "Present"]
    <3>1. job'.found = job.found
      BY <1>0, <2>1 DEF IsJob
    <3>. QED
      BY <1>2, <2>1, <3>1
  <2>. QED
    BY <1>1, <1>7, <2>1 DEF AskPresenceAgain
<1>. QED
  BY <1>4, <1>5, <1>6, <1>7

\* A plan offers nothing that the run withholds.
LEMMA MetPlanning ==
    ASSUME TypeInv, Cleared, MetInv, ListFails \/ ListAndPlan \/ RecheckPlan
    PROVE  MetInv'
<1>1. CASE ListFails
  <2>1. /\ run'.refusals = run.refusals /\ run'.unmirrorable = run.unmirrorable
        /\ job' = job /\ pc' = "groups"
    BY <1>1 DEF ListFails, TypeInv, TypeOK, IsRun
  <2>. QED
    BY <2>1, MetCarried
<1>2. CASE ListAndPlan
  <2>1. PICK g \in FirstOf(run.todo) :
          LET plan == PlannedFor(g)
              busy == PlansSomething(plan)
          IN  /\ pc' = IF busy THEN "recheck" ELSE "groups"
              /\ job' = IF busy
                        THEN [NoJob EXCEPT !.group = g, !.actual = entries[g],
                                           !.plan = plan]
                        ELSE NoJob
              /\ run' = [run EXCEPT
                           !.lapsed = @ \ plan.retried,
                           !.slots = @ - Cardinality(plan.retried),
                           !.todo = IF busy THEN @ ELSE @ \ {g},
                           !.outcome[g] = [NoOutcome EXCEPT !.refused = plan.refused]]
    BY <1>2 DEF ListAndPlan
  <2>2. g \in Group
    BY DEF FirstOf, TypeInv, TypeOK, IsRun
  <2>. DEFINE plan == PlannedFor(g)
              busy == PlansSomething(plan)
  <2>3. plan.adds \cap run.unmirrorable = {}
    BY <2>2, PlannedForType DEF TypeInv
  <2>4. run'.refusals = run.refusals /\ run'.unmirrorable = run.unmirrorable
    BY <2>1 DEF TypeInv, TypeOK, IsRun
  <2>5. CASE busy
    <3>1. /\ job' = [NoJob EXCEPT !.group = g, !.actual = entries[g], !.plan = plan]
          /\ pc' = "recheck"
      BY <2>1, <2>5
    <3>2. job'.found = {} /\ job'.plan = plan
      BY <3>1 DEF NoJob
    <3>. QED
      BY <2>3, <2>4, <3>1, <3>2, MetCarried
  <2>6. CASE ~busy
    <3>1. job' = NoJob /\ pc' = "groups"
      BY <2>1, <2>6
    <3>2. job'.found = {}
      BY <3>1 DEF NoJob
    <3>. QED
      BY <2>4, <3>1, <3>2, MetCarried
  <2>. QED
    BY <2>5, <2>6
<1>3. CASE RecheckPlan
  <2>. DEFINE plan == Recheck(job.plan, DesiredForGroup(job.group))
  <2>1. plan.adds \subseteq job.plan.adds
    BY RecheckFacts DEF TypeInv, TypeOK, IsJob
  <2>2. /\ job' = [job EXCEPT !.plan = plan, !.adds = plan.adds,
                              !.removes = plan.removes]
        /\ run' = run /\ pc' = "adding" /\ pc = "recheck"
    BY <1>3 DEF RecheckPlan
  <2>. HIDE DEF plan
  <2>3. job'.adds = plan.adds /\ job'.found = job.found
    BY <2>2 DEF TypeInv, TypeOK, IsJob
  <2>4. job'.adds \cap run'.unmirrorable = {}
    BY <2>1, <2>2, <2>3 DEF MetInv
  <2>. QED
    BY <2>2, <2>3, <2>4, MetCarried
<1>. QED
  BY <1>1, <1>2, <1>3

\* Every step keeps the invariant.
LEMMA MetNext == TypeInv /\ Cleared /\ MetInv /\ [Next]_vars => MetInv'
<1>. SUFFICES ASSUME TypeInv, Cleared, MetInv, [Next]_vars PROVE MetInv'
  OBVIOUS
<1>1. CASE \/ TimerStarts \/ OperatorStarts \/ PullUnsafe \/ Crash
           \/ ReadStatuses \/ ReadAudiences \/ ReportDesiredOnly
           \/ EndRun \/ EndDryRun
  <2>1. run'.refusals = {} /\ job'.found = {}
    <3>1. CASE TimerStarts \/ OperatorStarts
      BY <3>1, NothingFound
         DEF TimerStarts, OperatorStarts, Begin, NoRun, Working
    <3>2. CASE PullUnsafe \/ ReportDesiredOnly \/ Crash \/ EndRun \/ EndDryRun
      BY <3>2 DEF PullUnsafe, ReportDesiredOnly, Crash, EndRun, EndDryRun, Stop,
                  NoRun, NoJob
    <3>3. CASE ReadStatuses
      BY <3>3, NothingFound
         DEF ReadStatuses, Cleared, Working, TypeInv, TypeOK, IsRun
    <3>4. CASE ReadAudiences
      BY <3>4, NothingFound
         DEF ReadAudiences, Cleared, Working, TypeInv, TypeOK, IsRun
    <3>. QED
      BY <1>1, <3>1, <3>2, <3>3, <3>4
  <2>2. pc' \in {"idle", "pull", "audiences", "groups"}
    BY <1>1 DEF TimerStarts, OperatorStarts, Begin, PullUnsafe, Crash, Stop,
                ReadStatuses, ReadAudiences, ReportDesiredOnly, EndRun, EndDryRun
  <2>. QED
    BY <2>1, <2>2 DEF MetInv, RefusalMetOnce
<1>2. CASE ListFails \/ ListAndPlan \/ RecheckPlan
  BY <1>2, MetPlanning
<1>3. CASE OfferAdd \/ AskPresence \/ AddsSettled \/ AskPresenceAgain
  BY <1>3, MetAdding
<1>4. CASE SendRemove
  <2>1. PICK a \in job.removes : \E t, n :
          job' = [job EXCEPT !.removes = @ \ {a}, !.tally = t,
                             !.removesConverged = n]
    BY <1>4 DEF SendRemove
  <2>2. job'.found = job.found
    BY <2>1 DEF TypeInv, TypeOK, IsJob
  <2>3. pc' = "removing" /\ run' = run
    BY <1>4 DEF SendRemove
  <2>. QED
    BY <2>2, <2>3, MetCarried
<1>5. CASE FinishGroup
  <2>1. PICK o : run' = [run EXCEPT !.todo = @ \ {job.group},
                                    !.outcome[job.group] = o]
    BY <1>5 DEF FinishGroup
  <2>2. run'.refusals = run.refusals /\ run'.unmirrorable = run.unmirrorable
    BY <2>1 DEF TypeInv, TypeOK, IsRun
  <2>3. pc' = "groups" /\ job'.found = {}
    BY <1>5 DEF FinishGroup, NoJob
  <2>. QED
    BY <2>2, <2>3, MetCarried
<1>6. CASE StartCommit \/ WriteRefusal \/ MarkLearned \/ RememberAccepted
  <2>1. /\ run' = run /\ job' = job
        /\ pc' \in {"recording", "remembering"}
    BY <1>6 DEF StartCommit, WriteRefusal, MarkLearned, RememberAccepted
  <2>. QED
    BY <2>1, MetCarried
<1>7. CASE Outside \/ UNCHANGED vars
  <2>1. run' = run /\ job' = job /\ pc' = pc
    BY <1>7 DEF Outside, RecordsChange, RowChange, OutsideEdit, PanelAccepts,
                GroupDeleted, GroupRestored, AccountChange, RefusalLapses,
                Elsewhere, sweepVars, vars
  <2>. QED
    BY <2>1 DEF MetInv, RefusalMetOnce
<1>. QED
  BY <1>1, <1>2, <1>3, <1>4, <1>5, <1>6, <1>7 DEF Next, SweepStep

\* A run meets each refused address once, not once per group it is wanted in.
THEOREM MetOnce == Spec => []RefusalMetOnce
<1>1. Init => TypeInv /\ Cleared /\ MetInv
  <2>. SUFFICES ASSUME Init PROVE TypeInv /\ Cleared /\ MetInv
    OBVIOUS
  <2>1. run.refusals = {} /\ job.found = {} /\ pc = "idle"
    BY DEF Init, NoRun, NoJob
  <2>2. TypeInv
    BY TypeInit DEF TypeInv, GroupInHand, Working, Init
  <2>. QED
    BY <2>1, <2>2 DEF Cleared, MetInv, RefusalMetOnce
<1>2. TypeInv /\ Cleared /\ MetInv /\ [Next]_vars
        => (TypeInv /\ Cleared /\ MetInv)'
  BY TypeNext, HandNext, ClearedNext, MetNext DEF TypeInv
<1>3. MetInv => RefusalMetOnce
  BY DEF MetInv
<1>. QED
  BY <1>1, <1>2, <1>3, PTL DEF Spec

-----------------------------------------------------------------------------
(* A good address is not written off (SoundInv).                            *)

\* The first of a set of addresses is one address.
LEMMA FirstIsOne ==
    ASSUME NEW S \in SUBSET Address, NEW x \in FirstOf(S), NEW y \in FirstOf(S)
    PROVE  x = y
BY AddressAssumption DEF FirstOf

\* Of an address Google holds, no reply says that it has no account, and only a
\* group that is gone makes one say that it is not known.
LEMMA HeldReplies ==
    ASSUME TypeOK, NEW g \in Group, NEW a, account[a] = "held",
           NEW reply \in Gated(a, InsertReplies(g, a)).sound
                           \cup Gated(a, InsertReplies(g, a)).faulty
    PROVE  /\ reply.outcome # "NoGoogleAccount"
           /\ reply.outcome = "AddressNotFound" => ~up[g]
<1>1. InsertVerdict(g, a) # "NoGoogleAccount"
  BY DEF InsertVerdict
<1>2. InsertVerdict(g, a) = "AddressNotFound" => ~up[g]
  BY DEF InsertVerdict
<1>3. reply.outcome \in {"SkippedExampleEmail", "SkippedDryRun", "Failed",
                         "AlreadyConverged", InsertVerdict(g, a)}
  BY DEF Gated, InsertReplies, Reply
<1>. QED
  BY <1>1, <1>2, <1>3

\* Where Google and the history stand still and no group is asked about, holding
\* no more refusals keeps the invariant.
LEMMA SoundCarried ==
    ASSUME SoundInv, UNCHANGED <<account, up, sound, revived>>,
           run'.refusals \subseteq run.refusals,
           job'.found \subseteq job.found,
           job'.group = job.group \/ job'.found = {},
           pc' # "asking"
    PROVE  SoundInv'
BY DEF SoundInv

\* A refusal that is settled is of an address Google does not hold, or was met in
\* a group that is gone.
LEMMA SoundSettled ==
    ASSUME SoundInv, UNCHANGED <<account, up, sound, revived>>, IsRun(run),
           NEW j, IsJob(j), j.group \in Group, j.group = job.group,
           j.found = job.found, NEW a \in Address, NEW o \in SyncOutcome,
           job' = Settled(j, a, o), run' = Learned(run, a, o), pc' = "adding",
           ~revived /\ a \in sound /\ o \in UNMIRRORABLE
             => o = "AddressNotFound" /\ ~up[job.group]
    PROVE  SoundInv'
<1>1. run'.refusals = run.refusals
  BY LearnedFacts
<1>2. job'.group = job.group
  BY SettledKeeps
<1>3. job'.found = IF o \in UNMIRRORABLE
                   THEN job.found \cup {[address |-> a, group |-> j.group,
                                         outcome |-> o]}
                   ELSE job.found
  BY DEF Settled, IsJob
<1>4. CASE o \notin UNMIRRORABLE
  BY <1>1, <1>2, <1>3, <1>4, SoundCarried
<1>5. CASE o \in UNMIRRORABLE
  <2>. DEFINE new == [address |-> a, group |-> j.group, outcome |-> o]
  <2>1. new.address = a /\ new.outcome = o
    OBVIOUS
  <2>. HIDE DEF new
  <2>2. job'.found = job.found \cup {new}
    BY <1>3, <1>5 DEF new
  <2>3. ~revived => \A r \in job'.found :
          r.address \in sound => r.outcome = "AddressNotFound" /\ ~up[job.group]
    BY <1>5, <2>1, <2>2 DEF SoundInv
  <2>. QED
    BY <1>1, <1>2, <2>3 DEF SoundInv
<1>. QED
  BY <1>4, <1>5

\* With the group there, what it refused is refused by Google's own account of
\* the address.
LEMMA SoundBelieved ==
    ASSUME SoundInv, UNCHANGED <<account, up, sound, revived>>, IsRun(run),
           BelieveRefusals, job'.found = job.found, job'.group = job.group,
           up[job.group] \/ ~Doubtful(job.found)
    PROVE  SoundInv'
<1>1. run'.refusals = run.refusals \cup job.found /\ pc' = "removing"
  BY DEF BelieveRefusals, IsRun
<1>2. ~revived => \A r \in job.found : r.address \notin sound
  BY DEF SoundInv, Doubtful
<1>. QED
  BY <1>1, <1>2 DEF SoundInv

\* No step offering adds writes a good address off.
LEMMA SoundAdding ==
    ASSUME TypeInv, SoundInv,
           OfferAdd \/ AskPresence \/ AddsSettled \/ AskPresenceAgain
    PROVE  SoundInv'
<1>0. /\ pc \in {"adding", "asking"}
      /\ UNCHANGED <<account, up, sound, revived>>
      /\ job.group \in Group /\ TypeOK /\ IsJob(job) /\ IsRun(run)
      /\ job.adds \in SUBSET Address
      /\ \A a \in FirstOf(job.adds) : a \in Address
  BY GroupInHandType
     DEF OfferAdd, AskPresence, AddsSettled, AskPresenceAgain, Working, TypeInv,
         TypeOK, FirstOf, IsJob, googleVars, historyVars
<1>1. ASSUME Abandon PROVE SoundInv'
  <2>1. /\ job' = NoJob /\ pc' = "groups" /\ run'.refusals = run.refusals
    BY <1>0, <1>1, AbandonFacts
  <2>2. job'.found = {}
    BY <2>1 DEF NoJob
  <2>. QED
    BY <1>0, <2>1, <2>2, SoundCarried
<1>2. ASSUME NEW j, IsJob(j), j.group = job.group, j.found = job.found,
             NEW a \in Address,
             pc' = "adding", run' = run, job' = Unreadable(j, a)
      PROVE  SoundInv'
  <2>1. job'.group = job.group /\ job'.found = job.found
    BY <1>2, UnreadableFacts
  <2>. QED
    BY <1>0, <1>2, <2>1, SoundCarried
<1>3. CASE OfferAdd
  <2>1. PICK a \in FirstOf(job.adds), o \in SyncOutcome :
             /\ \E reply \in Gated(a, InsertReplies(job.group, a)).sound
                       \cup Gated(a, InsertReplies(job.group, a)).faulty :
                  o = reply.outcome
             /\ \/ /\ o = "AddressNotFound"
                   /\ pc' = "asking" /\ run' = run /\ job' = job
                \/ /\ pc' = "adding" /\ run' = run /\ job' = Unreadable(job, a)
                \/ /\ pc' = "adding" /\ job' = Settled(job, a, o)
                   /\ run' = Learned(run, a, o)
    BY <1>3, OfferAddCases
  <2>2. a \in sound =>
          /\ o # "NoGoogleAccount"
          /\ o = "AddressNotFound" => ~up[job.group]
    BY <1>0, <2>1, HeldReplies DEF SoundInv
  <2>3. CASE /\ o = "AddressNotFound"
             /\ pc' = "asking" /\ run' = run /\ job' = job
    <3>1. up[job.group] => FirstOf(job.adds) \cap sound = {}
      BY <1>0, <2>2, <2>3, FirstIsOne
    <3>. QED
      BY <1>0, <2>3, <3>1 DEF SoundInv
  <2>4. CASE pc' = "adding" /\ run' = run /\ job' = Unreadable(job, a)
    BY <1>0, <1>2, <2>4
  <2>5. CASE /\ pc' = "adding" /\ job' = Settled(job, a, o)
             /\ run' = Learned(run, a, o)
    BY <1>0, <2>2, <2>5, SoundSettled DEF UNMIRRORABLE
  <2>. QED
    BY <2>1, <2>3, <2>4, <2>5
<1>4. CASE AskPresence
  <2>1. PICK a \in FirstOf(job.adds), p \in {"Present", "Gone", "Unknown"} :
           \/ Abandon
           \/ /\ pc' = "adding" /\ run' = run
              /\ job' = Unreadable([job EXCEPT !.presence = p], a)
           \/ /\ p = "Present" /\ PresenceAnswered(job.group, p)
              /\ pc' = "adding"
              /\ job' = Settled([job EXCEPT !.presence = p], a, "AddressNotFound")
              /\ run' = Learned(run, a, "AddressNotFound")
    BY <1>4 DEF AskPresence
  <2>. DEFINE asked == [job EXCEPT !.presence = p]
  <2>2. /\ IsJob(asked) /\ asked.group = job.group
        /\ asked.adds = job.adds /\ asked.found = job.found
    BY <1>0 DEF IsJob
  <2>. HIDE DEF asked
  <2>3. CASE pc' = "adding" /\ run' = run /\ job' = Unreadable(asked, a)
    BY <1>0, <1>2, <2>2, <2>3
  <2>4. CASE /\ p = "Present" /\ PresenceAnswered(job.group, p)
             /\ pc' = "adding" /\ job' = Settled(asked, a, "AddressNotFound")
             /\ run' = Learned(run, a, "AddressNotFound")
    <3>1. up[job.group]
      BY <2>4 DEF PresenceAnswered
    <3>2. ~revived => a \notin sound
      BY <1>4, <3>1 DEF AskPresence, SoundInv
    <3>3. "AddressNotFound" \in SyncOutcome
      BY DEF SyncOutcome
    <3>. QED
      BY <1>0, <2>2, <2>4, <3>2, <3>3, SoundSettled
  <2>. QED
    BY <1>1, <2>1, <2>3, <2>4 DEF asked
<1>5. CASE AddsSettled
  BY <1>0, <1>5, SoundBelieved DEF AddsSettled
<1>6. CASE AskPresenceAgain
  <2>1. CASE /\ PresenceAnswered(job.group, "Present") /\ BelieveRefusals
             /\ job' = [job EXCEPT !.presence = "Present"]
    <3>1. job'.found = job.found /\ job'.group = job.group
      BY <1>0, <2>1 DEF IsJob
    <3>2. up[job.group]
      BY <2>1 DEF PresenceAnswered
    <3>. QED
      BY <1>0, <2>1, <3>1, <3>2, SoundBelieved
  <2>. QED
    BY <1>1, <1>6, <2>1 DEF AskPresenceAgain
<1>. QED
  BY <1>3, <1>4, <1>5, <1>6

\* A group that is deleted stays gone unless it is revived, and an account that
\* changes is no longer one Google has held all along.
LEMMA SoundOutside ==
    ASSUME TypeInv, SoundInv, Outside \/ UNCHANGED vars
    PROVE  SoundInv'
<1>0. run' = run /\ job' = job /\ pc' = pc
  BY DEF Outside, RecordsChange, RowChange, OutsideEdit, PanelAccepts,
         GroupDeleted, GroupRestored, AccountChange, RefusalLapses,
         Elsewhere, sweepVars, vars
<1>1. CASE UNCHANGED <<account, up, sound, revived>>
  BY <1>0, <1>1 DEF SoundInv
<1>2. ASSUME account' = account, sound' = sound, revived' = revived,
             pc \in Working => (up'[job.group] => up[job.group])
      PROVE  SoundInv'
  <2>1. pc \notin Working => job.found = {} /\ pc # "asking"
    BY NothingFound DEF Working
  <2>2. pc = "asking" => pc \in Working
    BY DEF Working
  <2>. QED
    BY <1>0, <1>2, <2>1, <2>2 DEF SoundInv
<1>3. CASE GroupDeleted
  <2>1. pc \in Working => job.group \in Group
    BY GroupInHandType
  <2>2. pc \in Working => (up'[job.group] => up[job.group])
    BY <1>3, <2>1 DEF GroupDeleted, TypeInv, TypeOK
  <2>. QED
    BY <1>2, <1>3, <2>2 DEF GroupDeleted
<1>4. CASE GroupRestored
  <2>1. CASE pc # "idle"
    BY <1>0, <1>4, <2>1 DEF GroupRestored, SoundInv
  <2>2. CASE pc = "idle"
    <3>1. job.found = {}
      BY <2>2, NothingFound DEF Working
    <3>. QED
      BY <1>0, <1>4, <2>2, <3>1 DEF GroupRestored, SoundInv
  <2>. QED
    BY <2>1, <2>2
<1>5. CASE AccountChange
  <2>1. PICK a \in Address, v \in Account :
          account' = [account EXCEPT ![a] = v] /\ sound' = sound \ {a}
    BY <1>5 DEF AccountChange
  <2>2. \A x \in sound' : account'[x] = "held"
    BY <2>1 DEF SoundInv, TypeInv, TypeOK
  <2>3. up' = up /\ revived' = revived /\ sound' \subseteq sound
    BY <1>5, <2>1 DEF AccountChange
  <2>. QED
    BY <1>0, <2>2, <2>3 DEF SoundInv
<1>. QED
  BY <1>1, <1>3, <1>4, <1>5
     DEF Outside, RecordsChange, RowChange, OutsideEdit, PanelAccepts,
         RefusalLapses, googleVars, vars, historyVars

\* Every step keeps the invariant.
LEMMA SoundNext == TypeInv /\ Cleared /\ SoundInv /\ [Next]_vars => SoundInv'
<1>. SUFFICES ASSUME TypeInv, Cleared, SoundInv, [Next]_vars PROVE SoundInv'
  OBVIOUS
<1>1. CASE TimerStarts \/ OperatorStarts
  <2>1. run'.refusals = {} /\ job'.found = {}
    BY <1>1, NothingFound
       DEF TimerStarts, OperatorStarts, Begin, NoRun, Working
  <2>2. pc' = "pull" /\ \A a \in sound' : account'[a] = "held"
    BY <1>1 DEF TimerStarts, OperatorStarts, Begin, googleVars
  <2>. QED
    BY <2>1, <2>2 DEF SoundInv
<1>2. CASE PullUnsafe \/ ReportDesiredOnly \/ Crash \/ EndRun \/ EndDryRun
  <2>1. /\ run'.refusals = {} /\ job'.found = {} /\ sound' = {} /\ pc' = "idle"
    BY <1>2 DEF PullUnsafe, ReportDesiredOnly, Crash, EndRun, EndDryRun, Stop,
                NoRun, NoJob
  <2>. QED
    BY <2>1 DEF SoundInv
<1>3. CASE \/ ReadStatuses \/ ReadAudiences \/ ListFails \/ RecheckPlan
           \/ StartCommit \/ WriteRefusal \/ MarkLearned \/ RememberAccepted
           \/ SendRemove
  <2>1. UNCHANGED <<account, up, sound, revived>> /\ pc' # "asking"
    BY <1>3 DEF ReadStatuses, ReadAudiences, ListFails, RecheckPlan, StartCommit,
                WriteRefusal, MarkLearned, RememberAccepted, SendRemove,
                googleVars, historyVars
  <2>2. run'.refusals = run.refusals
    BY <1>3 DEF ReadStatuses, ReadAudiences, ListFails, RecheckPlan, StartCommit,
                WriteRefusal, MarkLearned, RememberAccepted, SendRemove,
                TypeInv, TypeOK, IsRun
  <2>3. job'.found = job.found /\ job'.group = job.group
    <3>1. CASE RecheckPlan
      BY <3>1 DEF RecheckPlan, TypeInv, TypeOK, IsJob
    <3>2. CASE SendRemove
      <4>1. PICK a \in job.removes : \E t, n :
              job' = [job EXCEPT !.removes = @ \ {a}, !.tally = t,
                                 !.removesConverged = n]
        BY <3>2 DEF SendRemove
      <4>. QED
        BY <4>1 DEF TypeInv, TypeOK, IsJob
    <3>. QED
      BY <1>3, <3>1, <3>2
         DEF ReadStatuses, ReadAudiences, ListFails, StartCommit, WriteRefusal,
             MarkLearned, RememberAccepted
  <2>. QED
    BY <2>1, <2>2, <2>3, SoundCarried
<1>4. CASE ListAndPlan
  <2>1. /\ UNCHANGED <<account, up, sound, revived>>
        /\ pc' \in {"recheck", "groups"}
    BY <1>4 DEF ListAndPlan, googleVars, historyVars
  <2>2. job'.found = {}
    <3>1. pc' = "recheck" => job'.found = {}
      BY <1>4, ClearedNext DEF Next, SweepStep, Cleared
    <3>2. pc' = "groups" => job' = NoJob
      BY <1>4, HandNext DEF GroupInHand, Working
    <3>. QED
      BY <2>1, <3>1, <3>2 DEF NoJob
  <2>3. PICK g \in FirstOf(run.todo) :
          run' = [run EXCEPT
                    !.lapsed = @ \ PlannedFor(g).retried,
                    !.slots = @ - Cardinality(PlannedFor(g).retried),
                    !.todo = IF PlansSomething(PlannedFor(g))
                             THEN @ ELSE @ \ {g},
                    !.outcome[g] = [NoOutcome EXCEPT
                                      !.refused = PlannedFor(g).refused]]
    BY <1>4 DEF ListAndPlan
  <2>4. run'.refusals = run.refusals
    BY <2>3 DEF TypeInv, TypeOK, IsRun
  <2>. QED
    BY <2>1, <2>2, <2>4, SoundCarried
<1>5. CASE OfferAdd \/ AskPresence \/ AddsSettled \/ AskPresenceAgain
  BY <1>5, SoundAdding
<1>6. CASE FinishGroup
  <2>1. PICK o : run' = [run EXCEPT !.todo = @ \ {job.group},
                                    !.outcome[job.group] = o]
    BY <1>6 DEF FinishGroup
  <2>2. run'.refusals = run.refusals
    BY <2>1 DEF TypeInv, TypeOK, IsRun
  <2>3. /\ pc' = "groups" /\ job'.found = {}
        /\ UNCHANGED <<account, up, sound, revived>>
    BY <1>6 DEF FinishGroup, NoJob, googleVars, historyVars
  <2>. QED
    BY <2>2, <2>3, SoundCarried
<1>7. CASE Outside \/ UNCHANGED vars
  BY <1>7, SoundOutside
<1>. QED
  BY <1>1, <1>2, <1>3, <1>4, <1>5, <1>6, <1>7 DEF Next, SweepStep

\* An address Google has held throughout the run is not believed refused, unless
\* a group came back during the run.
THEOREM GoodKept == Spec => []GoodAddressNotWrittenOff
<1>1. Init => TypeInv /\ Cleared /\ SoundInv
  <2>. SUFFICES ASSUME Init PROVE TypeInv /\ Cleared /\ SoundInv
    OBVIOUS
  <2>1. /\ run.refusals = {} /\ job.found = {} /\ pc = "idle" /\ sound = {}
    BY DEF Init, NoRun, NoJob
  <2>2. TypeInv
    BY TypeInit DEF TypeInv, GroupInHand, Working, Init
  <2>. QED
    BY <2>1, <2>2 DEF Cleared, SoundInv
<1>2. TypeInv /\ Cleared /\ SoundInv /\ [Next]_vars
        => (TypeInv /\ Cleared /\ SoundInv)'
  BY TypeNext, HandNext, ClearedNext, SoundNext DEF TypeInv
<1>3. SoundInv => GoodAddressNotWrittenOff
  BY DEF SoundInv, GoodAddressNotWrittenOff
<1>. QED
  BY <1>1, <1>2, <1>3, PTL DEF Spec
-----------------------------------------------------------------------------
(* One run retries no more than its slots (AllowInv).                       *)

Opening == {"idle", "pull", "audiences"}

\* The lapsed refusals a run has taken out of its set, and the slots it has left,
\* together are no more than a run's slots; what is offered, or is planned and not
\* yet rechecked, is not among those it still withholds.
AllowInv ==
    /\ pc \notin Opening =>
          /\ run.slots \in Nat
          /\ run.lapsed \subseteq Lapsed(run.snap)
          /\ Cardinality(Lapsed(run.snap) \ run.lapsed) + run.slots <= RetriesPerRun
          /\ job.adds \cap run.lapsed = {}
    /\ pc = "recheck" => job.plan.adds \cap run.lapsed = {}

\* Within a run, offering no more than before takes no slot.
LEMMA AllowCarried ==
    ASSUME AllowInv, pc \notin Opening, pc' # "recheck",
           run'.snap = run.snap, run'.lapsed = run.lapsed, run'.slots = run.slots,
           job'.adds \subseteq job.adds
    PROVE  AllowInv'
BY DEF AllowInv

LEMMA LapsedType ==
    ASSUME TypeOK
    PROVE  Lapsed(run.snap) \in SUBSET Address
BY DEF Lapsed, TypeOK, IsRun, IsStatuses

LEMMA DisjointSizes ==
    ASSUME NEW S \in SUBSET Address, NEW T \in SUBSET Address, S \cap T = {}
    PROVE  /\ Cardinality(S) \in Nat /\ Cardinality(T) \in Nat
           /\ Cardinality(S \cup T) = Cardinality(S) + Cardinality(T)
<1>1. /\ IsFiniteSet(S) /\ Cardinality(S) \in Nat
      /\ IsFiniteSet(T) /\ Cardinality(T) \in Nat
  BY AddressSets
<1>2. Cardinality({}) = 0
  BY FS_EmptySet
<1>3. Cardinality(S \cup T) = Cardinality(S) + Cardinality(T) - Cardinality(S \cap T)
  BY <1>1, FS_Union
<1>4. Cardinality(S \cap T) = 0
  BY <1>2, Zenon
<1>. QED
  BY <1>1, <1>3, <1>4

\* The slots a group's retries take are taken from the run's.
LEMMA AllowPlan ==
    ASSUME TypeInv, AllowInv, ListAndPlan
    PROVE  AllowInv'
<1>0. TypeOK /\ IsRun(run) /\ pc = "groups"
  BY DEF TypeInv, TypeOK, ListAndPlan
<1>1. PICK g \in FirstOf(run.todo) :
        LET plan == PlannedFor(g)
            busy == PlansSomething(plan)
        IN  /\ pc' = IF busy THEN "recheck" ELSE "groups"
            /\ job' = IF busy
                      THEN [NoJob EXCEPT !.group = g, !.actual = entries[g],
                                         !.plan = plan]
                      ELSE NoJob
            /\ run' = [run EXCEPT
                         !.lapsed = @ \ plan.retried,
                         !.slots = @ - Cardinality(plan.retried),
                         !.todo = IF busy THEN @ ELSE @ \ {g},
                         !.outcome[g] = [NoOutcome EXCEPT !.refused = plan.refused]]
  BY DEF ListAndPlan
<1>. DEFINE plan == PlannedFor(g)
            taken == Lapsed(run.snap) \ run.lapsed
<1>2. g \in Group
  BY <1>0 DEF FirstOf, IsRun
<1>3. /\ plan \in GroupPlan /\ Cardinality(plan.retried) \in Nat
      /\ plan.adds \cap run.lapsed = plan.retried /\ plan.retried \subseteq run.lapsed
      /\ run.slots \in Nat => Cardinality(plan.retried) <= run.slots
  BY <1>0, <1>2, PlannedForType
<1>4. /\ run'.snap = run.snap /\ run'.lapsed = run.lapsed \ plan.retried
      /\ run'.slots = run.slots - Cardinality(plan.retried)
  BY <1>0, <1>1 DEF IsRun
<1>5. /\ job'.adds = {} /\ pc' \in {"recheck", "groups"}
      /\ pc' = "recheck" => job'.plan = plan
  BY <1>1 DEF NoJob
<1>. HIDE DEF plan
<1>6. /\ run.slots \in Nat /\ run.lapsed \subseteq Lapsed(run.snap)
      /\ Cardinality(taken) + run.slots <= RetriesPerRun
  BY <1>0 DEF AllowInv, Opening
<1>7. Lapsed(run'.snap) \ run'.lapsed = taken \cup plan.retried
  BY <1>3, <1>4, <1>6
<1>8. /\ taken \in SUBSET Address /\ plan.retried \in SUBSET Address
      /\ taken \cap plan.retried = {}
  BY <1>0, <1>3, LapsedType DEF GroupPlan
<1>. HIDE DEF taken
<1>9. /\ Cardinality(taken) \in Nat /\ Cardinality(plan.retried) \in Nat
      /\ Cardinality(taken \cup plan.retried) = Cardinality(taken) + Cardinality(plan.retried)
  BY <1>8, DisjointSizes
<1>10. Cardinality(plan.retried) <= run.slots
  BY <1>3, <1>6
<1>11. /\ run'.slots \in Nat
       /\ Cardinality(Lapsed(run'.snap) \ run'.lapsed) + run'.slots <= RetriesPerRun
  <2>1. RetriesPerRun \in Nat
    BY SweepAssumption
  <2>2. Cardinality(taken \cup plan.retried) + run'.slots = Cardinality(taken) + run.slots
    BY <1>4, <1>6, <1>9
  <2>3. Cardinality(Lapsed(run'.snap) \ run'.lapsed)
          = Cardinality(taken \cup plan.retried)
    BY <1>7, Zenon
  <2>4. run'.slots \in Nat
    BY <1>4, <1>6, <1>9, <1>10
  <2>. QED
    BY <1>6, <1>9, <2>1, <2>2, <2>3, <2>4
<1>12. pc' = "recheck" => job'.plan.adds \cap run'.lapsed = {}
  BY <1>3, <1>4, <1>5
<1>. QED
  BY <1>4, <1>5, <1>6, <1>11, <1>12 DEF AllowInv, Opening

\* No step offering adds touches the slots.
LEMMA AllowAdding ==
    ASSUME TypeInv, AllowInv,
           OfferAdd \/ AskPresence \/ AddsSettled \/ AskPresenceAgain
    PROVE  AllowInv'
<1>0. /\ pc \in {"adding", "asking"} /\ pc \notin Opening
      /\ job.group \in Group /\ TypeOK /\ IsJob(job) /\ IsRun(run)
      /\ \A a \in FirstOf(job.adds) : a \in Address /\ a \in job.adds
  BY GroupInHandType
     DEF OfferAdd, AskPresence, AddsSettled, AskPresenceAgain, Working, TypeInv,
         TypeOK, FirstOf, IsJob, Opening
<1>1. ASSUME Abandon PROVE AllowInv'
  <2>1. /\ job' = NoJob /\ pc' = "groups" /\ run'.snap = run.snap
        /\ run'.lapsed = run.lapsed /\ run'.slots = run.slots
    BY <1>0, <1>1, AbandonFacts
  <2>2. job'.adds = {}
    BY <2>1 DEF NoJob
  <2>. QED
    BY <1>0, <2>1, <2>2, AllowCarried
<1>2. ASSUME BelieveRefusals, job'.adds = job.adds PROVE AllowInv'
  <2>1. /\ run'.snap = run.snap /\ run'.lapsed = run.lapsed
        /\ run'.slots = run.slots /\ pc' = "removing"
    BY <1>0, <1>2 DEF BelieveRefusals, IsRun
  <2>. QED
    BY <1>0, <1>2, <2>1, AllowCarried
<1>3. ASSUME NEW j, IsJob(j), j.group \in Group, j.adds = job.adds, NEW a \in Address,
             NEW o \in SyncOutcome, pc' = "adding",
             \/ run' = run /\ job' = Unreadable(j, a)
             \/ run' = Learned(run, a, o) /\ job' = Settled(j, a, o)
      PROVE  AllowInv'
  <2>1. job'.adds \subseteq job.adds
    BY <1>3, UnreadableFacts, SettledKeeps
  <2>2. /\ run'.snap = run.snap /\ run'.lapsed = run.lapsed
        /\ run'.slots = run.slots
    BY <1>0, <1>3, LearnedFacts
  <2>. QED
    BY <1>0, <1>3, <2>1, <2>2, AllowCarried
<1>4. CASE OfferAdd
  <2>1. PICK a \in FirstOf(job.adds), o \in SyncOutcome :
           \/ pc' = "asking" /\ run' = run /\ job' = job
           \/ pc' = "adding" /\ run' = run /\ job' = Unreadable(job, a)
           \/ /\ pc' = "adding" /\ job' = Settled(job, a, o)
              /\ run' = Learned(run, a, o)
    BY <1>4, OfferAddCases
  <2>2. CASE pc' = "asking" /\ run' = run /\ job' = job
    BY <1>0, <2>2, AllowCarried
  <2>3. CASE pc' = "adding" /\ (\/ run' = run /\ job' = Unreadable(job, a)
                                \/ run' = Learned(run, a, o) /\ job' = Settled(job, a, o))
    BY <1>0, <1>3, <2>3
  <2>. QED
    BY <2>1, <2>2, <2>3
<1>5. CASE AskPresence
  <2>1. PICK a \in FirstOf(job.adds), p \in {"Present", "Gone", "Unknown"} :
           \/ Abandon
           \/ /\ pc' = "adding" /\ run' = run
              /\ job' = Unreadable([job EXCEPT !.presence = p], a)
           \/ /\ pc' = "adding"
              /\ job' = Settled([job EXCEPT !.presence = p], a, "AddressNotFound")
              /\ run' = Learned(run, a, "AddressNotFound")
    BY <1>5 DEF AskPresence
  <2>. DEFINE asked == [job EXCEPT !.presence = p]
  <2>2. IsJob(asked) /\ asked.group = job.group /\ asked.adds = job.adds
    BY <1>0 DEF IsJob
  <2>. HIDE DEF asked
  <2>3. "AddressNotFound" \in SyncOutcome
    BY DEF SyncOutcome
  <2>4. CASE pc' = "adding" /\ (\/ run' = run /\ job' = Unreadable(asked, a)
                                \/ /\ run' = Learned(run, a, "AddressNotFound")
                                   /\ job' = Settled(asked, a, "AddressNotFound"))
    BY <1>0, <1>3, <2>2, <2>3, <2>4
  <2>. QED
    BY <1>1, <2>1, <2>4 DEF asked
<1>6. CASE AddsSettled
  BY <1>2, <1>6 DEF AddsSettled
<1>7. CASE AskPresenceAgain
  <2>1. CASE BelieveRefusals /\ job' = [job EXCEPT !.presence = "Present"]
    <3>1. job'.adds = job.adds
      BY <1>0, <2>1 DEF IsJob
    <3>. QED
      BY <1>2, <2>1, <3>1
  <2>. QED
    BY <1>1, <1>7, <2>1 DEF AskPresenceAgain
<1>. QED
  BY <1>4, <1>5, <1>6, <1>7

\* Every step keeps the allowance.
LEMMA AllowNext == TypeInv /\ AllowInv /\ [Next]_vars => AllowInv'
<1>. SUFFICES ASSUME TypeInv, AllowInv, [Next]_vars PROVE AllowInv'
  OBVIOUS
<1>0. TypeOK /\ IsRun(run) /\ IsJob(job)
  BY DEF TypeInv, TypeOK
<1>1. CASE \/ TimerStarts \/ OperatorStarts \/ PullUnsafe \/ Crash
           \/ ReadStatuses \/ ReportDesiredOnly \/ EndRun \/ EndDryRun
  <2>1. pc' \in Opening
    BY <1>1 DEF TimerStarts, OperatorStarts, Begin, PullUnsafe, Crash, Stop,
                ReadStatuses, ReportDesiredOnly, EndRun, EndDryRun, Opening
  <2>. QED
    BY <2>1 DEF AllowInv, Opening
<1>2. CASE ReadAudiences
  <2>1. job' = NoJob /\ pc' = "groups"
    BY <1>2, NothingFound DEF ReadAudiences, Working
  <2>2. /\ run'.snap = run.snap /\ run'.lapsed = Lapsed(run.snap)
        /\ run'.slots = RetriesPerRun
    BY <1>0, <1>2 DEF ReadAudiences, IsRun
  <2>3. Cardinality(Lapsed(run'.snap) \ run'.lapsed) = 0
    <3>1. Lapsed(run'.snap) \ run'.lapsed = {}
      BY <2>2
    <3>. QED
      BY <3>1, FS_EmptySet, Zenon
  <2>4. job'.adds = {}
    BY <2>1 DEF NoJob
  <2>. QED
    BY <2>1, <2>2, <2>3, <2>4, SweepAssumption DEF AllowInv
<1>3. CASE ListFails
  <2>1. /\ run'.snap = run.snap /\ run'.lapsed = run.lapsed /\ run'.slots = run.slots
        /\ job' = job /\ pc' = pc /\ pc = "groups"
    BY <1>0, <1>3 DEF ListFails, IsRun
  <2>. QED
    BY <2>1, AllowCarried DEF Opening
<1>4. CASE ListAndPlan
  BY <1>4, AllowPlan
<1>5. CASE RecheckPlan
  <2>. DEFINE plan == Recheck(job.plan, DesiredForGroup(job.group))
  <2>1. plan.adds \subseteq job.plan.adds
    BY <1>0, RecheckFacts DEF IsJob
  <2>2. /\ job' = [job EXCEPT !.plan = plan, !.adds = plan.adds,
                              !.removes = plan.removes]
        /\ run' = run /\ pc' = "adding" /\ pc = "recheck"
    BY <1>5 DEF RecheckPlan
  <2>. HIDE DEF plan
  <2>3. job'.adds = plan.adds
    BY <1>0, <2>2 DEF IsJob
  <2>. QED
    BY <2>1, <2>2, <2>3 DEF AllowInv, Opening
<1>6. CASE OfferAdd \/ AskPresence \/ AddsSettled \/ AskPresenceAgain
  BY <1>6, AllowAdding
<1>7. CASE SendRemove
  <2>1. PICK a \in job.removes : \E t, n :
          job' = [job EXCEPT !.removes = @ \ {a}, !.tally = t,
                             !.removesConverged = n]
    BY <1>7 DEF SendRemove
  <2>2. job'.adds = job.adds
    BY <1>0, <2>1 DEF IsJob
  <2>3. pc' = pc /\ pc = "removing" /\ run' = run
    BY <1>7 DEF SendRemove
  <2>. QED
    BY <2>2, <2>3, AllowCarried DEF Opening
<1>8. CASE FinishGroup
  <2>1. PICK o : run' = [run EXCEPT !.todo = @ \ {job.group},
                                    !.outcome[job.group] = o]
    BY <1>8 DEF FinishGroup
  <2>2. run'.snap = run.snap /\ run'.lapsed = run.lapsed /\ run'.slots = run.slots
    BY <1>0, <2>1 DEF IsRun
  <2>3. pc' = "groups" /\ pc = "removing" /\ job'.adds = {}
    BY <1>8 DEF FinishGroup, NoJob
  <2>. QED
    BY <2>2, <2>3, AllowCarried DEF Opening
<1>9. CASE StartCommit \/ WriteRefusal \/ MarkLearned \/ RememberAccepted
  <2>1. /\ run' = run /\ job' = job
        /\ pc \in {"groups", "recording", "remembering"}
        /\ pc' \in {"recording", "remembering"}
    BY <1>9 DEF StartCommit, WriteRefusal, MarkLearned, RememberAccepted
  <2>. QED
    BY <2>1, AllowCarried DEF Opening
<1>10. CASE Outside \/ UNCHANGED vars
  <2>1. run' = run /\ job' = job /\ pc' = pc
    BY <1>10 DEF Outside, RecordsChange, RowChange, OutsideEdit, PanelAccepts,
                 GroupDeleted, GroupRestored, AccountChange, RefusalLapses,
                 Elsewhere, sweepVars, vars
  <2>. QED
    BY <2>1 DEF AllowInv
<1>. QED
  BY <1>1, <1>2, <1>3, <1>4, <1>5, <1>6, <1>7, <1>8, <1>9, <1>10 DEF Next, SweepStep

\* One run asks Google again about no more lapsed refusals than it has slots for, over
\* all of its groups, and offers none it withholds (plan_group, _sweep_locked).
THEOREM AllowanceKept == Spec => []RetryAllowance
<1>1. Init => TypeInv /\ AllowInv
  BY TypeInit DEF TypeInv, GroupInHand, Working, Init, AllowInv, Opening
<1>2. TypeInv /\ AllowInv /\ [Next]_vars => (TypeInv /\ AllowInv)'
  BY TypeNext, HandNext, AllowNext DEF TypeInv
<1>3. TypeInv /\ AllowInv => RetryAllowance
  <2>. SUFFICES ASSUME TypeInv, AllowInv, pc \notin Opening
                PROVE  /\ Cardinality(Lapsed(run.snap) \ run.lapsed) <= RetriesPerRun
                       /\ job.adds \cap run.lapsed = {}
    BY DEF RetryAllowance, Opening
  <2>1. Lapsed(run.snap) \ run.lapsed \in SUBSET Address
    BY LapsedType DEF TypeInv
  <2>2. Cardinality(Lapsed(run.snap) \ run.lapsed) \in Nat
    BY <2>1, AddressSets
  <2>. QED
    BY <2>2, SweepAssumption DEF AllowInv
<1>. QED
  BY <1>1, <1>2, <1>3, PTL DEF Spec

-----------------------------------------------------------------------------
(* An armed run learns little (LearnInv).                                   *)

Sweeping == {"audiences", "groups", "recheck", "adding", "asking", "removing"}

\* The addresses that are marked refused and were not when the run began.
Learnt == DOMAIN statuses.refusedAt \ DOMAIN run.snap.refusedAt

NewRefusals == News(run.refusals, Lapsed(run.snap))

\* Before the run writes down what it met it has learned nothing; what it then learns
\* is of the refusals it met, and the fuse has counted those.
LearnInv ==
    /\ pc \in Sweeping => Learnt = {}
    /\ pc = "recording" =>
          /\ commit.unwritten \subseteq run.refusals
          /\ commit.armed => Cardinality(NewRefusals) <= RefusalFuseCeiling
    /\ pc \in {"recording", "remembering"} =>
          /\ Learnt \subseteq {r.address : r \in run.refusals}
          /\ commit.armed => Learnt = {} \/ Cardinality(NewRefusals) <= RefusalFuseCeiling

\* The refusals of a run are finitely many, because each is of another address.
LEMMA RefusalsFinite ==
    ASSUME TypeInv, MetInv
    PROVE  IsFiniteSet(run.refusals)
<1>. DEFINE f == [r \in run.refusals |-> r.address]
<1>1. run.refusals \subseteq Refusal
  BY DEF TypeInv, TypeOK, IsRun
<1>2. f \in [run.refusals -> Address]
  BY <1>1 DEF Refusal
<1>3. \A r, s \in run.refusals : f[r] = f[s] => r = s
  BY DEF MetInv, RefusalMetOnce
<1>4. f \in Injection(run.refusals, Address)
  BY <1>2, <1>3 DEF Injection, IsInjective
<1>5. IsFiniteSet(Address)
  BY AddressAssumption
<1>. QED
  BY <1>4, <1>5, FS_Injection

\* A row less, or one whose refusal lapses or is overwritten, teaches nothing.
LEMMA LearnCarried ==
    ASSUME LearnInv, pc' = pc, run' = run, UNCHANGED commit,
           DOMAIN statuses'.refusedAt \subseteq DOMAIN statuses.refusedAt
    PROVE  LearnInv'
BY DEF LearnInv, Learnt, NewRefusals

LEMMA AcceptedDomain ==
    ASSUME NEW st, NEW a
    PROVE  DOMAIN RecordAccepted(st, a).refusedAt = DOMAIN st.refusedAt \ {a}
BY DEF RecordAccepted, Ranked

\* Offering adds keeps the statuses the run began with.
LEMMA AddingSnap ==
    ASSUME TypeInv, OfferAdd \/ AskPresence \/ AddsSettled \/ AskPresenceAgain
    PROVE  run'.snap = run.snap
<1>0. /\ job.group \in Group /\ TypeOK /\ IsRun(run)
      /\ \A a \in FirstOf(job.adds) : a \in Address
  BY GroupInHandType
     DEF OfferAdd, AskPresence, AddsSettled, AskPresenceAgain, Working, TypeInv,
         TypeOK, FirstOf, IsJob
<1>1. ASSUME NEW a \in Address, NEW o, run' = Learned(run, a, o)
      PROVE  run'.snap = run.snap
  BY <1>0, <1>1, LearnedFacts
<1>2. ASSUME Abandon PROVE run'.snap = run.snap
  BY <1>0, <1>2, AbandonFacts
<1>3. ASSUME BelieveRefusals PROVE run'.snap = run.snap
  BY <1>0, <1>3 DEF BelieveRefusals, IsRun
<1>4. CASE OfferAdd
  <2>1. PICK a \in FirstOf(job.adds), o \in SyncOutcome :
           run' = run \/ run' = Learned(run, a, o)
    BY <1>4, OfferAddCases
  <2>. QED
    BY <1>0, <1>1, <2>1
<1>5. CASE AskPresence
  <2>1. PICK a \in FirstOf(job.adds) :
           Abandon \/ run' = run \/ run' = Learned(run, a, "AddressNotFound")
    BY <1>5 DEF AskPresence
  <2>. QED
    BY <1>0, <1>1, <1>2, <2>1
<1>. QED
  BY <1>2, <1>3, <1>4, <1>5 DEF AddsSettled, AskPresenceAgain

\* The close of a run, step by step.
LEMMA LearnClosing ==
    ASSUME TypeInv, MetInv, LearnInv,
           StartCommit \/ WriteRefusal \/ MarkLearned \/ RememberAccepted
    PROVE  LearnInv'
<1>0. TypeOK /\ IsRun(run) /\ commit \in Commit /\ IsStatuses(statuses)
  BY DEF TypeInv, TypeOK
<1>1. CASE StartCommit
  <2>. DEFINE blown == RefusalFuse(learned, run.refusals, Lapsed(run.snap))
              unwritten == IF blown THEN {} ELSE run.refusals
              unremembered == IF blown THEN ToRemember ELSE {}
  <2>1. /\ commit' = [NoCommit EXCEPT !.armed = learned, !.fuseRefused = blown,
                                      !.unwritten = unwritten,
                                      !.unremembered = unremembered]
        /\ pc = "groups" /\ pc' \in {"recording", "remembering"}
        /\ run' = run /\ statuses' = statuses
    BY <1>1 DEF StartCommit, statusVars
  <2>2. unwritten \subseteq run.refusals
    OBVIOUS
  <2>. HIDE DEF blown, unwritten, unremembered
  <2>3. commit'.unwritten = unwritten
    BY <2>1 DEF NoCommit
  <2>4. Learnt' = {}
    BY <2>1 DEF LearnInv, Learnt, Sweeping
  <2>5. commit'.armed = learned /\ (pc' = "recording" => ~ blown)
    BY <1>1, <2>1 DEF StartCommit, NoCommit, blown
  <2>6. NewRefusals' = NewRefusals /\ Cardinality(NewRefusals) \in Nat
    <3>1. NewRefusals \in SUBSET run.refusals
      BY DEF NewRefusals, News
    <3>. QED
      BY <2>1, <3>1, RefusalsFinite, FS_Subset, FS_CardinalityType DEF NewRefusals
  <2>7. learned /\ ~ blown => Cardinality(NewRefusals) <= RefusalFuseCeiling
    BY <2>6, SweepAssumption DEF blown, RefusalFuse, NewRefusals
  <2>. QED
    BY <2>1, <2>2, <2>3, <2>4, <2>5, <2>6, <2>7 DEF LearnInv, Sweeping
<1>2. CASE WriteRefusal
  <2>1. PICK r \in commit.unwritten :
           /\ commit'.unwritten = commit.unwritten \ {r}
           /\ commit'.armed = commit.armed
           /\ statuses' = statuses \/ statuses' = RecordRefused(statuses, r.address)
    BY <1>0, <1>2 DEF WriteRefusal, Commit
  <2>2. pc = "recording" /\ pc' = "recording" /\ run' = run
    BY <1>2 DEF WriteRefusal
  <2>3. r \in run.refusals /\ r.address \in Address
    BY <1>0, <2>2 DEF LearnInv, IsRun, Refusal
  <2>4. Learnt' \subseteq Learnt \cup {r.address}
    BY <1>0, <2>1, <2>2, <2>3, RecordRefusedType DEF Learnt
  <2>5. Learnt' \subseteq {s.address : s \in run'.refusals}
    BY <2>2, <2>3, <2>4 DEF LearnInv
  <2>. QED
    BY <2>1, <2>2, <2>5 DEF LearnInv, Sweeping, NewRefusals
<1>3. CASE MarkLearned
  <2>1. /\ pc = "recording" /\ pc' = "remembering" /\ run' = run /\ statuses' = statuses
        /\ commit'.armed = commit.armed
    BY <1>0, <1>3 DEF MarkLearned, Commit
  <2>. QED
    BY <2>1 DEF LearnInv, Learnt, NewRefusals, Sweeping
<1>4. CASE RememberAccepted
  <2>1. /\ pc = "remembering" /\ pc' = "remembering" /\ run' = run
        /\ commit'.armed = commit.armed
    BY <1>0, <1>4 DEF RememberAccepted, Commit
  <2>2. DOMAIN statuses'.refusedAt \subseteq DOMAIN statuses.refusedAt
    <3>1. PICK a : statuses' = statuses \/ statuses' = RecordAccepted(statuses, a)
      BY <1>4 DEF RememberAccepted
    <3>. QED
      BY <3>1, AcceptedDomain
  <2>. QED
    BY <2>1, <2>2 DEF LearnInv, Learnt, NewRefusals, Sweeping
<1>. QED
  BY <1>1, <1>2, <1>3, <1>4

LEMMA LearnNext == TypeInv /\ Cleared /\ MetInv /\ LearnInv /\ [Next]_vars => LearnInv'
<1>. SUFFICES ASSUME TypeInv, MetInv, LearnInv, [Next]_vars PROVE LearnInv'
  OBVIOUS
<1>0. TypeOK /\ IsRun(run) /\ IsJob(job)
  BY DEF TypeInv, TypeOK
<1>. USE DEF statusVars
<1>1. CASE \/ TimerStarts \/ OperatorStarts \/ PullUnsafe \/ Crash
           \/ ReportDesiredOnly \/ EndRun \/ EndDryRun
  <2>1. pc' \in {"idle", "pull"}
    BY <1>1 DEF TimerStarts, OperatorStarts, Begin, PullUnsafe, Crash, Stop,
                ReportDesiredOnly, EndRun, EndDryRun
  <2>. QED
    BY <2>1 DEF LearnInv, Sweeping
<1>2. CASE ReadStatuses
  <2>1. pc' = "audiences" /\ run'.snap = statuses /\ statuses' = statuses
    BY <1>0, <1>2 DEF ReadStatuses, IsRun
  <2>. QED
    BY <2>1 DEF LearnInv, Learnt
<1>3. CASE \/ ReadAudiences \/ ListFails \/ ListAndPlan \/ RecheckPlan \/ OfferAdd
           \/ AskPresence \/ AddsSettled \/ AskPresenceAgain \/ SendRemove
           \/ FinishGroup
  <2>1. pc \in Sweeping /\ pc' \in Sweeping
    BY <1>3 DEF ReadAudiences, ListFails, ListAndPlan, RecheckPlan, OfferAdd,
                AskPresence, AddsSettled, AskPresenceAgain, SendRemove,
                FinishGroup, Abandon, BelieveRefusals, Sweeping
  <2>2. statuses' = statuses
    BY <1>3 DEF ReadAudiences, ListFails, ListAndPlan, RecheckPlan, OfferAdd,
                AskPresence, AddsSettled, AskPresenceAgain, SendRemove, FinishGroup
  <2>3. run'.snap = run.snap
    <3>1. CASE ReadAudiences \/ ListFails
      BY <1>0, <3>1 DEF ReadAudiences, ListFails, IsRun
    <3>2. CASE ListAndPlan
      <4>1. PICK g \in FirstOf(run.todo) : \E plan :
              run' = [run EXCEPT
                       !.lapsed = @ \ plan.retried,
                       !.slots = @ - Cardinality(plan.retried),
                       !.todo = IF PlansSomething(plan) THEN @ ELSE @ \ {g},
                       !.outcome[g] = [NoOutcome EXCEPT !.refused = plan.refused]]
        BY <3>2 DEF ListAndPlan
      <4>2. PICK plan :
              run' = [run EXCEPT
                       !.lapsed = @ \ plan.retried,
                       !.slots = @ - Cardinality(plan.retried),
                       !.todo = IF PlansSomething(plan) THEN @ ELSE @ \ {g},
                       !.outcome[g] = [NoOutcome EXCEPT !.refused = plan.refused]]
        BY <4>1
      <4>. QED
        BY <1>0, <4>2 DEF IsRun
    <3>3. CASE RecheckPlan \/ SendRemove
      BY <3>3 DEF RecheckPlan, SendRemove
    <3>4. CASE OfferAdd \/ AskPresence \/ AddsSettled \/ AskPresenceAgain
      BY <3>4, AddingSnap
    <3>5. CASE FinishGroup
      <4>1. PICK o : run' = [run EXCEPT !.todo = @ \ {job.group},
                                        !.outcome[job.group] = o]
        BY <3>5 DEF FinishGroup
      <4>. QED
        BY <1>0, <4>1 DEF IsRun
    <3>. QED
      BY <1>3, <3>1, <3>2, <3>3, <3>4, <3>5
  <2>. QED
    BY <2>1, <2>2, <2>3 DEF LearnInv, Learnt, Sweeping
<1>4. CASE StartCommit \/ WriteRefusal \/ MarkLearned \/ RememberAccepted
  BY <1>4, LearnClosing
<1>5. CASE Outside \/ UNCHANGED vars
  <2>1. run' = run /\ commit' = commit /\ pc' = pc
    BY <1>5 DEF Outside, RecordsChange, RowChange, OutsideEdit, PanelAccepts,
                GroupDeleted, GroupRestored, AccountChange, RefusalLapses,
                Elsewhere, sweepVars, vars
  <2>2. DOMAIN statuses'.refusedAt \subseteq DOMAIN statuses.refusedAt
    <3>1. CASE PanelAccepts
      BY <3>1, AcceptedDomain DEF PanelAccepts
    <3>2. CASE RefusalLapses
      <4>1. PICK a : statuses' = [statuses EXCEPT !.live = @ \ {a}]
        BY <3>2 DEF RefusalLapses
      <4>. QED
        BY <4>1 DEF TypeInv, TypeOK, IsStatuses
    <3>3. CASE ~ PanelAccepts /\ ~ RefusalLapses
      BY <1>5, <3>3 DEF Outside, RecordsChange, RowChange, OutsideEdit,
                  GroupDeleted, GroupRestored, AccountChange, vars
    <3>. QED
      BY <3>1, <3>2, <3>3
  <2>. QED
    BY <2>1, <2>2, LearnCarried
<1>. QED
  BY <1>1, <1>2, <1>3, <1>4, <1>5 DEF Next, SweepStep

\* Once the first cohort is learned, a run marks no more addresses refused than the
\* ceiling that were not when it began (commit_refusals).
THEOREM LearnsLittle == Spec => []ArmedRunLearnsLittle
<1>1. Init => TypeInv /\ Cleared /\ MetInv /\ LearnInv
  <2>. SUFFICES ASSUME Init PROVE TypeInv /\ Cleared /\ MetInv /\ LearnInv
    OBVIOUS
  <2>1. run.refusals = {} /\ job.found = {} /\ pc = "idle"
    BY DEF Init, NoRun, NoJob
  <2>2. TypeInv
    BY TypeInit DEF TypeInv, GroupInHand, Working, Init
  <2>. QED
    BY <2>1, <2>2 DEF Cleared, MetInv, RefusalMetOnce, LearnInv, Sweeping
<1>2. TypeInv /\ Cleared /\ MetInv /\ LearnInv /\ [Next]_vars
        => (TypeInv /\ Cleared /\ MetInv /\ LearnInv)'
  BY TypeNext, HandNext, ClearedNext, MetNext, LearnNext DEF TypeInv
<1>3. TypeInv /\ MetInv /\ LearnInv => ArmedRunLearnsLittle
  <2>. SUFFICES ASSUME TypeInv, MetInv, LearnInv,
                       pc \in {"recording", "remembering"}, commit.armed
                PROVE  Cardinality(Learnt) <= RefusalFuseCeiling
    BY DEF ArmedRunLearnsLittle, Learnt
  <2>1. CASE Learnt = {}
    <3>1. Cardinality(Learnt) = 0
      BY <2>1, FS_EmptySet, Zenon
    <3>. QED
      BY <3>1, SweepAssumption
  <2>2. CASE Learnt # {}
    <3>. DEFINE image == {r.address : r \in NewRefusals}
                f == [r \in NewRefusals |-> r.address]
    <3>1. NewRefusals \in SUBSET run.refusals
      BY DEF NewRefusals, News
    <3>2. IsFiniteSet(NewRefusals) /\ Cardinality(NewRefusals) \in Nat
      BY <3>1, RefusalsFinite, FS_Subset, FS_CardinalityType
    <3>3. f \in Surjection(NewRefusals, image)
      BY DEF Surjection
    <3>4. IsFiniteSet(image) /\ Cardinality(image) <= Cardinality(NewRefusals)
      BY <3>2, <3>3, FS_Surjection
    <3>5. Learnt \in SUBSET image
      BY DEF LearnInv, Learnt, NewRefusals, News, Lapsed
    <3>. HIDE DEF image
    <3>6. Cardinality(Learnt) <= Cardinality(image) /\ IsFiniteSet(Learnt)
      BY <3>4, <3>5, FS_Subset
    <3>7. Cardinality(Learnt) \in Nat /\ Cardinality(image) \in Nat
      BY <3>4, <3>6, FS_CardinalityType
    <3>8. Cardinality(NewRefusals) <= RefusalFuseCeiling
      BY <2>2 DEF LearnInv
    <3>. QED
      BY <3>2, <3>4, <3>6, <3>7, <3>8, SweepAssumption
  <2>. QED
    BY <2>1, <2>2
<1>. QED
  BY <1>1, <1>2, <1>3, PTL DEF Spec

-----------------------------------------------------------------------------
(* A group's columns add up (CountInv).                                     *)

\* How many operations a tally has counted.
TallySum(t) == SettledCount(t) + t["Failed"]

\* What a group has tallied and what it has still to do are together what it planned.
CountInv ==
    /\ pc = "recheck" => job.tally = NoTally
    /\ pc \in {"adding", "asking"} =>
          /\ job.removes = job.plan.removes
          /\ TallySum(job.tally) + Cardinality(job.adds) = Cardinality(job.plan.adds)
    /\ pc = "removing" =>
          TallySum(job.tally) + Cardinality(job.removes)
             = Cardinality(job.plan.adds) + Cardinality(job.plan.removes)

LEMMA TallySumType ==
    ASSUME NEW t \in Tally
    PROVE  TallySum(t) \in Nat /\ SettledCount(t) \in Nat /\ t["Failed"] \in Nat
<1>1. \A o \in SyncOutcome : t[o] \in Nat
  BY DEF Tally
<1>. QED
  BY <1>1 DEF TallySum, SettledCount, SyncOutcome

\* One more operation is one more in the sum, and a failure stays counted.
LEMMA TallySumStep ==
    ASSUME NEW t \in Tally, NEW o \in SyncOutcome, NEW u, u = Tallied(t, o)
    PROVE  /\ TallySum(u) = TallySum(t) + 1
           /\ u["Failed"] >= t["Failed"]
           /\ o = "Failed" => u["Failed"] > 0
<1>1. \A x \in SyncOutcome : t[x] \in Nat /\ u[x] = IF x = o THEN t[x] + 1 ELSE t[x]
  BY DEF Tallied, Tally
<1>2. \/ o = "Applied" \/ o = "SkippedExampleEmail" \/ o = "SkippedDryRun"
      \/ o = "AlreadyConverged" \/ o = "NoGoogleAccount" \/ o = "AddressNotFound"
      \/ o = "Failed"
  BY DEF SyncOutcome
<1>3. "Failed" \in SyncOutcome
  BY DEF SyncOutcome
<1>4. u["Failed"] >= t["Failed"] /\ (o = "Failed" => u["Failed"] > 0)
  BY <1>1, <1>3
<1>5. TallySum(u) = TallySum(t) + 1
  BY <1>1, <1>2 DEF TallySum, SettledCount, SyncOutcome
<1>. QED
  BY <1>4, <1>5

\* Taking one address out of a set of them.
LEMMA OneLess ==
    ASSUME NEW S \in SUBSET Address, NEW a \in S
    PROVE  Cardinality(S \ {a}) \in Nat /\ Cardinality(S) = Cardinality(S \ {a}) + 1
<1>1. IsFiniteSet(S) /\ Cardinality(S) \in Nat
  BY AddressSets
<1>2. Cardinality(S \ {a}) = Cardinality(S) - 1
  BY <1>1, FS_RemoveElement
<1>3. S \ {a} \in SUBSET Address
  OBVIOUS
<1>4. Cardinality(S \ {a}) \in Nat
  BY <1>3, AddressSets
<1>. QED
  BY <1>1, <1>2, <1>4

LEMMA SettledTally ==
    ASSUME NEW j, IsJob(j), NEW a, NEW o, NEW k, k = Settled(j, a, o)
    PROVE  k.tally = Tallied(j.tally, o)
BY DEF Settled, IsJob

LEMMA UnreadableTally ==
    ASSUME NEW j, IsJob(j), NEW a, NEW k, k = Unreadable(j, a)
    PROVE  k.tally = Tallied(j.tally, "Failed")
BY DEF Unreadable, IsJob

\* An add that is over is one more in the tally and one less to do.
LEMMA CountOne ==
    ASSUME NEW j, IsJob(j), NEW k, IsJob(k), NEW a \in j.adds, NEW o \in SyncOutcome,
           k.adds = j.adds \ {a}, k.plan = j.plan, k.removes = j.removes,
           k.tally = Tallied(j.tally, o),
           j.removes = j.plan.removes,
           TallySum(j.tally) + Cardinality(j.adds) = Cardinality(j.plan.adds)
    PROVE  /\ k.removes = k.plan.removes
           /\ TallySum(k.tally) + Cardinality(k.adds) = Cardinality(k.plan.adds)
<1>1. j.adds \in SUBSET Address /\ j.tally \in Tally
  BY DEF IsJob
<1>2. /\ Cardinality(k.adds) \in Nat
      /\ Cardinality(j.adds) = Cardinality(k.adds) + 1
  BY <1>1, OneLess
<1>3. TallySum(k.tally) = TallySum(j.tally) + 1 /\ TallySum(j.tally) \in Nat
  BY <1>1, TallySumStep, TallySumType
<1>. QED
  BY <1>2, <1>3

LEMMA NothingCounted == TallySum(NoTally) = 0
BY DEF NoTally, TallySum, SettledCount, SyncOutcome

LEMMA CountAdding ==
    ASSUME TypeInv, CountInv,
           OfferAdd \/ AskPresence \/ AddsSettled \/ AskPresenceAgain
    PROVE  CountInv'
<1>0. /\ pc \in {"adding", "asking"} /\ job.group \in Group
      /\ TypeOK /\ IsJob(job) /\ IsRun(run)
      /\ \A a \in FirstOf(job.adds) : a \in Address /\ a \in job.adds
  BY GroupInHandType
     DEF OfferAdd, AskPresence, AddsSettled, AskPresenceAgain, Working, TypeInv,
         TypeOK, FirstOf, IsJob
<1>1. /\ job.removes = job.plan.removes
      /\ TallySum(job.tally) + Cardinality(job.adds) = Cardinality(job.plan.adds)
  BY <1>0 DEF CountInv
<1>2. ASSUME Abandon PROVE CountInv'
  BY <1>2 DEF Abandon, CountInv
<1>3. ASSUME BelieveRefusals, job.adds = {}, job'.tally = job.tally,
             job'.removes = job.removes, job'.plan = job.plan
      PROVE  CountInv'
  <2>1. Cardinality(job.adds) = 0
    BY <1>3, FS_EmptySet, Zenon
  <2>2. TallySum(job.tally) \in Nat
    BY <1>0, TallySumType DEF IsJob
  <2>3. TallySum(job.tally) = Cardinality(job.plan.adds)
    BY <1>1, <2>1, <2>2
  <2>4. pc' = "removing"
    BY <1>3 DEF BelieveRefusals
  <2>5. TallySum(job'.tally) + Cardinality(job'.removes)
             = Cardinality(job'.plan.adds) + Cardinality(job'.plan.removes)
    BY <1>1, <1>3, <2>3
  <2>. QED
    BY <2>4, <2>5 DEF CountInv
<1>4. ASSUME NEW j, IsJob(j), j.group \in Group, j.adds = job.adds, j.plan = job.plan,
             j.removes = job.removes, j.tally = job.tally,
             NEW a \in job.adds, NEW o \in SyncOutcome, pc' = "adding",
             job' = Unreadable(j, a) \/ job' = Settled(j, a, o)
      PROVE  CountInv'
  <2>0. a \in Address /\ "Failed" \in SyncOutcome
    BY <1>0, <1>4 DEF IsJob, SyncOutcome
  <2>1. IsJob(job') /\ job'.adds = j.adds \ {a} /\ job'.plan = j.plan
        /\ job'.removes = j.removes
    BY <1>4, <2>0, UnreadableFacts, SettledKeeps
  <2>2. job'.tally = Tallied(j.tally, o) \/ job'.tally = Tallied(j.tally, "Failed")
    BY <1>4, UnreadableTally, SettledTally
  <2>3. /\ job'.removes = job'.plan.removes
        /\ TallySum(job'.tally) + Cardinality(job'.adds) = Cardinality(job'.plan.adds)
    BY <1>1, <1>4, <2>0, <2>1, <2>2, CountOne
  <2>. QED
    BY <1>4, <2>3 DEF CountInv
<1>5. CASE OfferAdd
  <2>1. PICK a \in FirstOf(job.adds), o \in SyncOutcome :
           \/ pc' = "asking" /\ job' = job
           \/ pc' = "adding" /\ job' = Unreadable(job, a)
           \/ pc' = "adding" /\ job' = Settled(job, a, o)
    BY <1>5, OfferAddCases
  <2>2. CASE pc' = "asking" /\ job' = job
    BY <1>1, <2>2 DEF CountInv
  <2>3. CASE pc' = "adding" /\ (job' = Unreadable(job, a) \/ job' = Settled(job, a, o))
    BY <1>0, <1>4, <2>3
  <2>. QED
    BY <2>1, <2>2, <2>3
<1>6. CASE AskPresence
  <2>1. PICK a \in FirstOf(job.adds), p \in {"Present", "Gone", "Unknown"} :
           \/ Abandon
           \/ pc' = "adding" /\ job' = Unreadable([job EXCEPT !.presence = p], a)
           \/ /\ pc' = "adding"
              /\ job' = Settled([job EXCEPT !.presence = p], a, "AddressNotFound")
    BY <1>6 DEF AskPresence
  <2>. DEFINE asked == [job EXCEPT !.presence = p]
  <2>2. /\ IsJob(asked) /\ asked.group = job.group /\ asked.adds = job.adds
        /\ asked.plan = job.plan /\ asked.removes = job.removes
        /\ asked.tally = job.tally
    BY <1>0 DEF IsJob
  <2>. HIDE DEF asked
  <2>3. "AddressNotFound" \in SyncOutcome
    BY DEF SyncOutcome
  <2>4. CASE pc' = "adding" /\ (\/ job' = Unreadable(asked, a)
                                \/ job' = Settled(asked, a, "AddressNotFound"))
    BY <1>0, <1>4, <2>2, <2>3, <2>4
  <2>. QED
    BY <1>2, <2>1, <2>4 DEF asked
<1>7. CASE AddsSettled
  BY <1>3, <1>7 DEF AddsSettled
<1>8. CASE AskPresenceAgain
  <2>1. CASE BelieveRefusals /\ job' = [job EXCEPT !.presence = "Present"]
    <3>1. job'.tally = job.tally /\ job'.removes = job.removes /\ job'.plan = job.plan
      BY <1>0, <2>1 DEF IsJob
    <3>. QED
      BY <1>3, <1>8, <2>1, <3>1 DEF AskPresenceAgain
  <2>. QED
    BY <1>2, <1>8, <2>1 DEF AskPresenceAgain
<1>. QED
  BY <1>5, <1>6, <1>7, <1>8

\* What one removal does to the job.
LEMMA SendRemoveJob ==
    ASSUME TypeInv, SendRemove
    PROVE  \E a \in job.removes, o \in SyncOutcome :
              /\ \E reply \in Gated(a, DeleteReplies(job.group, a)).sound
                        \cup Gated(a, DeleteReplies(job.group, a)).faulty :
                    /\ o = reply.outcome
                    /\ entries' = IF reply.landed
                                  THEN [entries EXCEPT ![job.group][a] = "absent"]
                                  ELSE entries
              /\ job'.removes = job.removes \ {a}
              /\ job'.tally = Tallied(job.tally, o)
              /\ job'.plan = job.plan /\ job'.adds = job.adds
              /\ job'.group = job.group
<1>0. IsJob(job)
  BY DEF TypeInv, TypeOK
<1>1. PICK a \in job.removes :
        \E reply \in Gated(a, DeleteReplies(job.group, a)).sound
                     \cup Gated(a, DeleteReplies(job.group, a)).faulty :
          /\ entries' = IF reply.landed
                        THEN [entries EXCEPT ![job.group][a] = "absent"]
                        ELSE entries
          /\ job' = [job EXCEPT
                       !.removes = @ \ {a},
                       !.tally   = Tallied(@, reply.outcome),
                       !.removesConverged =
                           IF reply.outcome = "AlreadyConverged"
                           THEN @ + 1 ELSE @]
  BY DEF SendRemove
<1>2. PICK reply \in Gated(a, DeleteReplies(job.group, a)).sound
                     \cup Gated(a, DeleteReplies(job.group, a)).faulty :
          /\ entries' = IF reply.landed
                        THEN [entries EXCEPT ![job.group][a] = "absent"]
                        ELSE entries
          /\ job' = [job EXCEPT
                       !.removes = @ \ {a},
                       !.tally   = Tallied(@, reply.outcome),
                       !.removesConverged =
                           IF reply.outcome = "AlreadyConverged"
                           THEN @ + 1 ELSE @]
  BY <1>1
<1>3. reply.outcome \in SyncOutcome
  BY RepliesType
<1>4. /\ job'.removes = job.removes \ {a}
      /\ job'.tally = Tallied(job.tally, reply.outcome)
      /\ job'.plan = job.plan /\ job'.adds = job.adds /\ job'.group = job.group
  BY <1>0, <1>2 DEF IsJob
<1>. QED
  BY <1>2, <1>3, <1>4

LEMMA CountNext == TypeInv /\ CountInv /\ [Next]_vars => CountInv'
<1>. SUFFICES ASSUME TypeInv, CountInv, [Next]_vars PROVE CountInv'
  OBVIOUS
<1>0. TypeOK /\ IsRun(run) /\ IsJob(job)
  BY DEF TypeInv, TypeOK
<1>1. CASE \/ TimerStarts \/ OperatorStarts \/ PullUnsafe \/ Crash \/ ReadStatuses
           \/ ReadAudiences \/ ReportDesiredOnly \/ ListFails \/ FinishGroup
           \/ StartCommit \/ WriteRefusal \/ MarkLearned \/ RememberAccepted
           \/ EndRun \/ EndDryRun
  <2>1. pc' \in {"idle", "pull", "audiences", "groups", "recording", "remembering"}
    BY <1>1 DEF TimerStarts, OperatorStarts, Begin, PullUnsafe, Crash, Stop,
                ReadStatuses, ReadAudiences, ReportDesiredOnly, ListFails, FinishGroup,
                StartCommit, WriteRefusal, MarkLearned, RememberAccepted, EndRun, EndDryRun
  <2>. QED
    BY <2>1 DEF CountInv
<1>2. CASE ListAndPlan
  <2>1. pc' \in {"recheck", "groups"} /\ job'.tally = NoTally
    <3>1. NoJob.tally = NoTally
      BY DEF NoJob
    <3>2. \A g, e, p :
             [NoJob EXCEPT !.group = g, !.actual = e, !.plan = p].tally = NoTally
      BY DEF NoJob
    <3>. QED
      BY <1>2, <3>1, <3>2 DEF ListAndPlan
  <2>. QED
    BY <2>1 DEF CountInv
<1>3. CASE RecheckPlan
  <2>. DEFINE plan == Recheck(job.plan, DesiredForGroup(job.group))
  <2>1. plan \in GroupPlan
    BY <1>0, RecheckFacts DEF IsJob
  <2>2. /\ job' = [job EXCEPT !.plan = plan, !.adds = plan.adds,
                              !.removes = plan.removes]
        /\ pc' = "adding" /\ pc = "recheck"
    BY <1>3 DEF RecheckPlan
  <2>. HIDE DEF plan
  <2>3. /\ job'.adds = plan.adds /\ job'.removes = plan.removes /\ job'.plan = plan
        /\ job'.tally = job.tally
    BY <1>0, <2>2 DEF IsJob
  <2>4. TallySum(job'.tally) = 0
    BY <2>2, <2>3, NothingCounted DEF CountInv
  <2>5. Cardinality(plan.adds) \in Nat
    BY <2>1, AddressSets DEF GroupPlan
  <2>. QED
    BY <2>2, <2>3, <2>4, <2>5 DEF CountInv
<1>4. CASE OfferAdd \/ AskPresence \/ AddsSettled \/ AskPresenceAgain
  BY <1>4, CountAdding
<1>5. CASE SendRemove
  <2>1. PICK a \in job.removes, o \in SyncOutcome :
           /\ job'.removes = job.removes \ {a} /\ job'.tally = Tallied(job.tally, o)
           /\ job'.plan = job.plan
    BY <1>5, SendRemoveJob
  <2>2. pc = "removing" /\ pc' = "removing"
    BY <1>5 DEF SendRemove
  <2>3. /\ Cardinality(job'.removes) \in Nat
        /\ Cardinality(job.removes) = Cardinality(job'.removes) + 1
    BY <1>0, <2>1, OneLess DEF IsJob
  <2>4. TallySum(job'.tally) = TallySum(job.tally) + 1 /\ TallySum(job.tally) \in Nat
    BY <1>0, <2>1, TallySumStep, TallySumType DEF IsJob
  <2>5. TallySum(job'.tally) + Cardinality(job'.removes)
          = TallySum(job.tally) + Cardinality(job.removes)
    BY <2>3, <2>4
  <2>. QED
    BY <2>1, <2>2, <2>5 DEF CountInv
<1>6. CASE Outside \/ UNCHANGED vars
  <2>1. job' = job /\ pc' = pc
    BY <1>6 DEF Outside, RecordsChange, RowChange, OutsideEdit, PanelAccepts,
                GroupDeleted, GroupRestored, AccountChange, RefusalLapses,
                Elsewhere, sweepVars, vars
  <2>. QED
    BY <2>1 DEF CountInv
<1>. QED
  BY <1>1, <1>2, <1>3, <1>4, <1>5, <1>6 DEF Next, SweepStep

\* What a group that is left writes into the report.
LEMMA LeftOutcome ==
    ASSUME TypeInv, pc \in Working, NEW o,
           run' = [run EXCEPT !.todo = @ \ {job.group}, !.outcome[job.group] = o]
    PROVE  /\ run'.outcome[job.group] = o
           /\ \A g \in Group : g # job.group => run'.outcome[g] = run.outcome[g]
           /\ run'.todo = run.todo \ {job.group}
           /\ run'.mode = run.mode /\ run'.snap = run.snap /\ run'.wanted = run.wanted
           /\ run'.unmirrorable = run.unmirrorable /\ run'.lapsed = run.lapsed
           /\ run'.slots = run.slots
<1>1. IsRun(run) /\ job.group \in Group
  BY GroupInHandType DEF TypeInv, TypeOK
<1>2. run' = [mode |-> run.mode, snap |-> run.snap, wanted |-> run.wanted,
              todo |-> run.todo \ {job.group}, unmirrorable |-> run.unmirrorable,
              lapsed |-> run.lapsed, slots |-> run.slots,
              refusals |-> run.refusals, accepted |-> run.accepted,
              outcome |-> [run.outcome EXCEPT ![job.group] = o]]
  BY <1>1 DEF IsRun
<1>3. run.outcome \in [Group -> Outcome]
  BY <1>1 DEF IsRun
<1>. QED
  BY <1>1, <1>2, <1>3

\* The plan's sizes and the tally's counts are numbers.
LEMMA JobNumbers ==
    ASSUME NEW j, IsJob(j)
    PROVE  /\ Cardinality(j.plan.adds) \in Nat /\ Cardinality(j.plan.removes) \in Nat
           /\ j.plan.refused \in Nat
           /\ \A x \in SyncOutcome : j.tally[x] \in Nat
<1>1. j.plan.adds \in SUBSET Address /\ j.plan.removes \in SUBSET Address
      /\ j.plan.refused \in Nat
  BY DEF IsJob, GroupPlan
<1>. QED
  BY <1>1, AddressSets DEF IsJob, Tally

\* The columns of an outcome, added up.
Columns(o) == o.applied + o.converged + o.skipped + o.unmirrorable + o.failed

\* A group is left by being abandoned, with its columns adding up by their own
\* arithmetic, or by its last removal, when what it tallied is all that it planned.
LEMMA LeftReported ==
    ASSUME TypeInv, CountInv, [Next]_vars, GroupLeft
    PROVE  LET o == run'.outcome[job.group]
           IN  \/ Columns(o) = o.planned
               \/ ~up[job.group] /\ o.failed > 0
<1>0. /\ IsJob(job) /\ pc \in Working /\ pc' = "groups"
      /\ pc \in {"asking", "adding", "removing"}
  BY DEF TypeInv, TypeOK, GroupLeft, Working
<1>1. /\ Cardinality(job.plan.adds) \in Nat /\ Cardinality(job.plan.removes) \in Nat
      /\ \A x \in SyncOutcome : job.tally[x] \in Nat
  BY <1>0, JobNumbers
<1>2. CASE Abandon
  <2>. DEFINE o == AbandonedOutcome(job)
  <2>1. Columns(o) = o.planned
    BY <1>1 DEF AbandonedOutcome, Columns, SettledCount, SyncOutcome
  <2>. HIDE DEF o
  <2>2. run'.outcome[job.group] = o
    BY <1>0, <1>2, LeftOutcome DEF Abandon, o
  <2>. QED
    BY <2>1, <2>2
<1>3. CASE FinishGroup
  <2>1. PICK p \in {"Present", "Gone", "Unknown"} :
          /\ IF LooksDeleted(job) THEN PresenceAnswered(job.group, p)
                                  ELSE p = "Present" /\ UNCHANGED left
          /\ run' = [run EXCEPT
                       !.todo = @ \ {job.group},
                       !.outcome[job.group] = IF p = "Gone" THEN MissingOutcome(job)
                                                            ELSE SettledOutcome(job)]
    BY <1>3 DEF FinishGroup
  <2>2. CASE p = "Gone"
    <3>1. LooksDeleted(job) /\ ~ up[job.group]
      BY <2>1, <2>2 DEF PresenceAnswered
    <3>2. job.plan.removes \in SUBSET Address /\ job.plan.removes # {}
      BY <1>0, <3>1 DEF LooksDeleted, IsJob, GroupPlan
    <3>3. PICK a \in job.plan.removes : TRUE
      BY <3>2
    <3>4. Cardinality(job.plan.removes) > 0
      <4>1. /\ Cardinality(job.plan.removes \ {a}) \in Nat
            /\ Cardinality(job.plan.removes) = Cardinality(job.plan.removes \ {a}) + 1
        BY <3>2, OneLess
      <4>. QED
        BY <4>1
    <3>5. run' = [run EXCEPT !.todo = @ \ {job.group},
                             !.outcome[job.group] = MissingOutcome(job)]
      BY <2>1, <2>2
    <3>6. run'.outcome[job.group] = MissingOutcome(job)
      BY <1>0, <3>5, LeftOutcome
    <3>7. MissingOutcome(job).failed > 0
      BY <3>4 DEF MissingOutcome
    <3>. QED
      BY <3>1, <3>6, <3>7
  <2>3. CASE p # "Gone"
    <3>1. Cardinality(job.removes) = 0
      BY <1>3, FS_EmptySet, Zenon DEF FinishGroup
    <3>2. TallySum(job.tally) \in Nat
      BY <1>0, TallySumType DEF IsJob
    <3>3. TallySum(job.tally) = Cardinality(job.plan.adds) + Cardinality(job.plan.removes)
      BY <1>3, <3>1, <3>2 DEF CountInv, FinishGroup
    <3>4. Columns(SettledOutcome(job)) = SettledOutcome(job).planned
      BY <1>1, <3>3 DEF SettledOutcome, Columns, TallySum, SettledCount, SyncOutcome
    <3>5. run' = [run EXCEPT !.todo = @ \ {job.group},
                             !.outcome[job.group] = SettledOutcome(job)]
      BY <2>1, <2>3
    <3>6. run'.outcome[job.group] = SettledOutcome(job)
      BY <1>0, <3>5, LeftOutcome
    <3>. QED
      BY <3>4, <3>6
  <2>. QED
    BY <2>2, <2>3
<1>4. Abandon \/ FinishGroup
  <2>1. CASE OfferAdd
    <3>1. pc' \in {"asking", "adding"}
      BY <2>1, OfferAddCases
    <3>. QED
      BY <1>0, <3>1
  <2>2. CASE AskPresence
    BY <1>0, <2>2 DEF AskPresence
  <2>3. CASE AskPresenceAgain
    BY <1>0, <2>3 DEF AskPresenceAgain, BelieveRefusals
  <2>4. CASE AddsSettled \/ SendRemove
    BY <1>0, <2>4 DEF AddsSettled, BelieveRefusals, SendRemove
  <2>5. CASE \/ TimerStarts \/ OperatorStarts \/ PullUnsafe \/ Crash \/ ReadStatuses
             \/ ReadAudiences \/ ReportDesiredOnly \/ ListFails \/ ListAndPlan
             \/ RecheckPlan \/ StartCommit \/ WriteRefusal \/ MarkLearned
             \/ RememberAccepted \/ EndRun \/ EndDryRun
    BY <1>0, <2>5 DEF TimerStarts, OperatorStarts, Begin, PullUnsafe, Crash, Stop,
       ReadStatuses, ReadAudiences, ReportDesiredOnly, ListFails, ListAndPlan, RecheckPlan,
       StartCommit, WriteRefusal, MarkLearned, RememberAccepted, EndRun, EndDryRun
  <2>6. CASE Outside \/ UNCHANGED vars
    BY <1>0, <2>6 DEF Outside, RecordsChange, RowChange, OutsideEdit, PanelAccepts,
       GroupDeleted, GroupRestored, AccountChange, RefusalLapses, Elsewhere, sweepVars, vars
  <2>. QED
    BY <2>1, <2>2, <2>3, <2>4, <2>5, <2>6 DEF Next, SweepStep
<1>. QED
  BY <1>2, <1>3, <1>4

\* Every planned change is in one column of its group's outcome, also when the group is
\* given up half way, for any plans and any failures (_abandoned, _apply).
THEOREM PlannedChangesReported == Spec => EveryPlannedChangeReported
<1>1. Init => TypeInv /\ CountInv
  BY TypeInit DEF TypeInv, GroupInHand, Working, Init, CountInv
<1>2. TypeInv /\ CountInv /\ [Next]_vars => (TypeInv /\ CountInv)'
  BY TypeNext, HandNext, CountNext DEF TypeInv
<1>3. TypeInv /\ CountInv /\ [Next]_vars =>
         (GroupLeft =>
            LET o == run'.outcome[job.group]
            IN  \/ o.applied + o.converged + o.skipped + o.unmirrorable + o.failed
                     = o.planned
                \/ ~up[job.group] /\ o.failed > 0)
  BY LeftReported DEF Columns
<1>. QED
  BY <1>1, <1>2, <1>3, PTL DEF Spec, EveryPlannedChangeReported

-----------------------------------------------------------------------------
(* A green run leaves Google as the records want it (CalmInv).              *)

\* Whom a run does not offer: the refused, and the lapsed once its slots are gone.
Withheld(r, a) ==
    \/ a \in r.unmirrorable
    \/ a \in r.lapsed /\ r.slots <= 0

\* A group is as a run wants it, but for adds and removals that are still to come.
Mirrored(r, e, g, adds, removes) ==
    /\ \A a \in r.wanted[g] : e[g][a] # "absent" \/ Withheld(r, a) \/ a \in adds
    /\ \A a \in Address \ Example :
          e[g][a] = "member" => a \in r.wanted[g] \/ a \in removes

\* What makes a run red.
Red(o) == o.failed > 0 \/ o.refused > 0

\* Every group a run is through with is as it wants it, or makes it red.
DoneMirrored(r, e) ==
    \A g \in Group \ r.todo : Red(r.outcome[g]) \/ Mirrored(r, e, g, {}, {})

\* So will be the group in hand, once what is to come has come.
HandMirrored(j, r, e, adds, removes) ==
    /\ adds \subseteq r.wanted[j.group]
    /\ removes \cap r.wanted[j.group] = {}
    /\ \/ j.tally["Failed"] > 0
       \/ j.plan.refused > 0
       \/ Mirrored(r, e, j.group, adds, removes)

InHand ==
    /\ pc \in Working => up[job.group]
    /\ pc = "recheck" => HandMirrored(job, run, entries, job.plan.adds, job.plan.removes)
    /\ pc \in {"adding", "asking"} => HandMirrored(job, run, entries, job.adds, job.removes)
    /\ pc = "removing" => HandMirrored(job, run, entries, {}, job.removes)

\* What a run wants is still what the records want.
WantedNow == \A g \in Group : run.wanted[g] = DesiredForGroup(g)

\* All of it, as long as nothing outside the sweep happens and the run is not a
\* rehearsal.
CalmInv ==
    calm /\ ~ run.mode.dryRun =>
        /\ pc \notin Opening => WantedNow /\ DoneMirrored(run, entries)
        /\ InHand

\* Only a run that writes comes to its close, and only with no group left.
ClosingInv ==
    pc \in {"recording", "remembering"} => ~ run.mode.dryRun /\ run.todo = {}

\* A run that goes on withholds no fewer.
Onward(r, s) ==
    /\ s.wanted = r.wanted
    /\ \A a : Withheld(r, a) => Withheld(s, a)

LEMMA MirroredKept ==
    ASSUME NEW r, NEW s, Onward(r, s), NEW e, NEW f, NEW g, f[g] = e[g],
           NEW A, NEW R, Mirrored(r, e, g, A, R)
    PROVE  Mirrored(s, f, g, A, R)
BY DEF Mirrored, Onward

\* One group's turn leaves the groups that had theirs as they were.
LEMMA DoneKept ==
    ASSUME NEW r, NEW s, Onward(r, s), NEW e, NEW f, DoneMirrored(r, e), NEW h,
           \A g \in Group : g # h => f[g] = e[g] /\ s.outcome[g] = r.outcome[g],
           r.todo \ {h} \subseteq s.todo,
           h \in s.todo \/ Red(s.outcome[h]) \/ Mirrored(s, f, h, {}, {})
    PROVE  DoneMirrored(s, f)
<1>. SUFFICES ASSUME NEW g \in Group \ s.todo, g # h
              PROVE  Red(s.outcome[g]) \/ Mirrored(s, f, g, {}, {})
  BY DEF DoneMirrored
<1>1. Red(r.outcome[g]) \/ Mirrored(r, e, g, {}, {})
  BY DEF DoneMirrored
<1>. QED
  BY <1>1, MirroredKept

\* A step of a run keeps it, if it does as the group in hand and the one it leaves
\* require.
LEMMA CalmStep ==
    ASSUME CalmInv, pc \notin Opening,
           UNCHANGED <<audience, row, calm>>, run'.mode = run.mode,
           run'.snap = run.snap, Onward(run, run'), NEW h,
           \A g \in Group : g # h => entries'[g] = entries[g]
                                     /\ run'.outcome[g] = run.outcome[g],
           run.todo \ {h} \subseteq run'.todo,
           calm /\ ~ run.mode.dryRun /\ WantedNow /\ InHand =>
               /\ InHand'
               /\ h \in run'.todo \/ Red(run'.outcome[h])
                    \/ Mirrored(run', entries', h, {}, {})
    PROVE  CalmInv'
<1>. SUFFICES ASSUME calm, ~ run.mode.dryRun
              PROVE  WantedNow' /\ DoneMirrored(run', entries') /\ InHand'
  BY DEF CalmInv
<1>1. WantedNow /\ DoneMirrored(run, entries) /\ InHand
  BY DEF CalmInv
<1>2. WantedNow'
  BY <1>1 DEF WantedNow, DesiredForGroup, Onward
<1>3. DoneMirrored(run', entries')
  BY <1>1, DoneKept
<1>. QED
  BY <1>1, <1>2, <1>3

\* A group that is planned is as it is wanted, but for what the plan does and for what
\* the fuse refuses.
LEMMA PlannedMirrors ==
    ASSUME TypeOK, NEW g \in Group, NEW plan, plan = PlannedFor(g),
           NEW s, s.wanted = run.wanted, s.unmirrorable = run.unmirrorable,
           s.lapsed = run.lapsed \ plan.retried,
           s.slots = run.slots - Cardinality(plan.retried)
    PROVE  /\ Onward(run, s)
           /\ plan.adds \subseteq run.wanted[g]
           /\ plan.removes \cap run.wanted[g] = {}
           /\ plan.refused > 0 \/ Mirrored(s, entries, g, plan.adds, plan.removes)
<1>1. /\ run.wanted[g] \in SUBSET Address
      /\ run.unmirrorable \in SUBSET Address
      /\ run.lapsed \in SUBSET Address
      /\ run.slots \in Int
      /\ entries[g] \in [Address -> Kind]
  BY DEF TypeOK, IsRun, Listing
<1>2. plan = PlanGroup(run.wanted[g], entries[g], run.unmirrorable, run.lapsed,
                       run.slots, run.mode.allowMassRemoval)
  BY DEF PlannedFor
<1>3. PlanComplete(plan, run.wanted[g], entries[g], run.unmirrorable, run.lapsed,
                   run.slots)
  BY <1>1, <1>2, PlanGroupComplete
<1>4. Cardinality(plan.retried) \in Nat /\ plan.retried \subseteq run.lapsed
  BY PlannedForType
<1>5. Onward(run, s)
  <2>1. ASSUME run.slots <= 0 PROVE plan.retried = {} /\ s.slots <= 0
    BY <1>1, <1>3, <1>4, <2>1 DEF PlanComplete
  <2>. QED
    BY <2>1 DEF Onward, Withheld
<1>6. plan.adds \subseteq run.wanted[g]
  BY <1>2 DEF PlanGroup, Retried, Earliest
<1>7. ASSUME NEW a \in run.wanted[g], entries[g][a] = "absent", a \notin plan.adds
      PROVE  Withheld(s, a)
  <2>1. a \in run.wanted[g] \ Present(entries[g])
    BY <1>1, <1>7 DEF Present
  <2>2. \/ a \in run.unmirrorable
        \/ a \in run.lapsed \ plan.retried /\ Cardinality(plan.retried) >= run.slots
    BY <1>3, <1>7, <2>1 DEF PlanComplete
  <2>. QED
    BY <1>1, <1>4, <2>2 DEF Withheld
<1>8. ASSUME plan.removes = Removable(run.wanted[g], entries[g]),
             NEW a \in Address \ Example, entries[g][a] = "member"
      PROVE  a \in run.wanted[g] \/ a \in plan.removes
  BY <1>8 DEF Removable
<1>. QED
  BY <1>3, <1>5, <1>6, <1>7, <1>8 DEF PlanComplete, Mirrored

\* In a group that is there, an offered address is listed, refused, or failed; no other
\* entry changes.
LEMMA AddReply ==
    ASSUME TypeOK, NEW g \in Group, NEW a \in Address \ Example, up[g],
           ~ run.mode.dryRun,
           NEW reply \in Gated(a, InsertReplies(g, a)).sound
                           \cup Gated(a, InsertReplies(g, a)).faulty,
           entries' = IF reply.landed THEN [entries EXCEPT ![g][a] = "member"] ELSE entries
    PROVE  /\ \/ reply.outcome = "Failed" \/ reply.outcome \in UNMIRRORABLE
              \/ entries'[g][a] # "absent"
           /\ \A h \in Group : h # g => entries'[h] = entries[h]
           /\ \A b \in Address : b # a => entries'[g][b] = entries[g][b]
           /\ entries'[g][a] = entries[g][a] \/ entries'[g][a] = "member"
<1>1. entries \in [Group -> [Address -> Kind]]
  BY DEF TypeOK, Listing
<1>2. [entries EXCEPT ![g][a] = "member"]
        = [entries EXCEPT ![g] = [entries[g] EXCEPT ![a] = "member"]]
  OBVIOUS
<1>3. reply \in InsertReplies(g, a).sound \cup InsertReplies(g, a).faulty
  BY DEF Gated
<1>4. \/ reply.outcome = "Failed"
      \/ reply.outcome = "AlreadyConverged" /\ reply.landed
      \/ reply = Reply(InsertVerdict(g, a), InsertVerdict(g, a) = "Applied")
  BY <1>3 DEF InsertReplies, Reply
<1>5. \/ reply.outcome = "Failed" \/ reply.outcome \in UNMIRRORABLE
      \/ reply.landed \/ entries[g][a] # "absent"
  <2>1. CASE reply = Reply(InsertVerdict(g, a), InsertVerdict(g, a) = "Applied")
    <3>1. /\ reply.outcome = InsertVerdict(g, a)
          /\ reply.landed = (InsertVerdict(g, a) = "Applied")
      BY <2>1 DEF Reply
    <3>2. \/ InsertVerdict(g, a) \in UNMIRRORABLE \/ entries[g][a] # "absent"
          \/ InsertVerdict(g, a) = "Applied"
      BY DEF InsertVerdict, UNMIRRORABLE
    <3>. QED
      BY <3>1, <3>2
  <2>. QED
    BY <1>4, <2>1
<1>. QED
  BY <1>1, <1>2, <1>5

\* So is a removed one gone, or failed.
LEMMA RemoveReply ==
    ASSUME TypeOK, NEW g \in Group, NEW a \in Address, up[g], ~ run.mode.dryRun,
           NEW reply \in Gated(a, DeleteReplies(g, a)).sound
                           \cup Gated(a, DeleteReplies(g, a)).faulty,
           entries' = IF reply.landed THEN [entries EXCEPT ![g][a] = "absent"] ELSE entries
    PROVE  /\ reply.outcome = "Failed" \/ a \in Example \/ entries'[g][a] # "member"
           /\ \A h \in Group : h # g => entries'[h] = entries[h]
           /\ \A b \in Address : b # a => entries'[g][b] = entries[g][b]
           /\ entries'[g][a] = entries[g][a] \/ entries'[g][a] = "absent"
<1>1. entries \in [Group -> [Address -> Kind]]
  BY DEF TypeOK, Listing
<1>2. [entries EXCEPT ![g][a] = "absent"]
        = [entries EXCEPT ![g] = [entries[g] EXCEPT ![a] = "absent"]]
  OBVIOUS
<1>3. \/ reply.outcome = "Failed" \/ a \in Example
      \/ reply.landed \/ entries[g][a] = "absent"
  BY DEF Gated, DeleteReplies, Reply
<1>. QED
  BY <1>1, <1>2, <1>3

\* An offered address that is listed or withheld from now on leaves only the others to
\* come.
LEMMA MirroredAdd ==
    ASSUME NEW r, NEW s, Onward(r, s), NEW e, NEW f, NEW g, r.wanted[g] \subseteq Address,
           NEW A, NEW R, NEW a \in A, A \subseteq r.wanted[g], Mirrored(r, e, g, A, R),
           \A b \in Address : b # a => f[g][b] = e[g][b],
           NEW B, A \ {a} \subseteq B,
           f[g][a] # "absent" \/ Withheld(s, a) \/ a \in B
    PROVE  Mirrored(s, f, g, B, R)
<1>1. ASSUME NEW b \in s.wanted[g]
      PROVE  f[g][b] # "absent" \/ Withheld(s, b) \/ b \in B
  BY <1>1 DEF Mirrored, Onward
<1>2. ASSUME NEW b \in Address \ Example, f[g][b] = "member"
      PROVE  b \in s.wanted[g] \/ b \in R
  BY <1>2 DEF Mirrored, Onward
<1>. QED
  BY <1>1, <1>2 DEF Mirrored

\* A removed one that is gone leaves only the others.
LEMMA MirroredRemove ==
    ASSUME NEW r, NEW e, NEW f, NEW g, r.wanted[g] \subseteq Address,
           NEW R, NEW a \in R, R \cap r.wanted[g] = {}, Mirrored(r, e, g, {}, R),
           \A b \in Address : b # a => f[g][b] = e[g][b],
           a \in Example \/ f[g][a] # "member"
    PROVE  Mirrored(r, f, g, {}, R \ {a})
BY DEF Mirrored

\* What an add teaches a run, besides LearnedFacts.
LEMMA LearnedKeeps ==
    ASSUME NEW r, IsRun(r), NEW a \in Address, NEW o, NEW s, s = Learned(r, a, o)
    PROVE  /\ Onward(r, s)
           /\ s.outcome = r.outcome
           /\ o \in UNMIRRORABLE => Withheld(s, a)
<1>1. s = [r EXCEPT !.accepted = IF o \in ACCEPTED THEN @ \cup {a} ELSE @,
                    !.unmirrorable = IF o \in UNMIRRORABLE THEN @ \cup {a} ELSE @]
  BY DEF Learned, IsRun
<1>2. /\ s.wanted = r.wanted /\ s.outcome = r.outcome
      /\ s.lapsed = r.lapsed /\ s.slots = r.slots
  BY <1>1 DEF IsRun
<1>3. s.unmirrorable = r.unmirrorable \cup (IF o \in UNMIRRORABLE THEN {a} ELSE {})
  BY LearnedFacts
<1>. QED
  BY <1>2, <1>3 DEF Onward, Withheld

LEMMA CalmPlanning ==
    ASSUME TypeInv, CalmInv, ListFails \/ ListAndPlan \/ RecheckPlan
    PROVE  CalmInv'
<1>0. TypeOK /\ IsRun(run) /\ IsJob(job)
  BY DEF TypeInv, TypeOK
<1>1. CASE ListFails
  <2>1. PICK g \in FirstOf(run.todo) :
          run' = [run EXCEPT !.todo = @ \ {g},
                             !.outcome[g] = [NoOutcome EXCEPT !.failed = 1]]
    BY <1>1 DEF ListFails
  <2>2. g \in Group
    BY <1>0 DEF FirstOf, IsRun
  <2>3. /\ run'.wanted = run.wanted /\ run'.unmirrorable = run.unmirrorable
        /\ run'.lapsed = run.lapsed /\ run'.slots = run.slots
        /\ run'.mode = run.mode /\ run'.snap = run.snap
        /\ run'.todo = run.todo \ {g}
        /\ run'.outcome = [run.outcome EXCEPT ![g] = [NoOutcome EXCEPT !.failed = 1]]
    BY <1>0, <2>1 DEF IsRun
  <2>4. /\ Red(run'.outcome[g])
        /\ \A h \in Group : h # g => run'.outcome[h] = run.outcome[h]
    BY <1>0, <2>2, <2>3 DEF IsRun, Red, NoOutcome
  <2>5. Onward(run, run')
    BY <2>3 DEF Onward, Withheld
  <2>6. /\ pc = "groups" /\ pc' = "groups" /\ entries' = entries
        /\ UNCHANGED <<audience, row, calm>>
    BY <1>1 DEF ListFails, recordVars, googleVars, historyVars
  <2>7. InHand'
    BY <2>6 DEF InHand, Working
  <2>. QED
    BY <2>3, <2>4, <2>5, <2>6, <2>7, CalmStep DEF Opening
<1>2. CASE ListAndPlan
  <2>1. PICK g \in FirstOf(run.todo) :
          LET plan == PlannedFor(g)
              busy == PlansSomething(plan)
          IN  /\ up[g]
              /\ pc' = IF busy THEN "recheck" ELSE "groups"
              /\ job' = IF busy
                        THEN [NoJob EXCEPT !.group = g, !.actual = entries[g],
                                           !.plan = plan]
                        ELSE NoJob
              /\ run' = [run EXCEPT
                           !.lapsed = @ \ plan.retried,
                           !.slots = @ - Cardinality(plan.retried),
                           !.todo = IF busy THEN @ ELSE @ \ {g},
                           !.outcome[g] = [NoOutcome EXCEPT !.refused = plan.refused]]
    BY <1>2 DEF ListAndPlan
  <2>2. PICK plan : plan = PlannedFor(g)
    OBVIOUS
  <2>3. g \in Group /\ g \in run.todo
    BY <1>0 DEF FirstOf, IsRun
  <2>4. /\ run'.wanted = run.wanted /\ run'.unmirrorable = run.unmirrorable
        /\ run'.lapsed = run.lapsed \ plan.retried
        /\ run'.slots = run.slots - Cardinality(plan.retried)
        /\ run'.mode = run.mode /\ run'.snap = run.snap
        /\ run'.todo = IF PlansSomething(plan) THEN run.todo ELSE run.todo \ {g}
        /\ run'.outcome
             = [run.outcome EXCEPT ![g] = [NoOutcome EXCEPT !.refused = plan.refused]]
    BY <1>0, <2>1, <2>2 DEF IsRun
  <2>5. /\ run'.outcome[g].refused = plan.refused
        /\ \A h \in Group : h # g => run'.outcome[h] = run.outcome[h]
    BY <1>0, <2>3, <2>4 DEF IsRun, NoOutcome
  <2>6. /\ Onward(run, run')
        /\ plan.adds \subseteq run.wanted[g]
        /\ plan.removes \cap run.wanted[g] = {}
        /\ plan.refused > 0 \/ Mirrored(run', entries, g, plan.adds, plan.removes)
    BY <1>0, <2>2, <2>3, <2>4, PlannedMirrors
  <2>7. /\ pc = "groups" /\ pc' \in {"groups", "recheck"} /\ entries' = entries
        /\ UNCHANGED <<audience, row, calm, up>>
    BY <1>2, <2>1 DEF ListAndPlan, recordVars, googleVars, historyVars
  <2>8. CASE PlansSomething(plan)
    <3>1. /\ pc' = "recheck" /\ g \in run'.todo
          /\ job' = [NoJob EXCEPT !.group = g, !.actual = entries[g], !.plan = plan]
      BY <2>1, <2>2, <2>3, <2>4, <2>8
    <3>2. job'.group = g /\ job'.plan = plan
      BY <3>1 DEF NoJob
    <3>3. HandMirrored(job', run', entries', job'.plan.adds, job'.plan.removes)
      BY <2>4, <2>6, <2>7, <3>2 DEF HandMirrored
    <3>4. InHand'
      BY <2>1, <2>7, <3>1, <3>2, <3>3 DEF InHand, Working
    <3>. QED
      BY <2>4, <2>5, <2>6, <2>7, <3>1, <3>4, CalmStep DEF Opening
  <2>9. CASE ~ PlansSomething(plan)
    <3>1. pc' = "groups"
      BY <2>1, <2>2, <2>9
    <3>2. plan.adds = {} /\ plan.removes = {}
      BY <2>9 DEF PlansSomething
    <3>3. Red(run'.outcome[g]) \/ Mirrored(run', entries', g, {}, {})
      BY <2>5, <2>6, <2>7, <3>2 DEF Red
    <3>4. InHand'
      BY <3>1 DEF InHand, Working
    <3>. QED
      BY <2>4, <2>5, <2>6, <2>7, <3>1, <3>3, <3>4, CalmStep DEF Opening
  <2>. QED
    BY <2>8, <2>9
<1>3. CASE RecheckPlan
  <2>1. job.group \in Group /\ job.group \in run.todo /\ pc = "recheck"
    BY <1>3, GroupInHandType DEF RecheckPlan, Working, TypeInv, GroupInHand
  <2>2. PICK fresh : fresh = DesiredForGroup(job.group)
    OBVIOUS
  <2>3. PICK plan : plan = Recheck(job.plan, fresh)
    OBVIOUS
  <2>4. job' = [job EXCEPT !.plan = plan, !.adds = plan.adds, !.removes = plan.removes]
    BY <1>3, <2>2, <2>3 DEF RecheckPlan
  <2>5. /\ plan.adds = job.plan.adds \cap fresh
        /\ plan.removes = job.plan.removes \ fresh
        /\ plan.refused = job.plan.refused
    BY <1>0, <2>3 DEF Recheck, IsJob, GroupPlan
  <2>6. /\ job'.group = job.group /\ job'.adds = plan.adds /\ job'.removes = plan.removes
        /\ job'.plan = plan /\ job'.tally = job.tally
    BY <1>0, <2>4 DEF IsJob
  <2>7. /\ pc' = "adding" /\ run' = run /\ entries' = entries
        /\ UNCHANGED <<audience, row, calm, up>>
    BY <1>3 DEF RecheckPlan, recordVars, googleVars, historyVars
  <2>8. ASSUME WantedNow, InHand PROVE InHand'
    <3>1. HandMirrored(job, run, entries, job.plan.adds, job.plan.removes)
      BY <2>1, <2>8 DEF InHand
    <3>2. run.wanted[job.group] = fresh
      BY <2>1, <2>2, <2>8 DEF WantedNow
    <3>3. plan.adds = job.plan.adds /\ plan.removes = job.plan.removes
      BY <2>5, <3>1, <3>2 DEF HandMirrored
    <3>4. HandMirrored(job', run', entries', job'.adds, job'.removes)
      BY <2>5, <2>6, <2>7, <3>1, <3>3 DEF HandMirrored
    <3>5. up[job.group]
      BY <2>1, <2>8 DEF InHand, Working
    <3>. QED
      BY <2>6, <2>7, <3>4, <3>5 DEF InHand
  <2>9. Onward(run, run')
    BY <2>7 DEF Onward
  <2>. QED
    BY <2>1, <2>7, <2>8, <2>9, CalmStep DEF Opening
<1>. QED
  BY <1>1, <1>2, <1>3

\* An add that is over leaves the other adds to come.
LEMMA HandSettled ==
    ASSUME TypeOK, NEW j, IsJob(j), j.group \in Group, IsRun(run),
           NEW a \in j.adds, NEW o \in SyncOutcome, NEW k, NEW s,
           HandMirrored(j, run, entries, j.adds, j.removes),
           \/ k = Unreadable(j, a) /\ s = run
           \/ /\ k = Settled(j, a, o) /\ s = Learned(run, a, o)
              /\ o = "Failed" \/ o \in UNMIRRORABLE \/ entries'[j.group][a] # "absent",
           \A b \in Address : b # a => entries'[j.group][b] = entries[j.group][b]
    PROVE  /\ k.group = j.group
           /\ HandMirrored(k, s, entries', k.adds, k.removes)
<1>0. a \in Address /\ run.wanted[j.group] \subseteq Address /\ j.tally \in Tally
      /\ "Failed" \in SyncOutcome
  BY DEF IsJob, IsRun, SyncOutcome
<1>1. /\ k.group = j.group /\ k.adds = j.adds \ {a} /\ k.removes = j.removes
      /\ k.plan = j.plan
  BY <1>0, UnreadableFacts, SettledKeeps
<1>2. Onward(run, s)
  BY <1>0, LearnedKeeps DEF Onward
<1>3. /\ k.adds \subseteq s.wanted[k.group]
      /\ k.removes \cap s.wanted[k.group] = {}
  BY <1>1, <1>2 DEF HandMirrored, Onward
<1>4. /\ k.tally["Failed"] >= j.tally["Failed"]
      /\ k = Unreadable(j, a) \/ o = "Failed" => k.tally["Failed"] > 0
  <2>1. CASE k = Unreadable(j, a)
    <3>1. k.tally = Tallied(j.tally, "Failed")
      BY <2>1, UnreadableTally
    <3>. QED
      BY <1>0, <3>1, TallySumStep
  <2>2. CASE k # Unreadable(j, a) /\ k = Settled(j, a, o)
    <3>1. k.tally = Tallied(j.tally, o)
      BY <2>2, SettledTally
    <3>. QED
      BY <1>0, <2>2, <3>1, TallySumStep
  <2>. QED
    BY <2>1, <2>2
<1>5. j.tally["Failed"] \in Nat /\ k.tally["Failed"] \in Nat
  <2>1. IsJob(k)
    BY <1>0, UnreadableFacts, SettledKeeps
  <2>2. j.tally \in Tally /\ k.tally \in Tally
    BY <2>1 DEF IsJob
  <2>. QED
    BY <1>0, <2>2 DEF Tally
<1>6. CASE k.tally["Failed"] > 0 \/ j.plan.refused > 0
  BY <1>1, <1>3, <1>6 DEF HandMirrored
<1>7. CASE j.tally["Failed"] > 0
  BY <1>4, <1>5, <1>6, <1>7
<1>8. CASE Mirrored(run, entries, j.group, j.adds, j.removes)
  <2>1. CASE k = Unreadable(j, a) \/ o = "Failed"
    BY <1>4, <1>6, <2>1
  <2>2. CASE k # Unreadable(j, a) /\ o # "Failed"
    <3>1. /\ s = Learned(run, a, o)
          /\ o \in UNMIRRORABLE \/ entries'[j.group][a] # "absent"
      BY <2>2
    <3>2. entries'[j.group][a] # "absent" \/ Withheld(s, a)
      BY <1>0, <3>1, LearnedKeeps
    <3>3. j.adds \subseteq run.wanted[j.group]
      BY DEF HandMirrored
    <3>4. j.adds \ {a} \subseteq k.adds
      BY <1>1
    <3>5. Mirrored(s, entries', j.group, k.adds, j.removes)
      BY <1>0, <1>2, <1>8, <3>2, <3>3, <3>4, MirroredAdd
    <3>. QED
      BY <1>1, <1>3, <3>5 DEF HandMirrored
  <2>. QED
    BY <2>1, <2>2
<1>. QED
  BY <1>6, <1>7, <1>8 DEF HandMirrored

\* What the records want of a calm run's group is never an example address.
LEMMA WantedIsAsked ==
    ASSUME TypeOK, WantedNow, NEW g \in Group
    PROVE  run.wanted[g] \subseteq Address \ Example
<1>1. run.wanted[g] = DesiredForGroup(g)
  BY DEF WantedNow
<1>2. run.wanted[g] \subseteq Address
  BY DEF TypeOK, IsRun
<1>. QED
  BY <1>1, <1>2 DEF DesiredForGroup, DesiredOf

\* A group that is given up leaves the run as LeftOutcome says.
LEMMA CalmAbandon ==
    ASSUME TypeInv, CalmInv, pc \in {"asking", "adding"}, Abandon,
           UNCHANGED <<recordVars, googleVars, historyVars>>,
           calm /\ ~ run.mode.dryRun /\ WantedNow /\ InHand =>
               \/ Red(AbandonedOutcome(job))
               \/ Mirrored(run, entries, job.group, {}, {})
    PROVE  CalmInv'
<1>1. /\ run'.outcome[job.group] = AbandonedOutcome(job)
      /\ \A g \in Group : g # job.group => run'.outcome[g] = run.outcome[g]
      /\ run'.todo = run.todo \ {job.group}
      /\ run'.mode = run.mode /\ run'.snap = run.snap /\ run'.wanted = run.wanted
      /\ run'.unmirrorable = run.unmirrorable /\ run'.lapsed = run.lapsed
      /\ run'.slots = run.slots
  BY LeftOutcome DEF Abandon, Working
<1>2. /\ pc' = "groups" /\ entries' = entries /\ UNCHANGED <<audience, row, calm>>
  BY DEF Abandon, recordVars, googleVars, historyVars
<1>3. Onward(run, run')
  BY <1>1 DEF Onward, Withheld
<1>4. InHand'
  BY <1>2 DEF InHand, Working
<1>5. calm /\ ~ run.mode.dryRun /\ WantedNow /\ InHand =>
         Red(run'.outcome[job.group]) \/ Mirrored(run', entries', job.group, {}, {})
  BY <1>1, <1>2, <1>3, MirroredKept
<1>. QED
  BY <1>1, <1>2, <1>3, <1>4, <1>5, CalmStep DEF Opening

\* While adds are being offered, what is settled and what is left keep it.
LEMMA CalmAdding ==
    ASSUME TypeInv, CountInv, CalmInv,
           OfferAdd \/ AskPresence \/ AddsSettled \/ AskPresenceAgain
    PROVE  CalmInv'
<1>0. /\ pc \in {"adding", "asking"} /\ job.group \in Group /\ job.group \in run.todo
      /\ TypeOK /\ IsJob(job) /\ IsRun(run)
      /\ \A a \in FirstOf(job.adds) : a \in Address /\ a \in job.adds
      /\ UNCHANGED <<audience, row, calm, up>>
  BY GroupInHandType
     DEF OfferAdd, AskPresence, AddsSettled, AskPresenceAgain, Working, TypeInv,
         TypeOK, FirstOf, IsJob, GroupInHand, recordVars, googleVars, historyVars
<1>1. ASSUME InHand
      PROVE  up[job.group] /\ HandMirrored(job, run, entries, job.adds, job.removes)
  BY <1>0, <1>1 DEF InHand, Working
<1>2. CASE OfferAdd
  <2>1. PICK a \in FirstOf(job.adds), o \in SyncOutcome :
          /\ \E reply \in Gated(a, InsertReplies(job.group, a)).sound
                    \cup Gated(a, InsertReplies(job.group, a)).faulty :
               /\ o = reply.outcome
               /\ entries' = IF reply.landed
                             THEN [entries EXCEPT ![job.group][a] = "member"]
                             ELSE entries
          /\ \/ pc' = "asking" /\ run' = run /\ job' = job
             \/ pc' = "adding" /\ run' = run /\ job' = Unreadable(job, a)
             \/ /\ pc' = "adding" /\ job' = Settled(job, a, o)
                /\ run' = Learned(run, a, o)
    BY <1>2, OfferAddCases
  <2>2. PICK reply \in Gated(a, InsertReplies(job.group, a)).sound
                    \cup Gated(a, InsertReplies(job.group, a)).faulty :
               /\ o = reply.outcome
               /\ entries' = IF reply.landed
                             THEN [entries EXCEPT ![job.group][a] = "member"]
                             ELSE entries
    BY <2>1
  <2>3. a \in Address /\ a \in job.adds
    BY <1>0, <2>1
  <2>4. /\ run'.mode = run.mode /\ run'.snap = run.snap /\ run'.todo = run.todo
        /\ Onward(run, run') /\ run'.outcome = run.outcome
    <3>1. CASE run' = run
      BY <3>1 DEF Onward
    <3>2. CASE run' = Learned(run, a, o)
      BY <1>0, <2>3, <3>2, LearnedFacts, LearnedKeeps
    <3>. QED
      BY <2>1, <3>1, <3>2
  <2>5. \A g \in Group : g # job.group => entries'[g] = entries[g]
    BY <1>0, <2>2 DEF TypeOK
  <2>6. ASSUME ~ run.mode.dryRun, WantedNow, InHand PROVE InHand'
    <3>1. a \in Address \ Example /\ job.adds \subseteq run.wanted[job.group]
      BY <1>0, <1>1, <2>3, <2>6, WantedIsAsked DEF HandMirrored
    <3>2. /\ \/ reply.outcome = "Failed" \/ reply.outcome \in UNMIRRORABLE
             \/ entries'[job.group][a] # "absent"
          /\ \A b \in Address : b # a => entries'[job.group][b] = entries[job.group][b]
          /\ \/ entries'[job.group][a] = entries[job.group][a]
             \/ entries'[job.group][a] = "member"
      BY <1>0, <1>1, <2>2, <2>6, <3>1, AddReply
    <3>3. CASE pc' = "asking" /\ run' = run /\ job' = job
      <4>1. Onward(run, run) /\ run.wanted[job.group] \subseteq Address
        BY <1>0 DEF Onward, IsRun
      <4>2. ASSUME Mirrored(run, entries, job.group, job.adds, job.removes)
            PROVE  Mirrored(run, entries', job.group, job.adds, job.removes)
        BY <2>3, <3>1, <3>2, <4>1, <4>2, MirroredAdd
      <4>3. HandMirrored(job, run, entries', job.adds, job.removes)
        BY <1>1, <2>6, <4>2 DEF HandMirrored
      <4>. QED
        BY <1>0, <1>1, <2>6, <3>3, <4>3 DEF InHand
    <3>4. CASE /\ pc' = "adding"
               /\ \/ run' = run /\ job' = Unreadable(job, a)
                  \/ job' = Settled(job, a, o) /\ run' = Learned(run, a, o)
      <4>1. /\ job'.group = job.group
            /\ HandMirrored(job', run', entries', job'.adds, job'.removes)
        BY <1>0, <1>1, <2>2, <2>3, <2>6, <3>2, <3>4, HandSettled
      <4>. QED
        BY <1>0, <1>1, <2>6, <3>4, <4>1 DEF InHand
    <3>. QED
      BY <2>1, <3>3, <3>4
  <2>. QED
    BY <1>0, <2>4, <2>5, <2>6, CalmStep DEF Opening
<1>3. CASE AskPresence
  <2>1. PICK a \in FirstOf(job.adds), p \in {"Present", "Gone", "Unknown"} :
          /\ PresenceAnswered(job.group, p)
          /\ \/ p = "Gone" /\ Abandon
             \/ /\ p = "Unknown" /\ pc' = "adding" /\ run' = run
                /\ job' = Unreadable([job EXCEPT !.presence = p], a)
             \/ /\ p = "Present" /\ pc' = "adding"
                /\ job' = Settled([job EXCEPT !.presence = p], a, "AddressNotFound")
                /\ run' = Learned(run, a, "AddressNotFound")
    BY <1>3 DEF AskPresence
  <2>2. a \in Address /\ a \in job.adds
    BY <1>0, <2>1
  <2>3. UNCHANGED <<recordVars, googleVars, historyVars>>
    BY <1>3 DEF AskPresence
  <2>4. CASE p = "Gone" /\ Abandon
    <3>1. ~ up[job.group]
      BY <2>1, <2>4 DEF PresenceAnswered
    <3>. QED
      BY <1>0, <1>1, <2>3, <2>4, <3>1, CalmAbandon
  <2>5. CASE p # "Gone"
    <3>1. PICK j : j = [job EXCEPT !.presence = p]
      OBVIOUS
    <3>2. /\ IsJob(j) /\ j.group = job.group /\ j.adds = job.adds
          /\ j.removes = job.removes /\ j.plan = job.plan /\ j.tally = job.tally
      BY <1>0, <3>1 DEF IsJob
    <3>3. /\ pc' = "adding"
          /\ \/ run' = run /\ job' = Unreadable(j, a)
             \/ /\ job' = Settled(j, a, "AddressNotFound")
                /\ run' = Learned(run, a, "AddressNotFound")
      BY <2>1, <2>5, <3>1
    <3>4. /\ run'.mode = run.mode /\ run'.snap = run.snap /\ run'.todo = run.todo
          /\ Onward(run, run') /\ run'.outcome = run.outcome
      <4>1. CASE run' = run
        BY <4>1 DEF Onward
      <4>2. CASE run' = Learned(run, a, "AddressNotFound")
        BY <1>0, <2>2, <4>2, LearnedFacts, LearnedKeeps
      <4>. QED
        BY <3>3, <4>1, <4>2
    <3>5. entries' = entries
      BY <2>3 DEF googleVars
    <3>6. ASSUME InHand PROVE InHand'
      <4>1. HandMirrored(j, run, entries, j.adds, j.removes)
        BY <1>1, <3>2, <3>6 DEF HandMirrored
      <4>2. "AddressNotFound" \in SyncOutcome /\ "AddressNotFound" \in UNMIRRORABLE
        BY DEF SyncOutcome, UNMIRRORABLE
      <4>3. /\ job'.group = j.group
            /\ HandMirrored(job', run', entries', job'.adds, job'.removes)
        BY <1>0, <2>2, <3>2, <3>3, <3>5, <4>1, <4>2, HandSettled
      <4>. QED
        BY <1>0, <1>1, <3>2, <3>3, <3>6, <4>3 DEF InHand
    <3>. QED
      BY <1>0, <3>3, <3>4, <3>5, <3>6, CalmStep DEF Opening
  <2>. QED
    BY <2>1, <2>4, <2>5
<1>4. ASSUME BelieveRefusals, entries' = entries, job.adds = {}, job'.group = job.group,
             job'.removes = job.removes, job'.plan = job.plan, job'.tally = job.tally
      PROVE  CalmInv'
  <2>1. /\ run' = [run EXCEPT !.refusals = @ \cup job.found] /\ pc' = "removing"
    BY <1>4 DEF BelieveRefusals
  <2>2. /\ run'.mode = run.mode /\ run'.snap = run.snap /\ run'.todo = run.todo
        /\ run'.wanted = run.wanted /\ run'.outcome = run.outcome
        /\ run'.unmirrorable = run.unmirrorable /\ run'.lapsed = run.lapsed
        /\ run'.slots = run.slots
    BY <1>0, <2>1 DEF IsRun
  <2>3. Onward(run, run')
    BY <2>2 DEF Onward, Withheld
  <2>4. ASSUME InHand PROVE InHand'
    <3>1. HandMirrored(job, run, entries, {}, job.removes)
      BY <1>1, <1>4, <2>4
    <3>2. HandMirrored(job', run', entries', {}, job'.removes)
      <4>1. ASSUME Mirrored(run, entries, job.group, {}, job.removes)
            PROVE  Mirrored(run', entries, job.group, {}, job.removes)
        BY <2>3, <4>1, MirroredKept
      <4>. QED
        BY <1>4, <2>2, <3>1, <4>1 DEF HandMirrored
    <3>. QED
      BY <1>0, <1>1, <1>4, <2>1, <2>4, <3>2 DEF InHand
  <2>. QED
    BY <1>0, <1>4, <2>1, <2>2, <2>3, <2>4, CalmStep DEF Opening
<1>5. CASE AddsSettled
  <2>1. /\ BelieveRefusals /\ job.adds = {} /\ job' = job /\ entries' = entries
    BY <1>5 DEF AddsSettled, googleVars
  <2>. QED
    BY <1>4, <2>1
<1>6. CASE AskPresenceAgain
  <2>1. PICK p \in {"Present", "Gone", "Unknown"} :
          /\ PresenceAnswered(job.group, p)
          /\ IF p = "Present"
             THEN BelieveRefusals /\ job' = [job EXCEPT !.presence = p]
             ELSE Abandon
    BY <1>6 DEF AskPresenceAgain
  <2>2. /\ pc = "adding" /\ job.adds = {}
        /\ UNCHANGED <<recordVars, googleVars, historyVars>>
    BY <1>6 DEF AskPresenceAgain
  <2>3. CASE p = "Present"
    <3>1. /\ job'.group = job.group /\ job'.removes = job.removes
          /\ job'.plan = job.plan /\ job'.tally = job.tally
      BY <1>0, <2>1, <2>3 DEF IsJob
    <3>. QED
      BY <1>4, <2>1, <2>2, <2>3, <3>1 DEF googleVars
  <2>4. CASE p # "Present"
    <3>1. /\ TallySum(job.tally) = Cardinality(job.plan.adds)
          /\ job.removes = job.plan.removes
      <4>1. Cardinality(job.adds) = 0
        BY <2>2, FS_EmptySet, Zenon
      <4>2. TallySum(job.tally) \in Nat
        BY <1>0, TallySumType DEF IsJob
      <4>. QED
        BY <2>2, <4>1, <4>2 DEF CountInv
    <3>2. AbandonedOutcome(job).failed
            = job.tally["Failed"] + Cardinality(job.removes)
      <4>1. /\ SettledCount(job.tally) \in Nat /\ job.tally["Failed"] \in Nat
            /\ Cardinality(job.plan.removes) \in Nat
        BY <1>0, TallySumType, JobNumbers DEF IsJob
      <4>. QED
        BY <3>1, <4>1 DEF AbandonedOutcome, TallySum
    <3>3. AbandonedOutcome(job).refused = job.plan.refused
      BY DEF AbandonedOutcome
    <3>4. ASSUME InHand
          PROVE  \/ Red(AbandonedOutcome(job))
                 \/ Mirrored(run, entries, job.group, {}, {})
      <4>0. job.tally["Failed"] \in Nat /\ Cardinality(job.removes) \in Nat
        BY <1>0, <3>1, JobNumbers DEF SyncOutcome
      <4>1. CASE job.removes = {}
        BY <1>1, <2>2, <3>2, <3>3, <3>4, <4>0, <4>1 DEF HandMirrored, Red
      <4>2. CASE job.removes # {}
        <5>1. PICK a \in job.removes : TRUE
          BY <4>2
        <5>2. /\ Cardinality(job.removes \ {a}) \in Nat
              /\ Cardinality(job.removes) = Cardinality(job.removes \ {a}) + 1
          BY <1>0, <5>1, OneLess DEF IsJob
        <5>. QED
          BY <3>2, <4>0, <5>2 DEF Red
      <4>. QED
        BY <4>1, <4>2
    <3>. QED
      BY <2>1, <2>2, <2>4, <3>4, CalmAbandon
  <2>. QED
    BY <2>3, <2>4
<1>. QED
  BY <1>2, <1>3, <1>5, <1>6

\* A removal is never of anybody the records want.
LEMMA CalmRemoving ==
    ASSUME TypeInv, CalmInv, SendRemove \/ FinishGroup
    PROVE  CalmInv'
<1>0. /\ pc = "removing" /\ job.group \in Group /\ job.group \in run.todo
      /\ TypeOK /\ IsJob(job) /\ IsRun(run)
      /\ UNCHANGED <<audience, row, calm, up>>
  BY GroupInHandType
     DEF SendRemove, FinishGroup, Working, TypeInv, TypeOK, GroupInHand, recordVars,
         googleVars, historyVars
<1>1. ASSUME InHand
      PROVE  up[job.group] /\ HandMirrored(job, run, entries, {}, job.removes)
  BY <1>0, <1>1 DEF InHand, Working
<1>2. CASE SendRemove
  <2>1. PICK a \in job.removes, o \in SyncOutcome :
          /\ \E reply \in Gated(a, DeleteReplies(job.group, a)).sound
                    \cup Gated(a, DeleteReplies(job.group, a)).faulty :
                /\ o = reply.outcome
                /\ entries' = IF reply.landed
                              THEN [entries EXCEPT ![job.group][a] = "absent"]
                              ELSE entries
          /\ job'.removes = job.removes \ {a}
          /\ job'.tally = Tallied(job.tally, o)
          /\ job'.plan = job.plan /\ job'.adds = job.adds
          /\ job'.group = job.group
    BY <1>2, SendRemoveJob
  <2>2. PICK reply \in Gated(a, DeleteReplies(job.group, a)).sound
                    \cup Gated(a, DeleteReplies(job.group, a)).faulty :
                /\ o = reply.outcome
                /\ entries' = IF reply.landed
                              THEN [entries EXCEPT ![job.group][a] = "absent"]
                              ELSE entries
    BY <2>1
  <2>3. /\ run' = run /\ pc' = "removing" /\ a \in Address
        /\ run.wanted[job.group] \subseteq Address
    BY <1>0, <1>2 DEF SendRemove, IsJob, IsRun
  <2>4. \A g \in Group : g # job.group => entries'[g] = entries[g]
    BY <1>0, <2>2 DEF TypeOK
  <2>5. /\ job'.tally["Failed"] >= job.tally["Failed"]
        /\ o = "Failed" => job'.tally["Failed"] > 0
        /\ job.tally["Failed"] \in Nat /\ job'.tally["Failed"] \in Nat
    <3>1. job.tally \in Tally /\ "Failed" \in SyncOutcome
      BY <1>0 DEF IsJob, SyncOutcome
    <3>2. job'.tally \in Tally
      BY <2>1, <3>1, TalliedType
    <3>3. job.tally["Failed"] \in Nat /\ job'.tally["Failed"] \in Nat
      BY <3>1, <3>2 DEF Tally
    <3>. QED
      BY <2>1, <3>1, <3>3, TallySumStep
  <2>6. ASSUME ~ run.mode.dryRun, InHand PROVE InHand'
    <3>1. /\ reply.outcome = "Failed" \/ a \in Example
             \/ entries'[job.group][a] # "member"
          /\ \A b \in Address : b # a => entries'[job.group][b] = entries[job.group][b]
      BY <1>0, <1>1, <2>2, <2>3, <2>6, RemoveReply
    <3>2. HandMirrored(job', run, entries', {}, job.removes \ {a})
      <4>0. job.removes \cap run.wanted[job.group] = {}
        BY <1>1, <2>6 DEF HandMirrored
      <4>1. CASE o = "Failed" \/ job.tally["Failed"] > 0 \/ job.plan.refused > 0
        BY <2>1, <2>5, <4>0, <4>1 DEF HandMirrored
      <4>2. CASE o # "Failed" /\ Mirrored(run, entries, job.group, {}, job.removes)
        <5>1. Mirrored(run, entries', job.group, {}, job.removes \ {a})
          BY <2>1, <2>2, <2>3, <3>1, <4>0, <4>2, MirroredRemove
        <5>. QED
          BY <2>1, <4>0, <5>1 DEF HandMirrored
      <4>3. \/ job.tally["Failed"] > 0 \/ job.plan.refused > 0
            \/ Mirrored(run, entries, job.group, {}, job.removes)
        BY <1>1, <2>6 DEF HandMirrored
      <4>. QED
        BY <4>1, <4>2, <4>3
    <3>3. HandMirrored(job', run', entries', {}, job'.removes)
      BY <2>1, <2>3, <3>2
    <3>. QED
      BY <1>0, <1>1, <2>1, <2>3, <2>6, <3>3 DEF InHand
  <2>7. Onward(run, run')
    BY <2>3 DEF Onward
  <2>. QED
    BY <1>0, <2>3, <2>4, <2>6, <2>7, CalmStep DEF Opening
<1>3. CASE FinishGroup
  <2>1. PICK p \in {"Present", "Gone", "Unknown"} :
          /\ IF LooksDeleted(job) THEN PresenceAnswered(job.group, p)
                                  ELSE p = "Present" /\ UNCHANGED left
          /\ run' = [run EXCEPT
                       !.todo = @ \ {job.group},
                       !.outcome[job.group] = IF p = "Gone" THEN MissingOutcome(job)
                                                            ELSE SettledOutcome(job)]
    BY <1>3 DEF FinishGroup
  <2>2. PICK o : o = IF p = "Gone" THEN MissingOutcome(job) ELSE SettledOutcome(job)
    OBVIOUS
  <2>3. run' = [run EXCEPT !.todo = @ \ {job.group}, !.outcome[job.group] = o]
    BY <2>1, <2>2
  <2>4. /\ run'.outcome[job.group] = o
        /\ \A g \in Group : g # job.group => run'.outcome[g] = run.outcome[g]
        /\ run'.todo = run.todo \ {job.group}
        /\ run'.mode = run.mode /\ run'.snap = run.snap /\ run'.wanted = run.wanted
        /\ run'.unmirrorable = run.unmirrorable /\ run'.lapsed = run.lapsed
        /\ run'.slots = run.slots
    BY <1>0, <2>3, LeftOutcome DEF Working
  <2>5. /\ pc' = "groups" /\ entries' = entries /\ job.removes = {}
    BY <1>3 DEF FinishGroup, googleVars
  <2>6. Onward(run, run')
    BY <2>4 DEF Onward, Withheld
  <2>7. InHand'
    BY <2>5 DEF InHand, Working
  <2>8. ASSUME InHand
        PROVE  Red(run'.outcome[job.group]) \/ Mirrored(run', entries', job.group, {}, {})
    <3>1. p # "Gone"
      BY <1>1, <2>1, <2>8 DEF PresenceAnswered
    <3>2. o.failed = job.tally["Failed"] /\ o.refused = job.plan.refused
      BY <2>2, <3>1 DEF SettledOutcome
    <3>3. \/ job.tally["Failed"] > 0 \/ job.plan.refused > 0
          \/ Mirrored(run, entries, job.group, {}, {})
      BY <1>1, <2>5, <2>8 DEF HandMirrored
    <3>4. ASSUME Mirrored(run, entries, job.group, {}, {})
          PROVE  Mirrored(run', entries', job.group, {}, {})
      BY <2>5, <2>6, <3>4, MirroredKept
    <3>. QED
      BY <2>4, <3>2, <3>3, <3>4 DEF Red
  <2>. QED
    BY <1>0, <2>4, <2>5, <2>6, <2>7, <2>8, CalmStep DEF Opening
<1>. QED
  BY <1>2, <1>3

\* A run that stands still, or that writes its memory down, changes neither what it
\* wants nor a group.
LEMMA CalmStill ==
    ASSUME CalmInv, pc \notin Opening, run' = run, entries' = entries,
           UNCHANGED <<audience, row, calm>>, pc' \notin Working
    PROVE  CalmInv'
<1>1. InHand'
  BY DEF InHand, Working
<1>2. WantedNow => WantedNow'
  BY DEF WantedNow, DesiredForGroup
<1>. QED
  BY <1>1, <1>2 DEF CalmInv

LEMMA CalmNext == TypeInv /\ CountInv /\ CalmInv /\ [Next]_vars => CalmInv'
<1>. SUFFICES ASSUME TypeInv, CountInv, CalmInv, [Next]_vars PROVE CalmInv'
  OBVIOUS
<1>0. TypeOK /\ IsRun(run) /\ IsJob(job)
  BY DEF TypeInv, TypeOK
<1>1. CASE \/ TimerStarts \/ OperatorStarts \/ PullUnsafe \/ Crash \/ ReadStatuses
           \/ ReportDesiredOnly \/ EndRun \/ EndDryRun
  <2>1. pc' \in Opening
    BY <1>1 DEF TimerStarts, OperatorStarts, Begin, PullUnsafe, Crash, Stop,
                ReadStatuses, ReportDesiredOnly, EndRun, EndDryRun, Opening
  <2>. QED
    BY <2>1 DEF CalmInv, InHand, Opening, Working
<1>2. CASE ReadAudiences
  <2>1. /\ pc' = "groups"
        /\ run' = [run EXCEPT !.wanted       = [g \in Group |-> DesiredForGroup(g)],
                              !.todo         = Group,
                              !.unmirrorable = run.snap.live,
                              !.lapsed       = Lapsed(run.snap),
                              !.slots        = RetriesPerRun]
        /\ UNCHANGED <<audience, row>>
    BY <1>2 DEF ReadAudiences, recordVars
  <2>2. /\ run'.wanted = [g \in Group |-> DesiredForGroup(g)]
        /\ run'.todo = Group /\ run'.snap = run.snap
    BY <1>0, <2>1 DEF IsRun
  <2>3. WantedNow'
    BY <2>1, <2>2 DEF WantedNow, DesiredForGroup
  <2>4. DoneMirrored(run', entries')
    BY <2>2 DEF DoneMirrored
  <2>5. InHand'
    BY <2>1 DEF InHand, Working
  <2>. QED
    BY <2>3, <2>4, <2>5 DEF CalmInv
<1>3. CASE ListFails \/ ListAndPlan \/ RecheckPlan
  BY <1>3, CalmPlanning
<1>4. CASE OfferAdd \/ AskPresence \/ AddsSettled \/ AskPresenceAgain
  BY <1>4, CalmAdding
<1>5. CASE SendRemove \/ FinishGroup
  BY <1>5, CalmRemoving
<1>6. CASE StartCommit \/ WriteRefusal \/ MarkLearned \/ RememberAccepted
  <2>1. /\ pc \notin Opening /\ run' = run /\ entries' = entries
        /\ UNCHANGED <<audience, row, calm>>
        /\ pc' \in {"recording", "remembering"}
    BY <1>6 DEF StartCommit, WriteRefusal, MarkLearned, RememberAccepted, Opening,
                recordVars, googleVars, historyVars
  <2>. QED
    BY <2>1, CalmStill DEF Working
<1>7. CASE Outside
  <2>1. calm' = FALSE
    BY <1>7 DEF Outside, RecordsChange, RowChange, OutsideEdit, PanelAccepts,
                GroupDeleted, GroupRestored, AccountChange, RefusalLapses, Elsewhere
  <2>. QED
    BY <2>1 DEF CalmInv
<1>8. CASE UNCHANGED vars
  <2>1. /\ run' = run /\ entries' = entries /\ job' = job /\ pc' = pc
        /\ UNCHANGED <<audience, row, calm, up>>
    BY <1>8 DEF vars, recordVars, googleVars, historyVars
  <2>2. WantedNow => WantedNow'
    BY <2>1 DEF WantedNow, DesiredForGroup
  <2>3. InHand => InHand'
    BY <2>1 DEF InHand
  <2>. QED
    BY <2>1, <2>2, <2>3 DEF CalmInv
<1>. QED
  BY <1>1, <1>2, <1>3, <1>4, <1>5, <1>6, <1>7, <1>8 DEF Next, SweepStep

LEMMA ClosingNext == TypeInv /\ ClosingInv /\ [Next]_vars => ClosingInv'
<1>. SUFFICES ASSUME TypeInv, ClosingInv, [Next]_vars PROVE ClosingInv'
  OBVIOUS
<1>1. CASE StartCommit \/ WriteRefusal \/ MarkLearned \/ RememberAccepted
  BY <1>1 DEF StartCommit, WriteRefusal, MarkLearned, RememberAccepted, ClosingInv
<1>2. CASE Outside \/ UNCHANGED vars
  <2>1. run' = run /\ pc' = pc
    BY <1>2 DEF Outside, RecordsChange, RowChange, OutsideEdit, PanelAccepts,
                GroupDeleted, GroupRestored, AccountChange, RefusalLapses,
                Elsewhere, sweepVars, vars
  <2>. QED
    BY <2>1 DEF ClosingInv
<1>3. CASE \/ TimerStarts \/ OperatorStarts \/ PullUnsafe \/ Crash \/ ReadStatuses
           \/ ReadAudiences \/ ReportDesiredOnly \/ ListFails \/ ListAndPlan
           \/ RecheckPlan \/ AskPresence \/ AddsSettled \/ AskPresenceAgain
           \/ SendRemove \/ FinishGroup \/ EndRun \/ EndDryRun
  <2>1. pc' \notin {"recording", "remembering"}
    BY <1>3 DEF TimerStarts, OperatorStarts, Begin, PullUnsafe, Crash, Stop, ReadStatuses,
                ReadAudiences, ReportDesiredOnly, ListFails, ListAndPlan, RecheckPlan,
                AskPresence, AddsSettled, AskPresenceAgain, BelieveRefusals, Abandon,
                SendRemove, FinishGroup, EndRun, EndDryRun
  <2>. QED
    BY <2>1 DEF ClosingInv
<1>4. CASE OfferAdd
  <2>1. pc' \in {"asking", "adding"}
    BY <1>4, OfferAddCases
  <2>. QED
    BY <2>1 DEF ClosingInv
<1>. QED
  BY <1>1, <1>2, <1>3, <1>4 DEF Next, SweepStep

\* Only the end of a run is one.
LEMMA RunEndedBy ==
    ASSUME TypeInv, [Next]_vars, RunEnded
    PROVE  EndRun
<1>0. pc = "remembering" /\ pc' = "idle" /\ report' # "raised"
  BY DEF RunEnded
<1>1. CASE Crash \/ RememberAccepted \/ TimerStarts \/ OperatorStarts
  BY <1>0, <1>1 DEF Crash, Stop, RememberAccepted, TimerStarts, OperatorStarts, Begin
<1>2. CASE \/ PullUnsafe \/ ReadStatuses \/ ReadAudiences \/ ReportDesiredOnly
           \/ ListFails \/ ListAndPlan \/ RecheckPlan \/ OfferAdd \/ AskPresence
           \/ AddsSettled \/ AskPresenceAgain \/ SendRemove \/ FinishGroup
           \/ StartCommit \/ WriteRefusal \/ MarkLearned \/ EndDryRun
  BY <1>0, <1>2 DEF PullUnsafe, ReadStatuses, ReadAudiences, ReportDesiredOnly, ListFails,
     ListAndPlan, RecheckPlan, OfferAdd, AskPresence, AddsSettled, AskPresenceAgain,
     SendRemove, FinishGroup, StartCommit, WriteRefusal, MarkLearned, EndDryRun
<1>3. CASE Outside \/ UNCHANGED vars
  BY <1>0, <1>3 DEF Outside, RecordsChange, RowChange, OutsideEdit, PanelAccepts,
     GroupDeleted, GroupRestored, AccountChange, RefusalLapses, Elsewhere, sweepVars, vars
<1>. QED
  BY <1>1, <1>2, <1>3 DEF Next, SweepStep

\* What a green report of an undisturbed run says of every group.
LEMMA GreenMirrored ==
    ASSUME TypeInv, CalmInv, ClosingInv, [Next]_vars, RunEnded, report' = "green", calm,
           NEW g \in Group
    PROVE  /\ \A m \in audience[g] :
                \/ SyncTarget(row[m], run.snap) \in Example
                \/ entries[g][SyncTarget(row[m], run.snap)] # "absent"
                \/ SyncTarget(row[m], run.snap) \in run.unmirrorable \cup run.lapsed
           /\ \A a \in Address \ Example :
                entries[g][a] = "member" =>
                    \E m \in audience[g] : SyncTarget(row[m], run.snap) = a
<1>1. EndRun
  BY RunEndedBy
<1>2. ~ HasFailures /\ pc = "remembering"
  BY <1>1 DEF EndRun, Stop
<1>3. /\ ~ run.mode.dryRun /\ run.todo = {}
      /\ WantedNow /\ DoneMirrored(run, entries)
  BY <1>2 DEF ClosingInv, CalmInv, Opening
<1>4. ~ Red(run.outcome[g])
  BY <1>2 DEF HasFailures, Red
<1>5. Mirrored(run, entries, g, {}, {})
  BY <1>3, <1>4 DEF DoneMirrored
<1>6. run.wanted[g] = {SyncTarget(r, run.snap) : r \in {row[m] : m \in audience[g]}}
                         \ Example
  BY <1>3 DEF WantedNow, DesiredForGroup, DesiredOf
<1>7. ASSUME NEW m \in audience[g], SyncTarget(row[m], run.snap) \notin Example
      PROVE  \/ entries[g][SyncTarget(row[m], run.snap)] # "absent"
             \/ SyncTarget(row[m], run.snap) \in run.unmirrorable \cup run.lapsed
  <2>1. SyncTarget(row[m], run.snap) \in run.wanted[g]
    BY <1>6, <1>7
  <2>. QED
    BY <1>5, <2>1 DEF Mirrored, Withheld
<1>8. ASSUME NEW a \in Address \ Example, entries[g][a] = "member"
      PROVE  \E m \in audience[g] : SyncTarget(row[m], run.snap) = a
  <2>1. a \in run.wanted[g]
    BY <1>5, <1>8 DEF Mirrored
  <2>. QED
    BY <1>6, <2>1
<1>. QED
  BY <1>7, <1>8

\* A run that nothing disturbs and that reports green leaves every group as the records
\* want it, for any groups, members, plans and failures (has_failures, _sweep_locked).
THEOREM GreenRunsMirror == Spec => GreenMeansMirrored
<1>1. Init => TypeInv /\ CountInv /\ CalmInv /\ ClosingInv
  <2>. SUFFICES ASSUME Init PROVE TypeInv /\ CountInv /\ CalmInv /\ ClosingInv
    OBVIOUS
  <2>1. pc = "idle" /\ calm = FALSE
    BY DEF Init
  <2>2. TypeInv
    BY TypeInit DEF TypeInv, GroupInHand, Working, Init
  <2>. QED
    BY <2>1, <2>2 DEF CountInv, CalmInv, ClosingInv
<1>2. TypeInv /\ CountInv /\ CalmInv /\ ClosingInv /\ [Next]_vars
        => (TypeInv /\ CountInv /\ CalmInv /\ ClosingInv)'
  BY TypeNext, HandNext, CountNext, CalmNext, ClosingNext DEF TypeInv
<1>3. TypeInv /\ CountInv /\ CalmInv /\ ClosingInv /\ [Next]_vars =>
        ((RunEnded /\ report' = "green" /\ calm) =>
          \A g \in Group :
            /\ \A m \in audience[g] :
                 LET a == SyncTarget(row[m], run.snap)
                 IN  \/ a \in Example
                     \/ entries[g][a] # "absent"
                     \/ a \in run.unmirrorable \cup run.lapsed
            /\ \A a \in Address \ Example :
                 entries[g][a] = "member" =>
                     \E m \in audience[g] : SyncTarget(row[m], run.snap) = a)
  BY GreenMirrored
<1>. QED
  BY <1>1, <1>2, <1>3, PTL DEF Spec, GreenMeansMirrored
=============================================================================

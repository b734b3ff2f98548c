# rosadmin in TLA+

rosadmin keeps a chapter's Google Groups equal to its membership records. The
roster comes from Solidarity Tech, leaders change groups in a web panel, and a
sweep that a timer starts every four hours compares every linked group with the
records and repairs it. This directory holds TLA+ specifications of that
program, the TLC configurations that check them and proofs for TLAPS.

## The system

| Part | State it keeps | Operations | Talks to |
|---|---|---|---|
| Roster pull (`db/roster.py`) | members, bodies, leader rows, standings, in Postgres | one transaction: upsert under savepoints, fold merged accounts, reconcile leader rows, lapse the absent | Solidarity Tech; the panel's rows; started by the sweep, the CLI and the admin socket |
| Reconcile sweep (`reconcile.py`, `db/reconcile.py`) | nothing of its own; an advisory lock while it runs | pull, provision, read audiences and statuses, list each group, plan, recheck, add, ask about the group, remove, record | Google, Postgres |
| Address rules (`group_sync.py`) | - | which of a member's two addresses to use; what an outcome means | used by sweep and panel |
| Status memory (`db/google_email_status.py`) | what Google last said of each address, and whether the first cohort is learned | remember accepted, commit refusals behind a fuse, lapse after 90 days | sweep writes both kinds, the panel writes accepted ones |
| Provisioning (`reconcile.py`, `group_sync.py`, `google_group.py`) | links of bodies to groups, the bootstrap marker | mint or adopt the groups a body lacks, link it, arm the creation cap | Google, Postgres, the admin socket's link route |
| Panel (`web/records.py`, `db/mutations.py`) | manual membership rows; mirror tasks in memory | check, claim, write, then mirror in a task of its own | Google through the same `GroupSync`; drained at shutdown |
| Login and sessions (`web/auth.py`, `sso.py`, `db/sessions.py`, `db/jti.py`, `web/rate_limit.py`, `db/prune.py`) | state cookie, used assertions, sessions, counters | begin, callback, resolve, logout, prune | botonio's socket, the records' leader gate |
| Frontend (`frontend/src/useGroupAdmin.ts`) | selected group, roster, pending removals with timers | load, select, search, add, remove, undo | the web API |
| Solidarity Tech client | request budget | page through users, retry a 429 | Solidarity Tech |
| Audit, backup, deploy wrapper, migrations, naming, CLI, mocks | see `PROJECT.json` | | |

### What is hard here

* The sweep holds no transaction while it talks to Google. Between two of its
  awaits the records change, panel tasks edit the same groups, a pull rewrites
  addresses, a group is deleted or restored, and the process may die.
* Google answers the same 404 for an unknown address and for a missing group, so
  the sweep asks a second question and the world can change between the two.
* What one group teaches the run (an address is refused, an address is good) is
  used for the next group at once and written down only at the end.
* Fuses and allowances (removal fuse, refusal fuse, retry slots) are thresholds
  over sets whose size depends on everything above.
* A member has two addresses, and which one stands for them in a group depends
  on what Google said of both in earlier runs.

The places where this can go wrong are listed under `hazards` in `PROJECT.json`, each
with its line; those where it does go wrong are below, under "What the source says
and does not keep".

## Modules

| Module | Models |
|---|---|
| `SyncRules` | the pure rules: `sync_target`, `plan_group`, the removal fuse, `_recheck`, writing a status |
| `SyncRulesReference` | what the rules are to give, as reference definitions over samples of their inputs |
| `Sweep` | the sweep as a process, one action per await, and everything outside it as actions that may come between |
| `Roster` | the roster pull as a transaction over a snapshot, several callers, the panel and bans beside it |
| `Listing` | what comes before a pull: paging through Solidarity Tech's users while they change, the 429s, what decodes |
| `Provision` | making and linking the groups of new bodies, one action per Google call |
| `Panel` | a leader's adds and removes, the tasks that mirror them, the drain, a coarse sweep beside them |
| `Access` | what the login promises, in three actions: the abstract specification |
| `Login` | begin, callback, the session and its requests, logout, rate limit, audit and housekeeping, one action per await; implements `Access` |
| `GroupAdmin` | the page: cache, screen, tombstones and timers, requests that answer late, logout |
| `SweepProperties`, `RosterProperties`, `ListingProperties`, `ProvisionProperties`, `PanelProperties`, `LoginProperties`, `GroupAdminProperties` | what each promises, and what the source says of itself and does not keep |
| `MCSyncRules`, `MCSweep`, `MCRoster`, `MCListing`, `MCProvision`, `MCPanel`, `MCLogin`, `MCGroupAdmin` | small instances for TLC |
| `SyncRulesProofs`, `SweepProofs`, `RosterProofs`, `ListingProofs`, `ProvisionProofs`, `PanelProofs`, `LoginProofs`, `GroupAdminProofs` | theorems for every value of the constants |

`Sweep` and `Panel` extend `SyncRules`, because the code calls the same
`sync_target` and writes the same status rows from both. `Sweep` sees the other
components through their effects on what it reads; so does `Panel`. `Listing`
carries its rosters on to a pull that is coarser than `Roster`'s, so that what
goes wrong in a listing can be followed into the records and out again.

### From the code to `Sweep`

`run` holds the locals of `_sweep_locked` (`unmirrorable`, `lapsed`, the retry
slots left, `refusals`, `accepted`, one `GroupOutcome` per group), `job` those of
`_apply` for the group in hand (plan, adds and removes still to send, `tally`,
`found`, `removes_converged`), `commit` those of `commit_refusals` and
`remember_accepted`. `pc` says which await comes next:

| `pc` | Next await | Actions |
|---|---|---|
| `idle` | - | `TimerStarts`, `OperatorStarts` |
| `pull` | pull, then `email_statuses` | `PullUnsafe`, `ReadStatuses` |
| `audiences` | `desired_audiences` | `ReadAudiences`, `ReportDesiredOnly` |
| `groups` | listing the next group | `ListFails`, `ListAndPlan`, `StartCommit`, `EndDryRun` |
| `recheck` | `desired_for_group` | `RecheckPlan` |
| `adding`, `asking` | one insert; `_presence` after a 404 | `OfferAdd`, `AskPresence`, `AddsSettled`, `AskPresenceAgain` |
| `removing` | one delete; `_presence` at the end | `SendRemove`, `FinishGroup` |
| `recording`, `remembering` | one status row | `WriteRefusal`, `MarkLearned`, `RememberAccepted`, `EndRun` |

`Crash` may come at every point. One answer of Google and the use made of it are
one action, because nothing is awaited between them; two answers never are.

Groups and adds are taken in sorted order, as in the code (`FirstOf`). The
removes of a plan are taken in any order, which covers the code's.

What is abstracted:

* An address is a natural number that stands for its casefolded string; `<` is
  the order of `sorted()`.
* Refusal times are ranks, since only their order is compared; a refusal's 90
  days pass by the action `RefusalLapses`.
* What a pull, a panel task, a ban or an administrator does is seen through its
  effect (`RecordsChange`, `RowChange`, `OutsideEdit`, `PanelAccepts`), each
  bounded by `Bounds`.
* A transient error that `_retry_transient` repeats is an answer whose change has
  or has not landed (`Answered`, `InsertReplies`, `DeleteReplies`).
* Audit rows and log lines are left out: nothing reads them back.
* The advisory lock is the single `pc`. A sweep that loses its lock connection
  and goes on is not modelled.
* Provisioning and the pull inside a run are one step; `HasFailures` is without
  provisioning's share. Both have modules of their own.

`steady`, `sound`, `revived` and `calm` are history variables: they record what
the properties speak of and no action reads them.

### From the code to `Roster`

| Model | Code |
|---|---|
| `db` | the committed rows of `members`, `body_memberships`, `member_bans` |
| `pull[p]` | a caller of `pull_roster`: its roster, whether it rehearses, the attempt |
| `queue`, `holder` | who waits for the advisory lock, and who has it |
| `snapshot[p]`, `outdated[p]` | what `REPEATABLE READ` shows the transaction, with its own writes; the rows others have committed since |
| `tx` | the holder's touched rows, and the locals of `_pull_in` (`pairs`, `present`, `skipped`, `merges`) |

A pull asks for the lock (`AskForLock`, which is where Postgres takes the
snapshot), gets it (`TakeLock`), and stores one member of its roster after the
other. `StoreMember` is one savepoint: the upsert, on a clash the folding of the
rows in the way and the second upsert, and noting which bodies the member leads.
`SkipMember` is the savepoint rolled back. The statements after the loop (leader
rows, lapses) and the commit are one action (`CommitPull`). A row that another transaction changed since the snapshot
makes the statement fail and the pull start again (`LoseRace`), three times at
most. `PanelAdd`, `PanelRemove`, `Ban` and `Unban` commit between any two of
these, and a crash ends a pull anywhere.

Abstracted: names, alternate emails, assessments and audit rows; bodies exist
already. Postgres itself (snapshots, write conflicts, cascades, foreign-key locks)
is modelled from how the statements rely on it and is marked external. In one place
it is stricter here than in Postgres: when a row's manual add or ban is deleted by
somebody else while a pull folds that row, the model's pull loses the race. Postgres
may instead let the fold through, which then carries over what its snapshot still
shows; the properties speak of what must not be lost and say nothing of a removal
or an unban that a fold undoes in this way. `ConstraintsHold`, the UNIQUE and foreign
keys of the schema, is Postgres's to keep: the model builds it in, and it is a lemma
of the proofs, not a property of a run.

### From the code to `Provision`

`run` holds the locals of `_provision` as sets of places, a place being a body's
leaders' or editors' group, or the main group. `pc` names the next call: sizing
the plan (`_group_exists`), then for each place `ensure`'s insert, its two
patches and its poll, or its reads when it adopts; then one link per body; then
the marker. Each call is an action and may fail. `LeadersAddress` and
`EditorsAddress` are constants that may give two bodies the same address, as
`group_naming.py` may; `Unnamable` bodies have none. An insert that answers
"exists" after the code has read that the group does not adopts the group, and
the run counts it as created, as in the code. `touched` (what somebody else has changed during a run), `minted` and
`ours` are history.

### From the code to `Panel`

A slot of `request` is a request and then the task it leaves behind: `stage` is
the next await, the other fields are its locals. Claims are one action, because
the body's row is locked through the transaction. What the task is given by value
(the member's row, the group's address) is in its record from then on; what it
reads later (the statuses) is read later. `unrecorded` and `blurred` are history:
the writes that no audit row exists for yet, and the members whose mirror
something else may have crossed. `stray` holds the Google calls of tasks that
were cancelled: `asyncio.to_thread` cannot stop a thread. A failing database read
between the claim and the call ends the request or the task with nothing recorded
(`Lost`). The sweep is four actions: plan from the records, adds, removes,
status rows. The shutdown goes step by step: `Drain` takes the tasks in flight at that
moment (`pending`), `ClosePool` waits until they have ended (`Gathered`), and when the
30 seconds are over (`DrainTimesOut`) those that are left are cancelled and each still
has to unwind (`Unwind`) before `gather` returns. What waits for a slot's ending here
is the lifespan, not the slot: `service` says where it stands, and nothing empties a
slot but its own last step or a kill. The audit sink is one action that cannot fail visibly
(`record_best_effort`).

### From the code to `Listing`

`listing[p]` holds the locals of `list_members` and `_get_users` of one caller: the
offset, the attempts left, what was decoded so far. Each page is one action
(`Read`), because nothing else of the caller happens between asking and
decoding; what it lists is a set of entries, each with the place it was read from,
which is the list of the code; between two pages accounts come (`Create`, anywhere in Solidarity Tech's
order), go (`Delete`) and change (`Edit`). A 429 takes an attempt (`Limited`), any
other error ends the pull (`Errs`). `total_count` may be left out. `Store` is
`pull_roster` as far as standing goes: the last entry of an account stands, the
absent are lapsed, and a leader listed twice fails the one `INSERT` of the leader
rows and with it the pull (`Storable`). `steady` and `shifted` are history. The
requests' pacing and the fields' formats are left out, and so are the merges and
the lapse fuse, which `Roster` has.

### From the code to `Login`

A visit is a begin and the callback that answers it, or a callback URL that is
loaded once more (`Reload`), in any browser. `visit[v].stage` is the next await of
`begin` or `callback`:

| Stage | Next | Actions |
|---|---|---|
| `starting` | `sso_begin` | `BeginAnswers` |
| `away` | the user, at Discord | `Callback` |
| `completing` | `sso_complete`, then `verify_assertion` | `Complete` |
| `claiming` | the `INSERT` into `jti_replay` | `Claim` |
| `gating` | `gate_lookup` | `Gate` |
| `creating` | the session's `INSERT` | `Create` |
| `auditing` | the audit row and the journal line | `Audit` |
| `answering` | the response with its cookies | `Answer` |

`Break` is an exception or a kill at any of them. A request of a session resolves
it (`Resolve`, the one `UPDATE` that tests and refreshes), reads, or revokes and
records. Cookies belong to browsers and are shared by a browser's visits. `Tick`
is the clock, `Prune` the sweep's housekeeping. An assertion is described by what
`verify_assertion` asks of it (`Claims`), not by its bytes; Discord's and botonio's
part is the external choice in `Complete`. `passed`, `opened`, `crossed` and the
requests' `shut` are history. Left out: the fake login of development, and
a service that runs without journald.

`Access` has sessions that answer, sessions that no longer do, and assertions that
are valid or spent. `Door` in `LoginProperties` maps to it: a session is live while
`resolve` would take it, over once it was live and is not, an assertion is spent by
the session whose claim it was. That an assertion opens one session holds while it
is valid; a callback that stands between verification and claim until the
assertion has expired and its row has been pruned is not excluded, in the code
as in `Access`.

### From the code to `GroupAdmin`

`groups` is the cache (`groupsRef`), `screen`, `removing` and `found` are the
reducer's state, `handle` is `removeTimers`. An operation is a search, an add or a
removal with its stage: armed (the timer runs), sent, done or refused by the
server, answered. `server` has the memberships. `Undo`, `Select` and `Logout` are the
leader's; `Arrives`, `Lost` and `Elsewhere` the network's and other leaders'. Each
reducer case with the callback that dispatches it is one action, because a
JavaScript callback runs to its next await. `crossed`, `blurred`, `undone`,
`overlapped` and `stranded` are history. The filter, the texts, the mock and fake
logins (which alone log in again within one page) are left out.

## Runs

| Run | May happen outside | Shows |
|---|---|---|
| `SyncRules` | every input of a small instance, with groups whose removal budget is the floor and groups whose budget is the share | the rules agree with their reference definitions |
| `Sweep_runs` | a group deleted, one restored, a failing call; or changes of the records, a row and a status; or two operators and a fault; or most addresses refused, an account that changes and a death | a refused address is met once; an address Google holds is not written off; nobody wanted since the recheck is removed; every planned change is reported; green means mirrored; the retry allowance; the refusal fuse |
| `Sweep_converges` | one edit, one fault, one account change and one run that dies, then quiet | the groups converge and stay |
| `Roster_pulls` | a second pull; or two panel writes, a ban and a crash | bans and manual adds survive folding; no mass lapse; what is folded is wholly folded or undone; everybody is stored or skipped as reported; nobody in the roster loses standing; leaders follow the roster |
| `Roster_stored` | one panel write, pulls by the timer | whoever is not in a circle of clashes gets stored |
| `Listing` | accounts created, deleted and edited between pages, 429s, an error, a second puller | a listing errs by no more than the collection shifted under it; later pulls restore what was missed, failed or applied out of order |
| `Provision` | two failures and a new body; or a death, an operator's link and a rehearsal; or a failure and an administrator | the cap; green means linked; an insecure link is reported; every body that can be is linked in the end |
| `Panel` | one of: a pull or a ban with a failure; a drain or kill with a failure; a relink with a sweep's death; three requests | leader rows are out of reach; every committed write is recorded; no task outlives the pool; undisturbed mirrors follow the records; what is disturbed is repaired by the sweeps |
| `Login` | up to two begins and a reload, two requests, a change of the records, a fault, the clock, housekeeping | `Login` implements `Access`; a session lands where it began; an undisturbed leader is let in; the rate cap; every outcome is on record or complained of |
| `GroupAdmin` | group changes, a logout, a lost answer, another leader | once answered, cache and screen agree with the service; an undone removal is not sent; tombstones come down |

Two more runs, `Roster_fold_loses` and `Login_ban`, end in a violation; see below.

### Bounds

Every behaviour starts with one member of `Bounds`, a function from the kinds of
outside events to how often each may happen; the model's own steps are not
bounded. Several small bounds instead of their union keep each question small:
the listed combinations are those in which two kinds of event interact. The type
invariants that no run lists hold on the same instances.

* `Sweep`: two members, two groups (one in `Sweep_converges`), three or four
  addresses, one of them a gmail alternate. That is the least in which a refusal
  met in one group matters in another, a member can be known by two addresses,
  and a removal set can exceed its budget. The code's 5, 25 and 25 become 1, so
  that every limit is reached; `Sweep_converges` keeps 5 and a refusal ceiling of
  3, because a fuse that stays blown rightly prevents convergence. It also leaves
  out the one answer of Google under which both addresses of one member and the
  only one of the other are refused for good: with one retry slot and refusals that lapse
  as soon as they are written (time is coarse in the model; in the code 90 days
  against runs every four hours) the slot would go to the same address again and
  again. 3 073 571 states in `Sweep_runs`, 1 066 300 in `Sweep_converges`.
* `SyncRules`: four addresses, a floor of one and a share of one half, up to two retry
  slots. A group of one or two is then held to the floor and one of three or four to
  the share, which lets two go and is not whole for three: dropping the share,
  rounding it down and comparing with `>=` are each noticed. 1 994 016 states.
* `Roster`: three stored members, up to five accounts, one body, ten rosters that
  merge, promote, clash, leave out and repeat members, and four tables to begin
  with, which differ in leader rows, manual adds and bans. Folding needs a row, its
  successor and a third who holds the Discord id. The lapse floor is 1 and the
  fraction one half, so that with three in good standing the rounded-up fraction is
  the larger: two may go and three may not. 228 615 states.
* `Provision`: two bodies whose names collide, one with addresses of its own, one
  that cannot be named; a cap of 1 or less than what is missing, so that it trips.
* `Listing`: three accounts in pages of two, two more to come, one leader, two
  pullers of which a timer repeats one. A listing then spans a page boundary, and
  an account before, at and after it can go or come. 337 813 states.
* `Login`: two browsers (symmetric), three visits, two requests, a limit of 1 per
  window of two ticks, four ticks in all. The ages keep their order (assertion
  and state cookie, then idleness, then full age), and each can pass while a visit
  or a request is under way. Three visits let a reload meet two begins of one
  browser. 1 527 190 states.
* `GroupAdmin`: two groups, two members, three operations. Two removals of one
  member in two groups are the least that meet in `removeTimers`, and the third
  operation is what one of them can spoil. 1 003 717 states.
* `Panel`: one body, two groups to link it to, a leader and the member who is
  added and removed, two slots (the third request reuses one). Two tasks for one
  member is all that reordering needs. The panel starts where a sweep has left
  Google (`StartsAssumption`): otherwise the mirror would answer for what was
  wrong before it.

Each property has a mutant in `PROJECT.json`: a plausible bug in one mapped
definition under which the same run finds it violated. Mutants stand in the
modules beside the definition they change, with a comment that says what the bug
is.

### What the source says and does not keep

Two runs end in a violation, each of one sentence:

| Run | Sentence | What happens |
|---|---|---|
| `Roster_fold_loses` | a row is folded "in the order that loses nothing" (`roster.py:97`) | a manual add gives way to the survivor's leader row, which the same pull deletes |
| `Login_ban` | a banned member's session "stops working at its next request" (`web/records.py:87`) | the search asks for a live session and never resolves the member behind it, so it goes on answering until the session ends by itself |

More such sentences are stated in the properties modules. TLC refutes each of
them when it is added to the configuration named:

| Definition | Added to | Sentence | What happens |
|---|---|---|---|
| `AbandonedTurnsRunRed` | `Sweep_runs` | an abandoned group makes the run red (`reconcile.py:843`) | all adds settled, no removes: nothing is counted as failed and the run is green |
| `NeverRepointed` | `Provision` | a hand-linked body is never silently repointed (`reconcile.py:234`) | a link made while the groups are being made is overwritten |
| `MintedSecure` | `Provision` | a missing group is minted with secure defaults (`group_sync.py:260`) | a run dies between insert and patch, the next adopts the bare group |
| `NothingCarriedOutOfAbandoned` | `Sweep_runs` | nothing an abandoned group refused is carried out (`reconcile.py:849`) | its addresses stay in the run's `unmirrorable` |
| `AcceptedOutranksRefusal` | `Sweep_runs` | accepted outranks refused (`:657`) | not for an address already known as accepted |
| `ProtectedNeverSwept` | `Sweep_runs` with `BoundsConverges` | owners and managers are untouchable (`:139`) | not one promoted after the listing |
| `ErrsTowardAccess` | `Sweep_runs` | adds before removes errs toward access (`:737`) | a refused add does not hold back the removal of the other address |
| `RefusalsCounted` | `Sweep_runs` | refusals are counted as received (`:433`) | the outcome of a group found gone counts none |
| `OneRaceLost` | `Roster_pulls` with `BoundsThree` | a queued pull can lose exactly one race (`roster.py:240`) | the retry queues again, and its new snapshot can be outdated by the next holder |
| `AddressBacksOneBody` | `Provision` | an address backs exactly one body (`create_bootstrap_state.sql:13`) | an operator may link one body's editors' address as another's leaders' address: the constraints are per column |

Three more were met and have no definition. The repository's `README.md:122` says that only the very
first sweep ignores the creation cap; the marker is set by the first run that
makes something and lives to its end. `roster.py:25` calls a repeated pull
idempotent; pulling a roster twice may store a member whom the first pull had to
skip. And `useGroupAdmin.ts:310` says that an undo cancels the timer before
anything is sent: timers are kept by member alone, so when a member's removals in
two groups overlap, the undo of one stops the other's or none
(`UndoneIsNotSent` is stated for removals that do not overlap). For the same
reason `PageFollows` excepts from the screen, but not from the cache, whoever an
answer for another group has reached. One hazard the page does run into: a logout
stops the timers of the deferred removals before it awaits the server, so when it
fails the removals are gone and their tombstones stay up (`stranded`, which
`TombstonesSettle` excepts).

### Fairness

| Module | Weakly fair | Because |
|---|---|---|
| `Sweep` | `TimerStarts`, `SweepStep`, `RefusalLapses` | the systemd timer is `Persistent=true`; every await has a timeout in the client or the pool; time passes |
| `Roster` | `TakeLock`, `PullStep`, `AskForLock`, `StartPull` of the periodic caller | Postgres grants a lock that is free, in the order asked; statements return; the timer |
| `Provision` | `TimerStarts`, `RunStep` | as for the sweep |
| `Listing` | the periodic puller's `PullerStep`; `Read` and `Store` of the others | the sweep's timer; a request answers, fails or times out |
| `GroupAdmin` | each operation's `OpStep`; `LogoutEnds` | a browser's timers run out; a request settles |
| `Panel` | each slot's `RequestStep` (with `Unwind`), `SweepStep`, `ServiceStep` (`ClosePool`, `StartService`, `StrayLands`) | the event loop runs every task that is ready; the timer; systemd restarts the service. The drain's timeout (`DrainTimesOut`) may or may not come |

`Login` and `SyncRules` have safety only and assume nothing. Nothing is assumed of
people, faults, deaths or crashes, and a call that fails may
fail as often as its bound allows.

## Proofs

Every safety property that a run checks is a theorem, for every value of the
constants that the named assumptions admit: sets of members, addresses, bodies,
visits and requests of any size, any thresholds, any bounds. What each theorem
rests on is an inductive invariant, of which TLC was asked first on the run's
instance. A theorem's module extends the properties of its component.

| Theorems | Module | Inductive invariant |
|---|---|---|
| `SyncTargetOwn`, `PlanGroupSound`, `PlanGroupComplete`, `RecheckFacts`, `EarliestTakesFirst`; `TargetPreferred`, `PlanSettles`, `FuseIsExact` | `SyncRulesProofs` | - |
| `TypeCorrect`, `DesiredKept`, `MetOnce`, `GoodKept`, `AllowanceKept`, `LearnsLittle`, `PlannedChangesReported`, `GreenRunsMirror` | `SweepProofs` | `TypeInv`, `KeptInv`, `MetInv`, `SoundInv`, `AllowInv`, `LearnInv`, `CountInv`, `CalmInv` |
| `TypeCorrect`, `BansOutliveFolds`, `ManualAddsOutliveFolds`, `FoldsAreComplete`, `ReportsAreTrue`, `RosterStandingKept`, `LeadersAreTheRosters`, `AbsenceIsHeldBack` | `RosterProofs` | `SafeInv`, `CarryInv`, `PullInv`, `FuseInv` |
| `TypeCorrect`, `ListingsErrByShifts` | `ListingProofs` | `ErrsInv` |
| `TypeCorrect`, `MintsWithinCap`, `GreenRunsLinked`, `InsecureLinksAreReported` | `ProvisionProofs` | `ProvisionInv`, `ReportInv` |
| `TypeCorrect`, `WritesRecorded`, `NoTaskOutlivesPool`, `LeadersOutOfReach`, `UncrossedMirrors` | `PanelProofs` | `PanelInv`, `MirrorInv` |
| `TypeCorrect`, `SessionLandsWhereItBegan`, `RateCapped`, `ImplementsAccess`, `UncrossedLoginsLand`, `OutcomesAreAudited` | `LoginProofs` | `LoginInv`, `LandInv` |
| `TypeCorrect`, `PageShowsTheService`, `UndoStops` | `GroupAdminProofs` | `PageInv`, `RemovalInv` |

### The rules

`SyncRulesProofs` proves, for any set of addresses and any thresholds, that
`sync_target` answers with one of the member's own addresses (`SyncTargetOwn`),
what every plan satisfies (`PlanGroupSound`: who is missing is added or withheld, the
retries fit the slots and come first, the fuse refuses all or nothing), what the
first n of a set are (`EarliestTakesFirst`), that a plan leaves nobody out
(`PlanGroupComplete`) and what a recheck keeps (`RecheckFacts`), from
`AddressAssumption`, `FuseAssumption` and, for the samples, `SlotsAssumption`: the slots
are any natural numbers. The three properties of the run
`SyncRules` follow for every sample: `AfterPlan` says that what a plan leaves is
what it withheld and what its fuse refused; `AboveShare` is the arithmetic of the
rounded-up tenth; `TargetByPreference` goes through the at most two candidates of a
member. They need that refusals are at different times, as the samples have them;
the code's `min` breaks a tie by the candidates' order. The samples are a variable
of `SyncRulesReference` that `SweepProofs` and `PanelProofs`, which use the lemmas,
inherit and never mention.

### The sweep

`TypeOK` is not inductive by itself: after the last add of a group the code goes on
with the group in `job`, so the proof carries `GroupInHand`, which says that `job`
is empty between groups and otherwise is of a group still to do (`TypeInv`). Each
action has its lemma; the arithmetic of the outcome's counts and the statuses'
overwrites are lemmas of their own. Under `TypeInv`:

* `DesiredKept`: nobody wanted since the recheck is about to be removed. The
  strengthening `KeptInv` extends it from `removing` back to the recheck, the
  step that establishes it; every change of the records shrinks `steady`, and
  with it what must be kept.
* `MetOnce`: no address is refused twice in a run. `MetInv` adds that every
  refusal held is already withheld (`unmirrorable`) and that what is about to be
  offered is disjoint from it; `Cleared` says that runs and groups start with
  none.
* `GoodKept`: an address that Google held all along is not written off. `SoundInv`
  adds where such an address may still stand: among the 404s of a group that is
  gone, until the second question drops them.
* `AllowanceKept`: `AllowInv` counts the lapsed addresses that a run has taken out
  of its set together with the slots it has left, which never exceed a run's slots;
  the step that matters is the recheck, which spends slots for what it keeps.
* `LearnsLittle`: `LearnInv` says that nothing is learned before the fuse has
  judged, that what is learned is of the refusals met, and that the fuse counted
  those. It rests on `MetInv`: because no address is refused twice, a run's
  refusals are finite and news can be counted by address.
* `PlannedChangesReported`: `CountInv` says that what a group has tallied and what
  it has still to do are together what its plan held, through both halves of the
  group; the step that matters is the one that abandons it.
* `GreenRunsMirror`: `CalmInv` says, while nothing outside has happened, that every
  group the run is through with is as the run wants it or makes the run red, and
  that the group in hand will be once what is still to send has been sent. It rests
  on `PlanGroupComplete` for the plan and on `CountInv` for what a failure leaves.
  `ClosingInv` adds that a run closes with no group left.

### The pull

`SafeInv` relates three sets of tables: the committed ones, the holder's snapshot
with its own writes, and what the indexes see (`View`, the holder's writes over the
committed rows). Each pull's snapshot agrees with the committed tables except at the
rows it has written and at those that others have committed since (`ViewsAgree`);
the holder has written none of the latter, or it would have lost the race, and what
it sees through the indexes keeps the constraints (`ViewHolds`). A commit makes the
view the tables, so they keep them too. `CarryInv` adds what a fold has done
(`Merges`) and that for each banned row and each manual add of the committed tables
the view has the ban or the add on the row that stands for it now (`BansFollow`,
`AddsFollow`, `AddersFollow`): also for those committed after the snapshot, because
a fold writes the rows it carries from. `PullInv` says what the loop over the roster
has stored, skipped, found to lead and folded so far; `ReportsAreTrue` follows from it
at the commit, because what the pull has not stored is neither folded (`Folds`) nor,
while the roster names it, lapsed. `FuseInv` says on which tables
the fuse was judged (`Judged`): ones that agree with the committed tables except
where others have committed since, and with the holder's except where it has written;
so what it does not let through is what `MassAbsenceHeldBack` counts. The budget there
is written without a division (`WithinLapseBudget`), and `BudgetIs` says that the
code's rounded-up share is within it. The proofs
need `RosterAssumption`, with finitely many rows, and `StartsAssumption`, that the
database starts with tables its own constraints would have accepted.

### The listing

That a listing has missed and repeated no more than it may is a statement about its
end. `ErrsInv` makes it one about every page (`WithinShifts`): those who were there
all along and are neither listed nor still to come are no more than the deletions
felt so far, and the repeats together with those who are listed and still to come
are no more than the creations. A change of the collection moves at most one account
across the place where the listing is (`RestAfterInsert`, `RestAfterRemove`, from
what `InsertAt` and `RemoveAt` do to a sequence), and a page turns what was to come
into what is listed (`ReadWithin`); `PageCovers` is the one that depends on when the
code takes a page for the last.

### Provisioning

From `ProvisionAssumption` (bodies are numbered and finitely many). `ProvisionInv`
adds to the types that everything sized is known to be missing, is there, or was
touched by somebody else, and that what is minted is of what was missing
(`MintsWithinCap`). That the next place in order exists is proved with the library's
well-foundedness of the naturals. `ReportInv` follows the report: every place planned
is still to do, has its group or is counted as failed, and every body still to be
linked, linked, or counted (`Accounted`); a place that is done has a secure group or
is reported to have diverged (`Vetted`, for which what was found missing stays
missing until its turn).

### The login

For any number of visits, browsers and requests and any ages. `LoginInv` consists of
the types, what the stages of a visit imply (`Stages`), where states and cookies
come from (`SameBrowser`), that an assertion which is still valid is in `jti_replay`
once it is claimed, with at most one visit between claim and session (`BurnedOnce`),
and that in an open window the counter has not fallen behind what passed (`Counted`).
The last needs `RetentionAssumption`: a counter is kept at least as long as its
window. For `ImplementsAccess` each step maps to `Issue`, `Open` or `End` of
`Access`, or changes nothing of it. `LandInv` adds what a visit still has that
nothing has crossed: a ticket of its own, no assertion before its time, no claim
ahead of it and its state cookie while the browser is away (`Undisturbed`).
`OutcomesAreAudited` looks only at who moves, since the logs grow; a logout reads no
record (`Readers`).

### The panel

`PanelInv` is inductive for the types, for what a committed write is owed and for the
pool that closes last. For the last, `TasksPending` says that whatever is under way
while the service drains or cancels is among what it waits for; that the pool is
closed over nothing follows because it is closed when all of that has ended.
`AddressPicked` is in it because a cancelled task's call would
otherwise have no address. Besides `PanelAssumption` it needs `NothingAssumption`,
that an empty slot is no request. Most steps change one slot, so `Put` says once what
that takes. `MirrorInv` says, of each member nothing has crossed, what may be under
way for them: one write at most, whose task knows what the records say and picks the
address they are to have (`SlotsFollow`); a sweep that has nothing to do for them but
what the records say (`SweepPart`); and in the group, the one address they are to
have, or none while Google has not been told (`GroupPart`). `Owned` says whose address
is whose, so that a call for one member cannot change another's.

### The page

`PageInv` says of every membership how far page and service may differ: by at most
one operation under way, unless two have met there (`Follows`). `RemovalInv` says that
a removal that no other of the same member has met is the one the member's timer
handle is of (`Reached`), so an undo stops that one.

### What the proofs changed

Attempts that failed for a reason, and what came of them:

* A fold also meets the rows the survivor may already have for a carried add or a
  carried ban, and loses the race to whoever has changed those since the snapshot
  (`MergeWrites`); the model had let such a commit through.
* The row of a new member has an id that has not been in use since the snapshot, by
  rows that others have committed and deleted either (`HomeOf`).
* A caller that crashes takes its own place in the queue with it and no other; written
  with `WithoutPlace` that can be reasoned about, because nobody waits twice.
* `FoldsComplete` and `LeadersFollowRoster` were too strong for a roster that names an
  account twice, once stored and once skipped (`NamedOnce`).
* `UncrossedMirrorFollows` had silently relied on no two members sharing an address.
  The table keeps emails unique but not alternates, so the property now says so
  (`Alone`), and the start is an assumption (`StartsAssumption`).
* A listing never has no attempts left: the one that takes the last ends it.

### Only model-checked

* Liveness (`EventuallyConverged`, `EventuallyStored`, `EventuallyRestored`,
  `EventuallyLinked`, `EventuallyMirrored`, `TombstonesSettle`), which is out of the
  provers' reach.
* The sentences of the source that it does not keep: TLC shows a counterexample of
  each, and there is nothing to prove.

## Not modelled

* Two sweeps at once. The advisory lock is the single `pc`; a sweep that loses its
  lock connection and goes on is a hazard without a property.
* The deploy wrapper and its command line: steps of one operator's shell and SSH.
  What two activations at once would do depends on systemd and the file system,
  which the code only calls.
* A pull that is composed of `Listing` and the whole of `Roster`: the two state
  spaces multiply, so each has the other in a coarse form.
* Group naming and the decoding of records: string formatting and parsing. What
  matters of them (two names that meet, a name that cannot be built) is a constant
  of `Provision`.
* Lock waits inside one statement, and so a deadlock between a pull and a panel
  claim: a transaction of the panel is one step.
* The backup script, the command line's parsing, the mocks and the devtools have
  no behaviour of their own that order or failure could change.

## Plan

Done: the rules, the sweep, the pull and the listing before it, provisioning, the
panel and the page in front of it, the login with its abstract specification;
proofs of every safety property the runs check. What is left, in this order:

1. `SweepSpec`: what one run of the sweep promises, as an abstract specification
   in a few actions, which `Sweep` implements under a refinement mapping.
2. The same for the pull, whose commit is one step of an abstract store.
3. Two sweeps at once, after a lost lock connection: two sets of a run's locals in
   an instance small enough for it.

# Digarr in TLA+

TLA+ models of Digarr's concurrent core: what runs in turns, what is shared
between the turns, what a crash, a lost answer or a failed write leaves behind.
Each module is translated from the TypeScript under `src/`; TLC checks it on
small instances, and the TLA+ proof system proves the central invariants for
every value of the constants.

Digarr is one Bun process with one database (PostgreSQL or embedded PGlite),
documented as single-replica (`docs/ARCHITECTURE.md`, "Database backend"). JavaScript
runs each turn of the event loop to its end, so **an action is the code from one
`await` to the next**, and everything in memory (the queue, the locks, the running
flag) is lost together by a crash while the rows stay.

## The system

| Part | State | Operations | Hard behaviour | What makes it correct |
|---|---|---|---|---|
| Pipeline orchestrator (`core/pipeline/orchestrator.ts`, `store.ts`, `core/jobs/recorder.ts`) | running flag, owner, run id, commit flag, FIFO queue; job and batch rows | `run`, `enqueue`, `cancel`, `drainQueue`, `markInterruptedJobs` | direct and queued starts compete; cancel against commit; failed or unanswered writes; start-up sweep beside new runs | one run at a time, nobody overtaken or forgotten, an accepted cancel is honoured, rows end as their run did |
| Approval lock (`core/targets/lidarr-retry-worker.ts`) | a map from recommendation to the tail of a promise chain | `withApprovalLock(s)` | several locks at once, removal of the map entry | exclusion, order, no deadlock, no leak |
| Approvals (`server/routes/recommendations.ts`, the retry worker, `core/pipeline/auto-approve.ts`, `core/targets/slskd-recommendation.ts`) | the recommendation row: status, one action per target, saved retry options | approve, reject, restore, retry, expiry and alert, download update, auto-approval | stale reads across calls to Lidarr; backoff and window; combined Lidarr + slskd approvals | no lost update, statuses that are true, one alert, deferred work resolved |
| slskd jobs (`core/slskd/*`, `db/queries/slskd-jobs.ts`) | job rows, one sync in memory; at slskd and Lidarr: transfers, imports | create/retry, intake of the wanted list, search, enqueue, poll, import, verify | two sources of demand, retries and cooldowns, half-done remote work, edits of the configuration | bounded retries, no double download, `added` only when it is |
| Saved playlists (`core/playlists/*`, `db/queries/playlist-exports.ts`) | binding per target; a lock in memory | generate, push, reset, delete | a create request that cannot be repeated; deletion during a push | one remote playlist per target, never another account's |
| Approval requests (`db/queries/approval-requests.ts`, `server/routes/approval-requests.ts`) | request rows, temporary album rows, a chain of decisions per request | create, decide, clean up | execution outside the transaction; several calls of one user | one open request, limits, decided once, no row lost or left behind |
| Subscriptions and schedules (`core/subscriptions/*`, `core/ops/cron-scheduler.ts`) | named schedules, set of running names | schedule, replace, tick | replaced during a run | no overlap |
| Discovery modes (`core/discovery-modes/*`) | a job row around a direct run | check, query, run | a check long before the run | job row follows the run |
| Library sync (`core/library/*`) | map of syncs under way, state row, library rows | sync, force, replace, retry album fetches | requests that share a sync, outage of a source, stop after a replacement | "completed" is about the rows that are there |
| Digest (`core/jobs/digest-notifier.ts`) | delivery position per channel | tick, send, move position | lost answer, crash after acceptance, position in the future | nothing skipped, repeated only if unrecorded |
| Maintenance, backend migration (`core/ops/*`) | flag in memory | migrate, backup, hygiene | writers that started before | the copied tables belong together |
| Sessions, OAuth, OIDC (`db/queries/sessions.ts`, `oauth-pending.ts`) | rows | create, replace, consume | reset against login | single use, no session after a reset |
| Middleware (`server/middleware/*`) | idempotency answers, rate windows | per request | the table when full | one execution per key |
| Shared clients (`core/clients/*`) | queues, caches, token buckets | fetch, abort | shared fetch and its waiters | limits respected |
| Everything else: pipeline stages, AI providers, search, metadata clients, hygiene, frontend | none or data only | | | |

How they meet: the schedules, the routes and the discovery modes start runs of the
orchestrator; a run stores recommendations and auto-approves them; the user and the retry
worker approve them under the approval lock; an approval creates slskd jobs; the
slskd sync works on the jobs and calls back into the recommendation row, under the same
lock; approved recommendations feed saved playlists. All of them record job rows.

## The modules

| Module | Models | Lines of thought |
|---|---|---|
| `PipelineQueue` | the orchestrator, its rows, boots; the refinement mapping to `RunService` | one action per turn |
| `RunService` | what callers may rely on: first come first served, one holder | abstract |
| `PipelineQueueProofs` | theorems, the refinement among them | |
| `ApprovalLocks`, `ApprovalLocksProofs` | the chain of promises, the refinement mapping to `TicketLock`; theorems | |
| `TicketLock` | what callers of the lock may rely on: tickets, served in order | abstract |
| `Approvals`, `ApprovalsProofs` | the recommendation row and all its writers; theorems | takes the lock as proved by `ApprovalLocks` |
| `ApprovalRequests`, `MCApprovalRequests`, `ApprovalRequestsProofs` | requests, temporary rows, decisions, the refinement mapping to `RequestBook`; theorems | the approval it executes is `Approvals` |
| `RequestBook` | what requesters and administrators may rely on | abstract |
| `SlskdJobs`, `MCSlskdJobs`, `SlskdJobsProofs` | jobs, sync, slskd and Lidarr as seen by them; theorems | |
| `PlaylistExports`, `PlaylistExportsProofs` | bindings, generations, remote playlists; theorems | |
| `Digest`, `DigestProofs` | windows and positions per channel; theorems | |
| `LibrarySync`, `LibrarySyncProofs` | passes, syncs, library rows, and a migration beside them; theorems | |

`PROJECT.json` maps every definition to its source lines.

### PipelineQueue

A run is known by the number of its submission. `running`, `active`, `cur` and `committed`
are the fields of the orchestrator object; `pc` says what each run awaits or how it ended, so the
queued runs by ascending number are the FIFO queue; `aborted` holds the runs whose abort
controller was triggered; `job` and `batch` are the statuses of the rows, `born` the boot they
were started in, `lostJob` and `lostBatch` the rows whose write failed or was not answered.

`Enqueue`, `RunNow` and `Cancel` are the operations; `JobStart`, `Stage`, `InsertBatch`, `Save`,
`CompleteBatch`, `AutoApprove`, `Complete` and, on the way out, `FailBatch`, `CancelJob`, `FailJob`
are the awaits of `run()`. A write may be done, fail, or be done and not answered (`Outcomes`).
`Finish` is the `finally` block, drain included: it starts the next queued run in the same turn,
as the code does. The six stages between two checkpoints are one step, taken any number of times.
`Restart` loses memory, `SweepJobs` and `SweepBatches` are `markInterruptedJobs`, which may come
late; `MarkStuck` may mark any running job at any time.

`RunService` says the same without the machinery: a holder, the phase of its run, and a set of
users who wait with the number of their place. The end of `PipelineQueue` maps the fields of the
orchestrator to it (`Phase`, `Waiting`: the place is the number of the submission);
`ImplementsRunService` is checked as a property, and proved: its safety part as it stands, its fairness with
the guard of the step written out.

### ApprovalLocks

Each call (`Tasks`) asks for a set of recommendations and locks them one by one in
ascending order (`Ask`, `Run`, `Settle`, `Cleanup`, `Return`). `tail` is the map `locks`; a promise is
identified by the call that made it, `prev` is the promise it is chained to and `settled` tells
that it is over. The map's entry is removed only by the call that is its tail.

`TicketLock` says the same without promises and without a map: a call draws the next number at each of its
recommendations, works once every smaller number there was handed back, and hands its own back. `place`, `count` and
`settled` are the numbers drawn, the counters and the numbers handed back, and `Phase` forgets in which part of its
way into or out of the locks a call is. A call that asks while the map has no entry draws the next number all the same: that
the earlier one was handed back is what `Cleanup` must not get wrong.

### Approvals

`row` is the database row: status, `lidarrArtistId`, and per target an action with its status and,
for a waiting one, its time window and follow-up. `cs` is the
section under the lock: who holds it, the row it read, its progress over the targets. `auto` is auto-approval, which works without the lock; `cand` the worker's
list; `job` and `call` the slskd downloads and their pending callbacks; `alerts` and `faults` count.
Time is a window per waiting action, `early`, `due`, `late`, moved on by `Elapse`.
A call to Lidarr is one step with the outcomes added, failed, temporary; so is the queueing of an slskd target, which may
fail although a download is active, since the lookup of the releases comes before that of the job (`runner.ts:63`).

### SlskdJobs

`jobs` are the rows, `act` the recommendation's action as the sync reports it, `cr` one
`createSlskdJob` in progress per caller (recommendations, and the intake of the wanted list),
`sync` the single-flight pass with a counter over its awaits, `paced` the pause after
throttling, `config` how the target is set up right now (the pass reads it when it
starts), `batch` and `cmd` what slskd and Lidarr make of what they were given, `have` Lidarr's
files, `hist` what has happened to a row (for properties only). Cooldowns are an age of 0, 1
or 2 in place of the clock. The cap of 20 on remembered releases is left out: three automatic retries cannot fill it,
and an approval clears the list. A lookup that throws and one that comes back empty after a refused insert or retry both end
the call, hence are one alternative.

### PlaylistExports

`binding` is the row of each target, `gen` one generation per caller (cron, user) with
its position in `pushSavedPlaylistToTargets`, `resetting` a reset in progress, `remotes` the
remote playlists ever made (the servers' state; `content` says which generation's tracks one
holds, `forgotten` that the user reset or deleted its binding), `done` the last job
that completed. The lock is `Busy`. The account a target is configured for is chosen anew at each
`Open`, since the configuration may be edited at any time. A playlist deleted meanwhile still selects targets, as the code
does (`Selectable`), and fails at their reservation. The request sequences of the
servers are one `WriteTracks` step that may fail having done anything; track resolution,
the read-back count and the outcome text are left out.

### ApprovalRequests

`status`, `about` and `cooled` are the rows of the requests, `rec` the recommendations, those a
run found (`Found`) and the temporary rows of the missing-albums route (`Temps`). A client is one call
of the requester: `Ask` or `EnsureAlbum`, then `CheckRequest` and `InsertRequest`, the two halves of the
transaction of `create()` between which the lock of the user row is held, and `CleanupAlbum`
after a refusal. A decider is one call of an administrator: `Decide` takes a place in the chain of
the request (`decisionLocks`), `ReadRequest` and `SaveDecision` are the transactions
before and after `Execute`, the approval itself, which runs in neither. `executed`, `faulty`,
`stranded`, `edited` and `late` only record what happened. The reads of `create()` (open request, cooldown, limit) are one
step, although each sees what was committed by then: the lock of the user row keeps inserts out, and a request
declined between two of the reads is `late`.

`RequestBook` is the same without clients, deciders and temporary rows: requests that are made within the limit, carried out
while they are pending, and recorded. What is carried out and not recorded is `Carried`, the requests of the deciders
that stand before `SaveDecision`; a failed write or a restart loses it (`Lose`), so that an approval may be carried
out again. All else is forbidden: to carry out twice, to decline what was carried out, to take a decision back.

### Digest

`pos` is the delivery position of a channel, `inFlight` the flag that outlives a replaced
schedule, and a tick (`phase`, `at`, `read`, `todo`, `chan`, `since`, `seen`) one call of the cron's
function: `Read` takes channels, time and positions, `Channel` chooses the window of
the next channel, then `Stats`, `Send`, `Save`; `Fails` gives up a channel, `ReadFails` the tick. `Read` is one step, since
other ticks are kept out and nobody else writes positions.
Items are stamped when they begin and counted once they are done, which may be later
(`unseen`): a recommendation whose status is written in a transaction that is not over, a run that
has not completed. `from`, `told`, `again` and `late` record, for the properties, what each channel was told.

### LibrarySync

A key is a source in one scope. `lib` and `st` are its library rows and its state row, `sync`
the sync under way (the map `inFlight`) with what it has read, one action per `await`: `Check`, `Mark`,
`List`, `Prepare`, `Match`, `Album`, `Albums`, `Replace`, `Complete`, `Record`, and `Throws` and `Fails` on
the way out. `Mark` is the write of the state row, the recorder's call before it changes no row that is modelled; `Match` is one
step for all artists, whose lookups only fill memory. A pass (`kind`, `todo`, `on`) is a schedule tick, the pass at boot, a request or a
subscription run; it visits keys one after another, starts or joins the sync of each and waits for it.
`server` and `edits` are versions of what a source holds and of the user's overrides, so
that rows and state can be compared with what was true when. `Migrate`, `CopyLibrary`,
`CopyState` and `MigrateEnds` are the backend migration, whose repeatable-read transaction
sees the states as they were at its first query (`frozen`). `mig` also is the maintenance flag: ticks are
skipped under it; handlers have no such guard, since a request may have been let in before the flag.

## The checks

`tlc -config X.cfg Module` finishes each in two minutes or less, most in one.

| Run | Module, bounds | Shows |
|---|---|---|
| `pipeline_rows` | `PipelineQueue`: 2 users, 1 of them admin, 2 runs, 1 boot, every write may fail or lose its answer | `SingleFlight`, `CancelHonoured`, `RowsSettled`, `SweepSparesLiveRuns` |
| `pipeline_fifo` | `PipelineQueue`: 3 users, 3 runs, no boot, writes succeed | `QueueDrains`, `ImplementsRunService` |
| `approval_locks` | 3 calls, 2 recommendations, any sets | `MutualExclusion`, `ImplementsTicketLock`, `EveryCallEnds` |
| `approvals` | 1 artist, 1 Lidarr, 1 slskd, 1 fault (crash or failed write) | `NoLostUpdate`, `WaitingIsRetried`, `SlskdFollowed`, `DecisionsStand`, `RetryKeepsFollowUp` |
| `approvals_live` | 2 Lidarr targets, 1 fault, fairness | `WaitingResolves`, `OneAlertPerApproval` with two deadlines |
| `approvals_auto` | 1 album under auto-approval, 2 Lidarr targets | `AddedMeansAdded` without the lock |
| `approval_requests` | 1 found recommendation, 1 temporary row, 2 calls, 2 administrators, limit 1, 2 requests, 1 status edit, 1 fault | `PendingHasRow`, `ImplementsRequestBook`, `NoOrphan`, `DecisionMatches`, `CooldownHonoured` |
| `slskd` | 1 release wanted by Lidarr and by a recommendation, 1 fault, edited configuration | `RetryBudget`, `RetrySkipsFailed`, `NoSecondDownload`, `AddedIsReal` |
| `slskd_live` | 2 releases of one recommendation, one job per pass, fairness | `ActionFollows`, `JobsSettle` |
| `exports` | 2 targets, 2 accounts, cron and user, 2 generations, 1 reset or deletion, 1 fault | `OneRemote`, `Accounted`, `RightAccount`, `CompletedIsExported`, `LockReleased` |
| `digest` | 2 channels, 1 item, 2 cron callbacks, times 0 to 2, 1 fault, any first positions, fairness | `NothingSkipped`, `NoReplay`, `EventuallyTold` |
| `library` | 1 source of the user with albums, 1 artist, a scheduled and a requested pass, a migration, 1 change, 1 fault | `CompletedIsTrue`, `CopyIsTrue`, `NobodyStuck`, `MatchesKept` |

`AddedIsReal`, `ActionFollows` and `NoSecondDownload` are stated for histories without an incident (`Quiet`: no crash, failed
write or edit of the target), and `ActionFollows` in its second part for recommendations nobody else competes with (`Alone`);
what an action says after an incident is not claimed. `approvals_auto` (one album, no faults) and `library` (one source,
one artist) are the smallest runs; that `AddedMeansAdded` survives crashes, and what `library` checks holds of more sources and artists,
rests on the theorems `AddedIsBacked`, `CompletedBacked`, `CopyBacked`, `NoneStuck` and `OutageKeepsMatches`.

Why the bounds are enough for what can go wrong: a race needs two actors on one
object, so there are two or three users, callers or targets and one recommendation or release;
order needs a third waiting user, hence `pipeline_fifo`; starvation needs a limit smaller than the
number of jobs, hence `Limit = 1` with two jobs; and one crash, lost answer or failed write at
any point is what each error path was written for. In `digest`, times 0 to 2 with a window of 1 hold an old, a
current and a future position, and an item on either side of each. In `library`
there is one key, because keys meet only in the passes that visit them; the proofs are for any number of
keys. The bounds that end a behaviour (`MaxRuns`, `MaxBoots`, `MaxFaults`, `MaxJobs`, `MaxApprovals`,
`MaxGens`, `MaxForgotten`, `MaxReqs`, `MaxEdits`, `MaxTime`, `MaxChanges`) are guards of the actions
they bound. In `PipelineQueue`, `SlskdJobs`, `PlaylistExports`, `ApprovalRequests` and `Digest` nothing may be left to do
when they are used up, and in `ApprovalLocks` each call is made once: so these configurations
switch the check for deadlock off, and the liveness properties of all but `ApprovalRequests`, where nothing
waits for anything but the locks, check progress in its place.

The properties are aimed at the hazards listed in `PROJECT.json`; each is broken by at least one
mutant of a modelled definition (also there), a plausible bug such as an unguarded start, a drain
that is forgotten, or a creation that is tried again.

### Fairness

Weak fairness (`WF`) of a step stands for an await that comes back: every HTTP client has a timeout, and
the database driver answers or fails. It is assumed of the steps of a run, a lock, an approval or
retry in its section, a sync pass, a generation, and of slskd's transfers and Lidarr's imports, which end one
way or the other. Strong fairness is assumed of what comes again and again although it is disabled in
between: the cron's tick and the retry it starts (the lock is first come, first served, which
`ApprovalLocks` shows), the passing of a window or a cooldown, the end of the intake's list and the
outcome of a search (throttling is not for ever). In `Digest` the clock, the schedule (some
callback fires) and the steps of a tick that runs are weakly fair. No fairness is assumed of users,
crashes or edits.

### What is not as the documents say

Met while modelling. The models follow the code, and the properties are stated so that they hold of it.

- A first approval is `waiting` although slskd has queued work (`docs/API.md:523`); a
  recommendation stays `add_failed` after its download was imported (`docs/API.md:524`).
- A linked target without a download path is retried every hour for ever (`docs/OPERATIONS.md:284`).
- Approving the waiting Lidarr target alone replaces its saved follow-up (`recommendations.ts:318`), while `docs/API.md:524` says that saved options are reused.
- Auto-approval writes over a rejection made while it worked (`auto-approve.ts:229`); hence
  `NoLostUpdate` and the four properties of what rows tell exclude its batch. It also reports only the last of several Lidarr results (`auto-approve.ts:168`).
- A refused enqueue does not record the peer (`slskd/orchestrator.ts:462`), so the retry may pick it again,
  while `docs/OPERATIONS.md:284` says that failed peers are skipped.
- An approval without a Lidarr artist on a linked target completes without an import (`slskd/orchestrator.ts:588`).
- A retry of the wanted list takes a job from its recommendation (`slskd-jobs.ts:107`), whose action then keeps
  its last value; `ActionFollows` is stated for what nobody else asks for.
- The digest counts a job by its start (`db/queries/jobs.ts`, `startedAt >= since`), while the comment at lines 572-573 speaks of
  jobs completed in the window: one that ends after its window was counted is in no digest (`late` in `Digest`).
- A forced library sync that finds one under way is given that one, which may be unforced
  (`library/sync.ts:109`; `docs/API.md:1025`, `1055` and `1143` promise a fresh read). An override for an artist of a source all users
  share is saved and not used by the shared sync (`sync.ts:152`, `docs/API.md:1022`).
- A recorder that fails after the state was completed turns the state to `failed`.
- The `finally` of a migration clears the maintenance flag (`admin.ts:319`), the one set by a stop signal meanwhile too
  (`index.ts:1665`). A sync under way at a migration goes on writing to the old database;
  `docs/ARCHITECTURE.md:343` leaves that to the operator.

## The proofs

Checked by `tlapm` for arbitrary constants, under the named assumptions of the modules only (bounds
are naturals, names distinct from the "none" values).

- **`PipelineQueueProofs`.** The invariant is the conjunction of the type invariant, `SingleFlight`, the
  link between queue and running flag, the numbering of runs, the commit window and the settled rows.
  `SingleFlight` alone is not inductive: `Finish` starts the next run, which is single only because
  no queued run has an active counterpart, and because run ids grow. Theorems: `TypeCorrect`, `SingleFlightHolds`,
  `FairQueue` (nobody overtaken, no queue without a server, one place per user), `CancelIsFinal`, `SweepIsSafe` (an
  action property), `RowsAreSettled`, and `ImplementsService`: under the mapping every step of the orchestrator is a step
  of `RunService` or a stutter. And, as long as the awaits of runs end (`AwaitsEnd`, below): `EveryRunEnds`, since a run is at one of
  eight levels and each of its steps, those of its error handling and of its cancellation included, leads to a
  lower one (`StepsDescend`); `ServiceMoves`, the fairness of `RunService`; and `OldestStarts`, the head of the queue leaves
  it, because nobody is put before it and the run before it ends.
- **`ApprovalLocksProofs`.** Exclusion follows from the shape of the chain: the promises of a
  recommendation are ordered by asking, each call waits for its predecessor, and whoever asked before an
  admitted call is settled. `NoDeadlock`: among calls that wait only for one another one can go on. A call has
  the greatest of its locks to wait for and asks for greater ones only (`Ascending`); so the first that is not done with
  the greatest recommendation any of them waits for waits for nobody. It needs the ids to be
  bounded, as numbers of a database are. `StepsRunOut`: a call for n recommendations takes 4n + 2 steps.
  `ImplementsLock`: every step of the map is a step of `TicketLock` or a stutter. Theorems: `TypeCorrect`, `Invariance`,
  `LockIsExclusive`, `OrderHolds`, `NoEntryLeft`, `NoDeadlock`, `StepsRunOut`, `ImplementsLock`.
- **`ApprovalsProofs`.** `NoLostUpdate` needs that only the holder of the section or auto-approval writes;
  `WaitingIsRetried` and `AddedMeansAdded` need that whatever will be written by any section, or
  by auto-approval, is sound too (`Sound`). `HInv` is about the rows auto-approval does not work on: an alert sent or
  about to be sent is marked in the row (`Alerted`), what the retry worker has in hand belongs to the row it read
  and has its follow-ups (`InHand`), and neither claims a download that is over (`Downloads`). Theorems:
  `Invariance`, `TypeCorrect`, `RowsAreNotLost`, `WaitingIsBacked`, `AddedIsBacked`, `HistoryInvariance`, `AlertedOnce`,
  `DownloadsFollowed`, and the action properties `RejectionsStand`, `FollowUpKept`. `StepsRunOut`: an approval with n targets, l
  of them of type lidarr, ends after n + l + 1 steps (a Lidarr target counts twice, since its success may bring in a follow-up), a
  retry after n + 2; auto-approval never comes back to a recommendation.
- **`ApprovalRequestsProofs`.** `RequestLimit` needs that a call between its check and its insert is alone, since it
  holds the lock of the user row, and that what it checked still holds (`Ready`); `DecisionMatches` needs that
  a decider at work is the first of the chain of its request (`Deciding`) and that a request about to be saved
  was executed as often as its verdict says (`Acted`). `ImplementsBook`: every step is a step of `RequestBook` or a
  stutter, by the same parts. Theorems: `Invariant`, `TypeCorrect`, `RowsStay`, `LimitHolds`, `NothingLeftBehind`,
  `DecisionsTrue`, `CooldownKept`, `ImplementsBook`.
- **`SlskdJobsProofs`.** Three invariants, each on top of the one before. `IInv` holds whatever happens: one conflicting
  row per work key (`Unique`), the row under work is at the step for its state (`Stands`), every search is paid for by an
  attempt of the row, what is written keeps that account (`Paid`, `Afford`, `Writes`), and a row remembers the peers
  that failed (`Remembered`, `Retrying`). `QInv` holds as long as there was no incident: a row, its download and its
  import agree, also while a write is in hand (`Calm`), what the pass was told about transfers is still so (`Told`),
  and what it will report is there (`Reports`). `FInv` ties actions to jobs: an approval that counts on a job has one
  (`Won`), because a release only this recommendation asks for is held by a row of its own (`Owned`); and what is about
  to be written was added up under the lock (`Written`). Theorems: `Invariance`, `TypeCorrect`, `BudgetHolds`,
  `FailedSkipped`, `QuietInvariance`, `OneDownload`, `AddedTrue`, `FollowInvariance`, `ActionsFollow`, and `StepsRunOut`: a pass over n
  wanted releases ends after 6n + 12 `Limit` + 3 steps, whatever slskd and Lidarr answer and whoever writes rows meanwhile.
- **`PlaylistExportsProofs`.** `OneRemote` is not inductive: a create request under way must know that
  every earlier playlist of its target was forgotten (`Working`). It does because its reservation
  found no binding, and a target without a binding has no playlist that anybody remembers (`Bound`); resets and
  other generations cannot change that before the answer, since the lock keeps them out (`Exclusive`).
  Deletions take no lock, but a deleted target reserves nothing more. `CInv` adds that a generation under way is the
  last one and, unless it failed, has exported every target it has been through (`Fresh`). Theorems: `Invariance`,
  `TypeCorrect`, `NeverTwoRemotes`, `AlwaysAccounted`, `ReplacesItsOwn`, `CompletedMeansExported`; `StepsRunOut`, a generation
  of n targets ends after 7n + 3 steps; and `TargetsGiveWay`, one whose requests end does not stay with a target.
- **`DigestProofs`.** One tick works at a time (`Single`), so the positions it has read are still the
  positions of the channels it has not come to (`Ahead`), and a position is replaced only where nothing was told. What
  began in a window was counted or was not done (`Counted`); so the position moves only over what was told
  (`Covered`), and what was told and will be counted again was not recorded (`Excused`). Theorems: `Invariance`,
  `TypeCorrect`, `NeverSkips`, `NoneRepeated`; `FlagIsATicks`, the flag that keeps ticks from overlapping is up only while a
  tick is at work; `StepsRunOut`, a tick of n channels ends after 4n + 2 steps; and `ChannelsGiveWay`, a tick whose
  requests end does not stay with a channel.
- **`LibrarySyncProofs`.** Per key (`Row`): a sync reads after the start in its state row (`Recent`), rows about to be written
  are whole (`Whole`), and until they are replaced the matches it remembers are those of the rows (`Remembered`). For
  the copy (`Consistent`): the state its transaction sees belongs to the rows it has copied. Theorems: `Invariance`,
  `TypeCorrect`, `CompletedBacked`, `CopyBacked`, `NoneStuck`, `OutageKeepsMatches` (an action property), and `StepsRunOut`: a sync of
  n artists ends after n + 10 steps, and a pass over n sources after 2n + 1, its own and the ends of syncs it waits for.

The type invariants are proved rather than run.

### What is proved of progress

That something ends has two halves. The first is that its steps run out: a number that every step of a run, call, section, sync,
generation or tick makes smaller, and that nothing but a new start makes larger (the `StepsRunOut` of each module; the levels of
`PipelineQueue`). It is proved for sets of any finite size; the invariants are used in it wherever an error path
could lead back. The second is that a step is taken as long as there is one, which is fairness. The prover does not
know `ENABLED`, so the theorems that use fairness state it with a guard in its place: the steps are taken for ever, or the
thing is over again and again (`AwaitsEnd`, `Answers`, `Served`). Where a step is always possible
until the end, as in these modules, that is what weak fairness says.

The two are put together where the number is bounded by a constant (`EveryRunEnds`, `ServiceMoves`, `OldestStarts`), and for one number
where it is not (`TargetsGiveWay`, `ChannelsGiveWay`). The rest is an induction over a formula of temporal
logic, which cannot be stated to this prover: the induction theorems of the library take an operator as a parameter, and a set
cannot be made of the numbers for which a temporal formula holds. For states it can: the greatest element of a finite set in
`SlskdJobsProofs` comes from the least element of a set of numbers (`WFMin`).

Model-checked only, therefore: the liveness properties `QueueDrains` (for which `OldestStarts` is the step), `EveryCallEnds`
(`NoDeadlock` and `StepsRunOut`), `LockReleased`, `EventuallyTold` (`FlagIsATicks`, `StepsRunOut`),
`WaitingResolves` and `JobsSettle`, the last two under strong fairness. Every
invariant and every action property of the runs is a theorem, and so is each refinement in its safety part.

## Not modelled

Pure data transformations (pipeline stages, scoring, text similarity, track matching, prompts), the
wire formats of the servers, the frontend, authentication headers, and the parts the plan still
has. `ApprovalLocks` abstracts a promise to settled or not, as the lock ignores its value. slskd, Lidarr, the
media servers and MusicBrainz are what the code under `src/` sees of them: any answer, or none. Of the library sync,
how artists and albums are matched by name, artists that come and go, album overrides, job rows and the
cursor of the gap search are left out; of the digest, rendering and transport; of the requests, who
needs one and the notifications.

## Plan

Left, most important first.

1. `Schedules`: named schedules of `CronScheduler`, replaced while their run is under way.
2. OAuth tokens: a refresh under way beside a disconnect, a reconnect or another refresh; pending authorizations.
3. `Idempotency`: the table of keys at its limit; the shared release-group fetch and its waiters.
4. The job row of discovery modes, composed with `PipelineQueue`.
5. Pure operators against a reference definition: backoff and cooldown tables, the filter's rejection window.

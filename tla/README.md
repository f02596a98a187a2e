# Formal model of the Versya backend

TLA+ modules, TLC configurations and TLAPS proofs for the FastAPI backend under
`src/`. The backend plans campaigns, arbitrates which message a contact gets
next, hands messages to e-mail / WhatsApp / SMS providers, and runs two dozen
background workers over one PostgreSQL database. What it must get right is not
computation but coordination: several processes work on the same rows, each step
is a transaction, the process may die between two of them, and the provider
cannot be asked whether it already has a message.

## 1. Inventory

| component | state | operations | hard behaviour |
|---|---|---|---|
| **Campaign worker** `services/campaigns/worker.py` | `campaign_recipients`, `campaign_runs`, `campaign_waves`, capacity reservations | a cycle of maintenance (recover stale claims, reconcile, reclaim deferrals, repair quiescent runs), claims, one `_dispatch` per claim | crash between commits; cancel / pause racing a dispatch; stale ORM attributes; retries; runs that must end |
| **Send service** `services/channels/send_service.py` | `send_logs` | `send`: source contract, pause, parking as candidate, policy gates, durable intent, submission gate, provider call, outcome | intent before I/O, locks held through the call, unknown outcomes |
| **Scheduled-send worker** `services/channels/scheduled_send_worker.py` | `send_logs` | one batch per cycle: slot locks, contest, selection, then loser / expiry / winner per row | row locks end at the batch's first commit, session locks live longer, statuses read again |
| **Attention selection** `services/channels/selection.py` | slot locks, rank, future reservations | contests of one contact and scope, confirmation of a reservation | a batch that splits a contest, losers re-contest, future holds, reservations that age |
| **Campaign service** `services/campaigns/service.py`, `routers/campaigns.py` | campaigns, runs, waves | create_run, cancel_run, approve_wave, activate, pause, recurrences | operators act while workers run |
| **Delivery tracker** `services/channels/delivery_tracker.py` | `send_logs`, status events | record_status (provider webhooks) | duplicated and reordered callbacks |
| **Capacity planner** `services/campaigns/capacity.py`, delivery profiles | reservations per bucket | plan, reserve | shared buckets of concurrent plans |
| **Leader and loop** `main.py` | advisory lock 737373, one asyncio loop | start all workers in one process | blocking calls in a shared loop; advisory locks on pooled connections; lock id 738003 used by two workers |
| **Event drain and processor** `services/messaging/event_drain_worker.py`, `event_processor.py` | `messaging_events`, `worker_state`, an in-memory watermark | load watermark, read a batch, process, advance and persist | rows that become visible late, locked or failing rows, restarts, inline consumers |
| **Funnel engine** `services/funnel_engine.py`, scheduler, deferred sends | enrollments | step, wait, defer, resume | resume of an enrollment that moved on |
| **Event actions** `services/event_actions/*` | scheduled actions | compile, schedule, execute | claim and retry of delayed actions |
| **Destination delivery, audience sync and webhooks** `services/messaging/*` | delivery rows, memberships | dispatch, retry, dead-letter | duplicate export, backoff |
| **Inbound webhooks** `services/webhook/*` | received webhooks | enqueue, process | retry of half-processed input |
| **Contact verification** `services/contact_verification/*` | jobs, upload operations, items; files at the provider | create, cancel, upload, poll, download, sweep remote files | a file that was posted without an answer, listings that lag, cancel against the worker |
| **Project import** `services/project_import_*` | import jobs | validate, apply, resume | crash in the middle of an import |
| **Contact pause, merge, DSAR** `services/messaging/contact_*`, `dsar_processor.py` | most tables of a contact | hold / skip, merge, export, erase | other workers hold rows of the contact |
| **Decision gates, rollout, cutover** | gates, modes | evaluate, force, expire | decisions older than what they decided on |
| **Scoring, MES, segments, positions, bandit, journey** | feature rows, watermarks | sweeps | watermark against late rows |
| **Inbound conversations, chatbots, knowledge** | routing states | route, hand over, expire | two messages of one contact at once |
| **Adapters, HTTP, MCP, storage, templates** | none of their own | I/O, CRUD | modelled only through their outcomes |

What makes each of them correct, in a sentence: a *dispatcher* submits at most
once, never after it was told to stop, and accounts for what it submitted; an
*arbiter* lets one intent of a contact's slot through and starves no perishable
one; a *queue worker* loses nothing and finishes everything; an *operator call*
takes effect although workers are in the middle of something; a *resource*
(capacity, pace, slot) is given back exactly once.

`PROJECT.json` lists every component with its status and every hazard at its
line, with the properties that cover it.

## 2. Plan

Written, each with its proofs: `CampaignDispatch` with its abstract specification
`SubmissionContract` (sections 3 and 6), `EventDrain` (section 7),
`VerificationUploads` with its abstract specification `FileCustody` (section 8),
`AttentionSelection` (section 9) and `FunnelEnrollment` (section 10).

Next, in this order, one module each unless noted:

1. `FunnelDeferral`: an enrollment of `FunnelEnrollment` that defers a send, is
   advanced or exited meanwhile, and is resumed by the scheduled-send worker of
   `AttentionSelection`; an event action that is claimed and retried. Property: a
   message is sent once and only for the position it was made for.
2. `LeaderLoop`: scheduler leadership taken once at boot, advisory session locks on
   pooled connections, the id 738003 shared by two workers. Two processes, two
   connections each; properties: one leader, a lock is not held by a connection
   nobody uses. (That a blocking call stops the shared loop is in
   `AttentionSelection`.)
3. The rest of contact verification: the request queue and the leases of single and
   individual verifications. Abstract specification: a queue that loses nothing and
   answers once.
4. Destination delivery and audience export (retry, backoff, dead letter), project
   import, `create_run` idempotency and the capacity planner.

The remaining components are sequential CRUD, provider I/O or arithmetic on data
and stay `not_modelled`, or share a protocol with a module above.

All are written for proof as well as for TLC: parameters are CONSTANTS with named
assumptions, one action per handler or commit, invariants are conjunctions of
named parts, and nothing is RECURSIVE.

## 3. CampaignDispatch: the modules

* **SubmissionContract** is what any outbound dispatcher promises per target: an
  intent precedes a submission, a submission happens at most once, none follows a
  cancellation.
* **CampaignDispatch** is one campaign run with its recipients, seen by all the
  processes that write its rows.
* **MCCampaignDispatch** gives TLC small waves and recipients.
* **CampaignDispatchProofs** holds the theorems about submissions, how runs end, what is
  accounted for and what capacity is used.

### State

| variable | code |
|---|---|
| `recipient` | `CampaignRecipient.status`, `attempt_count`, and whether `last_error_code` is the capacity marker |
| `log`, `ttl` | status and `expires_at` (none, in the future, passed) of the recipient's newest `SendLog`; status `policy_window_expired` is kept because `_dispatch` does not look for it |
| `run`, `wave`, `campaign` | their status columns and `cancel_requested` |
| `reservation` | `ChannelCapacityReservation` of a wave: units reserved, consumed, status |
| `ledger`, `alerts` | the contact-ledger row of the SendLog, the operational alert that it is missing |
| `submitted` | how often the campaign worker called the provider (no row of the database says so, which is the point) |
| `worker` | the campaign worker's place in its cycle: program counter, claimed batch, the view read by the dispatch, the provider's answer, the runs and waves to refresh |
| `selector` | the scheduled-send worker in the recipient's attention slot: the row, what it read of it, and which rows it submitted itself |
| `budget` | the crashes, exceptions and operator calls still allowed (the bounds) |

### Actions and atomicity

One action is one database transaction, or the part of one between two lock
acquisitions. `_dispatch` is a chain: `LoadDispatch` reads, an early return
commits, or `RevalidationPasses` goes to the gate, `GatePasses` takes run and
campaign `FOR UPDATE`, `ConfirmWins` re-ranks under the slot lock,
`CommitIntent` commits `submitting` and drops all locks,
`SubmissionGatePasses` locks and re-reads everything, `ProviderCall` is the I/O,
`RecordSent` / `RecordExhausted` / `RecordUnknown` commit the outcome, then
`ConsumeCapacity`, `RecordLedger` / `LedgerFails`, and the refresh of the wave and
the run in a read (`RefreshRead`) and a write (`RefreshWrite`). Between any two
of them other processes commit, the worker raises (`DispatchRaises` is the except
branch) or the process dies (`Crash`).

Locks are guards: `RunLocked` (the run and campaign rows, gate to intent commit,
and submission gate to outcome commit), `SlotHeldByWorker` / `SlotFree` (the
attention slot's advisory lock), `LogRowLocked` (the SendLog row during the
call). `SELECT ... FOR UPDATE` on a row the session already holds in its identity
map does not reload its attributes (SQLAlchemy without `populate_existing`), so
`GatePasses` decides on `worker.view`, not on the current run; the code that
does use `populate_existing` re-reads in the model too.

The scheduled-send worker loads a contest under the slot lock (`SelectorOpen`),
re-reads a row when its turn comes (`SelectorTurn`: earlier rows' commits expired
it and dropped its row lock), and writes (`SelectorSettles`), falls through to
`send()` (`SelectorSends`) or fails (`SelectorRaises`).

One campaign worker exists: `main.py` starts the workers in the process that
holds advisory lock 737373, and a cycle takes lock 738003.

### Abstractions

Which policy refuses a send, pacing, profile selection and provider errors are
nondeterministic verdicts with the code's consequences. Times are reduced to
"due / not due" (any pending recipient may be claimed, any claim may be found
stale at the start of a cycle) and to `ttl`. The statuses `queued`, `read`,
`opened` and `superseded` are left out (no campaign row reaches the first; the
others only follow `delivered`, or a replacement of the row). Wave and run are
counted in one read. Advisory session locks are taken to work as intended:
a session that continues on another pooled connection after a commit
(`selection.py:211` can then not unlock) is not modelled.
Provider reports on a row the scheduled-send worker submitted itself are left out.

## 4. The runs

| run | instance | question |
|---|---|---|
| `DispatchFaults` | 1 recipient in a held wave with one spare unit of capacity, 2 attempts, 1 crash, 1 exception, 2 operator calls | at most one submission, none after cancel or during a pause, intents own their slot, successes are accounted for, one unit per message but for exceptions, the contract is implemented |
| `DispatchWaves` | 2 recipients in 2 waves, one held; 1 exception, 1 operator call | closed waves and runs are quiet and hold no capacity |
| `DispatchLiveness` | 1 inherited recipient, 1 crash, 1 exception, 1 operator call, `FairSpec` | recipients with a deadline end, quiet runs are closed |
| `CancelStuck`, `SuccessExpires`, `GenericBypass` | 1 recipient | counterexamples, section 5 |
| `EventDrain` | 3 events (one also inline, one that may always fail), batches of 2, 3 instants, 1 fault besides, `FairSpec` | nothing is lost in silence, drained twice or left for ever (section 7) |
| `SwallowedFailure` | the same, no fairness | counterexample, section 5 |
| `UploadCleanup` | 1 verification job of 2 files, 2 faults, 2 tolerated poll failures, `FairSpec` | no file is left at the provider, no job closes early, nothing is uploaded twice, jobs end (section 8) |
| `RetryStarves` | the same, no fairness | counterexample, section 5 |
| `AttentionSelection` | 3 rows of one slot (2 of campaigns), batches of 2, 3 instants, 1 fault | the most urgent row goes first, a hold has a reason, a reservation is exclusive, nothing is handed over twice, what is perishable ends (section 9) |
| `FunnelEnrollment` | 1 enrollment with a fork in a fork, the scheduler and 1 handler, 1 fault, `FairSpec` | forks join once and over ended threads, actions run once, what is stuck, orphaned or repeated has a known cause, enrollments end (section 10) |

**Bounds.** A recipient only interacts with others through the shared
reservation, the wave and the run, so one is enough for the submission
properties (and the theorems cover any number), two for the others. Two attempts
are the fewest with both a retry and a last attempt (the code has 3). One crash
and one exception reach every single failure point, and crash-then-exception
combinations; two operator calls give pause-then-cancel and cancel during a pause.
`CapacityConsumedOnce` allows one more unit for each exception: one raised after
the recipient was finished puts it back to pending with its marker cleared, and the
retry finds the success and consumes again. The reservation has a spare unit, since a
full one would hide this. `CHECK_DEADLOCK FALSE` everywhere:
a finished run stops (a run is finite, the workers then poll without effect).
The bounds of the other modules are in their sections.

**Fairness** (`Fairness`). Weak fairness for what nobody can disable for good
(refresh, the selector's turn and its verdict, time). Strong fairness where
another process can disable a step again and again: claims and selection (both
queues are ordered by due time, which every requeue moves back, so a waiting row
comes first eventually), dispatch steps that wait for a lock (PostgreSQL queues
lock waiters), the maintenance steps, which run at the start of every cycle.
Operators, crashes, exceptions and provider reports are never forced.

## 5. What the checks found

* **CancelStuck**: a claim in flight during `cancel_run` that is then requeued
  (sender paused, attention lost, ...) leaves the recipient `pending` in a
  `cancel_requested` run. Claims need `scheduled` / `running`, the repair needs no
  active recipient: the run never ends and its capacity stays reserved.
* **SuccessExpires**: `_dispatch` tests expiry before status. After a crash behind
  the provider's success, a passed deadline makes it rewrite `sent` to `expired`,
  skip the recipient and consume neither capacity nor ledger.
* **GenericBypass**: the scheduled-send worker reads a row's status again at its
  turn; a candidate canceled meanwhile is no campaign case any more and falls
  through to the generic `send()`, which may deliver it.
* **SwallowedFailure**: `process_event` catches its own exceptions, rolls back and
  returns. The drain, whose comment promises to hold the watermark at the earliest
  failed event, is never told; the watermark passes the event, which stays
  `processed = false` and is never read again.
* **RetryStarves**: once a listing has shown that an upload never arrived, the operation
  is `upload_retry_ready` and should be posted again. `sweep_remote_cleanup` counts such
  an operation as attempted without doing anything for it, and the worker ends its
  cycle whenever something was attempted: the sweep takes it in every cycle, and no
  job or request is worked on any more.

Seen while modelling, without a run of their own:

* `cancel_run` (`campaigns/service.py:660`) skips `campaign_selected` rows although its
  comment says it cancels every durable provider-pending attempt; the row contests
  the contact's slot until its deadline.
* `_check_fork_join` (`funnel_engine.py:3209`) says that a fork joins when its threads are
  "completed/exited" and tests that none is `active`: it joins over a thread whose status
  is `forked`. `_complete_enrollment` (2486) counts such a thread as running. The
  properties of `FunnelEnrollment` name the case (cause *overtaken*).
* A `wait_for_reply` step of the main flow is never left: the reply handler (5599) and
  the timeout (6366) call `advance_enrollment`, which has no branch for that type.

## 6. What is proved

`CampaignDispatchProofs`, for every value of the constants, from the named
assumptions of `CampaignDispatch` (`NoOne` is no recipient; waves and reservations
are well-typed; the bounds are naturals):

* `Invariance`: `IInv`, i.e. `TypeOK` and `SubmissionInv`, always holds.
* `TypeCorrectness`, `SubmissionInvariance`, `NoDuplicateSubmission`: its
  consequences.
* `SubmissionOnlyWhileLive`, `IntentsOwnAttention`: action properties from it.
* `Implementation`: `Spec => Contract!Spec`, with the refinement mapping `Stage`.

**The inductive invariant.** "At most one submission" is not inductive: a second
call must be impossible *from here on*. `SubmittedNeverSendable` says that once a
recipient was submitted its SendLog has no status a dispatch can start from;
`SelectorBeforeSubmission` that the selector never works on such a row (it could
write `candidate` over it); `WorkerPoint` what the worker may rely on at each point:
nothing was submitted before the call, the row is still `campaign_selected` while
the worker holds its slot, still `submitting` from the submission gate to the
recorded outcome, and run, campaign and claim are live while the call is made.
Each lock appears in the proof where it is needed: without the slot lock the
selector revokes the row between confirmation and intent (mutant
`SelectorOpen_NoSlotLock`), without the run lock a cancellation slips between gate
and call (`CancelRun_Unlocked`). There is one lemma per action or group of like
endings (`SameRowEnding`, `EndingInv`, ...), each concluding that the step keeps
`IInv` and, but for four kinds of steps, is `Quiet` (submits nothing, makes no
intent); the action properties and the refinement only look at those four.

It also proves what remains of the safety of a campaign: `OutcomeInvariance`
and from it `TerminalRunsAreQuiet`, `CompletedWavesAreQuiet`, `ClosedRunsReleaseCapacity`,
`SuccessesAreAccounted` and `CapacityIsConsumedOnce`. It needs one more assumption,
`FiniteAssumption`: the recipients of a run are rows of a table, so they can be counted.
None of the five is inductive; `OutcomeInv` has a part for each of the three questions:

* `QuietInv`, how a run ends. `_refresh_run` counts recipients in one statement and
  writes `completed` in another, so the proof has to say why nobody comes back in
  between: whoever could make a recipient `pending` again is the worker itself, and while it
  holds one (`Holding`) that recipient is `processing`, which the count sees; in the
  refresh, where an exception can still throw the last recipient back, its wave is not
  completed and its run is closed only if it was canceled. `RememberedQuiet` is the count
  kept between the two statements.
* `AccountingInv`, what a success stands on. A `SendLog` may say `sent` before the
  recipient does, so the invariant follows the message: a success in the log was handed
  over, and what the worker carries between its commits (`Carrying`) or a row deferred
  by the release path (`Legacy`) was handed over too and is not yet, or already, accounted for.
* `CapacityInv`, which counts. `Charged` are the recipients that were handed over and cannot
  come to `_consume_capacity` with an unset marker again; each consumed unit belongs to
  a charged recipient or to an exception, because only the except branch clears a marker.
  `ChargesKept`, `ChargeMade` and `ChargeLost` turn "this set keeps, gains or loses an
  element" into the inequality, and every action is one of the three.

Like endings share their proofs: `Ends` covers every way `_dispatch` finishes a recipient,
`Moves` every step between two of its points, `Turns` the steps of the cycle around it.

## 7. EventDrain

`EventDrain` models the worker that feeds `segment_changed`, `contact.unsubscribed`
and other system events to `process_event`, and everybody else who touches the rows
it reads.

| variable | code |
|---|---|
| `event` | the row: not written, written by an open transaction, live and unprocessed, processed; and its `created_at` |
| `inflight` | ingress handlers between their commit of the event and their own `process_event` |
| `locked` | rows an identity or contact merge is updating |
| `persisted` | `worker_state["event_drain_watermark"]`, 0 for no row |
| `worker` | `_watermark` and the locals of `_process_cycle` (the batch, what is left of it, `max_seen`, `earliest_failed`) |
| `runs` | how many `process_event` runs of the event have committed |
| `excused`, `failed` | ghosts: events the code gives up; events of the open batch that failed |
| `clock`, `faults` | database time; the bound on faults |

`OpenBatch` is the query with its filter, order, limit and `SKIP LOCKED`; the loop
takes one event per step, with `process_event` returning after its commit
(`ProcessOk`), returning after it swallowed a failure (`ProcessSwallowed`) or
raising (`ProcessRaises`: the cutover guard stands before the `try`);
`CloseBatch` advances the watermark and may lose the write of it; `Crash` is the death
or the cancellation of the task; `StartResumed` and `StartFromNow` are the outcomes of
`_load_watermark`. `BeginEmit` and `CommitEmit` are the two ends of a transaction
that writes an event: `created_at` is `now()`, which in PostgreSQL is the start of
the transaction, so a slow transaction's event appears behind a watermark that has
moved on. (A webhook's event carries an even earlier `occurred_at`; to the drain
this is the same.)

`LeftBehindIsExcused` says what the watermark scheme loses and that it loses nothing
else: an unprocessed event behind the watermark was committed late, was locked when
the batch around it was read, failed inside `process_event`, or is older than a
start's resume point. `excused` is written where those things happen, from their own
conditions, never by comparing with the new watermark. The first three are hazards of the code; the
last one is its documented cap, but also every start without a readable
`worker_state` row. `EventsAreDrained` is the liveness side: every other event is processed,
provided fewer than `BatchSize` events keep failing.

**Bounds.** Three events and batches of two give ties across a `LIMIT`, one failing
event in front of another, and an event that commits behind a full batch. Three instants
give a resume point inside the lookback and one beyond it. A crash, a row lock, an
abandoned batch or a failure of a healthy event costs the one fault; lost watermark
writes, failed loads and failures of the poison event are free.

**Fairness.** The poll loop is a task that sleeps and runs again, and gunicorn
restarts a dead process: weak fairness of the worker's steps and of its start. A merge's
transaction ends. Emitters and ingress handlers are never forced. That the leader obtains lock
738003 in the end is assumed here; `LeaderLoop` will ask whether it does.

**Proved** in `EventDrainProofs` for any number of events, batch size, lookback and
faults: `NothingLostInSilence`, `NoSecondDrain`, `WatermarkIsMonotone`. The inductive
invariant `DrainInv` adds to the type that no time lies in the future and the
persisted watermark never exceeds the worker's (`TimeInv`), that `max_seen` and
`earliest_failed` are taken from the batch (`BatchInv`), that an event which is not given up
is still to be reached in the batch, or holds `earliest_failed` at or below itself,
or lies at or above the whole batch (`KeepInv`, which is what `CloseStep` needs when
the loop is through), and how many runs of the consumer an event can still have
(`RunsInv`). `DrainTypes` is its first part.

**Abstracted**: what the templates, funnels, scoring and segment rules do inside
`process_event` (each has its own `except` and commits its own work), the 15 s poll,
the lock of the cycle (one process runs the worker), and the row locks of the query, which
end with the loop's first commit.

## 8. VerificationUploads

Contact verification in bulk posts files of addresses to a provider, polls them, reads
their reports and must delete them there, because they are personal data. The provider may
take a file without the answer coming back, and its listing lags behind. `VerificationUploads`
models `contact_verification/service.py` and `worker.py` on these jobs.

| variable | code |
|---|---|
| `job` | `contact_verification_jobs.status` and `cancel_requested` |
| `op` | status of the file's row in `contact_verification_operations` |
| `misses`, `due`, `polls` | `reconciliation_attempts`, the retry time (past or not), the transport failures of a file's poll |
| `aged` | the listing's consistency delay since `started_at` is over |
| `item` | status of the file's identifiers |
| `file`, `posts` | the provider: nothing, a request on the wire, a file not listed yet, listed, ready, deleted; how often it took the chunk |
| `pc`, `cur`, `todo`, `seen` | the worker's place in its cycle, its job, the rows of its pass, the cancellations its session has read |
| `asking` | cancel handlers between their test and their write |
| `entitled` | `VerificationAccessService.authorize` |

**Actions.** `CreateJob`, `AskCancel` and `WriteCancel` are the API. The worker's cycle is
`BeginSweep` / `EndSweep` (`sweep_remote_cleanup`), the dequeue (`NoWork`, `Begin`,
`Refuse`, `CancelPass`) and one pass over the job in hand: `Plan`, `Credits` /
`NoCredits`, `Intend` (the committed intent), `Acknowledge` / `UploadUnknown` /
`UploadRejected`, `PollPass` / `PollFails`, `Finalize`. A pass meets several files; what
it finds for each is an *outcome*, and `Settle` and `ItemAfter` say what it makes of
them. `autoflush` is off: `_finalize_if_done` counts what the database held before the
pass, so a job closes only in a pass that begins with nothing pending. `Crash` may leave
deletions carried out whose rows say otherwise.

**Properties.** `RemoteFileIsTracked`: whatever the provider may hold has a row the
sweep comes back to. `ClosedJobIsClean`: no closed job has anything there.
`UploadedOnce`. `NoLossWithoutFault`: identifiers fail only after a failure outside the
program. `ImplementsCustody`: the module implements `FileCustody`, which says that a file is
handed out for an open batch only, never again once erased, and that a batch
is closed only with nothing abroad. `RemoteFilesAreDeleted` and `JobsEnd` are
the liveness side; both except the state `Stuck` that `RetryStarves` is about. The
re-posting of a confirmed absence is modelled, but the code never gets there for the
same reason: `UploadedOnce` is about everything else.

**Bounds.** One job of two files: files interact through the job only, and the order of
jobs is in the proofs. Three misses confirm an absence, a pass gives up at the second
transport failure, and two faults reach every pair of a crash, a lost request, a
lost entitlement and a provider failure (59,300 states; three faults, 251,914 states,
were checked once).

**Fairness.** The worker's loop runs again after every cycle, requests are answered or
time out, the provider lists and finishes files, retry times pass, a cancel handler
that has begun ends. Nobody has to create or to cancel a job.

**Proved** in `VerificationUploadsProofs`, for any jobs, files, limits and faults: every
safety property above and the refinement. `UploadInv` adds to the types and the
tracking that closed jobs have no pending operation (`Clean`), what a listing may show
for each operation status (`Listings`), that no file exists before its intent
(`Fresh`), and what the worker's place implies about the rows in hand (`Cycle`). The
core is `PassKeeps`: a pass whose outcomes are *sound*, i.e. an absence is concluded
only when nothing can be there, keeps all of it.

**Abstracted**: a chunk stands for the identifiers of one file; their edits and alerts,
single and individual verification, WhatsApp checks, leases, requests and privacy
erasure are not modelled, nor are `upload_reconciliation_unsupported` (the one adapter
reconciles), transient rejections, differing counts in a report and the recovery of
legacy rows. That a file is listed when the consistency delay is over is an assumption
about the provider, the one the code makes. One process runs the worker.

## 9. AttentionSelection

`CampaignDispatch` sees the contest for a contact's attention as an arbitrary verdict on one
row. `AttentionSelection` is that contest: several messages of one contact, campaign rows and
others, the scheduled-send worker's cycle over them, the campaign worker's
confirmation, and time.

| variable | code |
|---|---|
| `status`, `due`, `expires` | `SendLog.status` (`deferred` counts as `delayed`), `scheduled_at`, `expires_at` |
| `handed` | how often a provider has taken the message (no column says so) |
| `withdrawn`, `paused` | campaign rows whose run was canceled; `automations_pause_mode` |
| `pc`, `now`, `seeds`, `left` | the cycle of `_process_cycle`: its place, its time, the rows it read without locks, those still to handle |
| `losers`, `winners`, `next` | `_selection_skip`, `_selection_winners`, when a slot is contested again |
| `held`, `slot`, `locked`, `stale` | session locks, the slot being handled, rows `FOR UPDATE` until the first commit, rows known only as the seed query read them |
| `cur`, `camp` | the rows that the two workers have at a provider |
| `blocked` | the lock that a task of the event loop waits for; while it waits no task runs |

**Actions.** `Seed`, `Arbitrate` (locks, whole contests, `arbitrate_due_attention`), then
one row per step: `HoldLoser`, `ExpireRow`, `ReserveSlot`, `Reschedule`, `Drop`, `PauseGate`,
or `CallProvider` and `Answer`. `SelectionFails` is a pass that fails closed. The
campaign worker expires, confirms and submits (`CampaignSubmits`), returns or drops its rows,
and gets the outcome (`CampaignEnds`). Handlers park, cancel, pause and resume.
Both workers are tasks of one event loop and call the database synchronously, so one
runs until it awaits a provider (`Yielding`). The scheduled-send worker awaits it with its
session locks held; another task that then asks for such a lock stops the loop
(`LoopBlocks`), and only gunicorn's timeout (`Watchdog`) ends the process. Comments in
`scheduled_send_worker.py` know of this danger and avoid it on other paths.

**Properties.** `DispatchIsMostUrgent` and `SubmissionIsMostUrgent` say that what goes
out was the most urgent claimant of the slot, when the cycle began and when the campaign
worker submits: rows outside the batch's `LIMIT`, rows parked since the reservation and rows
that reserve the slot for later included. `HeldForAnother`: nothing is put off
without another row that is no less urgent and can be sent. `OneReservation`:
reservations are made and revoked in separate commits and still exclude each other.
`HandedOnce`: a message without a durable intent may be repeated by a restart and by
nothing else. `PerishablesEnd`: a message with a deadline ends, whatever stops the
loop, unless the contact is paused or the run was canceled
(`cancel_run` leaves `campaign_selected` rows, section 5).

**Bounds.** One slot with two campaign rows and a third that outranks them, may reserve
the slot for later, keeps its lane as a retry and has a deadline; batches of two, so
that the third may be outside; instants 0 to 2 and *never*; one fault among a crash, a
stopped loop, a failed pass, a cancellation and a pause (a resume is free). Two
slots and no future reservations were checked once for safety (1.6 million states), and the
theorems cover any number of both.

**Fairness.** Weak fairness of each worker's loop, of the watchdog (`--timeout 120` in
`docker-compose.yml`) and of time. For the campaign worker as a whole: which row it
takes is not promised. Operators and answers of the provider are never forced; a call that
fails to come back is a lost answer (`Answer` without `ProviderTakes`).

**Proved** in `AttentionSelectionProofs`, for any finite set of rows, any slots, ranks,
deadlines, windows and bounds: all six safety properties. The invariant has three
layers. `Base`: types and what the worker holds at each point. `Handing`: a row that
a worker may still hand over was handed over only by processes that have died; a stopped
loop's restart is counted when it stops. `Choice`: rows in hand and reservations are
due (`Due`); a slot has one row left to dispatch, it comes behind its losers, and any
other reservation of the slot is still to be revoked in this cycle (`Election`); no
claimant is more urgent than it (`Urgency`). `Election` is what makes `OneReservation`
inductive: when the winner's turn comes, no other row of the slot is left. `HeldForAnother`
needs that a finite contest has a first row (`Foremost`), which follows from the
well-foundedness of strict inclusion, applied to the sets of rows that outrank a row.

**Abstracted**: the shadow and off modes, the bandit's channel, the planner's projections and
the recipients' own `scheduled_at` (they come due at some time); why a row is dropped or
postponed; enrollments that the worker resumes. Sessions are taken to keep their pooled
connection between commits (`selection.py:211` relies on it).

## 10. FunnelEnrollment

A funnel walks a contact through steps. Steps that wait are ended by the scheduler, by an
event or by a reply, each in a session of its own; a fork runs several paths as threads, a
path may fork again, and the last thread to end joins the fork and takes its flow
on. No lock orders these transactions: they meet in the rows they write.
`FunnelEnrollment` models one enrollment with its threads.

| variable | code |
|---|---|
| `row[Root]` | `funnel_enrollments`: `status`, `current_step_id` (a position), whether `thread_count` is set, the `wait_until` steps marked as resolved in `enrollment_metadata` |
| `row[p]` | the thread of path `p` in `funnel_enrollment_threads`: `status` (*none* before it exists), `current_step_id` |
| `joins` | `fork_joined` rows of the enrollment's log, per fork |
| `tx[s]` | the transaction of session `s`: why it began (`op`), the rows its query returned and those still to be taken (`list`, `todo`), the engine's pending calls (`calls`), what it has read and written (`read`, `mem`, `dirty`, `log`), the funnel's status as it knows it, whether an action has run |
| `stopped`, `event` | the funnel's status; the event that `wait_until` steps wait for |
| `acts`, `contested`, `causes` | ghosts: executions of each action, flows that two transactions have gone on with at a time, what may keep the enrollment from its end |
| `faults` | the bound on exits, stops and lost transactions |

**Transactions.** The engine's sessions are READ COMMITTED, do not flush on a query
(`autoflush=False`, `database.py:12`) and keep every object they have read until a commit
expires it, so `Known` answers from the session before it asks the database. `Write`
locks the row at once, since the engine writes a log row, and with it flushes, behind each
assignment. `Expire` is `db.expire(enrollment, ["threads"])`: the threads that nothing
else holds are read again. `ExecuteAction` runs an action in another thread of the process
with the same session; most actions commit it, and the enrollment is refreshed either way.

**Actions.** `OpenPass`, `OpenEvent`, `OpenReply`, `OpenGoal` begin a transaction;
`Take` is the head of its loop. The engine's functions call each other deep in one
transaction; each is an action that pops its call and pushes those it makes:
`ResolveWaitUntil`, `Advance` (`_advance_to_next`, `_advance_thread`), `ProcessStep`
(`_process_current_step`, `_process_thread_step`, with both kinds of fork),
`CheckForkJoin` and its second half `ContinueAfterFork`, `Recheck` (the
callers' own call of `_check_fork_join`), `CompleteEnrollment` and `Finish`,
`ExitEnrollment` and `Kill`. `Commit` ends the pass; `Abort` and `Victim` roll it back.

**Properties.** `JoinsOnce`, `EffectsOnce`, `StuckIsExplained` and `OrphansAreExplained`
say what these unlocked transactions can do to an enrollment and that they can do
nothing else. `causes` is written where a thing happens, from its own condition:

| cause | what happened |
|---|---|
| *stopped* | a step was entered while its transaction knew the funnel as stopped, so it was not processed; nothing processes it later unless it waits |
| *missed* | `_check_fork_join` or `_complete_enrollment` found a thread unfinished whose status another transaction had changed or was changing |
| *overtaken* | a fork was joined over a thread that is itself forked |
| *lost* | a transaction was rolled back behind an action, whose commit has kept the first half |
| *raced* | an exit ran beside another transaction |

`contested` is written by `GoesOn`, where a transaction takes a flow from its list or leaves a
fork with it: the flow is contested when another transaction is in one of its steps or has
moved it uncommitted, or when the row is no longer where the transaction believes it. So
`EffectsOnce` says that a second execution takes two transactions that go on with the
same flow, and `JoinsOnce` that a second join takes two of them on one of the fork's
threads (for the main flow, whose join is also asked for by `Recheck`, on any thread), or a cause
in the table. These two and `OrphansAreExplained` were first stated with narrower exceptions, which hold in small instances
and which the attempt to prove them showed to be too narrow: two replies in two paths of an overtaken fork let two
transactions join the main flow; and a `wait_until` thread that an action's commit makes
visible in the middle of the scheduler's fork is run by the event and again by the
scheduler's pending `process` (`funnel_engine.py:2956`). `OrphansAreExplained` takes four
handlers: two replies end the two threads of a nested fork at a time and neither
joins it, two more, which still know these threads as active, end them again and both join;
the first goes on with the thread that forked, which ends, and the enrollment with it, before the second writes
that thread active (`_check_fork_join` tests the status the session has cached). The assumption that paths do not nest in
one another (`NestingAssumption`) is what makes a live thread have a live ancestor below the
main flow.

TLC finds an instance of every exception of `EffectsOnce`, `StuckIsExplained` and
`OrphansAreExplained` when it is taken out of the property; those of `JoinsOnce` take larger
scripts.
`JoinedThreadsAreDone` has none: though the joining transaction may know the sibling
threads from an old read, a thread seen as ended has ended. `EnrollmentEnds` is the
liveness side: an enrollment ends or reaches one of the stuck states, unless its funnel
stays stopped.

**Bounds.** A main flow of wait, fork and exit; a path that forks again, into a `wait_until`
with an action and an immediate exit, with an action behind; a path with a
`wait_for_reply`. So a join can come from the scheduler's timers, from the event, from a reply
and from the fork itself (a second time behind an action's commit), a nested join can come
before and after the outer one, and two transactions can wait for each other's rows. The
scheduler (one, by advisory lock 737001) and one
handler, with one fault: 181,258 states. Five other scripts, up to 1,250,000 states, were
checked once for the invariants; one of them, with two threads in an event's pass, showed
that `_complete_enrollment` too can act on a thread that has ended (*missed*). Two handlers exceed two
million states and were searched in part only. The assumptions on scripts put a fork
second in its flow, behind a wait: the scheduler enters every fork.

**Fairness.** The scheduler polls every minute and takes what is due (`OpenPass`); a
transaction that has begun proceeds, unless it waits for a lock, and the database ends one
of two that wait for each other (`Engine` or `Victim`). In a script where a reply and the
scheduler can wait for each other, replies without end could starve the scheduler under
this fairness; in this one they cannot. Events, replies, exits, stops and the
resumption of a stopped funnel are never forced.

**Proved** in `FunnelJoinProofs`, for any paths, scripts and nesting, any sessions and
any number of faults: `FunnelTypes`. No row, cached row or pending call ever points
behind the last step of its path or at a fork that is not one, whoever advances it. It is
inductive as it stands: the calls carry the steps they were made for. There is a lemma
for each operation of a session (`LoadType`, `WriteType`, `ExpireType`, `MergedType`) and
for each action.

`FunnelJoinProofs` proves `JoinedThreads`: `JoinedThreadsAreDone` holds in every reachable
state, for any paths, nesting, handlers and faults. What a session knows may be old, so the
invariant is about what its knowledge is still good for. `JoinInv` has three parts:

* `RowsGood`, of the committed rows: a fork's threads exist all or none, only once its flow
  has reached the fork, and a joined fork's threads without forks of their own have ended.
* `Good` and `CallsGood`, of a session: a thread it has seen end has ended (in the rows or in
  what it writes), a thread it has seen exists, and of a fork it knows all threads or none
  (`Seen`); it takes no thread back, and spawns all threads of a fork or none (`Written`);
  what it lists exists, and a handler only has to do with forks that are entered (`Passing`).
  A call that leads a flow into its fork is only ever on top of the scheduler's stack.
* `Locked`: a thread's status is written by one session at a time.

So nobody but the one scheduler brings threads into being, and a session that decides the
join on an old copy can be wrong only about a thread that has ended since, never about one
that runs. There is a lemma for every operation of a session (`LoadGood`, `StatusGood`,
`AtGood`, `ExpireGood`, `SpawnGood`, `LogGood`, `DoomGood`, `RefreshGood`), one for what a commit
means to the others (`CommitRows`, `CarryGood`), one for the stack (`StackGood`), and one
for each action.

`FunnelOnceProofs` proves `EffectsAreOnce`: `EffectsOnce` holds in every reachable state, on top of
`JoinInv`. Its exceptions are ghosts (`contested`, the cause `lost`), so the invariant
`OnceInv` says what holds of a flow until one of them bites:

* `Tidy`, of a session: a call below another one starts a thread at its first step, what is
  moved exists, and a transaction that has not begun has nothing.
* `Alone`: at most one transaction moves a flow, which the row locks give.
* `Single`, of an uncontested flow: at most one call of all sessions is in a step of it, it is
  at the step that a commit of its session would make of the row, and nobody else takes the flow
  to another step.
* `Unspent`, of an uncontested flow before a transaction was lost behind an action: the action
  that a call is at has not run, none has beyond where its session has the flow, and each ran
  at most once. While a transaction has committed nothing, none has run beyond the row either:
  that is what lets a rollback go back to the row without repeating an action.

`OnceInv` without one of them is not inductive: an action's own commit changes the rows under the
stack (`CommitOnce`), a rollback takes the flow back (`DropOnce`), and the calls that come
back have to find the step they left (`LocalOnce`). A step that commits nothing has to show only
where it takes its flow (`Rests`, `Goes`: `OnwardQuiet`, `OnwardGo`), and a join or a listed
wait, which go on from what was read long before, have it from `GoesOnIs`: if the rows differ
or somebody else is on the flow, it is contested.

`FunnelForkProofs` proves `JoinsAreOnce`: `JoinsOnce` holds in every reachable state, on top of
`JoinInv` and `OnceInv`. No lock guards the join, so the argument is about why two sessions cannot
decide it at a time. A session joins a fork when it knows all its threads as ended; two that
do would each have to know as ended what the other has ended and not committed. So the
invariant `ForkInv` follows who has ended what, for threads whose exceptions have not
happened (`Tame`):

* `Sound`, of a session: it writes no thread that is over in the rows; a thread it is in a step of is
  active, and nobody else moves it; what it knows as over is over; only a timer's pass spawns.
* `Ordered`, `Fresh` and `Exits`: what may lie below another call; that a step was entered with its
  row written, and a `wait_until` is resolved only when it was not; and that an exit, beside
  which nothing runs, knows the rows as they are.
* `Joining`: a handler that asks for a thread's join has itself ended one of its threads, which the
  rows still have as running; `Settled`: the threads of a joined fork are over.
* `OneJoin`: a fork has at most one `fork_joined` row, counting the uncommitted ones.
* `Hosted` and `Main`, for the main flow, whose join is also asked for by `Recheck` behind any
  thread: a running thread below another one has it forked, and who asks is advancing
  a thread, or has. So if all threads of the main flow are known as over, none at any depth runs but
  what the session itself has ended (`NoneAlive`), and that is only one session (`JoinsAlone`).

A step that commits nothing has to show what it makes of each thread (`Local`), what it joins
(`Logs`) and what it puts on the stack (`Puts`); `LocalFork` derives `ForkInv` from the three.
`CommitFork` covers both commits, the pass's own and an action's, and `AnewFork` a transaction that
begins or is lost.

`FunnelOrphanProofs` proves `NoThreadIsOrphaned`: `OrphansAreExplained` holds in every reachable
state, on top of the three others. `_complete_enrollment` looks at what its session has read, which
may be old, so its guard alone does not do; what does is the way to it. `OrphanInv` says, while
neither of the two causes has happened (`Calm`):

* `Passed`, of the rows and of every session: if a flow is known to be behind its fork or over, is
  called for behind its fork, or its fork is joined (`Past`), then everything that ran below the
  fork, at any depth, is over in what would be committed (`Gone`). A join finds only the threads
  of its own fork over, but these are behind theirs (`JoinedGone`); `Inner` is the least set of
  paths closed under forks, so that no induction over the nesting is needed.
* `Counting`: from the fork until everything is gone the enrollment counts its threads
  (`thread_count`), for that is what an exit asks before it looks for any.
* `Leaving`, of an exit, and `Exited`: it has read all threads or there are none to end; once it
  has committed, no thread is active and nothing that could write is left.

`LocalOrphan` covers the steps that commit nothing, each by what it writes, joins and calls for
(`Makes`, `Grounded`); `ResumedOrphan` both commits; `GivenOrphan` exits and transactions that
begin or are lost.

**Abstracted**: which time is up (any subset of what waits), conditions and branches inside a
flow, the reasons of an exit, the deferral and handoff of `send_message` (its own
transactions with the scheduled-send worker), approvals, pauses of the contact, the
sandbox, enrolling, and several enrollments in one pass: they share no rows, but an
exception in one is logged and the pass goes on, which is not modelled either. An exit
branch of a `wait_until` has no steps of its own. A main-flow `wait_for_reply` is
excluded, since it never ends (section 5).

## 11. What is not proved, what is not modelled

**Only model-checked**: the liveness properties of every module (`ENABLED` and
fairness are out of the prover's reach), and one safety property of
`FunnelEnrollment`, `StuckIsExplained`.
Every other safety property that a passing run checks is a theorem
for all values of the constants. **Not modelled**: see the components with status `not_modelled` in
`PROJECT.json`, each with its reason, and the abstractions listed with each module.

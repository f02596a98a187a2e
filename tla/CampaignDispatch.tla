-------------------------- MODULE CampaignDispatch --------------------------
(***************************************************************************)
(* One campaign run being dispatched: the campaign worker                  *)
(* (app/services/campaigns/worker.py), the submission half of              *)
(* SendService.send (app/services/channels/send_service.py), the part of   *)
(* the scheduled-send worker that owns campaign candidates, the operator's *)
(* cancel / pause / approve calls and the provider's delivery callbacks,   *)
(* all working on the same database rows.                                  *)
(*                                                                         *)
(* A database transaction is one action: what a process reads in one       *)
(* transaction it keeps in its "view", and another process may commit      *)
(* before the transaction writes.  Row and advisory locks that outlive a   *)
(* step are guards (RunLocked, SlotHeldByWorker, selector.cur).            *)
(***************************************************************************)
EXTENDS Naturals, FiniteSets

CONSTANTS
    Recipients,     \* campaign_recipients rows of the run
    Waves,          \* campaign_waves rows of the run
    WaveOf,         \* the wave each recipient was planned into
    HeldWaves,      \* waves that wait for an approval before they start
    LegacyDeferred, \* recipients an earlier release left in status deferred
    Reserved,       \* units each wave's capacity reservation was given
    NoOne,          \* "no recipient is being handled"
    MaxAttempts,    \* attempts _retry_or_fail allows (3 in the code)
    MaxCrashes,     \* bound: crashes of the worker process
    MaxRaises,      \* bound: exceptions raised inside a dispatch
    MaxOperator     \* bound: pause and cancel calls of an operator

ASSUME RecipientsAssumption == NoOne \notin Recipients
ASSUME FiniteAssumption == IsFiniteSet(Recipients)
ASSUME WaveAssumption == /\ WaveOf \in [Recipients -> Waves]
                         /\ HeldWaves \subseteq Waves
                         /\ LegacyDeferred \subseteq Recipients
                         /\ \A r \in LegacyDeferred : WaveOf[r] \notin HeldWaves
                         /\ Reserved \in [Waves -> Nat]
ASSUME BoundsAssumption == /\ MaxAttempts \in Nat
                           /\ MaxCrashes \in Nat
                           /\ MaxRaises \in Nat
                           /\ MaxOperator \in Nat

VARIABLES
    recipient,   \* campaign_recipients: status, attempt_count, capacity marker
    log,         \* status of the recipient's SendLog ("none": no row yet)
    ttl,         \* expires_at of that SendLog: "none", "live" or "past"
    run,         \* campaign_runs: status and cancel_requested
    wave,        \* campaign_waves.status
    campaign,    \* campaigns.status
    reservation, \* channel_capacity_reservations of the run, one per wave
    ledger,      \* recipients whose SendLog has its contact_ledger row
    alerts,      \* recipients with a ledger-reconciliation alert
    submitted,   \* how often the provider was called for the recipient
    worker,      \* the campaign worker: program counter, batch and view
    selector,    \* the scheduled-send worker inside one attention slot: the
                 \* row, what it knows of it, the rows it submitted itself
    budget       \* crashes, raises and operator calls still allowed

vars == <<recipient, log, ttl, run, wave, campaign, reservation, ledger,
          alerts, submitted, worker, selector, budget>>

RecipientStatus == {"held", "pending", "processing", "deferred", "sent",
                    "delivered", "skipped", "failed", "canceled"}
ActiveStatus == {"pending", "processing", "deferred", "held"}
TerminalRun == {"completed", "canceled"}

SendPending == {"candidate", "campaign_selected", "delayed", "deferred"}
SendSuccess == {"sent", "delivered"}
SendFailure == {"failed", "exhausted", "blocked", "skipped", "expired",
                "canceled", "submission_unknown"}
LogStatus == {"none", "policy_window_expired", "submitting"}
                 \cup SendPending \cup SendSuccess \cup SendFailure

\* Statuses _dispatch looks for when it asks for the recipient's SendLog.
Visible == LogStatus \ {"none", "policy_window_expired"}

\* Statuses from which a row can still travel to the provider.
PreSubmit == SendPending \cup {"none", "policy_window_expired"}

NoView == [cancel |-> FALSE, active |-> FALSE, log |-> "none", ttl |-> "none"]
Views == [cancel : BOOLEAN, active : BOOLEAN, log : LogStatus,
          ttl : {"none", "live", "past"}]

\* Points of a dispatch between two commits or two lock acquisitions.
DispatchPoints == {"decide", "gate", "confirm", "send", "submit_gate",
                   "provider", "record", "consume", "ledger", "finish",
                   "refresh", "refresh_write"}
Points == DispatchPoints \cup {"cycle", "dispatch"}

\* What a call of the provider, or a finished SendLog, can report.
Outcomes == {"none", "sent", "delivered", "exhausted", "submission_unknown"}

RecipientRecords == [status : RecipientStatus, attempts : Nat, marker : BOOLEAN]
RunRecords == [status : {"scheduled", "running", "cancel_requested"} \cup TerminalRun,
               cancel : BOOLEAN]
ReservationRecords == [reserved : Nat, consumed : Nat,
                       status : {"reserved", "active", "consumed", "released"}]
WorkerRecords == [pc : Points, cur : Recipients \cup {NoOne},
                  batch : SUBSET Recipients, view : Views, outcome : Outcomes,
                  touched : SUBSET Waves, target : SUBSET Waves,
                  quiet : {"no", "wave", "run"}]
SelectorRecords == [cur : Recipients \cup {NoOne}, log : LogStatus,
                    ttl : {"none", "live", "past"}, sent : SUBSET Recipients]

TypeOK ==
    /\ recipient \in [Recipients -> RecipientRecords]
    /\ log \in [Recipients -> LogStatus]
    /\ ttl \in [Recipients -> {"none", "live", "past"}]
    /\ run \in RunRecords
    /\ wave \in [Waves -> {"held", "planned", "running", "completed"}]
    /\ campaign \in {"active", "paused"}
    /\ reservation \in [Waves -> ReservationRecords]
    /\ ledger \in SUBSET Recipients
    /\ alerts \in SUBSET Recipients
    /\ submitted \in [Recipients -> Nat]
    /\ worker \in WorkerRecords
    /\ selector \in SelectorRecords
    /\ budget \in [crashes : Nat, raises : Nat, operator : Nat]

Idle == [pc |-> "cycle", cur |-> NoOne, batch |-> {}, view |-> NoView,
         outcome |-> "none", touched |-> {}, target |-> {}, quiet |-> "no"]

\* create_run: recipients of a held wave are held, the others pending.  A
\* deferred recipient was written by a release that let the scheduled-send
\* worker deliver campaign rows, so its SendLog is parked, sent or expired.
Init ==
    /\ recipient = [r \in Recipients |->
            [status |-> IF r \in LegacyDeferred THEN "deferred"
                        ELSE IF WaveOf[r] \in HeldWaves THEN "held"
                        ELSE "pending",
             attempts |-> 0, marker |-> FALSE]]
    /\ \E old \in [LegacyDeferred -> {"deferred", "sent", "expired"}] :
            /\ log = [r \in Recipients |->
                        IF r \in LegacyDeferred THEN old[r] ELSE "none"]
            /\ submitted = [r \in Recipients |->
                        IF r \in LegacyDeferred /\ old[r] = "sent" THEN 1 ELSE 0]
            /\ ledger = {r \in LegacyDeferred : old[r] = "sent"}
    /\ ttl = [r \in Recipients |->
                IF r \in LegacyDeferred THEN "live" ELSE "none"]
    /\ run = [status |-> IF LegacyDeferred = {} THEN "scheduled" ELSE "running",
              cancel |-> FALSE]
    /\ wave = [w \in Waves |->
            IF w \in HeldWaves THEN "held"
            ELSE IF \E r \in LegacyDeferred : WaveOf[r] = w THEN "running"
            ELSE "planned"]
    /\ campaign = "active"
    /\ reservation = [w \in Waves |->
            [reserved |-> Reserved[w], consumed |-> 0, status |-> "reserved"]]
    /\ alerts = {}
    /\ worker = Idle
    /\ selector = [cur |-> NoOne, log |-> "none", ttl |-> "none", sent |-> {}]
    /\ budget = [crashes |-> MaxCrashes, raises |-> MaxRaises,
                 operator |-> MaxOperator]

-----------------------------------------------------------------------------
(* Locks *)

\* FOR UPDATE on the run and the campaign: taken by _lock_dispatch_gate and
\* kept until the intent is committed, taken again by _campaign_submission_gate
\* and kept through the provider call until its outcome is committed.
RunLocked == worker.pc \in {"confirm", "send", "provider", "record"}

\* The attention slot: the worker keeps it from _confirm_attention_selection
\* to the commit of the intent, the selector for as long as it works on the row.
SlotHeldByWorker(r) ==
    worker.cur = r /\ worker.pc = "send" /\ worker.view.log = "campaign_selected"

SlotFree(r) == selector.cur # r

\* The submission gate and the provider call hold the SendLog row itself.
LogRowLocked(r) == worker.cur = r /\ worker.pc \in {"provider", "record"}

-----------------------------------------------------------------------------
(* Endings shared by the branches of _dispatch.  Each one commits. *)

\* The batch loop goes on with the recipient's run being refreshed.
Committed(r) ==
    worker' = [worker EXCEPT !.pc = "refresh", !.touched = {WaveOf[r]},
                             !.view = NoView, !.outcome = "none"]

\* _finish_recipient closes a row that has not reached the provider.
Closed(status, l) ==
    IF status \in {"canceled", "skipped", "failed"}
         /\ l \in SendPending \cup {"submitting"}
    THEN status ELSE l

Finish(r, status, l) ==
    /\ Closed(status, log[r]) # log[r] => SlotFree(r)
    /\ recipient' = [recipient EXCEPT ![r].status = status, ![r].marker = FALSE]
    /\ log' = [log EXCEPT ![r] = Closed(status, l)]
    /\ Committed(r)

\* Mutation: the released row goes to a queue of its own.
Returned_ToQueue(l) ==
    IF l \in {"campaign_selected", "delayed", "deferred"} THEN "queued" ELSE l

\* _return_attention_to_selection releases a reservation that was not used.
Returned(l) ==
    IF l \in {"campaign_selected", "delayed", "deferred"} THEN "candidate" ELSE l

Repend(r, l, attempts) ==
    /\ Returned(log[r]) # log[r] => SlotFree(r)
    /\ recipient' = [recipient EXCEPT ![r].status = "pending",
                                      ![r].attempts = attempts]
    /\ log' = [log EXCEPT ![r] = Returned(l)]
    /\ Committed(r)

\* The four _requeue_* helpers give the attempt of the claim back.
Requeue(r, l) ==
    Repend(r, l, IF recipient[r].attempts > 0 THEN recipient[r].attempts - 1 ELSE 0)

RetryOrFail(r, l, cancelSeen) ==
    IF recipient[r].attempts < MaxAttempts /\ ~cancelSeen
    THEN Repend(r, l, recipient[r].attempts)
    ELSE Finish(r, "failed", l)

-----------------------------------------------------------------------------
(* The cycle: maintenance, then claims, then one dispatch per claim *)

AtCycleStart == worker.pc = "cycle" /\ worker.batch = {}

\* _recover_stale_processing for the claims S that are older than ten minutes.
RecoverStale(S) ==
    LET unknown  == {r \in S : log[r] = "submitting"}
        canceled == IF run.cancel \/ run.status = "canceled" THEN S \ unknown ELSE {}
        pending  == S \ (unknown \cup canceled)
    IN
    /\ AtCycleStart
    /\ S # {}
    /\ \A r \in S : recipient[r].status = "processing"
    /\ recipient' = [r \in Recipients |->
            IF r \in unknown THEN [recipient[r] EXCEPT !.status = "failed",
                                                       !.marker = FALSE]
            ELSE IF r \in canceled THEN [recipient[r] EXCEPT !.status = "canceled",
                                                             !.marker = FALSE]
            ELSE IF r \in pending THEN [recipient[r] EXCEPT !.status = "pending"]
            ELSE recipient[r]]
    /\ log' = [r \in Recipients |->
            IF r \in unknown THEN "submission_unknown" ELSE log[r]]
    /\ IF unknown \cup canceled = {}
       THEN UNCHANGED worker
       ELSE worker' = [worker EXCEPT !.pc = "refresh",
                          !.touched = {WaveOf[r] : r \in unknown \cup canceled}]
    /\ UNCHANGED <<ttl, run, wave, campaign, reservation, ledger, alerts,
                   submitted, selector, budget>>

\* _reconcile_send_logs: the provider's later word reaches the recipient.
Reconcilable(r) ==
    \/ recipient[r].status = "deferred" /\ log[r] \in SendSuccess \cup SendFailure
    \/ recipient[r].status = "sent"
         /\ log[r] \in {"delivered", "failed", "exhausted", "blocked"}

ReconcileSendLogs ==
    LET rows == {r \in Recipients : Reconcilable(r)} IN
    /\ AtCycleStart
    /\ rows # {}
    /\ recipient' = [r \in Recipients |->
            IF r \notin rows THEN recipient[r]
            ELSE IF log[r] \in SendSuccess
                 THEN [recipient[r] EXCEPT !.status = log[r]]
                 ELSE [recipient[r] EXCEPT !.status = "failed", !.marker = FALSE]]
    /\ worker' = [worker EXCEPT !.pc = "refresh",
                                !.touched = {WaveOf[r] : r \in rows}]
    /\ UNCHANGED <<log, ttl, run, wave, campaign, reservation, ledger, alerts,
                   submitted, selector, budget>>

\* _reclaim_campaign_deferrals: a legacy deferral becomes campaign work again.
ReclaimDeferrals ==
    LET rows == {r \in Recipients : recipient[r].status = "deferred"
                                      /\ log[r] \in SendPending} IN
    /\ AtCycleStart
    /\ rows # {}
    /\ run.status \in {"scheduled", "running"}
    /\ ~run.cancel
    /\ recipient' = [r \in Recipients |->
            IF r \in rows THEN [recipient[r] EXCEPT !.status = "pending"]
            ELSE recipient[r]]
    /\ worker' = [worker EXCEPT !.pc = "refresh",
                                !.touched = {WaveOf[r] : r \in rows}]
    /\ UNCHANGED <<log, ttl, run, wave, campaign, reservation, ledger, alerts,
                   submitted, selector, budget>>

RunQuiescent == \A r \in Recipients : recipient[r].status \notin ActiveStatus
WaveQuiescent(w) ==
    \A r \in Recipients : WaveOf[r] = w => recipient[r].status \notin ActiveStatus

RepairQuiescentRun(statuses) ==
    /\ AtCycleStart
    /\ run.status \in statuses
    /\ RunQuiescent
    /\ worker' = [worker EXCEPT !.pc = "refresh", !.touched = {}]
    /\ UNCHANGED <<recipient, log, ttl, run, wave, campaign, reservation, ledger,
                   alerts, submitted, selector, budget>>

\* Mutation: a run that has started is not repaired.
FinalizeQuiescentRun_NotRunning ==
    RepairQuiescentRun({"scheduled", "cancel_requested"})

\* _finalize_quiescent_runs: repair a run whose refresh was lost in a crash.
FinalizeQuiescentRun ==
    RepairQuiescentRun({"scheduled", "running", "cancel_requested"})

ClaimFrom(r, waveStatuses) ==
    /\ worker.pc = "cycle"
    /\ recipient[r].status = "pending"
    /\ run.status \in {"scheduled", "running"}
    /\ ~run.cancel
    /\ campaign = "active"
    /\ wave[WaveOf[r]] \in waveStatuses
    /\ recipient' = [recipient EXCEPT ![r].status = "processing",
                                      ![r].attempts = @ + 1]
    /\ run' = [run EXCEPT !.status = "running"]
    /\ wave' = [wave EXCEPT ![WaveOf[r]] = "running"]
    /\ worker' = [worker EXCEPT !.batch = @ \cup {r}]
    /\ UNCHANGED <<log, ttl, campaign, reservation, ledger, alerts, submitted,
                   selector, budget>>

\* Mutation: a wave is claimed from once only.
Claim_PlannedWave(r) == ClaimFrom(r, {"planned"})

\* _claim_one: any due recipient of a live run, campaign and wave.
Claim(r) == ClaimFrom(r, {"planned", "running"})

-----------------------------------------------------------------------------
(* _dispatch: the reads, then one of its early returns *)

\* The recipient, its run, the campaign and the newest SendLog are read; the
\* branches below decide on this view while other processes go on.  Nothing but
\* the dispatch moves a claimed recipient, so the status test always succeeds; and
\* the branch for an intent or an unknown submission finds none, recovery and the
\* except branch having ended every recipient that left one behind.
LoadDispatch(r) ==
    /\ worker.pc \in {"cycle", "dispatch"}
    /\ r \in worker.batch
    /\ recipient[r].status = "processing"
    /\ worker' = [worker EXCEPT
            !.pc = "decide", !.cur = r, !.batch = @ \ {r},
            !.view = [cancel |-> run.cancel, active |-> campaign = "active",
                      log |-> IF log[r] \in Visible THEN log[r] ELSE "none",
                      ttl |-> IF log[r] \in Visible THEN ttl[r] ELSE "none"]]
    /\ UNCHANGED <<recipient, log, ttl, run, wave, campaign, reservation, ledger,
                   alerts, submitted, selector, budget>>

\* The variables no early return writes.
EarlyReturnUnchanged ==
    UNCHANGED <<ttl, run, wave, campaign, reservation, alerts, submitted,
                selector, budget>>

Deciding(r) == worker.pc = "decide" /\ worker.cur = r

\* The view passed the run and campaign checks at the top of _dispatch.
Runnable == ~worker.view.cancel /\ worker.view.active

Unexpired == worker.view.ttl # "past"

DispatchRunCanceled(r) ==
    /\ Deciding(r)
    /\ worker.view.cancel
    /\ Finish(r, "canceled", log[r])
    /\ UNCHANGED ledger
    /\ EarlyReturnUnchanged

DispatchCampaignPaused(r) ==
    /\ Deciding(r)
    /\ ~worker.view.cancel
    /\ ~worker.view.active
    /\ Requeue(r, log[r])
    /\ UNCHANGED ledger
    /\ EarlyReturnUnchanged

\* The expiry test comes before every test of the row's status.
DispatchExpired(r) ==
    /\ Deciding(r)
    /\ Runnable
    /\ ~Unexpired
    /\ Finish(r, "skipped", "expired")
    /\ UNCHANGED ledger
    /\ EarlyReturnUnchanged

\* _terminalize_submission_unknown
UnknownSubmission(r) ==
    /\ Finish(r, "failed", "submission_unknown")
    /\ ledger' = ledger \cup {r}

DispatchAlreadySent(r) ==
    /\ Deciding(r)
    /\ Runnable
    /\ Unexpired
    /\ worker.view.log \in SendSuccess
    /\ worker' = [worker EXCEPT !.pc = "consume",
            !.outcome = IF log[r] = "delivered" THEN "delivered" ELSE "sent"]
    /\ UNCHANGED <<recipient, log, ledger>>
    /\ EarlyReturnUnchanged

DispatchAlreadyFailed(r) ==
    /\ Deciding(r)
    /\ Runnable
    /\ Unexpired
    /\ worker.view.log \in SendFailure \ {"submission_unknown"}
    /\ Finish(r, IF worker.view.log = "canceled" THEN "canceled" ELSE "skipped",
              log[r])
    /\ UNCHANGED ledger
    /\ EarlyReturnUnchanged

\* A row that owns no reservation, or owns one for later, goes back to the
\* shared contest.
DispatchAwaitsSelection(r) ==
    /\ Deciding(r)
    /\ Runnable
    /\ Unexpired
    /\ worker.view.log \in SendPending
    /\ Requeue(r, log[r])
    /\ UNCHANGED ledger
    /\ EarlyReturnUnchanged

\* _revalidate and the delivery-profile checks, for a recipient without a
\* SendLog or with a reservation that is due.
ReadyToSend(r) ==
    /\ Deciding(r)
    /\ Runnable
    /\ Unexpired
    /\ worker.view.log \in {"none", "campaign_selected"}

RevalidationRejects(r) ==
    /\ ReadyToSend(r)
    /\ \E status \in {"skipped", "failed"} : Finish(r, status, log[r])
    /\ UNCHANGED ledger
    /\ EarlyReturnUnchanged

SenderPaused(r) ==
    /\ ReadyToSend(r)
    /\ Requeue(r, log[r])
    /\ UNCHANGED ledger
    /\ EarlyReturnUnchanged

ProfileUnavailable(r) ==
    /\ ReadyToSend(r)
    /\ RetryOrFail(r, log[r], worker.view.cancel)
    /\ UNCHANGED ledger
    /\ EarlyReturnUnchanged

RevalidationPasses(r) ==
    /\ ReadyToSend(r)
    /\ worker' = [worker EXCEPT !.pc = "gate"]
    /\ UNCHANGED <<recipient, log, ledger>>
    /\ EarlyReturnUnchanged

-----------------------------------------------------------------------------
(* The run gate, the final re-rank and the first half of SendService.send *)

AtPoint(r, pc) == worker.pc = pc /\ worker.cur = r

\* _lock_dispatch_gate.  Run and campaign are already in the session's identity
\* map, and a FOR UPDATE query without populate_existing answers with the
\* attributes read by LoadDispatch unless a lookup in between expired them.
GateCanceled(r) ==
    /\ AtPoint(r, "gate")
    /\ run.cancel
    /\ Finish(r, "canceled", log[r])
    /\ UNCHANGED ledger
    /\ EarlyReturnUnchanged

GatePaused(r) ==
    /\ AtPoint(r, "gate")
    /\ campaign # "active"
    /\ Requeue(r, log[r])
    /\ UNCHANGED ledger
    /\ EarlyReturnUnchanged

GatePasses(r) ==
    /\ AtPoint(r, "gate")
    /\ Runnable
    /\ worker' = [worker EXCEPT
            !.pc = IF worker.view.log = "campaign_selected" THEN "confirm"
                   ELSE "send"]
    /\ UNCHANGED <<recipient, log, ledger>>
    /\ EarlyReturnUnchanged

\* _confirm_attention_selection, first test: the engines were switched off.
ConfirmNotEnforced(r) ==
    /\ AtPoint(r, "confirm")
    /\ SlotFree(r)
    /\ Requeue(r, "candidate")
    /\ UNCHANGED ledger
    /\ EarlyReturnUnchanged

\* The row is read again under the slot lock and is no longer selected.
ConfirmReservationGone(r) ==
    /\ AtPoint(r, "confirm")
    /\ SlotFree(r)
    /\ log[r] # "campaign_selected"
    /\ IF log[r] \in SendFailure
       THEN Finish(r, IF log[r] = "canceled" THEN "canceled" ELSE "skipped", log[r])
       ELSE Requeue(r, log[r])
    /\ UNCHANGED ledger
    /\ EarlyReturnUnchanged

ConfirmLost(r) ==
    /\ AtPoint(r, "confirm")
    /\ SlotFree(r)
    /\ log[r] = "campaign_selected"
    /\ Requeue(r, "candidate")
    /\ UNCHANGED ledger
    /\ EarlyReturnUnchanged

\* Mutation: the row is not read again under the slot lock.
ConfirmWins_NoReread(r) ==
    /\ AtPoint(r, "confirm")
    /\ SlotFree(r)
    /\ worker' = [worker EXCEPT !.pc = "send"]
    /\ UNCHANGED <<recipient, log, ledger>>
    /\ EarlyReturnUnchanged

ConfirmWins(r) ==
    /\ AtPoint(r, "confirm")
    /\ SlotFree(r)
    /\ log[r] = "campaign_selected"
    /\ ttl[r] # "past"
    /\ worker' = [worker EXCEPT !.pc = "send"]
    /\ UNCHANGED <<recipient, log, ledger>>
    /\ EarlyReturnUnchanged

\* _profile_throttle_until: a rolling limit is used up.
ThrottleRequeues(r) ==
    /\ AtPoint(r, "send")
    /\ Requeue(r, log[r])
    /\ UNCHANGED ledger
    /\ EarlyReturnUnchanged

ThrottleMissesDeadline(r) ==
    /\ AtPoint(r, "send")
    /\ Finish(r, "failed", log[r])
    /\ UNCHANGED ledger
    /\ EarlyReturnUnchanged

\* send() without an existing row: it may be refused or held for a paused
\* contact, otherwise it is parked as a candidate with a time to live.
SendParksCandidate(r) ==
    /\ AtPoint(r, "send")
    /\ worker.view.log # "campaign_selected"
    /\ SlotFree(r)
    /\ \E life \in {"live", "none"} : ttl' = [ttl EXCEPT ![r] = life]
    /\ Requeue(r, "candidate")
    /\ UNCHANGED <<run, wave, campaign, reservation, ledger, alerts, submitted,
                   selector, budget>>

\* The source contract, the placeholder guard or a skip-mode pause refuses it.
SendRefusesNew(r) ==
    /\ AtPoint(r, "send")
    /\ worker.view.log # "campaign_selected"
    /\ \/ Finish(r, "skipped", "skipped")
       \/ RetryOrFail(r, "blocked", worker.view.cancel)
    /\ ttl' = [ttl EXCEPT ![r] = "none"]
    /\ UNCHANGED <<run, wave, campaign, reservation, ledger, alerts, submitted,
                   selector, budget>>

\* send() on a reservation: a gate before the intent refuses or postpones it.
SendRefusesSelected(r) ==
    /\ AtPoint(r, "send")
    /\ worker.view.log = "campaign_selected"
    /\ \/ \E status \in {"skipped", "exhausted"} : Finish(r, "skipped", status)
       \/ \E status \in {"blocked", "failed", "policy_window_expired"} :
             RetryOrFail(r, status, worker.view.cancel)
       \/ Requeue(r, "delayed")
    /\ UNCHANGED ledger
    /\ EarlyReturnUnchanged

\* The intent is committed before any I/O; the commit drops every lock.
CommitIntent(r) ==
    /\ AtPoint(r, "send")
    /\ worker.view.log = "campaign_selected"
    /\ log' = [log EXCEPT ![r] = "submitting"]
    /\ worker' = [worker EXCEPT !.pc = "submit_gate"]
    /\ UNCHANGED <<recipient, ledger>>
    /\ EarlyReturnUnchanged

-----------------------------------------------------------------------------
(* _campaign_submission_gate, the provider call and its outcome *)

\* Mutation: a pause of the campaign is only looked for before the intent.
GateOpen_NoPause(r) ==
    /\ recipient[r].status = "processing"
    /\ ~run.cancel
    /\ log[r] = "submitting"

\* The gate reads everything again under row locks that it keeps.
GateOpen(r) ==
    /\ recipient[r].status = "processing"
    /\ ~run.cancel
    /\ campaign = "active"
    /\ log[r] = "submitting"

SubmissionGatePasses(r) ==
    /\ AtPoint(r, "submit_gate")
    /\ GateOpen(r)
    /\ worker' = [worker EXCEPT !.pc = "provider"]
    /\ UNCHANGED <<recipient, log, ledger>>
    /\ EarlyReturnUnchanged

SubmissionGateCanceled(r) ==
    /\ AtPoint(r, "submit_gate")
    /\ run.cancel
    /\ Finish(r, "canceled", "canceled")
    /\ UNCHANGED ledger
    /\ EarlyReturnUnchanged

\* A pause (of the campaign, or a hold of the contact) parks the row again.
SubmissionGateHolds(r) ==
    /\ AtPoint(r, "submit_gate")
    /\ ~run.cancel
    /\ SlotFree(r)
    /\ Requeue(r, "delayed")
    /\ UNCHANGED ledger
    /\ EarlyReturnUnchanged

\* The contact, endpoint, verification or permission no longer allows the send.
SubmissionGateRefuses(r) ==
    /\ AtPoint(r, "submit_gate")
    /\ ~run.cancel
    /\ campaign = "active"
    /\ Finish(r, "skipped", "skipped")
    /\ UNCHANGED ledger
    /\ EarlyReturnUnchanged

\* adapter.send: from here on the provider may have the message.
ProviderCall(r) ==
    /\ AtPoint(r, "provider")
    /\ submitted' = [submitted EXCEPT ![r] = @ + 1]
    /\ \E outcome \in {"sent", "exhausted", "submission_unknown"} :
          worker' = [worker EXCEPT !.pc = "record", !.outcome = outcome]
    /\ UNCHANGED <<recipient, log, ttl, run, wave, campaign, reservation, ledger,
                   alerts, selector, budget>>

\* The row is written and committed together with the worker's branch on it.
RecordSent(r) ==
    /\ AtPoint(r, "record")
    /\ worker.outcome = "sent"
    /\ log' = [log EXCEPT ![r] = "sent"]
    /\ worker' = [worker EXCEPT !.pc = "consume"]
    /\ UNCHANGED <<recipient, ledger>>
    /\ EarlyReturnUnchanged

RecordExhausted(r) ==
    /\ AtPoint(r, "record")
    /\ worker.outcome = "exhausted"
    /\ Finish(r, "skipped", "exhausted")
    /\ UNCHANGED ledger
    /\ EarlyReturnUnchanged

\* Mutation: a lost answer is taken for a temporary refusal.
RecordUnknown_Deferred(r) ==
    /\ AtPoint(r, "record")
    /\ worker.outcome = "submission_unknown"
    /\ Requeue(r, "delayed")
    /\ UNCHANGED ledger
    /\ EarlyReturnUnchanged

RecordUnknown(r) ==
    /\ AtPoint(r, "record")
    /\ worker.outcome = "submission_unknown"
    /\ UnknownSubmission(r)
    /\ EarlyReturnUnchanged

-----------------------------------------------------------------------------
(* _complete_provider_success: capacity, ledger, recipient, run *)

ReservationUsable(w) ==
    /\ reservation[w].status \in {"reserved", "active", "consumed"}
    /\ reservation[w].consumed < reservation[w].reserved

\* Mutation: the marker is not written with the consumed unit.
ConsumeCapacity_NoMarker(r) ==
    LET w == WaveOf[r] IN
    /\ AtPoint(r, "consume")
    /\ ~recipient[r].marker
    /\ ReservationUsable(w)
    /\ reservation' = [reservation EXCEPT
            ![w].consumed = @ + 1,
            ![w].status = IF reservation[w].consumed + 1 = reservation[w].reserved
                          THEN "consumed" ELSE "active"]
    /\ worker' = [worker EXCEPT !.pc = "ledger"]
    /\ UNCHANGED <<recipient, log, ttl, run, wave, campaign, ledger, alerts,
                   submitted, selector, budget>>

\* _consume_capacity; the marker travels with the consumed unit.
ConsumeCapacity(r) ==
    LET w == WaveOf[r] IN
    /\ AtPoint(r, "consume")
    /\ ~recipient[r].marker
    /\ ReservationUsable(w)
    /\ reservation' = [reservation EXCEPT
            ![w].consumed = @ + 1,
            ![w].status = IF reservation[w].consumed + 1 = reservation[w].reserved
                          THEN "consumed" ELSE "active"]
    /\ recipient' = [recipient EXCEPT ![r].marker = TRUE]
    /\ worker' = [worker EXCEPT !.pc = "ledger"]
    /\ UNCHANGED <<log, ttl, run, wave, campaign, ledger, alerts, submitted,
                   selector, budget>>

\* Already consumed, or the accounting failed and an operator is alerted.
SkipCapacity(r) ==
    /\ AtPoint(r, "consume")
    /\ recipient[r].marker \/ ~ReservationUsable(WaveOf[r])
    /\ worker' = [worker EXCEPT !.pc = "ledger"]
    /\ UNCHANGED <<recipient, log, ledger>>
    /\ EarlyReturnUnchanged

\* record_contact_once is committed with the recipient's ending; when it fails
\* the alert is committed first.
RecordLedger(r) ==
    /\ AtPoint(r, "ledger")
    /\ ledger' = ledger \cup {r}
    /\ Finish(r, worker.outcome, log[r])
    /\ EarlyReturnUnchanged

\* Mutation: nobody is told.
LedgerFails_NoAlert(r) ==
    /\ AtPoint(r, "ledger")
    /\ worker' = [worker EXCEPT !.pc = "finish"]
    /\ UNCHANGED <<recipient, log, ttl, run, wave, campaign, reservation, ledger,
                   alerts, submitted, selector, budget>>

LedgerFails(r) ==
    /\ AtPoint(r, "ledger")
    /\ alerts' = alerts \cup {r}
    /\ worker' = [worker EXCEPT !.pc = "finish"]
    /\ UNCHANGED <<recipient, log, ttl, run, wave, campaign, reservation, ledger,
                   submitted, selector, budget>>

FinishDelivered(r) ==
    /\ AtPoint(r, "finish")
    /\ Finish(r, worker.outcome, log[r])
    /\ UNCHANGED ledger
    /\ EarlyReturnUnchanged

\* _refresh_run counts first; another process may commit before it writes.
RefreshRead ==
    /\ worker.pc = "refresh"
    /\ \E target \in {{w} : w \in worker.touched} \cup
                     (IF worker.touched = {} THEN {{}} ELSE {}) :
          worker' = [worker EXCEPT
              !.pc = "refresh_write",
              !.touched = @ \ target,
              !.target = target,
              !.view = [NoView EXCEPT !.cancel = run.cancel],
              !.quiet = IF RunQuiescent THEN "run"
                        ELSE IF \A w \in target : WaveQuiescent(w) THEN "wave"
                        ELSE "no"]
    /\ UNCHANGED <<recipient, log, ttl, run, wave, campaign, reservation, ledger,
                   alerts, submitted, selector, budget>>

\* Mutation: only reservations that were drawn on are trimmed.
Trimmed_OnlyActive(v) ==
    IF v.status # "active" THEN v
    ELSE [reserved |-> v.consumed, consumed |-> v.consumed, status |-> "consumed"]

\* Reservations of a finished run keep only what was consumed.
Trimmed(v) ==
    IF v.status \notin {"reserved", "active"} THEN v
    ELSE [reserved |-> v.consumed, consumed |-> v.consumed,
          status |-> IF v.consumed > 0 THEN "consumed" ELSE "released"]

WriteRefresh(finished) ==
    /\ worker.pc = "refresh_write"
    /\ wave' = [w \in Waves |-> IF w \in finished THEN "completed" ELSE wave[w]]
    /\ IF worker.quiet = "run"
       THEN /\ run' = [run EXCEPT !.status =
                        IF worker.view.cancel THEN "canceled" ELSE "completed"]
            /\ reservation' = [w \in Waves |-> Trimmed(reservation[w])]
       ELSE UNCHANGED <<run, reservation>>
    /\ worker' = IF worker.touched # {}
                 THEN [worker EXCEPT !.pc = "refresh", !.target = {}, !.quiet = "no",
                                     !.view = NoView]
                 ELSE [worker EXCEPT !.pc = IF worker.batch = {} THEN "cycle"
                                            ELSE "dispatch",
                                     !.cur = NoOne, !.target = {}, !.quiet = "no",
                                     !.view = NoView]
    /\ UNCHANGED <<recipient, log, ttl, campaign, ledger, alerts, submitted,
                   selector, budget>>

\* Mutation: a refreshed wave is completed whoever is left in it.
RefreshWrite_AnyWave == WriteRefresh(worker.target)

\* A quiet wave is completed; a quiet run is closed and its reservations trimmed.
RefreshWrite == WriteRefresh(IF worker.quiet = "no" THEN {} ELSE worker.target)

-----------------------------------------------------------------------------
(* Exceptions and crashes *)

\* The except branch of _dispatch rolls back, reads the rows again and retries,
\* whatever the recipient's status has become; an intent is never retried.
DispatchRaises(r) ==
    /\ budget.raises > 0
    /\ worker.cur = r
    /\ worker.pc \in DispatchPoints
    /\ IF log[r] \in {"submitting", "submission_unknown"}
       THEN UnknownSubmission(r)
       ELSE RetryOrFail(r, log[r], run.cancel) /\ UNCHANGED ledger
    /\ budget' = [budget EXCEPT !.raises = @ - 1]
    /\ UNCHANGED <<ttl, run, wave, campaign, reservation, alerts, submitted, selector>>

\* The scheduled-send worker leaves the slot.
SelectorClosed ==
    selector' = [selector EXCEPT !.cur = NoOne, !.log = "none", !.ttl = "none"]

\* The process dies: transactions roll back, locks and the batch are gone.
Crash ==
    /\ budget.crashes > 0
    /\ worker' = Idle
    /\ SelectorClosed
    /\ budget' = [budget EXCEPT !.crashes = @ - 1]
    /\ UNCHANGED <<recipient, log, ttl, run, wave, campaign, reservation, ledger,
                   alerts, submitted>>

-----------------------------------------------------------------------------
(* Operators: the campaign and run endpoints *)

PauseCampaign ==
    /\ budget.operator > 0
    /\ ~RunLocked
    /\ campaign = "active"
    /\ campaign' = "paused"
    /\ budget' = [budget EXCEPT !.operator = @ - 1]
    /\ UNCHANGED <<recipient, log, ttl, run, wave, reservation, ledger, alerts,
                   submitted, worker, selector>>

ActivateCampaign ==
    /\ ~RunLocked
    /\ campaign = "paused"
    /\ campaign' = "active"
    /\ UNCHANGED <<recipient, log, ttl, run, wave, reservation, ledger, alerts,
                   submitted, worker, selector, budget>>

CancelableLog == {"candidate", "delayed", "deferred", "submitting"}

ClaimsInFlight == \E r \in Recipients : recipient[r].status = "processing"

CloseRun(inFlight) ==
    /\ budget.operator > 0
    /\ run.status \notin TerminalRun
    /\ run' = [status |-> IF inFlight THEN "cancel_requested" ELSE "canceled",
               cancel |-> TRUE]
    /\ log' = [r \in Recipients |->
                 IF log[r] \in CancelableLog THEN "canceled" ELSE log[r]]
    /\ recipient' = [r \in Recipients |->
            IF recipient[r].status \in {"pending", "held", "deferred"}
            THEN [recipient[r] EXCEPT !.status = "canceled"] ELSE recipient[r]]
    /\ reservation' = [w \in Waves |->
            IF inFlight \/ reservation[w].status = "released" THEN reservation[w]
            ELSE IF reservation[w].consumed > 0
                 THEN [reservation[w] EXCEPT !.reserved = reservation[w].consumed,
                                             !.status = "consumed"]
                 ELSE [reservation[w] EXCEPT !.status = "released"]]
    /\ budget' = [budget EXCEPT !.operator = @ - 1]
    /\ UNCHANGED <<ttl, wave, campaign, ledger, alerts, submitted, worker, selector>>

\* Mutation: claimed recipients are not waited for.
CancelRun_IgnoresClaims == ~RunLocked /\ CloseRun(FALSE)

\* Mutation: the run row is not locked.
CancelRun_Unlocked == CloseRun(ClaimsInFlight)

\* cancel_run
CancelRun == ~RunLocked /\ CloseRun(ClaimsInFlight)

ApproveWave(w) ==
    /\ wave[w] = "held"
    /\ wave' = [wave EXCEPT ![w] = "planned"]
    /\ recipient' = [r \in Recipients |->
            IF WaveOf[r] = w /\ recipient[r].status = "held"
            THEN [recipient[r] EXCEPT !.status = "pending"] ELSE recipient[r]]
    /\ UNCHANGED <<log, ttl, run, campaign, reservation, ledger, alerts, submitted,
                   worker, selector, budget>>

-----------------------------------------------------------------------------
(* The scheduled-send worker on a campaign row, time, and the provider *)

\* A contest is one slot of a batch: its rows are loaded together, and the first
\* commit of the batch ends their row locks while the slot lock stays.
LoadContest(r) ==
    /\ selector.cur = NoOne
    /\ log[r] \in {"candidate", "campaign_selected"}
    /\ selector' = [selector EXCEPT !.cur = r, !.ttl = ttl[r]]
    /\ UNCHANGED <<recipient, log, ttl, run, wave, campaign, reservation, ledger,
                   alerts, submitted, worker, budget>>

\* Mutation: the contest is read without the slot lock.
SelectorOpen_NoSlotLock(r) == LoadContest(r)

\* The contest is loaded while the slot's advisory lock is held.
SelectorOpen(r) == ~SlotHeldByWorker(r) /\ LoadContest(r)

\* The row's turn: the commits before it expired the loaded attributes, so the
\* status is read again, without a lock.
SelectorTurn(r) ==
    /\ selector.cur = r
    /\ selector.log = "none"
    /\ selector' = [selector EXCEPT !.log = log[r]]
    /\ UNCHANGED <<recipient, log, ttl, run, wave, campaign, reservation, ledger,
                   alerts, submitted, worker, budget>>

\* A row past its deadline expires, a winner is selected, a loser waits as a
\* candidate and leaves any other status alone.
Verdicts == IF selector.ttl = "past" THEN {"expired"}
            ELSE IF selector.log \in {"candidate", "campaign_selected"}
                 THEN {"candidate", "campaign_selected"}
                 ELSE {selector.log}

\* The write goes over whatever was committed since the read, unless it leaves
\* the status alone.
SelectorSettles(r) ==
    /\ selector.cur = r
    /\ selector.log # "none"
    /\ \E verdict \in Verdicts :
          log' = IF verdict = selector.log THEN log
                 ELSE [log EXCEPT ![r] = verdict]
    /\ SelectorClosed
    /\ UNCHANGED <<recipient, ttl, run, wave, campaign, reservation, ledger, alerts,
                   submitted, worker, budget>>

\* A row that is neither a candidate nor selected any more falls through to the
\* worker's own path: send() without the campaign profile refuses it, postpones
\* it, or calls the provider.  (What the provider reports on it later is left out.)
SelectorSends(r) ==
    /\ selector.cur = r
    /\ selector.ttl # "past"
    /\ selector.log \notin {"none", "candidate", "campaign_selected"}
    /\ \/ /\ campaign = "active"
          /\ \E l \in {"sent", "exhausted", "submission_unknown"} :
                log' = [log EXCEPT ![r] = l]
          /\ selector' = [selector EXCEPT !.cur = NoOne, !.log = "none",
                                          !.ttl = "none", !.sent = @ \cup {r}]
       \/ /\ \E l \in {"skipped", "blocked", "exhausted", "delayed"} :
                log' = [log EXCEPT ![r] = l]
          /\ SelectorClosed
    /\ UNCHANGED <<recipient, ttl, run, wave, campaign, reservation, ledger, alerts,
                   submitted, worker, budget>>

\* Its except branch fails the row.
SelectorRaises(r) ==
    /\ budget.raises > 0
    /\ selector.cur = r
    /\ log' = [log EXCEPT ![r] = "failed"]
    /\ SelectorClosed
    /\ budget' = [budget EXCEPT !.raises = @ - 1]
    /\ UNCHANGED <<recipient, ttl, run, wave, campaign, reservation, ledger, alerts,
                   submitted, worker>>

TtlPasses(r) ==
    /\ ttl[r] = "live"
    /\ ttl' = [ttl EXCEPT ![r] = "past"]
    /\ UNCHANGED <<recipient, log, run, wave, campaign, reservation, ledger, alerts,
                   submitted, worker, selector, budget>>

\* DeliveryTracker.record_status: an unknown status ranks below "sent".
StatusOrder(l) == CASE l = "sent" -> 1 [] l = "delivered" -> 2 [] OTHER -> 0

ProviderReports(r) ==
    /\ submitted[r] > 0
    /\ ~LogRowLocked(r)
    /\ \/ /\ log[r] \notin {"failed", "delivered"}
          /\ log' = [log EXCEPT ![r] = "failed"]
       \/ \E l \in SendSuccess :
             /\ StatusOrder(l) > StatusOrder(log[r])
             /\ log' = [log EXCEPT ![r] = l]
    /\ UNCHANGED <<recipient, ttl, run, wave, campaign, reservation, ledger, alerts,
                   submitted, worker, selector, budget>>

-----------------------------------------------------------------------------
EarlyReturn(r) ==
    \/ DispatchRunCanceled(r) \/ DispatchCampaignPaused(r) \/ DispatchExpired(r)
    \/ DispatchAlreadySent(r) \/ DispatchAlreadyFailed(r)
    \/ DispatchAwaitsSelection(r) \/ RevalidationRejects(r) \/ SenderPaused(r)
    \/ ProfileUnavailable(r) \/ RevalidationPasses(r)

HandOff(r) ==
    \/ GateCanceled(r) \/ GatePaused(r) \/ GatePasses(r)
    \/ ConfirmNotEnforced(r) \/ ConfirmReservationGone(r) \/ ConfirmLost(r)
    \/ ConfirmWins(r) \/ ThrottleRequeues(r) \/ ThrottleMissesDeadline(r)
    \/ SendParksCandidate(r) \/ SendRefusesNew(r) \/ SendRefusesSelected(r)
    \/ CommitIntent(r)

Submission(r) ==
    \/ SubmissionGatePasses(r) \/ SubmissionGateCanceled(r)
    \/ SubmissionGateHolds(r) \/ SubmissionGateRefuses(r) \/ ProviderCall(r)
    \/ RecordSent(r) \/ RecordExhausted(r) \/ RecordUnknown(r)

Completion(r) ==
    \/ ConsumeCapacity(r) \/ SkipCapacity(r) \/ RecordLedger(r)
    \/ LedgerFails(r) \/ FinishDelivered(r)

Maintenance ==
    \/ \E S \in SUBSET Recipients : RecoverStale(S)
    \/ ReconcileSendLogs \/ ReclaimDeferrals \/ FinalizeQuiescentRun

DispatchStep(r) ==
    EarlyReturn(r) \/ HandOff(r) \/ Submission(r) \/ Completion(r)

Environment ==
    \/ Crash \/ PauseCampaign \/ ActivateCampaign \/ CancelRun
    \/ \E w \in Waves : ApproveWave(w)
    \/ \E r \in Recipients :
          \/ DispatchRaises(r) \/ SelectorRaises(r) \/ TtlPasses(r)
          \/ ProviderReports(r)

Next ==
    \/ Maintenance
    \/ RefreshRead
    \/ RefreshWrite
    \/ \E r \in Recipients :
          \/ Claim(r) \/ LoadDispatch(r) \/ DispatchStep(r)
          \/ SelectorOpen(r) \/ SelectorTurn(r) \/ SelectorSettles(r)
          \/ SelectorSends(r)
    \/ Environment

Spec == Init /\ [][Next]_vars

\* Every process keeps running: the campaign worker finishes what it started and
\* polls forever, the scheduled-send worker polls forever, time passes.  Strong
\* fairness where another process can disable a step again and again: a claim and
\* a selection (both queues are ordered by the due time, which every requeue moves
\* back) and a dispatch that waits for a lock (waiters of a lock queue up).
Fairness ==
    /\ WF_vars(RefreshRead) /\ WF_vars(RefreshWrite)
    /\ SF_vars(FinalizeQuiescentRun)
    /\ SF_vars(ReconcileSendLogs) /\ SF_vars(ReclaimDeferrals)
    /\ \A r \in Recipients :
          /\ SF_vars(RecoverStale({r})) /\ SF_vars(Claim(r))
          /\ SF_vars(LoadDispatch(r)) /\ SF_vars(DispatchStep(r))
          /\ SF_vars(log[r] = "candidate" /\ SelectorOpen(r))
          /\ WF_vars(SelectorTurn(r)) /\ WF_vars(SelectorSettles(r) \/ SelectorSends(r))
          /\ WF_vars(TtlPasses(r))

FairSpec == Spec /\ Fairness

-----------------------------------------------------------------------------
(* Safety *)

\* Over crashes, recovered claims, exceptions, retries and re-selections the
\* campaign worker calls the provider at most once for a recipient (_dispatch,
\* send).
AtMostOneSubmission == \A r \in Recipients : submitted[r] <= 1

\* The provider is called only while the run is not canceled, the campaign is
\* active, the recipient is claimed and the intent is durable: the locks of
\* _campaign_submission_gate carry its answers to the call itself.
SubmitsOnlyWhileLive ==
    [][\A r \in Recipients : submitted'[r] # submitted[r] =>
          /\ ~run.cancel
          /\ campaign = "active"
          /\ recipient[r].status = "processing"
          /\ log[r] = "submitting"]_vars

\* An intent is committed only for a row that still holds its reservation, while
\* no selector is arbitrating the slot: a campaign never bypasses arbitration.
IntentOwnsAttention ==
    [][\A r \in Recipients : log'[r] = "submitting" /\ log[r] # "submitting" =>
          /\ log[r] = "campaign_selected"
          /\ selector.cur # r]_vars

\* A completed or canceled run has no recipient left that could be dispatched,
\* although _refresh_run counts in one statement and closes the run in another.
TerminalRunIsQuiet == run.status \in TerminalRun => RunQuiescent

\* A completed wave has no recipient left to dispatch: _claim_one skips completed
\* waves, so one that is still pending there would be stranded.
CompletedWaveIsQuiet ==
    \A w \in Waves : wave[w] = "completed" => WaveQuiescent(w)

\* A completed or canceled run keeps no reserved, unconsumed capacity, whichever
\* of cancel_run and _refresh_run closed it.
TerminalRunHoldsNoCapacity ==
    run.status \in TerminalRun =>
        \A w \in Waves : reservation[w].status \in {"consumed", "released"}

\* Crashes between the provider's success, the capacity commit and the
\* recipient's ending never make one message consume two units; only the except
\* branch, which clears the marker of a recipient it retries, lets one more unit
\* go, at most one for every exception.
CapacityConsumedOnce ==
    \A w \in Waves : reservation[w].consumed <=
        Cardinality({r \in Recipients :
            WaveOf[r] = w /\ (submitted[r] > 0 \/ r \in selector.sent)})
        + (MaxRaises - budget.raises)

\* A recipient reported as sent or delivered was handed to the provider, and its
\* contact is in the ledger or an operator was told that it is not.
SuccessIsAccounted ==
    \A r \in Recipients : recipient[r].status \in SendSuccess =>
        /\ submitted[r] > 0 \/ r \in selector.sent
        /\ r \in ledger \cup alerts

\* A recipient with a deadline on the SendLog _dispatch sees does not circle
\* between the claim, the shared contest and the retries forever: whoever sees the
\* passed deadline first, the selector or _dispatch, ends it.
ExpiringRecipientEnds ==
    <>[](campaign = "active") =>
        \A r \in Recipients :
            (ttl[r] = "live" /\ recipient[r].status \in {"pending", "processing"})
                ~> (\/ recipient[r].status \notin ActiveStatus
                    \/ ttl[r] = "none" \/ log[r] \notin Visible
                    \/ run.cancel)

\* A run whose last recipient has ended is closed, also when the process dies
\* between the recipient's commit and the run's (_finalize_quiescent_runs).
QuiescentRunFinishes ==
    RunQuiescent ~> (run.status \in TerminalRun \/ ~RunQuiescent)

-----------------------------------------------------------------------------
(* What the comments promise and the code does not do *)

\* cancel_run: "Keep reservations intact until every in-flight claim is terminal;
\* _refresh_run releases unused capacity at that point."
CanceledRunReleases == run.cancel ~> run.status \in TerminalRun

\* _dispatch: "If the process dies in between, the next claim finds this SendLog
\* and reconciles capacity": a success the provider reported is not forgotten.
SuccessSurvivesRestart ==
    [][\A r \in Recipients : log[r] \in SendSuccess => log'[r] # "expired"]_vars

\* _process_cycle: "Selection decides attention; CampaignWorker retains provider
\* submission, permission and endpoint duties."
OnlyCampaignWorkerSubmits == selector.sent = {}

-----------------------------------------------------------------------------
(* The inductive invariant behind the submission properties *)

\* What was handed to the provider never returns to a sendable status.
SubmittedNeverSendable ==
    \A r \in Recipients : submitted[r] > 0 => log[r] \notin PreSubmit

\* The selector only arbitrates rows that were not submitted.
SelectorBeforeSubmission ==
    \A r \in Recipients : selector.cur = r => submitted[r] = 0

\* From the gate to the provider nothing was submitted, and the slot, run and row
\* locks keep the other writers away from what the worker relies on.
WorkerPoint(r) ==
    /\ worker.pc \in {"gate", "confirm", "send", "submit_gate", "provider"}
         => submitted[r] = 0
    /\ worker.pc = "decide" /\ worker.view.log \in PreSubmit => submitted[r] = 0
    /\ worker.pc = "confirm" => worker.view.log = "campaign_selected"
    /\ SlotHeldByWorker(r) => log[r] = "campaign_selected" /\ selector.cur # r
    /\ worker.pc = "submit_gate" => log[r] \in {"submitting", "canceled"}
    /\ worker.pc \in {"provider", "record"} => log[r] = "submitting"
    /\ worker.pc \in {"submit_gate", "provider", "record"} => selector.cur # r
    /\ worker.pc = "provider" => /\ ~run.cancel
                                 /\ campaign = "active"
                                 /\ recipient[r].status = "processing"
    /\ worker.pc \in {"consume", "ledger", "finish"} => worker.outcome \in SendSuccess

SubmissionInv ==
    /\ AtMostOneSubmission
    /\ SubmittedNeverSendable
    /\ SelectorBeforeSubmission
    /\ \A r \in Recipients : worker.cur = r => WorkerPoint(r)

IInv == TypeOK /\ SubmissionInv

-----------------------------------------------------------------------------
(* What a campaign promises about submissions, see SubmissionContract *)

Stage == [r \in Recipients |->
            IF submitted[r] > 0 THEN "submitted"
            ELSE IF log[r] = "submitting" THEN "intended"
            ELSE "idle"]

Contract == INSTANCE SubmissionContract
                WITH Targets <- Recipients, stage <- Stage,
                     canceled <- run.cancel

\* Every step of the dispatch is a step of the contract or leaves it alone.
ImplementsContract == Contract!Spec
=============================================================================

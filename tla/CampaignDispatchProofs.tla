----------------------- MODULE CampaignDispatchProofs -----------------------
(***************************************************************************)
(* Proofs about CampaignDispatch: IInv is an inductive invariant, for any  *)
(* recipients, waves and bounds, and the submission properties follow, and *)
(* OutcomeInv, from which those about the end of a run do.                 *)
(***************************************************************************)
EXTENDS CampaignDispatch, FiniteSetTheorems, TLAPS

\* The three variables that the endings of a dispatch write keep their types.
Shape ==
    /\ recipient' \in [Recipients -> RecipientRecords]
    /\ log' \in [Recipients -> LogStatus]
    /\ worker' \in WorkerRecords

\* What an ending may write: the row as it is, or a status other than the intent
\* that cannot be sent, unless the recipient was not submitted.
Safe(r, l) == \/ l = log[r]
              \/ l # "submitting" /\ (submitted[r] = 0 \/ l \notin PreSubmit)

\* A step without a new intent, a submission or a cancellation.
NoNewIntent == \A r \in Recipients : log'[r] = "submitting" => log[r] = "submitting"
Quiet == UNCHANGED submitted /\ run'.cancel = run.cancel /\ NoNewIntent

\* The variables SubmissionInv reads and an ending leaves alone.
Aside == UNCHANGED <<submitted, selector, run, campaign>>

LEMMA CommittedShape ==
    ASSUME TypeOK, NEW r \in Recipients, Committed(r)
    PROVE  worker' \in WorkerRecords /\ worker'.pc = "refresh"
  <1>1. NoView \in Views
    BY DEF NoView, Views, LogStatus
  <1>2. WaveOf[r] \in Waves
    BY WaveAssumption
  <1> QED
    BY <1>1, <1>2 DEF TypeOK, Committed, WorkerRecords, Points, DispatchPoints, Outcomes

\* A closed row has a status of the log, and never becomes sendable again.
LEMMA ClosedRow ==
    ASSUME NEW status \in RecipientStatus, NEW l \in LogStatus
    PROVE  /\ Closed(status, l) \in LogStatus
           /\ l \notin PreSubmit => Closed(status, l) \notin PreSubmit
           /\ l # "submitting" => Closed(status, l) # "submitting"
  BY DEF Closed, RecipientStatus, LogStatus, SendPending, SendSuccess, SendFailure,
         PreSubmit

\* A row returned to the contest has a status of the log; a row that cannot be
\* sent is not returned.
LEMMA ReturnedRow ==
    ASSUME NEW l \in LogStatus
    PROVE  /\ Returned(l) \in LogStatus
           /\ l \notin PreSubmit => Returned(l) = l
           /\ l # "submitting" => Returned(l) # "submitting"
  BY DEF Returned, LogStatus, SendPending, PreSubmit

LEMMA FinishShape ==
    ASSUME TypeOK, NEW r \in Recipients, NEW status \in RecipientStatus,
           NEW l \in LogStatus, Finish(r, status, l)
    PROVE  Shape /\ worker'.pc = "refresh"
  <1>1. Committed(r)
    BY DEF Finish
  <1>2. recipient' \in [Recipients -> RecipientRecords]
    <2> DEFINE ended == [recipient[r] EXCEPT !.status = status, !.marker = FALSE]
    <2>0. recipient[r] \in RecipientRecords
      BY DEF TypeOK
    <2>1. ended \in RecipientRecords
      BY <2>0 DEF RecipientRecords
    <2>2. recipient' = [recipient EXCEPT ![r] = ended]
      BY DEF Finish
    <2> QED
      BY <2>1, <2>2 DEF TypeOK
  <1>3. log' \in [Recipients -> LogStatus]
    BY ClosedRow DEF Finish, TypeOK
  <1> QED
    BY <1>1, <1>2, <1>3, CommittedShape DEF Shape

LEMMA RependShape ==
    ASSUME TypeOK, NEW r \in Recipients, NEW l \in LogStatus, NEW attempts \in Nat,
           Repend(r, l, attempts)
    PROVE  Shape /\ worker'.pc = "refresh"
  <1>1. Committed(r)
    BY DEF Repend
  <1>2. recipient' \in [Recipients -> RecipientRecords]
    <2> DEFINE returned == [recipient[r] EXCEPT !.status = "pending",
                                                !.attempts = attempts]
    <2>0. recipient[r] \in RecipientRecords
      BY DEF TypeOK
    <2>1. returned \in RecipientRecords
      BY <2>0 DEF RecipientRecords, RecipientStatus
    <2>2. recipient' = [recipient EXCEPT ![r] = returned]
      BY DEF Repend, TypeOK, RecipientRecords
    <2> QED
      BY <2>1, <2>2 DEF TypeOK
  <1>3. log' \in [Recipients -> LogStatus]
    BY ReturnedRow DEF Repend, TypeOK
  <1> QED
    BY <1>1, <1>2, <1>3, CommittedShape DEF Shape

\* Once a dispatch has committed its ending, only the first three parts of
\* SubmissionInv are left to show.
LEMMA AtRefresh ==
    ASSUME SubmissionInv, Aside, worker'.pc = "refresh", SubmittedNeverSendable'
    PROVE  SubmissionInv'
  BY DEF SubmissionInv, Aside, AtMostOneSubmission, SelectorBeforeSubmission,
         WorkerPoint, SlotHeldByWorker

LEMMA FinishInv ==
    ASSUME TypeOK, SubmissionInv, NEW r \in Recipients,
           NEW status \in RecipientStatus, NEW l \in LogStatus,
           Finish(r, status, l), Safe(r, l), Aside
    PROVE  Shape /\ SubmissionInv' /\ Quiet
  <1>1. Shape /\ worker'.pc = "refresh"
    BY FinishShape
  <1>2. SubmittedNeverSendable'
    BY ClosedRow DEF Finish, TypeOK, SubmissionInv, SubmittedNeverSendable, Safe, Aside
  <1>3. Quiet
    BY ClosedRow DEF Finish, TypeOK, Safe, Aside, Quiet, NoNewIntent
  <1> QED
    BY <1>1, <1>2, <1>3, AtRefresh

LEMMA RependInv ==
    ASSUME TypeOK, SubmissionInv, NEW r \in Recipients, NEW l \in LogStatus,
           NEW attempts \in Nat, Repend(r, l, attempts), Safe(r, l), Aside
    PROVE  Shape /\ SubmissionInv' /\ Quiet
  <1>1. Shape /\ worker'.pc = "refresh"
    BY RependShape
  <1>2. SubmittedNeverSendable'
    BY ReturnedRow DEF Repend, TypeOK, SubmissionInv, SubmittedNeverSendable, Safe, Aside
  <1>3. Quiet
    BY ReturnedRow DEF Repend, TypeOK, Safe, Aside, Quiet, NoNewIntent
  <1> QED
    BY <1>1, <1>2, <1>3, AtRefresh

LEMMA RequeueInv ==
    ASSUME TypeOK, SubmissionInv, NEW r \in Recipients, NEW l \in LogStatus,
           Requeue(r, l), Safe(r, l), Aside
    PROVE  Shape /\ SubmissionInv' /\ Quiet
  <1> DEFINE a == IF recipient[r].attempts > 0 THEN recipient[r].attempts - 1 ELSE 0
  <1>1. a \in Nat
    BY DEF TypeOK, RecipientRecords
  <1>2. Repend(r, l, a)
    BY DEF Requeue
  <1> HIDE DEF a
  <1> QED
    BY <1>1, <1>2, RependInv

LEMMA RetryOrFailInv ==
    ASSUME TypeOK, SubmissionInv, NEW r \in Recipients, NEW l \in LogStatus,
           NEW cancelSeen \in BOOLEAN, RetryOrFail(r, l, cancelSeen), Safe(r, l), Aside
    PROVE  Shape /\ SubmissionInv' /\ Quiet
  <1>1. recipient[r].attempts \in Nat
    BY DEF TypeOK, RecipientRecords
  <1>2. Repend(r, l, recipient[r].attempts) \/ Finish(r, "failed", l)
    BY DEF RetryOrFail
  <1>3. "failed" \in RecipientStatus
    BY DEF RecipientStatus
  <1> QED
    BY <1>1, <1>2, <1>3, RependInv, FinishInv

\* One of the endings of a dispatch, with a row it may write.
Ending(r) ==
    \/ \E status \in RecipientStatus, l \in LogStatus :
          Finish(r, status, l) /\ Safe(r, l)
    \/ \E l \in LogStatus : Requeue(r, l) /\ Safe(r, l)
    \/ \E l \in LogStatus, cancelSeen \in BOOLEAN :
          RetryOrFail(r, l, cancelSeen) /\ Safe(r, l)

LEMMA EndingInv ==
    ASSUME IInv, NEW r \in Recipients, Ending(r),
           UNCHANGED <<run, wave, campaign, reservation, submitted, selector, alerts>>,
           ttl' \in [Recipients -> {"none", "live", "past"}],
           ledger' \in SUBSET Recipients,
           budget' \in [crashes : Nat, raises : Nat, operator : Nat]
    PROVE  IInv' /\ Quiet
  <1> USE DEF IInv
  <1>1. Aside
    BY DEF Aside
  <1>2. Shape /\ SubmissionInv' /\ Quiet
    <2>1. CASE \E status \in RecipientStatus, l \in LogStatus :
                  Finish(r, status, l) /\ Safe(r, l)
      BY <1>1, <2>1, FinishInv
    <2>2. CASE \E l \in LogStatus : Requeue(r, l) /\ Safe(r, l)
      BY <1>1, <2>2, RequeueInv
    <2>3. CASE \E l \in LogStatus, cancelSeen \in BOOLEAN :
                  RetryOrFail(r, l, cancelSeen) /\ Safe(r, l)
      BY <1>1, <2>3, RetryOrFailInv
    <2> QED
      BY <2>1, <2>2, <2>3 DEF Ending
  <1> QED
    BY <1>2 DEF TypeOK, Shape

\* The usual frame of an ending: nothing changes but the rows it writes, and
\* perhaps the ledger.
LEMMA FramedEndingInv ==
    ASSUME IInv, NEW r \in Recipients, Ending(r), EarlyReturnUnchanged,
           ledger' \in SUBSET Recipients
    PROVE  IInv' /\ Quiet
  <1>1. /\ ttl' \in [Recipients -> {"none", "live", "past"}]
        /\ budget' \in [crashes : Nat, raises : Nat, operator : Nat]
    BY DEF IInv, TypeOK, EarlyReturnUnchanged
  <1> QED
    BY <1>1, EndingInv DEF EarlyReturnUnchanged

\* The row as it is may always be written back.
LEMMA SameRowEnding ==
    ASSUME IInv, NEW r \in Recipients,
           \/ \E status \in RecipientStatus : Finish(r, status, log[r])
           \/ Requeue(r, log[r])
           \/ \E cancelSeen \in BOOLEAN : RetryOrFail(r, log[r], cancelSeen)
    PROVE  Ending(r)
  <1>1. log[r] \in LogStatus /\ Safe(r, log[r])
    BY DEF IInv, TypeOK, Safe
  <1> QED
    BY <1>1 DEF Ending

\* A submission of unknown fate is written as such and nowhere else.
LEMMA UnknownEnding ==
    ASSUME IInv, NEW r \in Recipients, UnknownSubmission(r)
    PROVE  Ending(r) /\ ledger' \in SUBSET Recipients
  <1>1. Finish(r, "failed", "submission_unknown")
    BY DEF UnknownSubmission
  <1>2. Safe(r, "submission_unknown") /\ "submission_unknown" \in LogStatus
    BY DEF Safe, PreSubmit, SendPending, LogStatus, SendFailure
  <1>3. "failed" \in RecipientStatus
    BY DEF RecipientStatus
  <1>4. ledger' \in SUBSET Recipients
    BY DEF UnknownSubmission, IInv, TypeOK
  <1> QED
    BY <1>1, <1>2, <1>3, <1>4 DEF Ending

\* Steps that only move the worker: the type of the new record and the worker's
\* own part of the invariant remain to be shown.
LEMMA WorkerMoveInv ==
    ASSUME IInv, worker' \in WorkerRecords, UNCHANGED <<recipient, log, ledger>>,
           EarlyReturnUnchanged,
           \A r \in Recipients : worker'.cur = r => WorkerPoint(r)'
    PROVE  IInv' /\ Quiet
  BY DEF IInv, TypeOK, EarlyReturnUnchanged, SubmissionInv, AtMostOneSubmission,
         SubmittedNeverSendable, SelectorBeforeSubmission, Quiet, NoNewIntent

-----------------------------------------------------------------------------
(* The steps of a dispatch *)

LEMMA EarlyReturnInv ==
    ASSUME IInv, NEW r \in Recipients, EarlyReturn(r)
    PROVE  IInv' /\ Quiet
  <1> USE DEF IInv
  <1>0. /\ worker.view.cancel \in BOOLEAN
        /\ ledger \in SUBSET Recipients
        /\ worker.cur = r => WorkerPoint(r)
    BY DEF TypeOK, WorkerRecords, Views, SubmissionInv
  <1>1. CASE DispatchRunCanceled(r)
    <2>1. Ending(r)
      BY <1>1, SameRowEnding DEF DispatchRunCanceled, RecipientStatus
    <2> QED
      BY <1>0, <1>1, <2>1, FramedEndingInv DEF DispatchRunCanceled
  <1>2. CASE DispatchCampaignPaused(r)
    <2>1. Ending(r)
      BY <1>2, SameRowEnding DEF DispatchCampaignPaused
    <2> QED
      BY <1>0, <1>2, <2>1, FramedEndingInv DEF DispatchCampaignPaused
  <1>3. CASE DispatchExpired(r)
    <2>1. Safe(r, "expired") /\ "expired" \in LogStatus /\ "skipped" \in RecipientStatus
      BY DEF Safe, PreSubmit, SendPending, LogStatus, SendFailure, RecipientStatus
    <2>2. Ending(r)
      BY <1>3, <2>1 DEF DispatchExpired, Ending
    <2> QED
      BY <1>0, <1>3, <2>2, FramedEndingInv DEF DispatchExpired
  <1>5. CASE DispatchAlreadySent(r)
    <2>1. worker' \in WorkerRecords
      BY <1>5 DEF DispatchAlreadySent, TypeOK, WorkerRecords, Points, DispatchPoints,
                  Outcomes
    <2>2. \A q \in Recipients : worker'.cur = q => WorkerPoint(q)'
      BY <1>5 DEF DispatchAlreadySent, TypeOK, WorkerRecords, WorkerPoint,
                  SlotHeldByWorker, SendSuccess
    <2> QED
      BY <1>5, <2>1, <2>2, WorkerMoveInv DEF DispatchAlreadySent
  <1>6. CASE DispatchAlreadyFailed(r)
    <2>1. Ending(r)
      BY <1>6, SameRowEnding DEF DispatchAlreadyFailed, RecipientStatus
    <2> QED
      BY <1>0, <1>6, <2>1, FramedEndingInv DEF DispatchAlreadyFailed
  <1>7. CASE DispatchAwaitsSelection(r)
    <2>1. Ending(r)
      BY <1>7, SameRowEnding DEF DispatchAwaitsSelection
    <2> QED
      BY <1>0, <1>7, <2>1, FramedEndingInv DEF DispatchAwaitsSelection
  <1>8. CASE RevalidationRejects(r)
    <2>1. Ending(r)
      BY <1>8, SameRowEnding DEF RevalidationRejects, RecipientStatus
    <2> QED
      BY <1>0, <1>8, <2>1, FramedEndingInv DEF RevalidationRejects
  <1>9. CASE SenderPaused(r)
    <2>1. Ending(r)
      BY <1>9, SameRowEnding DEF SenderPaused
    <2> QED
      BY <1>0, <1>9, <2>1, FramedEndingInv DEF SenderPaused
  <1>10. CASE ProfileUnavailable(r)
    <2>1. Ending(r)
      BY <1>0, <1>10, SameRowEnding DEF ProfileUnavailable
    <2> QED
      BY <1>0, <1>10, <2>1, FramedEndingInv DEF ProfileUnavailable
  <1>11. CASE RevalidationPasses(r)
    <2>1. worker.view.log \in PreSubmit /\ worker.pc = "decide" /\ worker.cur = r
      BY <1>11 DEF RevalidationPasses, ReadyToSend, Deciding, PreSubmit, SendPending
    <2>2. worker' \in WorkerRecords
      BY <1>11 DEF RevalidationPasses, TypeOK, WorkerRecords, Points, DispatchPoints
    <2>3. \A q \in Recipients : worker'.cur = q => WorkerPoint(q)'
      BY <1>0, <1>11, <2>1 DEF RevalidationPasses, TypeOK, WorkerRecords, WorkerPoint,
            SlotHeldByWorker, EarlyReturnUnchanged
    <2> QED
      BY <1>11, <2>2, <2>3, WorkerMoveInv DEF RevalidationPasses
  <1> QED
    BY <1>1, <1>2, <1>3, <1>5, <1>6, <1>7, <1>8, <1>9, <1>10, <1>11
       DEF EarlyReturn

\* A worker past the gate holds a recipient that was not submitted, so an ending
\* may write any status of the log.
LEMMA UnsubmittedEnding ==
    ASSUME IInv, NEW r \in Recipients, worker.cur = r,
           worker.pc \in {"gate", "confirm", "send", "submit_gate"},
           NEW l \in LogStatus, l # "submitting" \/ l = log[r],
           \/ \E status \in RecipientStatus : Finish(r, status, l)
           \/ Requeue(r, l)
           \/ \E cancelSeen \in BOOLEAN : RetryOrFail(r, l, cancelSeen)
    PROVE  Ending(r)
  <1>1. submitted[r] = 0
    BY DEF IInv, SubmissionInv, WorkerPoint
  <1>2. Safe(r, l)
    BY <1>1 DEF Safe
  <1> QED
    BY <1>2 DEF Ending

LEMMA HandOffInv ==
    ASSUME IInv, NEW r \in Recipients, HandOff(r)
    PROVE  IInv' /\ (Quiet \/ CommitIntent(r))
  <1> USE DEF IInv
  <1>0. /\ worker.view.cancel \in BOOLEAN
        /\ ledger \in SUBSET Recipients
        /\ worker.cur = r => WorkerPoint(r)
        /\ log[r] \in LogStatus
    BY DEF TypeOK, WorkerRecords, Views, SubmissionInv
  <1>s. /\ {"canceled", "skipped", "failed"} \subseteq RecipientStatus
        /\ {"candidate", "delayed", "skipped", "blocked", "failed", "exhausted",
            "canceled", "policy_window_expired"} \subseteq LogStatus
    BY DEF RecipientStatus, LogStatus, SendPending, SendFailure
  <1>1. CASE GateCanceled(r)
    <2>1. Ending(r)
      BY <1>s, <1>1, SameRowEnding DEF GateCanceled
    <2> QED
      BY <1>0, <1>1, <2>1, FramedEndingInv DEF GateCanceled
  <1>2. CASE GatePaused(r)
    <2>1. Ending(r)
      BY <1>2, SameRowEnding DEF GatePaused
    <2> QED
      BY <1>0, <1>2, <2>1, FramedEndingInv DEF GatePaused
  <1>3. CASE GatePasses(r)
    <2>1. worker' \in WorkerRecords
      BY <1>3 DEF GatePasses, TypeOK, WorkerRecords, Points, DispatchPoints
    <2>2. \A q \in Recipients : worker'.cur = q => WorkerPoint(q)'
      BY <1>0, <1>3 DEF GatePasses, AtPoint, TypeOK, WorkerRecords, WorkerPoint,
            SlotHeldByWorker, EarlyReturnUnchanged
    <2> QED
      BY <1>3, <2>1, <2>2, WorkerMoveInv DEF GatePasses
  <1>4. CASE ConfirmNotEnforced(r)
    <2>1. Ending(r)
      BY <1>s, <1>4, UnsubmittedEnding DEF ConfirmNotEnforced, AtPoint
    <2> QED
      BY <1>0, <1>4, <2>1, FramedEndingInv DEF ConfirmNotEnforced
  <1>5. CASE ConfirmReservationGone(r)
    <2>1. Ending(r)
      BY <1>0, <1>s, <1>5, UnsubmittedEnding DEF ConfirmReservationGone, AtPoint
    <2> QED
      BY <1>0, <1>5, <2>1, FramedEndingInv DEF ConfirmReservationGone
  <1>6. CASE ConfirmLost(r)
    <2>1. Ending(r)
      BY <1>s, <1>6, UnsubmittedEnding DEF ConfirmLost, AtPoint
    <2> QED
      BY <1>0, <1>6, <2>1, FramedEndingInv DEF ConfirmLost
  <1>7. CASE ConfirmWins(r)
    <2>1. worker' \in WorkerRecords
      BY <1>7 DEF ConfirmWins, TypeOK, WorkerRecords, Points, DispatchPoints
    <2>2. \A q \in Recipients : worker'.cur = q => WorkerPoint(q)'
      BY <1>0, <1>7 DEF ConfirmWins, AtPoint, SlotFree, TypeOK, WorkerRecords,
            WorkerPoint, SlotHeldByWorker, EarlyReturnUnchanged
    <2> QED
      BY <1>7, <2>1, <2>2, WorkerMoveInv DEF ConfirmWins
  <1>8. CASE ThrottleRequeues(r)
    <2>1. Ending(r)
      BY <1>8, SameRowEnding DEF ThrottleRequeues
    <2> QED
      BY <1>0, <1>8, <2>1, FramedEndingInv DEF ThrottleRequeues
  <1>9. CASE ThrottleMissesDeadline(r)
    <2>1. Ending(r)
      BY <1>s, <1>9, SameRowEnding DEF ThrottleMissesDeadline
    <2> QED
      BY <1>0, <1>9, <2>1, FramedEndingInv DEF ThrottleMissesDeadline
  <1>10. CASE SendParksCandidate(r)
    <2>1. Ending(r)
      BY <1>s, <1>10, UnsubmittedEnding DEF SendParksCandidate, AtPoint
    <2>2. ttl' \in [Recipients -> {"none", "live", "past"}]
      BY <1>10 DEF SendParksCandidate, TypeOK
    <2> QED
      BY <1>0, <1>10, <2>1, <2>2, EndingInv DEF SendParksCandidate, TypeOK
  <1>11. CASE SendRefusesNew(r)
    <2>1. Ending(r)
      BY <1>0, <1>s, <1>11, UnsubmittedEnding DEF SendRefusesNew, AtPoint
    <2>2. ttl' \in [Recipients -> {"none", "live", "past"}]
      BY <1>11 DEF SendRefusesNew, TypeOK
    <2> QED
      BY <1>0, <1>11, <2>1, <2>2, EndingInv DEF SendRefusesNew, TypeOK
  <1>12. CASE SendRefusesSelected(r)
    <2>1. Ending(r)
      BY <1>0, <1>s, <1>12, UnsubmittedEnding DEF SendRefusesSelected, AtPoint
    <2> QED
      BY <1>0, <1>12, <2>1, FramedEndingInv DEF SendRefusesSelected
  <1>13. CASE CommitIntent(r)
    <2>1. /\ worker' \in WorkerRecords
          /\ log' \in [Recipients -> LogStatus]
      BY <1>13 DEF CommitIntent, TypeOK, WorkerRecords, Points, DispatchPoints, LogStatus
    <2>2. TypeOK'
      BY <1>13, <2>1 DEF CommitIntent, TypeOK, EarlyReturnUnchanged
    <2>3. submitted[r] = 0 /\ selector.cur # r
      BY <1>0, <1>13 DEF CommitIntent, AtPoint, WorkerPoint, SlotHeldByWorker
    <2>4. \A q \in Recipients : worker'.cur = q => WorkerPoint(q)'
      BY <1>0, <1>13, <2>3 DEF CommitIntent, AtPoint, TypeOK, WorkerRecords,
            WorkerPoint, SlotHeldByWorker, EarlyReturnUnchanged
    <2>5. SubmittedNeverSendable'
      BY <1>13, <2>3 DEF CommitIntent, TypeOK, SubmissionInv, SubmittedNeverSendable,
            EarlyReturnUnchanged
    <2> QED
      BY <1>13, <2>2, <2>4, <2>5 DEF CommitIntent, SubmissionInv, AtMostOneSubmission,
            SelectorBeforeSubmission, EarlyReturnUnchanged
  <1> QED
    BY <1>1, <1>2, <1>3, <1>4, <1>5, <1>6, <1>7, <1>8, <1>9, <1>10, <1>11, <1>12,
       <1>13 DEF HandOff

LEMMA SubmissionStepInv ==
    ASSUME IInv, NEW r \in Recipients, Submission(r)
    PROVE  IInv' /\ (Quiet \/ ProviderCall(r))
  <1> USE DEF IInv
  <1>0. /\ ledger \in SUBSET Recipients
        /\ worker.cur = r => WorkerPoint(r)
    BY DEF TypeOK, SubmissionInv
  <1>s. /\ {"canceled", "skipped"} \subseteq RecipientStatus
        /\ {"canceled", "skipped", "delayed", "exhausted"} \subseteq LogStatus
    BY DEF RecipientStatus, LogStatus, SendPending, SendFailure
  <1>1. CASE SubmissionGatePasses(r)
    <2>1. worker' \in WorkerRecords
      BY <1>1 DEF SubmissionGatePasses, TypeOK, WorkerRecords, Points, DispatchPoints
    <2>2. \A q \in Recipients : worker'.cur = q => WorkerPoint(q)'
      BY <1>0, <1>1 DEF SubmissionGatePasses, AtPoint, GateOpen, TypeOK, WorkerRecords,
            WorkerPoint, SlotHeldByWorker, EarlyReturnUnchanged
    <2> QED
      BY <1>1, <2>1, <2>2, WorkerMoveInv DEF SubmissionGatePasses
  <1>2. CASE SubmissionGateCanceled(r)
    <2>1. Ending(r)
      BY <1>s, <1>2, UnsubmittedEnding DEF SubmissionGateCanceled, AtPoint
    <2> QED
      BY <1>0, <1>2, <2>1, FramedEndingInv DEF SubmissionGateCanceled
  <1>3. CASE SubmissionGateHolds(r)
    <2>1. Ending(r)
      BY <1>s, <1>3, UnsubmittedEnding DEF SubmissionGateHolds, AtPoint
    <2> QED
      BY <1>0, <1>3, <2>1, FramedEndingInv DEF SubmissionGateHolds
  <1>4. CASE SubmissionGateRefuses(r)
    <2>1. Ending(r)
      BY <1>s, <1>4, UnsubmittedEnding DEF SubmissionGateRefuses, AtPoint
    <2> QED
      BY <1>0, <1>4, <2>1, FramedEndingInv DEF SubmissionGateRefuses
  <1>5. CASE ProviderCall(r)
    <2>1. /\ submitted[r] = 0 /\ log[r] = "submitting" /\ selector.cur # r
          /\ worker.cur = r
      BY <1>0, <1>5 DEF ProviderCall, AtPoint, WorkerPoint
    <2>2. /\ worker' \in WorkerRecords
          /\ worker'.pc = "record" /\ worker'.cur = r
          /\ submitted' \in [Recipients -> Nat]
      <3>1. PICK outcome \in {"sent", "exhausted", "submission_unknown"} :
               worker' = [worker EXCEPT !.pc = "record", !.outcome = outcome]
        BY <1>5 DEF ProviderCall
      <3>2. outcome \in Outcomes /\ "record" \in Points
        BY DEF Outcomes, Points, DispatchPoints
      <3>3. worker' \in WorkerRecords /\ worker'.pc = "record" /\ worker'.cur = r
        BY <2>1, <3>1, <3>2 DEF TypeOK, WorkerRecords
      <3> QED
        BY <1>5, <3>3 DEF ProviderCall, TypeOK
    <2>3. TypeOK'
      BY <1>5, <2>2 DEF ProviderCall, TypeOK
    <2>4. \A q \in Recipients : worker'.cur = q => WorkerPoint(q)'
      BY <1>5, <2>1, <2>2 DEF ProviderCall, WorkerPoint, SlotHeldByWorker
    <2>5. AtMostOneSubmission' /\ SubmittedNeverSendable' /\ SelectorBeforeSubmission'
      BY <1>5, <2>1 DEF ProviderCall, TypeOK, SubmissionInv, AtMostOneSubmission,
            SubmittedNeverSendable, SelectorBeforeSubmission, PreSubmit, SendPending
    <2> QED
      BY <1>5, <2>3, <2>4, <2>5 DEF SubmissionInv
  <1>6. CASE RecordSent(r)
    <2>1. /\ worker' \in WorkerRecords
          /\ worker'.pc = "consume" /\ worker'.outcome = "sent"
          /\ log' \in [Recipients -> LogStatus]
      BY <1>6 DEF RecordSent, TypeOK, WorkerRecords, Points, DispatchPoints,
            LogStatus, SendSuccess
    <2>2. TypeOK'
      BY <1>6, <2>1 DEF RecordSent, TypeOK, EarlyReturnUnchanged
    <2>3. SubmittedNeverSendable'
      BY <1>6 DEF RecordSent, TypeOK, SubmissionInv, SubmittedNeverSendable,
            EarlyReturnUnchanged, PreSubmit, SendPending
    <2> QED
      BY <1>6, <2>1, <2>2, <2>3 DEF RecordSent, SubmissionInv, AtMostOneSubmission,
            SelectorBeforeSubmission, WorkerPoint, SlotHeldByWorker, EarlyReturnUnchanged,
            SendSuccess, TypeOK, Quiet, NoNewIntent
  <1>7. CASE RecordExhausted(r)
    <2>1. Safe(r, "exhausted")
      BY DEF Safe, PreSubmit, SendPending
    <2>2. Ending(r)
      BY <1>s, <1>7, <2>1 DEF RecordExhausted, Ending
    <2> QED
      BY <1>0, <1>7, <2>2, FramedEndingInv DEF RecordExhausted
  <1>8. CASE RecordUnknown(r)
    BY <1>8, UnknownEnding, FramedEndingInv DEF RecordUnknown
  <1> QED
    BY <1>1, <1>2, <1>3, <1>4, <1>5, <1>6, <1>7, <1>8 DEF Submission

LEMMA CompletionInv ==
    ASSUME IInv, NEW r \in Recipients, Completion(r)
    PROVE  IInv' /\ Quiet
  <1> USE DEF IInv
  <1>0. /\ ledger \in SUBSET Recipients
        /\ worker.cur = r => WorkerPoint(r)
    BY DEF TypeOK, SubmissionInv
  <1>s. SendSuccess \subseteq RecipientStatus
    BY DEF SendSuccess, RecipientStatus
  <1>1. CASE ConsumeCapacity(r)
    <2>1. WaveOf[r] \in Waves
      BY WaveAssumption
    <2>2. /\ worker' \in WorkerRecords /\ worker'.pc = "ledger"
          /\ recipient' \in [Recipients -> RecipientRecords]
      <3>1. worker' \in WorkerRecords /\ worker'.pc = "ledger"
        BY <1>1 DEF ConsumeCapacity, TypeOK, WorkerRecords, Points, DispatchPoints
      <3>2. recipient' \in [Recipients -> RecipientRecords]
        BY ZenonT(60), <1>1 DEF ConsumeCapacity, TypeOK, RecipientRecords
      <3> QED
        BY <3>1, <3>2
    <2>3. reservation' \in [Waves -> ReservationRecords]
      BY <1>1, <2>1 DEF ConsumeCapacity, TypeOK, ReservationRecords
    <2>4. TypeOK'
      BY <1>1, <2>2, <2>3 DEF ConsumeCapacity, TypeOK
    <2> QED
      BY <1>0, <1>1, <2>2, <2>4 DEF ConsumeCapacity, AtPoint, SubmissionInv, TypeOK,
            AtMostOneSubmission, SubmittedNeverSendable, SelectorBeforeSubmission,
            WorkerPoint, SlotHeldByWorker, WorkerRecords, Quiet, NoNewIntent
  <1>2. CASE SkipCapacity(r)
    <2>1. worker' \in WorkerRecords /\ worker'.pc = "ledger"
      BY <1>2 DEF SkipCapacity, TypeOK, WorkerRecords, Points, DispatchPoints
    <2>2. \A q \in Recipients : worker'.cur = q => WorkerPoint(q)'
      BY <1>0, <1>2, <2>1 DEF SkipCapacity, AtPoint, TypeOK, WorkerRecords,
            WorkerPoint, SlotHeldByWorker
    <2> QED
      BY <1>2, <2>1, <2>2, WorkerMoveInv DEF SkipCapacity
  <1>3. CASE RecordLedger(r)
    <2>1. worker.outcome \in RecipientStatus
      BY <1>0, <1>s, <1>3 DEF RecordLedger, AtPoint, WorkerPoint
    <2>2. Ending(r)
      BY <1>3, <2>1, SameRowEnding DEF RecordLedger
    <2> QED
      BY <1>0, <1>3, <2>2, FramedEndingInv DEF RecordLedger
  <1>4. CASE LedgerFails(r)
    <2>1. worker' \in WorkerRecords /\ worker'.pc = "finish"
      BY <1>4 DEF LedgerFails, TypeOK, WorkerRecords, Points, DispatchPoints
    <2>2. \A q \in Recipients : worker'.cur = q => WorkerPoint(q)'
      BY <1>0, <1>4, <2>1 DEF LedgerFails, AtPoint, TypeOK, WorkerRecords,
            WorkerPoint, SlotHeldByWorker
    <2>3. TypeOK'
      BY <1>4, <2>1 DEF LedgerFails, TypeOK
    <2> QED
      BY <1>4, <2>2, <2>3 DEF LedgerFails, SubmissionInv, AtMostOneSubmission,
            SubmittedNeverSendable, SelectorBeforeSubmission, Quiet, NoNewIntent
  <1>5. CASE FinishDelivered(r)
    <2>1. worker.outcome \in RecipientStatus
      BY <1>0, <1>s, <1>5 DEF FinishDelivered, AtPoint, WorkerPoint
    <2>2. Ending(r)
      BY <1>5, <2>1, SameRowEnding DEF FinishDelivered
    <2> QED
      BY <1>0, <1>5, <2>2, FramedEndingInv DEF FinishDelivered
  <1> QED
    BY <1>1, <1>2, <1>3, <1>4, <1>5 DEF Completion

-----------------------------------------------------------------------------
(* The cycle around the dispatches *)

\* A step that leaves the worker at a point where it relies on nothing, the rows
\* and the selector alone.
LEMMA RestInv ==
    ASSUME IInv, TypeOK',
           worker'.pc \in {"cycle", "dispatch", "refresh", "refresh_write"},
           SubmittedNeverSendable', UNCHANGED <<submitted, selector>>,
           run'.cancel = run.cancel, NoNewIntent
    PROVE  IInv' /\ Quiet
  BY DEF IInv, SubmissionInv, AtMostOneSubmission, SelectorBeforeSubmission,
         WorkerPoint, SlotHeldByWorker, Quiet

LEMMA MaintenanceInv ==
    ASSUME IInv, Maintenance
    PROVE  IInv' /\ Quiet
  <1> USE DEF IInv
  <1>0. \A S \in SUBSET Recipients : {WaveOf[r] : r \in S} \in SUBSET Waves
    BY WaveAssumption
  <1>s. /\ {"failed", "canceled", "pending"} \subseteq RecipientStatus
        /\ SendSuccess \subseteq RecipientStatus
        /\ "submission_unknown" \in LogStatus \ PreSubmit
        /\ {"refresh", "cycle"} \subseteq Points
    BY DEF RecipientStatus, LogStatus, SendFailure, SendSuccess, PreSubmit, SendPending,
           Points, DispatchPoints
  <1>1. ASSUME NEW S \in SUBSET Recipients, RecoverStale(S)
        PROVE  IInv' /\ Quiet
    <2> DEFINE unknown == {r \in S : log[r] = "submitting"}
               ended == IF run.cancel \/ run.status = "canceled"
                        THEN S \ unknown ELSE {}
    <2>1. recipient' \in [Recipients -> RecipientRecords]
      <3> SUFFICES ASSUME NEW r \in Recipients
                   PROVE  recipient'[r] \in RecipientRecords
        BY <1>1 DEF RecoverStale
      <3>1. recipient[r] \in RecipientRecords
        BY DEF TypeOK
      <3>2. \/ recipient'[r] = [recipient[r] EXCEPT !.status = "failed", !.marker = FALSE]
            \/ recipient'[r] = [recipient[r] EXCEPT !.status = "canceled", !.marker = FALSE]
            \/ recipient'[r] = [recipient[r] EXCEPT !.status = "pending"]
            \/ recipient'[r] = recipient[r]
        BY ZenonT(60), <1>1 DEF RecoverStale
      <3> QED
        BY ZenonT(60), <1>s, <3>1, <3>2 DEF RecipientRecords
    <2>2. /\ log' \in [Recipients -> LogStatus]
          /\ SubmittedNeverSendable'
          /\ NoNewIntent
      BY <1>s, <1>1 DEF RecoverStale, TypeOK, SubmissionInv, SubmittedNeverSendable,
            NoNewIntent
    <2>3. worker' \in WorkerRecords /\ worker'.pc \in {"cycle", "refresh"}
      <3>1. {WaveOf[r] : r \in unknown \cup ended} \in SUBSET Waves
        BY <1>0
      <3>2. \/ worker' = worker
            \/ worker' = [worker EXCEPT !.pc = "refresh",
                              !.touched = {WaveOf[r] : r \in unknown \cup ended}]
        BY <1>1 DEF RecoverStale
      <3>3. worker.pc = "cycle"
        BY ZenonT(60), <1>1 DEF RecoverStale, AtCycleStart
      <3> QED
        BY ZenonT(60), <1>s, <3>1, <3>2, <3>3 DEF TypeOK, WorkerRecords
    <2>4. TypeOK'
      BY <1>1, <2>1, <2>2, <2>3 DEF RecoverStale, TypeOK
    <2> QED
      BY <1>1, <2>2, <2>3, <2>4, RestInv DEF RecoverStale
  <1>2. CASE ReconcileSendLogs
    <2> DEFINE rows == {r \in Recipients : Reconcilable(r)}
    <2>1. recipient' \in [Recipients -> RecipientRecords]
      <3> SUFFICES ASSUME NEW r \in Recipients
                   PROVE  recipient'[r] \in RecipientRecords
        BY <1>2 DEF ReconcileSendLogs
      <3> QED
        BY ZenonT(60), <1>s, <1>2 DEF ReconcileSendLogs, TypeOK, RecipientRecords
    <2>2. worker' \in WorkerRecords /\ worker'.pc = "refresh"
      <3>1. {WaveOf[r] : r \in rows} \in SUBSET Waves
        BY <1>0
      <3>2. worker' = [worker EXCEPT !.pc = "refresh", !.touched = {WaveOf[r] : r \in rows}]
        BY <1>2 DEF ReconcileSendLogs
      <3> QED
        BY <1>s, <3>1, <3>2 DEF TypeOK, WorkerRecords
    <2>3. TypeOK' /\ SubmittedNeverSendable'
      BY <1>2, <2>1, <2>2 DEF ReconcileSendLogs, TypeOK, SubmissionInv,
            SubmittedNeverSendable
    <2> QED
      BY <1>2, <2>2, <2>3, RestInv DEF ReconcileSendLogs, NoNewIntent
  <1>3. CASE ReclaimDeferrals
    <2> DEFINE rows == {r \in Recipients : recipient[r].status = "deferred"
                                             /\ log[r] \in SendPending}
    <2>1. recipient' \in [Recipients -> RecipientRecords]
      <3> SUFFICES ASSUME NEW r \in Recipients
                   PROVE  recipient'[r] \in RecipientRecords
        BY <1>3 DEF ReclaimDeferrals
      <3> QED
        BY <1>s, <1>3 DEF ReclaimDeferrals, TypeOK, RecipientRecords
    <2>2. worker' \in WorkerRecords /\ worker'.pc = "refresh"
      <3>1. {WaveOf[r] : r \in rows} \in SUBSET Waves
        BY <1>0
      <3>2. worker' = [worker EXCEPT !.pc = "refresh", !.touched = {WaveOf[r] : r \in rows}]
        BY <1>3 DEF ReclaimDeferrals
      <3> QED
        BY <1>s, <3>1, <3>2 DEF TypeOK, WorkerRecords
    <2>3. TypeOK' /\ SubmittedNeverSendable'
      BY <1>3, <2>1, <2>2 DEF ReclaimDeferrals, TypeOK, SubmissionInv,
            SubmittedNeverSendable
    <2> QED
      BY <1>3, <2>2, <2>3, RestInv DEF ReclaimDeferrals, NoNewIntent
  <1>4. CASE FinalizeQuiescentRun
    <2>1. worker' \in WorkerRecords /\ worker'.pc = "refresh"
      BY <1>s, <1>4 DEF FinalizeQuiescentRun, RepairQuiescentRun, TypeOK, WorkerRecords
    <2>2. TypeOK' /\ SubmittedNeverSendable'
      BY <1>4, <2>1 DEF FinalizeQuiescentRun, RepairQuiescentRun, TypeOK, SubmissionInv,
            SubmittedNeverSendable
    <2> QED
      BY <1>4, <2>1, <2>2, RestInv DEF FinalizeQuiescentRun, RepairQuiescentRun, NoNewIntent
  <1> QED
    BY <1>1, <1>2, <1>3, <1>4 DEF Maintenance

LEMMA ClaimInv ==
    ASSUME IInv, NEW r \in Recipients, Claim(r)
    PROVE  IInv' /\ Quiet
  <1> USE DEF IInv
  <1>1. recipient' \in [Recipients -> RecipientRecords]
    <2>1. "processing" \in RecipientStatus
      BY DEF RecipientStatus
    <2> QED
      BY <2>1 DEF Claim, ClaimFrom, TypeOK, RecipientRecords
  <1>2. worker' \in WorkerRecords /\ worker'.pc = "cycle"
    BY DEF Claim, ClaimFrom, TypeOK, WorkerRecords
  <1>3. /\ run' \in RunRecords
        /\ wave' \in [Waves -> {"held", "planned", "running", "completed"}]
    BY DEF Claim, ClaimFrom, TypeOK, RunRecords
  <1>4. TypeOK' /\ SubmittedNeverSendable'
    BY <1>1, <1>2, <1>3 DEF Claim, ClaimFrom, TypeOK, SubmissionInv, SubmittedNeverSendable
  <1> QED
    BY <1>2, <1>4, RestInv DEF Claim, ClaimFrom, TypeOK, RunRecords, NoNewIntent

LEMMA LoadDispatchInv ==
    ASSUME IInv, NEW r \in Recipients, LoadDispatch(r)
    PROVE  IInv' /\ Quiet
  <1> USE DEF IInv
  <1> DEFINE v == [cancel |-> run.cancel, active |-> campaign = "active",
                   log |-> IF log[r] \in Visible THEN log[r] ELSE "none",
                   ttl |-> IF log[r] \in Visible THEN ttl[r] ELSE "none"]
  <1>1. v \in Views
    BY DEF TypeOK, Views, RunRecords, LogStatus
  <1>2. v.log \in PreSubmit => log[r] \in PreSubmit
    BY DEF TypeOK, Visible, PreSubmit
  <1> HIDE DEF v
  <1>3. worker' = [worker EXCEPT !.pc = "decide", !.cur = r, !.batch = @ \ {r}, !.view = v]
    BY DEF LoadDispatch, v
  <1>4. worker' \in WorkerRecords
    BY <1>1, <1>3 DEF TypeOK, WorkerRecords, Points, DispatchPoints
  <1>5. worker'.pc = "decide" /\ worker'.cur = r /\ worker'.view = v
    BY <1>3 DEF TypeOK, WorkerRecords
  <1>6. TypeOK'
    BY <1>4 DEF LoadDispatch, TypeOK
  <1>7. submitted[r] > 0 => log[r] \notin PreSubmit
    BY DEF SubmissionInv, SubmittedNeverSendable
  <1>8. submitted[r] \in Nat
    BY DEF TypeOK
  <1>9. WorkerPoint(r)'
    BY <1>2, <1>5, <1>7, <1>8 DEF LoadDispatch, WorkerPoint, SlotHeldByWorker
  <1> QED
    BY <1>5, <1>6, <1>9 DEF LoadDispatch, SubmissionInv, AtMostOneSubmission,
       SubmittedNeverSendable, SelectorBeforeSubmission, Quiet, NoNewIntent

LEMMA RefreshReadInv ==
    ASSUME IInv, RefreshRead
    PROVE  IInv' /\ Quiet
  <1> USE DEF IInv
  <1> DEFINE v == [NoView EXCEPT !.cancel = run.cancel]
             q(T) == IF RunQuiescent THEN "run"
                     ELSE IF \A w \in T : WaveQuiescent(w) THEN "wave" ELSE "no"
  <1>1. PICK target \in {{w} : w \in worker.touched} \cup
                        (IF worker.touched = {} THEN {{}} ELSE {}) :
           worker' = [worker EXCEPT !.pc = "refresh_write", !.touched = @ \ target,
                          !.target = target, !.view = v, !.quiet = q(target)]
    BY DEF RefreshRead
  <1>2. v \in Views
    BY DEF NoView, Views, TypeOK, RunRecords, LogStatus
  <1>3. q(target) \in {"no", "wave", "run"}
    OBVIOUS
  <1>4. target \in SUBSET Waves
    BY DEF TypeOK, WorkerRecords
  <1> HIDE DEF v, q
  <1>5. worker' \in WorkerRecords /\ worker'.pc = "refresh_write"
    BY <1>1, <1>2, <1>3, <1>4 DEF TypeOK, WorkerRecords, Points, DispatchPoints
  <1>6. TypeOK' /\ SubmittedNeverSendable'
    BY <1>5 DEF RefreshRead, TypeOK, SubmissionInv, SubmittedNeverSendable
  <1> QED
    BY <1>5, <1>6, RestInv DEF RefreshRead, NoNewIntent

LEMMA RefreshWriteInv ==
    ASSUME IInv, RefreshWrite
    PROVE  IInv' /\ Quiet
  <1> USE DEF IInv
  <1>0. NoView \in Views
    BY DEF NoView, Views, LogStatus
  <1>1. worker' \in WorkerRecords /\ worker'.pc \in {"refresh", "cycle", "dispatch"}
    BY <1>0 DEF RefreshWrite, WriteRefresh, TypeOK, WorkerRecords, Points, DispatchPoints
  <1>2. run' \in RunRecords
    BY DEF RefreshWrite, WriteRefresh, TypeOK, RunRecords, TerminalRun
  <1>3. reservation' \in [Waves -> ReservationRecords]
    <2>1. \A v \in ReservationRecords : Trimmed(v) \in ReservationRecords
      BY DEF Trimmed, ReservationRecords
    <2> QED
      BY <2>1 DEF RefreshWrite, WriteRefresh, TypeOK
  <1>4. wave' \in [Waves -> {"held", "planned", "running", "completed"}]
    BY DEF RefreshWrite, WriteRefresh, TypeOK
  <1>5. TypeOK' /\ SubmittedNeverSendable'
    BY <1>1, <1>2, <1>3, <1>4 DEF RefreshWrite, WriteRefresh, TypeOK, SubmissionInv,
       SubmittedNeverSendable
  <1> QED
    BY <1>1, <1>5, RestInv DEF RefreshWrite, WriteRefresh, TypeOK, RunRecords, NoNewIntent

-----------------------------------------------------------------------------
(* Exceptions, crashes, operators, the selector and the provider *)

LEMMA CrashInv ==
    ASSUME IInv, Crash
    PROVE  IInv' /\ Quiet
  <1> USE DEF IInv
  <1>1. Idle \in WorkerRecords /\ Idle.pc = "cycle"
    BY DEF Idle, WorkerRecords, NoView, Views, LogStatus, Points, Outcomes
  <1>2. selector' \in SelectorRecords /\ selector'.cur = NoOne
    BY DEF Crash, SelectorClosed, TypeOK, SelectorRecords, LogStatus
  <1>3. budget' \in [crashes : Nat, raises : Nat, operator : Nat]
    BY DEF Crash, TypeOK
  <1>4. TypeOK'
    BY <1>1, <1>2, <1>3 DEF Crash, TypeOK
  <1> QED
    BY <1>1, <1>2, <1>4, RecipientsAssumption DEF Crash, SubmissionInv,
       AtMostOneSubmission, SubmittedNeverSendable, SelectorBeforeSubmission,
       WorkerPoint, SlotHeldByWorker, Quiet, NoNewIntent

LEMMA DispatchRaisesInv ==
    ASSUME IInv, NEW r \in Recipients, DispatchRaises(r)
    PROVE  IInv' /\ Quiet
  <1> USE DEF IInv
  <1>1. /\ run.cancel \in BOOLEAN
        /\ budget' \in [crashes : Nat, raises : Nat, operator : Nat]
        /\ ttl' \in [Recipients -> {"none", "live", "past"}]
        /\ ledger \in SUBSET Recipients
    BY DEF DispatchRaises, TypeOK, RunRecords
  <1>2. CASE UnknownSubmission(r)
    BY <1>1, <1>2, UnknownEnding, EndingInv DEF DispatchRaises
  <1>3. CASE RetryOrFail(r, log[r], run.cancel) /\ UNCHANGED ledger
    BY <1>1, <1>3, SameRowEnding, EndingInv DEF DispatchRaises
  <1> QED
    BY <1>2, <1>3 DEF DispatchRaises

LEMMA CancelRunInv ==
    ASSUME IInv, CancelRun
    PROVE  IInv'
  <1> USE DEF IInv
  <1>1. recipient' \in [Recipients -> RecipientRecords]
    <2>1. "canceled" \in RecipientStatus
      BY DEF RecipientStatus
    <2> QED
      BY ZenonT(60), <2>1 DEF CancelRun, CloseRun, TypeOK, RecipientRecords
  <1>2. run' \in RunRecords
    BY DEF CancelRun, CloseRun, RunRecords, TerminalRun
  <1>3. /\ log' \in [Recipients -> LogStatus]
        /\ \A r \in Recipients : log'[r] = log[r] \/ log'[r] = "canceled"
    BY DEF CancelRun, CloseRun, TypeOK, LogStatus, SendFailure
  <1>4. reservation' \in [Waves -> ReservationRecords]
    BY DEF CancelRun, CloseRun, TypeOK, ReservationRecords
  <1>5. budget' \in [crashes : Nat, raises : Nat, operator : Nat]
    <2>1. budget.operator > 0 /\ budget' = [budget EXCEPT !.operator = @ - 1]
      BY DEF CancelRun, CloseRun
    <2> QED
      BY <2>1 DEF TypeOK
  <1>6. TypeOK'
    BY <1>1, <1>2, <1>3, <1>4, <1>5 DEF CancelRun, CloseRun, TypeOK
  <1>7. "canceled" \notin PreSubmit
    BY DEF PreSubmit, SendPending
  <1>8. SubmittedNeverSendable'
    BY <1>3, <1>7 DEF CancelRun, CloseRun, SubmissionInv, SubmittedNeverSendable
  <1>9. worker.pc \notin {"confirm", "send", "provider", "record"}
    BY DEF CancelRun, CloseRun, RunLocked
  <1>10. \A r \in Recipients : worker'.cur = r => WorkerPoint(r)'
    BY <1>3, <1>9 DEF CancelRun, CloseRun, SubmissionInv, WorkerPoint, SlotHeldByWorker
  <1> QED
    BY <1>6, <1>8, <1>10 DEF CancelRun, CloseRun, SubmissionInv, AtMostOneSubmission,
       SelectorBeforeSubmission

LEMMA OperatorInv ==
    ASSUME IInv, PauseCampaign \/ ActivateCampaign \/ (\E w \in Waves : ApproveWave(w))
    PROVE  IInv' /\ Quiet
  <1> USE DEF IInv
  <1>1. CASE PauseCampaign \/ ActivateCampaign
    <2>1. TypeOK'
      BY <1>1 DEF PauseCampaign, ActivateCampaign, TypeOK
    <2>2. worker.pc # "provider"
      BY <1>1 DEF PauseCampaign, ActivateCampaign, RunLocked
    <2> QED
      BY <1>1, <2>1, <2>2 DEF PauseCampaign, ActivateCampaign, SubmissionInv,
         AtMostOneSubmission, SubmittedNeverSendable, SelectorBeforeSubmission,
         WorkerPoint, SlotHeldByWorker, Quiet, NoNewIntent
  <1>2. ASSUME NEW w \in Waves, ApproveWave(w)
        PROVE  IInv' /\ Quiet
    <2>1. recipient' \in [Recipients -> RecipientRecords]
      <3>1. "pending" \in RecipientStatus
        BY DEF RecipientStatus
      <3> QED
        BY <1>2, <3>1 DEF ApproveWave, TypeOK, RecipientRecords
    <2>2. \A r \in Recipients : recipient[r].status = "processing"
                                  => recipient'[r].status = "processing"
      BY <1>2 DEF ApproveWave
    <2>3. TypeOK'
      BY <1>2, <2>1 DEF ApproveWave, TypeOK
    <2> QED
      BY <1>2, <2>2, <2>3 DEF ApproveWave, SubmissionInv, AtMostOneSubmission,
         SubmittedNeverSendable, SelectorBeforeSubmission, WorkerPoint, SlotHeldByWorker,
         Quiet, NoNewIntent
  <1> QED
    BY <1>1, <1>2

LEMMA SelectorReadInv ==
    ASSUME IInv, NEW r \in Recipients, SelectorOpen(r) \/ SelectorTurn(r)
    PROVE  IInv' /\ Quiet
  <1> USE DEF IInv
  <1>1. selector'.cur = r /\ submitted[r] = 0
    <2>1. CASE SelectorOpen(r)
      <3>1. log[r] \in PreSubmit
        BY <2>1 DEF SelectorOpen, LoadContest, PreSubmit, SendPending
      <3> QED
        BY <2>1, <3>1 DEF SelectorOpen, LoadContest, SubmissionInv,
           SubmittedNeverSendable, TypeOK, SelectorRecords
    <2>2. CASE SelectorTurn(r)
      BY <2>2 DEF SelectorTurn, SubmissionInv, SelectorBeforeSubmission, TypeOK,
         SelectorRecords
    <2> QED
      BY <2>1, <2>2
  <1>2. selector' \in SelectorRecords
    BY ZenonT(60) DEF SelectorOpen, LoadContest, SelectorTurn, TypeOK, SelectorRecords
  <1>3. TypeOK'
    BY <1>2 DEF SelectorOpen, LoadContest, SelectorTurn, TypeOK
  <1>4. \A q \in Recipients : worker'.cur = q => WorkerPoint(q)'
    <2>1. CASE SelectorOpen(r)
      <3>1. log[r] \in {"candidate", "campaign_selected"}
        BY <2>1 DEF SelectorOpen, LoadContest
      <3> QED
        BY <1>1, <2>1, <3>1 DEF SelectorOpen, LoadContest, SubmissionInv, WorkerPoint,
           SlotHeldByWorker
    <2>2. CASE SelectorTurn(r)
      <3>1. selector'.cur = selector.cur
        BY <1>1, <2>2 DEF SelectorTurn
      <3> QED
        BY <2>2, <3>1 DEF SelectorTurn, SubmissionInv, WorkerPoint, SlotHeldByWorker
    <2> QED
      BY <2>1, <2>2
  <1> QED
    BY <1>1, <1>3, <1>4 DEF SelectorOpen, LoadContest, SelectorTurn, SubmissionInv,
       AtMostOneSubmission, SubmittedNeverSendable, SelectorBeforeSubmission, Quiet,
       NoNewIntent

\* However the selector ends with a row, it was not submitted by the campaign
\* worker and the row does not become an intent.
LEMMA SelectorEndInv ==
    ASSUME IInv, NEW r \in Recipients,
           SelectorSettles(r) \/ SelectorSends(r) \/ SelectorRaises(r)
    PROVE  IInv' /\ Quiet
  <1> USE DEF IInv
  <1>0. NoOne \notin Recipients
    BY RecipientsAssumption
  <1>1. selector.cur = r /\ submitted[r] = 0
    BY DEF SelectorSettles, SelectorSends, SelectorRaises, SubmissionInv,
       SelectorBeforeSubmission
  <1>2. PICK l \in LogStatus \ {"submitting"} :
           log' = log \/ log' = [log EXCEPT ![r] = l]
    <2>1. CASE SelectorSettles(r)
      <3>1. Verdicts \subseteq LogStatus
        BY DEF Verdicts, TypeOK, SelectorRecords, LogStatus, SendPending, SendFailure
      <3>2. PICK verdict \in Verdicts :
               log' = IF verdict = selector.log THEN log
                      ELSE [log EXCEPT ![r] = verdict]
        BY <2>1 DEF SelectorSettles
      <3>3. verdict # selector.log => verdict # "submitting"
        BY <3>2 DEF Verdicts
      <3>4. CASE verdict = selector.log
        <4>1. "expired" \in LogStatus \ {"submitting"}
          BY DEF LogStatus, SendFailure
        <4> QED
          BY <3>2, <3>4, <4>1
      <3> QED
        BY <3>1, <3>2, <3>3, <3>4
    <2>2. CASE SelectorSends(r)
      BY <2>2 DEF SelectorSends, LogStatus, SendPending, SendSuccess, SendFailure
    <2>3. CASE SelectorRaises(r)
      BY <2>3 DEF SelectorRaises, LogStatus, SendFailure
    <2> QED
      BY <2>1, <2>2, <2>3
  <1>3. /\ log' \in [Recipients -> LogStatus]
        /\ \A q \in Recipients : q # r => log'[q] = log[q]
        /\ NoNewIntent
    BY <1>2 DEF TypeOK, NoNewIntent
  <1>4. selector' \in SelectorRecords /\ selector'.cur = NoOne
    <2>1. \A S \in SUBSET Recipients :
             [selector EXCEPT !.cur = NoOne, !.log = "none", !.ttl = "none", !.sent = S]
                \in SelectorRecords
      BY DEF TypeOK, SelectorRecords, LogStatus
    <2>2. CASE SelectorClosed
      BY <2>2 DEF SelectorClosed, TypeOK, SelectorRecords, LogStatus
    <2>3. CASE selector' = [selector EXCEPT !.cur = NoOne, !.log = "none",
                                            !.ttl = "none", !.sent = @ \cup {r}]
      <3>1. selector.sent \cup {r} \in SUBSET Recipients
        BY DEF TypeOK, SelectorRecords
      <3>2. selector'.cur = NoOne
        BY <2>3 DEF TypeOK, SelectorRecords
      <3> QED
        BY <2>1, <2>3, <3>1, <3>2
    <2> QED
      BY <2>2, <2>3 DEF SelectorSettles, SelectorSends, SelectorRaises
  <1>5. budget' \in [crashes : Nat, raises : Nat, operator : Nat]
    BY DEF SelectorSettles, SelectorSends, SelectorRaises, TypeOK
  <1>6. UNCHANGED <<recipient, ttl, run, wave, campaign, reservation, ledger, alerts,
                    submitted, worker>>
    BY DEF SelectorSettles, SelectorSends, SelectorRaises
  <1>7. TypeOK'
    BY <1>3, <1>4, <1>5, <1>6 DEF TypeOK
  <1>8. \A q \in Recipients : worker'.cur = q => WorkerPoint(q)'
    <2> SUFFICES ASSUME NEW q \in Recipients, worker.cur = q
                 PROVE  WorkerPoint(q)'
      BY <1>6
    <2>1. WorkerPoint(q)
      BY DEF SubmissionInv
    <2> QED
      BY <1>0, <1>1, <1>3, <1>4, <1>6, <2>1 DEF WorkerPoint, SlotHeldByWorker
  <1> QED
    BY <1>0, <1>1, <1>3, <1>4, <1>6, <1>7, <1>8 DEF SubmissionInv,
       AtMostOneSubmission, SubmittedNeverSendable, SelectorBeforeSubmission, Quiet

LEMMA TtlInv ==
    ASSUME IInv, NEW r \in Recipients, TtlPasses(r)
    PROVE  IInv' /\ Quiet
  <1> USE DEF IInv
  <1>1. TypeOK'
    BY DEF TtlPasses, TypeOK
  <1> QED
    BY <1>1 DEF TtlPasses, SubmissionInv, AtMostOneSubmission, SubmittedNeverSendable,
       SelectorBeforeSubmission, WorkerPoint, SlotHeldByWorker, Quiet, NoNewIntent

LEMMA ProviderReportsInv ==
    ASSUME IInv, NEW r \in Recipients, ProviderReports(r)
    PROVE  IInv' /\ Quiet
  <1> USE DEF IInv
  <1>1. PICK l \in {"failed", "sent", "delivered"} : log' = [log EXCEPT ![r] = l]
    BY DEF ProviderReports, SendSuccess
  <1>2. l \in LogStatus \ PreSubmit
    BY DEF LogStatus, SendSuccess, SendFailure, PreSubmit, SendPending
  <1>3. TypeOK'
    BY <1>1, <1>2 DEF ProviderReports, TypeOK
  <1>4. \A q \in Recipients : worker'.cur = q => WorkerPoint(q)'
    <2> SUFFICES ASSUME NEW q \in Recipients, worker.cur = q
                 PROVE  WorkerPoint(q)'
      BY DEF ProviderReports
    <2>1. WorkerPoint(q)
      BY DEF SubmissionInv
    <2>2. CASE q = r
      BY <2>1, <2>2 DEF ProviderReports, LogRowLocked, WorkerPoint, SlotHeldByWorker
    <2>3. CASE q # r
      BY <1>1, <2>1, <2>3 DEF ProviderReports, TypeOK, WorkerPoint, SlotHeldByWorker
    <2> QED
      BY <2>2, <2>3
  <1>5. SubmittedNeverSendable'
    BY <1>1, <1>2 DEF ProviderReports, TypeOK, SubmissionInv, SubmittedNeverSendable
  <1>6. NoNewIntent
    BY <1>1 DEF TypeOK, NoNewIntent
  <1> QED
    BY <1>3, <1>4, <1>5, <1>6 DEF ProviderReports, SubmissionInv, AtMostOneSubmission,
       SelectorBeforeSubmission, Quiet

-----------------------------------------------------------------------------
(* The theorems *)

LEMMA InitInv == Init => IInv
  <1> SUFFICES ASSUME Init
               PROVE  IInv
    OBVIOUS
  <1>1. PICK old \in [LegacyDeferred -> {"deferred", "sent", "expired"}] :
           /\ log = [r \in Recipients |->
                        IF r \in LegacyDeferred THEN old[r] ELSE "none"]
           /\ submitted = [r \in Recipients |->
                        IF r \in LegacyDeferred /\ old[r] = "sent" THEN 1 ELSE 0]
           /\ ledger = {r \in LegacyDeferred : old[r] = "sent"}
    BY DEF Init
  <1>2. recipient \in [Recipients -> RecipientRecords]
    BY DEF Init, RecipientRecords, RecipientStatus
  <1>3. log \in [Recipients -> LogStatus] /\ submitted \in [Recipients -> Nat]
    BY <1>1 DEF LogStatus, SendPending, SendSuccess, SendFailure
  <1>4. ledger \in SUBSET Recipients
    BY <1>1, WaveAssumption
  <1>5. ttl \in [Recipients -> {"none", "live", "past"}] /\ run \in RunRecords
    BY DEF Init, RunRecords
  <1>6. reservation \in [Waves -> ReservationRecords]
    BY WaveAssumption DEF Init, ReservationRecords
  <1>7. wave \in [Waves -> {"held", "planned", "running", "completed"}]
    BY DEF Init
  <1>8. Idle \in WorkerRecords /\ Idle.pc = "cycle"
    BY DEF Idle, WorkerRecords, NoView, Views, LogStatus, Points, Outcomes
  <1>9. selector \in SelectorRecords /\ selector.cur = NoOne
    BY DEF Init, SelectorRecords, LogStatus
  <1>10. budget \in [crashes : Nat, raises : Nat, operator : Nat]
    BY BoundsAssumption DEF Init
  <1>11. TypeOK
    BY <1>2, <1>3, <1>4, <1>5, <1>6, <1>7, <1>8, <1>9, <1>10 DEF Init, TypeOK
  <1>12. AtMostOneSubmission /\ SubmittedNeverSendable
    BY <1>1 DEF AtMostOneSubmission, SubmittedNeverSendable, PreSubmit, SendPending
  <1> QED
    BY <1>8, <1>9, <1>11, <1>12, RecipientsAssumption DEF Init, IInv, SubmissionInv,
       SelectorBeforeSubmission, WorkerPoint, SlotHeldByWorker

\* Every step keeps the invariant, and is quiet but for four of them.
LEMMA NextInv ==
    ASSUME IInv, [Next]_vars
    PROVE  /\ IInv'
           /\ \/ Quiet
              \/ CancelRun
              \/ \E r \in Recipients : CommitIntent(r) \/ ProviderCall(r)
  <1>1. CASE Maintenance
    BY <1>1, MaintenanceInv
  <1>2. CASE RefreshRead \/ RefreshWrite
    BY <1>2, RefreshReadInv, RefreshWriteInv
  <1>3. ASSUME NEW r \in Recipients,
               \/ Claim(r) \/ LoadDispatch(r) \/ SelectorOpen(r) \/ SelectorTurn(r)
               \/ SelectorSettles(r) \/ SelectorSends(r)
        PROVE  IInv' /\ Quiet
    BY <1>3, ClaimInv, LoadDispatchInv, SelectorReadInv, SelectorEndInv
  <1>4. ASSUME NEW r \in Recipients, DispatchStep(r)
        PROVE  IInv' /\ (Quiet \/ CommitIntent(r) \/ ProviderCall(r))
    BY <1>4, EarlyReturnInv, HandOffInv, SubmissionStepInv, CompletionInv
       DEF DispatchStep
  <1>5. CASE Environment
    BY <1>5, CrashInv, OperatorInv, CancelRunInv, DispatchRaisesInv,
       SelectorEndInv, TtlInv, ProviderReportsInv DEF Environment
  <1>6. CASE UNCHANGED vars
    BY <1>6 DEF vars, IInv, TypeOK, SubmissionInv, AtMostOneSubmission,
       SubmittedNeverSendable, SelectorBeforeSubmission, WorkerPoint, SlotHeldByWorker,
       Quiet, NoNewIntent
  <1> QED
    BY <1>1, <1>2, <1>3, <1>4, <1>5, <1>6 DEF Next

\* A cancellation submits nothing and makes no intent.
LEMMA CancelStep ==
    ASSUME CancelRun, IInv
    PROVE  UNCHANGED submitted /\ NoNewIntent /\ run'.cancel = TRUE
  BY DEF CancelRun, CloseRun, NoNewIntent, IInv, TypeOK

\* What holds when an intent is committed, and what the step does.
LEMMA IntentStep ==
    ASSUME IInv, NEW r \in Recipients, CommitIntent(r)
    PROVE  /\ log' = [log EXCEPT ![r] = "submitting"]
           /\ log[r] = "campaign_selected" /\ selector.cur # r
           /\ submitted[r] = 0
           /\ UNCHANGED <<submitted, run>>
  BY DEF CommitIntent, AtPoint, IInv, SubmissionInv, WorkerPoint, SlotHeldByWorker,
         EarlyReturnUnchanged

\* What holds when the provider is called, and what the step does.
LEMMA SubmitStep ==
    ASSUME IInv, NEW r \in Recipients, ProviderCall(r)
    PROVE  /\ submitted' = [submitted EXCEPT ![r] = @ + 1]
           /\ submitted[r] = 0 /\ log[r] = "submitting"
           /\ ~run.cancel /\ campaign = "active"
           /\ recipient[r].status = "processing"
           /\ UNCHANGED <<log, run>>
  BY DEF ProviderCall, AtPoint, IInv, SubmissionInv, WorkerPoint

\* IInv is an inductive invariant of the dispatch, whatever the recipients, the
\* waves, the number of attempts, crashes, exceptions and operator calls.
THEOREM Invariance == Spec => []IInv
  <1>1. Init => IInv
    BY InitInv
  <1>2. IInv /\ [Next]_vars => IInv'
    BY NextInv
  <1> QED
    BY <1>1, <1>2, PTL DEF Spec

\* Every variable keeps its type.
THEOREM TypeCorrectness == Spec => []TypeOK
  <1>1. IInv => TypeOK
    BY DEF IInv
  <1> QED
    BY <1>1, Invariance, PTL

\* At every point between the claim and the provider's outcome the locks still
\* hold what the worker read, and nothing submitted is sendable again.
THEOREM SubmissionInvariance == Spec => []SubmissionInv
  <1>1. IInv => SubmissionInv
    BY DEF IInv
  <1> QED
    BY <1>1, Invariance, PTL

\* The provider is called at most once for a recipient (_dispatch, send).
THEOREM NoDuplicateSubmission == Spec => []AtMostOneSubmission
  <1>1. IInv => AtMostOneSubmission
    BY DEF IInv, SubmissionInv
  <1> QED
    BY <1>1, Invariance, PTL

\* The provider is called only for a claimed recipient with a durable intent, of a
\* run and a campaign that are live (_campaign_submission_gate).
THEOREM SubmissionOnlyWhileLive == Spec => SubmitsOnlyWhileLive
  <1> DEFINE Live == \A r \in Recipients : submitted'[r] # submitted[r] =>
                        /\ ~run.cancel
                        /\ campaign = "active"
                        /\ recipient[r].status = "processing"
                        /\ log[r] = "submitting"
  <1>1. IInv /\ [Next]_vars => [Live]_vars
    <2> SUFFICES ASSUME IInv, [Next]_vars
                 PROVE  Live
      OBVIOUS
    <2>1. CASE Quiet \/ CancelRun
      BY <2>1, CancelStep DEF Quiet
    <2>2. ASSUME NEW r \in Recipients, CommitIntent(r)
          PROVE  Live
      BY <2>2, IntentStep
    <2>3. ASSUME NEW r \in Recipients, ProviderCall(r)
          PROVE  Live
      BY <2>3, SubmitStep DEF IInv, TypeOK
    <2> QED
      BY <2>1, <2>2, <2>3, NextInv
  <1> QED
    BY <1>1, Invariance, PTL DEF Spec, SubmitsOnlyWhileLive

\* An intent is committed only for a row that holds its attention reservation, in
\* a slot that no selector is arbitrating (_confirm_attention_selection).
THEOREM IntentsOwnAttention == Spec => IntentOwnsAttention
  <1> DEFINE Owned == \A r \in Recipients :
                         log'[r] = "submitting" /\ log[r] # "submitting" =>
                            /\ log[r] = "campaign_selected"
                            /\ selector.cur # r
  <1>1. IInv /\ [Next]_vars => [Owned]_vars
    <2> SUFFICES ASSUME IInv, [Next]_vars
                 PROVE  Owned
      OBVIOUS
    <2>1. CASE Quiet \/ CancelRun
      BY <2>1, CancelStep DEF Quiet, NoNewIntent
    <2>2. ASSUME NEW r \in Recipients, CommitIntent(r)
          PROVE  Owned
      BY <2>2, IntentStep DEF IInv, TypeOK
    <2>3. ASSUME NEW r \in Recipients, ProviderCall(r)
          PROVE  Owned
      BY <2>3, SubmitStep
    <2> QED
      BY <2>1, <2>2, <2>3, NextInv
  <1> QED
    BY <1>1, Invariance, PTL DEF Spec, IntentOwnsAttention

-----------------------------------------------------------------------------
(* CampaignDispatch implements SubmissionContract *)

LEMMA StageOf ==
    ASSUME IInv, NEW r \in Recipients
    PROVE  /\ submitted[r] \in Nat
           /\ Stage[r] = IF submitted[r] > 0 THEN "submitted"
                         ELSE IF log[r] = "submitting" THEN "intended" ELSE "idle"
  BY DEF Stage, IInv, TypeOK

\* A step without a new intent or submission withdraws the intents it drops.
LEMMA WithdrawStep ==
    ASSUME UNCHANGED submitted, NoNewIntent
    PROVE  \E T \in SUBSET Recipients : Contract!Withdraw(T)
  <1> DEFINE T == {r \in Recipients : Stage[r] = "intended" /\ Stage'[r] # "intended"}
  <1>1. Stage' = [r \in Recipients |-> IF r \in T THEN "idle" ELSE Stage[r]]
    BY DEF Stage, NoNewIntent
  <1>2. \A r \in T : Stage[r] = "intended"
    OBVIOUS
  <1>3. T \in SUBSET Recipients
    OBVIOUS
  <1> HIDE DEF T
  <1>4. Contract!Withdraw(T)
    BY <1>1, <1>2 DEF Contract!Withdraw
  <1> QED
    BY <1>3, <1>4

LEMMA ContractStep ==
    ASSUME IInv, [Next]_vars
    PROVE  [Contract!Next]_<<Stage, run.cancel>>
  <1>1. CASE Quiet
    BY <1>1, WithdrawStep DEF Quiet, Contract!Next
  <1>2. CASE CancelRun
    BY <1>2, CancelStep, WithdrawStep DEF Contract!Next, Contract!Cancel
  <1>3. ASSUME NEW r \in Recipients, CommitIntent(r)
        PROVE  Contract!Next
    <2>1. Stage[r] = "idle"
      BY <1>3, IntentStep, StageOf
    <2>2. Stage' = [Stage EXCEPT ![r] = "intended"]
      <3>1. ASSUME NEW q \in Recipients
            PROVE  Stage'[q] = IF q = r THEN "intended" ELSE Stage[q]
        <4>1. CASE q = r
          BY <1>3, <4>1, IntentStep DEF Stage, IInv, TypeOK
        <4>2. CASE q # r
          BY <1>3, <4>2, IntentStep DEF Stage, IInv, TypeOK
        <4> QED
          BY <4>1, <4>2
      <3> QED
        BY <3>1 DEF Stage
    <2>3. UNCHANGED run.cancel
      BY <1>3, IntentStep
    <2> QED
      BY <2>1, <2>2, <2>3 DEF Contract!Next, Contract!Intend
  <1>4. ASSUME NEW r \in Recipients, ProviderCall(r)
        PROVE  Contract!Next
    <2>1. Stage[r] = "intended" /\ ~run.cancel
      BY <1>4, SubmitStep, StageOf
    <2>2. Stage' = [Stage EXCEPT ![r] = "submitted"]
      <3>1. ASSUME NEW q \in Recipients
            PROVE  Stage'[q] = IF q = r THEN "submitted" ELSE Stage[q]
        <4>1. CASE q = r
          BY <1>4, <4>1, SubmitStep DEF Stage, IInv, TypeOK
        <4>2. CASE q # r
          BY <1>4, <4>2, SubmitStep DEF Stage, IInv, TypeOK
        <4> QED
          BY <4>1, <4>2
      <3> QED
        BY <3>1 DEF Stage
    <2>3. UNCHANGED run.cancel
      BY <1>4, SubmitStep
    <2> QED
      BY <2>1, <2>2, <2>3 DEF Contract!Next, Contract!Submit
  <1> QED
    BY <1>1, <1>2, <1>3, <1>4, NextInv

LEMMA ContractInit == Init => Contract!Init
  <1> SUFFICES ASSUME Init
               PROVE  Contract!Init
    OBVIOUS
  <1>1. run.cancel = FALSE
    BY DEF Init
  <1>2. \A r \in Recipients : log[r] # "submitting"
    BY DEF Init
  <1>3. Stage \in [Recipients -> {"idle", "submitted"}]
    BY <1>2 DEF Stage
  <1> QED
    BY <1>1, <1>3 DEF Contract!Init

\* The campaign dispatcher keeps the contract of submissions: intent before
\* submission, at most one submission, none after the cancellation.
THEOREM Implementation == Spec => ImplementsContract
  <1>1. Init => Contract!Init
    BY ContractInit
  <1>2. IInv /\ [Next]_vars => [Contract!Next]_<<Stage, run.cancel>>
    BY ContractStep
  <1> QED
    BY <1>1, <1>2, Invariance, PTL DEF Spec, ImplementsContract, Contract!Spec

-----------------------------------------------------------------------------
(* How a campaign run ends: completed runs and waves stay quiet, every      *)
(* reported success is accounted for, and crashes never make one message    *)
(* consume two units of capacity.  The inductive invariant.                 *)

\* Points at which the worker still owes its recipient an ending.
InHand == DispatchPoints \ {"refresh", "refresh_write"}

\* What holds of the recipient the worker is busy with.  After its ending, only
\* an exception inside the refresh can make it pending again: its wave and its
\* run must not have been closed without a cancellation until then.
Holding(r) ==
    /\ worker.pc \in InHand => recipient[r].status = "processing"
    /\ worker.pc \in {"refresh", "refresh_write"} =>
          /\ recipient[r].status # "deferred"
          /\ wave[WaveOf[r]] # "completed"
          /\ run.status \in TerminalRun => run.cancel
    /\ worker.pc = "refresh" => worker.touched = {WaveOf[r]}
    /\ worker.pc = "refresh_write" => worker.touched = {}

\* What _refresh_run counted is still so when it writes.
RememberedQuiet ==
    worker.pc = "refresh_write" =>
        /\ worker.quiet = "run" => RunQuiescent
        /\ worker.quiet # "no" => \A w \in worker.target : WaveQuiescent(w)

QuietInv ==
    /\ worker.pc \in {"cycle", "dispatch"} => worker.cur = NoOne
    /\ \A r \in Recipients : worker.cur = r => Holding(r)
    /\ RememberedQuiet
    /\ TerminalRunIsQuiet
    /\ CompletedWaveIsQuiet
    /\ TerminalRunHoldsNoCapacity

\* The message was given to the provider, by whichever of the two workers.
Handed(r) == submitted[r] > 0 \/ r \in selector.sent

Accounted(r) == r \in ledger \cup alerts

\* The worker goes for a success only with a message that was handed over.
Carrying(r) ==
    /\ worker.pc = "decide" /\ worker.view.log \in SendSuccess => Handed(r)
    /\ worker.pc \in {"record", "consume", "ledger", "finish"} => Handed(r)
    /\ worker.pc = "finish" => Accounted(r)

\* A legacy deferral was submitted and recorded by the release that made it, or
\* nothing but its own reclaim can lead it to the provider.
Legacy(r) ==
    recipient[r].status = "deferred" =>
        /\ selector.cur # r
        /\ \/ submitted[r] > 0 /\ r \in ledger
           \/ submitted[r] = 0 /\ log[r] \in {"deferred", "expired"}

AccountingInv ==
    /\ \A r \in Recipients : log[r] \in SendSuccess => Handed(r)
    /\ \A r \in Recipients : worker.cur = r => Carrying(r)
    /\ \A r \in Recipients : Legacy(r)
    /\ SuccessIsAccounted

\* A recipient that pays for its message already: without an exception it never
\* comes to _consume_capacity again with its marker unset.
Charged(r) ==
    /\ Handed(r)
    /\ recipient[r].marker \/ recipient[r].status \notin ActiveStatus

ChargedIn(w) == {r \in Recipients : WaveOf[r] = w /\ Charged(r)}

CapacityInv ==
    /\ budget.raises <= MaxRaises
    /\ \A w \in Waves : reservation[w].consumed <=
            Cardinality(ChargedIn(w)) + (MaxRaises - budget.raises)

OutcomeInv == QuietInv /\ AccountingInv /\ CapacityInv

\* Nothing that was handed over or accounted for is forgotten.
AccountsGrow ==
    \A r \in Recipients : /\ Handed(r) => Handed(r)'
                          /\ Accounted(r) => Accounted(r)'

-----------------------------------------------------------------------------
(* Counting the recipients that are charged *)

LEMMA ChargedCount ==
    ASSUME NEW w \in Waves
    PROVE  /\ IsFiniteSet(ChargedIn(w)) /\ Cardinality(ChargedIn(w)) \in Nat
           /\ IsFiniteSet(ChargedIn(w)') /\ Cardinality(ChargedIn(w)') \in Nat
  <1>1. ChargedIn(w) \subseteq Recipients /\ ChargedIn(w)' \subseteq Recipients
    BY DEF ChargedIn
  <1> QED
    BY <1>1, FiniteAssumption, FS_Subset, FS_CardinalityType

\* A step that draws on no reservation and releases no charge.
LEMMA ChargesKept ==
    ASSUME IInv, IInv', CapacityInv,
           \A r \in Recipients : Charged(r) => Charged(r)',
           \A w \in Waves : reservation'[w].consumed = reservation[w].consumed,
           budget'.raises <= budget.raises
    PROVE  CapacityInv'
  <1>1. /\ budget.raises \in Nat /\ budget'.raises \in Nat /\ MaxRaises \in Nat
        /\ \A w \in Waves : reservation[w].consumed \in Nat
    BY BoundsAssumption DEF IInv, TypeOK, ReservationRecords
  <1>2. ASSUME NEW w \in Waves
        PROVE  Cardinality(ChargedIn(w)) <= Cardinality(ChargedIn(w)')
    <2>1. ChargedIn(w) \subseteq ChargedIn(w)'
      BY DEF ChargedIn
    <2> QED
      BY <2>1, ChargedCount, FS_Subset
  <1>3. ASSUME NEW w \in Waves
        PROVE  reservation'[w].consumed <=
                  Cardinality(ChargedIn(w)') + (MaxRaises - budget'.raises)
    <2>1. reservation[w].consumed <= Cardinality(ChargedIn(w)) + (MaxRaises - budget.raises)
      BY DEF CapacityInv
    <2> QED
      BY <1>1, <1>2, <2>1, ChargedCount DEF CapacityInv
  <1> QED
    BY <1>1, <1>3 DEF CapacityInv

\* An exception may release one charge: its recipient may consume once more.
LEMMA ChargeLost ==
    ASSUME IInv, IInv', CapacityInv, NEW r \in Recipients,
           \A q \in Recipients : q # r /\ Charged(q) => Charged(q)',
           \A w \in Waves : reservation'[w].consumed = reservation[w].consumed,
           budget'.raises = budget.raises - 1
    PROVE  CapacityInv'
  <1>1. /\ budget.raises \in Nat /\ budget'.raises \in Nat /\ MaxRaises \in Nat
        /\ \A w \in Waves : reservation[w].consumed \in Nat
    BY BoundsAssumption DEF IInv, TypeOK, ReservationRecords
  <1>2. ASSUME NEW w \in Waves
        PROVE  Cardinality(ChargedIn(w)) <= Cardinality(ChargedIn(w)') + 1
    <2>1. ChargedIn(w) \ {r} \subseteq ChargedIn(w)'
      BY DEF ChargedIn
    <2>2. Cardinality(ChargedIn(w) \ {r}) <= Cardinality(ChargedIn(w)')
      BY <2>1, ChargedCount, FS_Subset
    <2>3. /\ IsFiniteSet(ChargedIn(w) \ {r})
          /\ Cardinality(ChargedIn(w) \ {r}) =
                IF r \in ChargedIn(w) THEN Cardinality(ChargedIn(w)) - 1
                ELSE Cardinality(ChargedIn(w))
      BY ChargedCount, FS_RemoveElement
    <2> QED
      BY <2>2, <2>3, ChargedCount
  <1>3. ASSUME NEW w \in Waves
        PROVE  reservation'[w].consumed <=
                  Cardinality(ChargedIn(w)') + (MaxRaises - budget'.raises)
    <2>1. reservation[w].consumed <= Cardinality(ChargedIn(w)) + (MaxRaises - budget.raises)
      BY DEF CapacityInv
    <2> QED
      BY <1>1, <1>2, <2>1, ChargedCount DEF CapacityInv
  <1> QED
    BY <1>1, <1>3 DEF CapacityInv

\* A unit is consumed for a recipient that was not charged, and charges it.
LEMMA ChargeMade ==
    ASSUME IInv, IInv', CapacityInv, NEW r \in Recipients,
           ~Charged(r), Charged(r)',
           \A q \in Recipients : Charged(q) => Charged(q)',
           reservation'[WaveOf[r]].consumed = reservation[WaveOf[r]].consumed + 1,
           \A w \in Waves : w # WaveOf[r] =>
                reservation'[w].consumed = reservation[w].consumed,
           budget'.raises = budget.raises
    PROVE  CapacityInv'
  <1>1. /\ budget.raises \in Nat /\ MaxRaises \in Nat
        /\ \A w \in Waves : reservation[w].consumed \in Nat
    BY BoundsAssumption DEF IInv, TypeOK, ReservationRecords
  <1>2. ASSUME NEW w \in Waves
        PROVE  /\ Cardinality(ChargedIn(w)) <= Cardinality(ChargedIn(w)')
               /\ w = WaveOf[r] =>
                     Cardinality(ChargedIn(w)) + 1 <= Cardinality(ChargedIn(w)')
    <2>1. ChargedIn(w) \subseteq ChargedIn(w)'
      BY DEF ChargedIn
    <2>2. Cardinality(ChargedIn(w)) <= Cardinality(ChargedIn(w)')
      BY <2>1, ChargedCount, FS_Subset
    <2>3. ASSUME w = WaveOf[r]
          PROVE  Cardinality(ChargedIn(w)) + 1 <= Cardinality(ChargedIn(w)')
      <3>1. r \notin ChargedIn(w) /\ r \in ChargedIn(w)'
        BY <2>3 DEF ChargedIn
      <3>2. ChargedIn(w) \cup {r} \subseteq ChargedIn(w)'
        BY <2>1, <3>1
      <3>3. /\ IsFiniteSet(ChargedIn(w) \cup {r})
            /\ Cardinality(ChargedIn(w) \cup {r}) = Cardinality(ChargedIn(w)) + 1
        BY <3>1, ChargedCount, FS_AddElement
      <3> QED
        BY <3>2, <3>3, ChargedCount, FS_Subset
    <2> QED
      BY <2>2, <2>3
  <1>3. ASSUME NEW w \in Waves
        PROVE  reservation'[w].consumed <=
                  Cardinality(ChargedIn(w)') + (MaxRaises - budget'.raises)
    <2>1. reservation[w].consumed <= Cardinality(ChargedIn(w)) + (MaxRaises - budget.raises)
      BY DEF CapacityInv
    <2>2. reservation'[w].consumed = IF w = WaveOf[r] THEN reservation[w].consumed + 1
                                     ELSE reservation[w].consumed
      OBVIOUS
    <2> QED
      BY <1>1, <1>2, <2>1, <2>2, ChargedCount DEF CapacityInv
  <1> QED
    BY <1>1, <1>3 DEF CapacityInv

\* What is charged was handed over, so the invariant bounds what was consumed.
LEMMA CapacityFromInv ==
    ASSUME IInv, CapacityInv
    PROVE  CapacityConsumedOnce
  <1> SUFFICES ASSUME NEW w \in Waves
               PROVE  reservation[w].consumed <=
                        Cardinality({r \in Recipients :
                            WaveOf[r] = w /\ (submitted[r] > 0 \/ r \in selector.sent)})
                        + (MaxRaises - budget.raises)
    BY DEF CapacityConsumedOnce
  <1> DEFINE sent == {r \in Recipients :
                        WaveOf[r] = w /\ (submitted[r] > 0 \/ r \in selector.sent)}
  <1>1. ChargedIn(w) \subseteq sent
    BY DEF ChargedIn, Charged, Handed
  <1>2. sent \subseteq Recipients
    OBVIOUS
  <1> HIDE DEF sent
  <1>3. IsFiniteSet(sent) /\ Cardinality(sent) \in Nat
    BY <1>2, FiniteAssumption, FS_Subset, FS_CardinalityType
  <1>4. Cardinality(ChargedIn(w)) <= Cardinality(sent)
    BY <1>1, <1>3, FS_Subset
  <1>5. budget.raises \in Nat /\ MaxRaises \in Nat /\ reservation[w].consumed \in Nat
    BY BoundsAssumption DEF IInv, TypeOK, ReservationRecords
  <1>6. reservation[w].consumed <= Cardinality(sent) + (MaxRaises - budget.raises)
    BY <1>3, <1>4, <1>5, ChargedCount DEF CapacityInv
  <1> QED
    BY <1>6 DEF sent
-----------------------------------------------------------------------------
(* The ending of a dispatch *)

\* Statuses in which a recipient can be left for good.
Over == {"sent", "delivered", "skipped", "failed", "canceled"}

\* The recipient is closed or goes back to the queue, with its marker, and its
\* row is not made a success.
Ends(r) ==
    /\ Committed(r)
    /\ \A q \in Recipients : q # r => recipient'[q] = recipient[q] /\ log'[q] = log[q]
    /\ log'[r] \in SendSuccess => log[r] \in SendSuccess
    /\ \/ recipient'[r].status \in Over
       \/ /\ recipient'[r].status = "pending"
          /\ recipient'[r].marker = recipient[r].marker

LEMMA FinishEnds ==
    ASSUME TypeOK, NEW r \in Recipients, NEW status \in Over, NEW l \in LogStatus,
           l \notin SendSuccess \/ l = log[r], Finish(r, status, l)
    PROVE  Ends(r) /\ recipient'[r].status = status
  <1>1. recipient'[r].status = status
    BY DEF Finish, TypeOK, RecipientRecords
  <1>2. log'[r] = Closed(status, l)
    BY DEF Finish, TypeOK
  <1>3. Closed(status, l) \in SendSuccess => log[r] \in SendSuccess
    BY DEF Closed, SendSuccess
  <1>4. \A q \in Recipients : q # r => recipient'[q] = recipient[q] /\ log'[q] = log[q]
    BY DEF Finish, TypeOK
  <1>5. Committed(r)
    BY DEF Finish
  <1> QED
    BY <1>1, <1>2, <1>3, <1>4, <1>5 DEF Ends

LEMMA RependEnds ==
    ASSUME TypeOK, NEW r \in Recipients, NEW l \in LogStatus, NEW attempts \in Nat,
           l \notin SendSuccess \/ l = log[r], Repend(r, l, attempts)
    PROVE  Ends(r) /\ recipient'[r].status = "pending"
  <1>1. recipient'[r].status = "pending" /\ recipient'[r].marker = recipient[r].marker
    BY DEF Repend, TypeOK, RecipientRecords
  <1>2. log'[r] = Returned(l)
    BY DEF Repend, TypeOK
  <1>3. Returned(l) \in SendSuccess => log[r] \in SendSuccess
    BY DEF Returned, SendSuccess
  <1>4. \A q \in Recipients : q # r => recipient'[q] = recipient[q] /\ log'[q] = log[q]
    BY DEF Repend, TypeOK
  <1>5. Committed(r)
    BY DEF Repend
  <1> QED
    BY <1>1, <1>2, <1>3, <1>4, <1>5 DEF Ends

LEMMA RequeueEnds ==
    ASSUME TypeOK, NEW r \in Recipients, NEW l \in LogStatus,
           l \notin SendSuccess \/ l = log[r], Requeue(r, l)
    PROVE  Ends(r) /\ recipient'[r].status = "pending"
  <1> DEFINE a == IF recipient[r].attempts > 0 THEN recipient[r].attempts - 1 ELSE 0
  <1>1. a \in Nat
    BY DEF TypeOK, RecipientRecords
  <1>2. Repend(r, l, a)
    BY DEF Requeue
  <1> HIDE DEF a
  <1> QED
    BY <1>1, <1>2, RependEnds

LEMMA RetryOrFailEnds ==
    ASSUME TypeOK, NEW r \in Recipients, NEW l \in LogStatus,
           NEW cancelSeen \in BOOLEAN,
           l \notin SendSuccess \/ l = log[r], RetryOrFail(r, l, cancelSeen)
    PROVE  /\ Ends(r)
           /\ recipient'[r].status \in {"pending", "failed"}
           /\ recipient'[r].status = "pending" => ~cancelSeen
  <1>1. recipient[r].attempts \in Nat
    BY DEF TypeOK, RecipientRecords
  <1>2. CASE recipient[r].attempts < MaxAttempts /\ ~cancelSeen
    <2>1. Repend(r, l, recipient[r].attempts)
      BY <1>2 DEF RetryOrFail
    <2> QED
      BY <1>1, <1>2, <2>1, RependEnds
  <1>3. CASE ~(recipient[r].attempts < MaxAttempts /\ ~cancelSeen)
    <2>1. Finish(r, "failed", l)
      BY <1>3 DEF RetryOrFail
    <2>2. "failed" \in Over
      BY DEF Over
    <2> QED
      BY <2>1, <2>2, FinishEnds
  <1> QED
    BY <1>2, <1>3

\* The variables an ending leaves alone; the ledger may gain an entry.
EndFrame ==
    /\ UNCHANGED <<run, wave, reservation, submitted, selector, alerts>>
    /\ ledger \subseteq ledger'

\* The worker was busy with the recipient: what the invariant says of it.
LEMMA BusyRow ==
    ASSUME IInv, QuietInv, NEW r \in Recipients, worker.cur = r,
           worker.pc \in DispatchPoints
    PROVE  /\ recipient[r].status # "deferred"
           /\ wave[WaveOf[r]] # "completed"
           /\ worker.pc \in InHand => run.status \notin TerminalRun
           /\ run.status \in TerminalRun => run.cancel
  <1>1. Holding(r) /\ WaveOf[r] \in Waves
    BY WaveAssumption DEF QuietInv
  <1>2. CASE worker.pc \in InHand
    <2>1. recipient[r].status = "processing" /\ "processing" \in ActiveStatus
      BY <1>1, <1>2 DEF Holding, ActiveStatus
    <2> QED
      BY <1>1, <2>1 DEF QuietInv, TerminalRunIsQuiet, RunQuiescent,
         CompletedWaveIsQuiet, WaveQuiescent
  <1>3. CASE worker.pc \in {"refresh", "refresh_write"}
    BY <1>1, <1>3 DEF Holding, InHand
  <1> QED
    BY <1>2, <1>3 DEF InHand, DispatchPoints

LEMMA EndsQuiet ==
    ASSUME IInv, QuietInv, NEW r \in Recipients, worker.cur = r,
           worker.pc \in DispatchPoints, Ends(r), EndFrame,
           worker.pc \notin InHand /\ recipient'[r].status = "pending" => ~run.cancel
    PROVE  QuietInv'
  <1>0. /\ worker'.pc = "refresh" /\ worker'.cur = r /\ worker'.touched = {WaveOf[r]}
        /\ NoOne \notin Recipients
    BY RecipientsAssumption DEF Ends, Committed, IInv, TypeOK, WorkerRecords
  <1>1. recipient'[r].status # "deferred"
    BY DEF Ends, Over
  <1>2. recipient'[r].status \in ActiveStatus => run.status \notin TerminalRun
    BY BusyRow DEF Ends, Over, ActiveStatus
  <1>3. Holding(r)'
    BY <1>0, <1>1, BusyRow DEF Holding, EndFrame, InHand
  <1>4. TerminalRunIsQuiet'
    BY <1>2 DEF QuietInv, TerminalRunIsQuiet, RunQuiescent, EndFrame, Ends
  <1>5. CompletedWaveIsQuiet'
    BY BusyRow DEF QuietInv, CompletedWaveIsQuiet, WaveQuiescent, EndFrame, Ends
  <1>6. TerminalRunHoldsNoCapacity' /\ RememberedQuiet'
    BY <1>0 DEF QuietInv, TerminalRunHoldsNoCapacity, RememberedQuiet, EndFrame
  <1> QED
    BY <1>0, <1>3, <1>4, <1>5, <1>6 DEF QuietInv

LEMMA EndsAccounting ==
    ASSUME IInv, QuietInv, AccountingInv, NEW r \in Recipients, worker.cur = r,
           worker.pc \in DispatchPoints, Ends(r), EndFrame,
           recipient'[r].status \in SendSuccess => Handed(r) /\ Accounted(r)'
    PROVE  AccountingInv' /\ AccountsGrow
  <1>0. worker'.pc = "refresh"
    BY DEF Ends, Committed, IInv, TypeOK, WorkerRecords
  <1>1. AccountsGrow
    BY DEF AccountsGrow, EndFrame, Handed, Accounted
  <1>2. \A q \in Recipients : log'[q] \in SendSuccess => Handed(q)'
    BY <1>1 DEF AccountingInv, Ends, AccountsGrow
  <1>3. \A q \in Recipients : Legacy(q)'
    <2> SUFFICES ASSUME NEW q \in Recipients
                 PROVE  Legacy(q)'
      OBVIOUS
    <2>1. recipient'[r].status # "deferred"
      BY DEF Ends, Over
    <2> QED
      BY <2>1 DEF AccountingInv, Legacy, Ends, EndFrame
  <1>4. SuccessIsAccounted'
    <2> SUFFICES ASSUME NEW q \in Recipients, recipient'[q].status \in SendSuccess
                 PROVE  Handed(q)' /\ Accounted(q)'
      BY DEF SuccessIsAccounted, Handed, Accounted
    <2>1. CASE q = r
      BY <1>1, <2>1 DEF AccountsGrow
    <2>2. CASE q # r
      BY <1>1, <2>2 DEF Ends, AccountingInv, SuccessIsAccounted, AccountsGrow, Handed,
         Accounted
    <2> QED
      BY <2>1, <2>2
  <1> QED
    BY <1>0, <1>1, <1>2, <1>3, <1>4 DEF AccountingInv, Carrying

\* Only an exception after the ending can take a recipient's charge back.
LEMMA EndsCapacity ==
    ASSUME IInv, IInv', QuietInv, AccountingInv, CapacityInv,
           NEW r \in Recipients, worker.cur = r,
           worker.pc \in DispatchPoints, Ends(r), EndFrame,
           \/ budget' = budget /\ worker.pc \in InHand
           \/ budget'.raises = budget.raises - 1
    PROVE  CapacityInv'
  <1>1. /\ \A w \in Waves : reservation'[w].consumed = reservation[w].consumed
        /\ \A q \in Recipients : Handed(q) => Handed(q)'
    BY DEF EndFrame, Handed
  <1>2. \A q \in Recipients : q # r /\ Charged(q) => Charged(q)'
    BY <1>1 DEF Charged, Ends
  <1>3. CASE budget' = budget /\ worker.pc \in InHand
    <2>1. recipient[r].status = "processing" /\ "processing" \in ActiveStatus
      BY <1>3 DEF QuietInv, Holding, ActiveStatus
    <2>2. Charged(r) => Charged(r)'
      BY <1>1, <2>1 DEF Charged, Ends, Over, ActiveStatus
    <2>3. budget'.raises <= budget.raises
      BY <1>3 DEF IInv, TypeOK
    <2> QED
      BY <1>1, <1>2, <2>2, <2>3, ChargesKept
  <1>4. CASE budget'.raises = budget.raises - 1
    BY <1>1, <1>2, <1>4, ChargeLost
  <1> QED
    BY <1>3, <1>4

LEMMA EndsOutcome ==
    ASSUME IInv, IInv', OutcomeInv, NEW r \in Recipients, worker.cur = r,
           worker.pc \in DispatchPoints, Ends(r), EndFrame,
           recipient'[r].status \in SendSuccess => Handed(r) /\ Accounted(r)',
           worker.pc \notin InHand /\ recipient'[r].status = "pending" => ~run.cancel,
           \/ budget' = budget /\ worker.pc \in InHand
           \/ budget'.raises = budget.raises - 1
    PROVE  OutcomeInv'
  BY EndsQuiet, EndsAccounting, EndsCapacity DEF OutcomeInv

\* A row that is written back as it is, or not as a success.
Plain(r) == (LogStatus \ SendSuccess) \cup {log[r]}

\* The usual case: an ending that reports no success, without an exception.
LEMMA UnsentEnding ==
    ASSUME IInv, IInv', OutcomeInv, NEW r \in Recipients, worker.cur = r,
           worker.pc \in InHand, ledger \subseteq ledger', UNCHANGED <<run, wave,
           reservation, submitted, selector, alerts, budget>>,
           \/ \E status \in {"skipped", "failed", "canceled"},
                 l \in Plain(r) : Finish(r, status, l)
           \/ \E l \in Plain(r) : Requeue(r, l)
           \/ \E l \in Plain(r), cancelSeen \in BOOLEAN :
                 RetryOrFail(r, l, cancelSeen)
    PROVE  OutcomeInv'
  <1>0. log[r] \in LogStatus /\ TypeOK /\ worker.pc \in DispatchPoints
    BY DEF IInv, TypeOK, InHand
  <1>1. Ends(r) /\ recipient'[r].status \in {"skipped", "failed", "canceled", "pending"}
    <2>1. {"skipped", "failed", "canceled"} \subseteq Over
      BY DEF Over
    <2>2. CASE \E status \in {"skipped", "failed", "canceled"},
                  l \in Plain(r) : Finish(r, status, l)
      BY <1>0, <2>1, <2>2, FinishEnds DEF Plain
    <2>3. CASE \E l \in Plain(r) : Requeue(r, l)
      BY <1>0, <2>3, RequeueEnds DEF Plain
    <2>4. CASE \E l \in Plain(r), cancelSeen \in BOOLEAN :
                  RetryOrFail(r, l, cancelSeen)
      BY <1>0, <2>4, RetryOrFailEnds DEF Plain
    <2> QED
      BY <2>2, <2>3, <2>4
  <1>2. recipient'[r].status \notin SendSuccess
    BY <1>1 DEF SendSuccess
  <1>3. EndFrame
    BY DEF EndFrame
  <1>4. budget' = budget
    OBVIOUS
  <1> QED
    BY <1>0, <1>1, <1>2, <1>3, <1>4, EndsOutcome
-----------------------------------------------------------------------------
(* The steps of a dispatch before its ending *)

\* The worker goes on with its recipient.
Moves(r) ==
    /\ worker.cur = r /\ worker'.cur = r
    /\ worker.pc \in InHand /\ worker'.pc \in InHand
    /\ \A q \in Recipients : recipient'[q].status = recipient[q].status
    /\ UNCHANGED <<run, wave, selector, ledger, budget>>
    /\ alerts \subseteq alerts'
    /\ submitted[r] > 0 => submitted'[r] > 0
    /\ \A q \in Recipients :
          q # r => submitted'[q] = submitted[q] /\ log'[q] = log[q]

LEMMA MovesQuiet ==
    ASSUME IInv, QuietInv, NEW r \in Recipients, Moves(r)
    PROVE  QuietInv'
  <1>1. run.status \notin TerminalRun
    BY BusyRow DEF Moves, InHand
  <1>2. worker'.pc \notin {"cycle", "dispatch", "refresh", "refresh_write"}
    BY DEF Moves, InHand, DispatchPoints
  <1>3. Holding(r)'
    BY <1>2 DEF Moves, QuietInv, Holding
  <1>4. CompletedWaveIsQuiet'
    BY DEF Moves, QuietInv, CompletedWaveIsQuiet, WaveQuiescent
  <1>5. TerminalRunIsQuiet' /\ TerminalRunHoldsNoCapacity' /\ RememberedQuiet'
    BY <1>1, <1>2 DEF Moves, TerminalRunIsQuiet, TerminalRunHoldsNoCapacity,
       RememberedQuiet
  <1> QED
    BY <1>2, <1>3, <1>4, <1>5 DEF Moves, QuietInv

LEMMA MovesAccounting ==
    ASSUME IInv, QuietInv, AccountingInv, NEW r \in Recipients, Moves(r),
           log'[r] \in SendSuccess => log[r] \in SendSuccess \/ Handed(r),
           Carrying(r)'
    PROVE  AccountingInv' /\ AccountsGrow
  <1>1. AccountsGrow
    BY DEF AccountsGrow, Moves, Handed, Accounted
  <1>2. \A q \in Recipients : log'[q] \in SendSuccess => Handed(q)'
    BY <1>1 DEF AccountingInv, Moves, AccountsGrow
  <1>3. \A q \in Recipients : Legacy(q)'
    <2> SUFFICES ASSUME NEW q \in Recipients
                 PROVE  Legacy(q)'
      OBVIOUS
    <2>1. recipient[r].status # "deferred"
      BY BusyRow DEF Moves, InHand
    <2> QED
      BY <2>1 DEF AccountingInv, Legacy, Moves
  <1>4. SuccessIsAccounted'
    BY <1>1 DEF SuccessIsAccounted, AccountingInv, AccountsGrow, Moves, Handed, Accounted
  <1> QED
    BY <1>1, <1>2, <1>3, <1>4 DEF AccountingInv, Moves

LEMMA MovesOutcome ==
    ASSUME IInv, IInv', OutcomeInv, NEW r \in Recipients, Moves(r),
           UNCHANGED <<recipient, reservation>>,
           log'[r] \in SendSuccess => log[r] \in SendSuccess \/ Handed(r),
           Carrying(r)'
    PROVE  OutcomeInv'
  <1>1. QuietInv' /\ AccountingInv' /\ AccountsGrow
    BY MovesQuiet, MovesAccounting DEF OutcomeInv
  <1>2. \A q \in Recipients : Charged(q) => Charged(q)'
    BY <1>1 DEF AccountsGrow, Charged
  <1>3. /\ budget'.raises <= budget.raises
        /\ \A w \in Waves : reservation'[w].consumed = reservation[w].consumed
    BY DEF Moves, IInv, TypeOK
  <1> QED
    BY <1>1, <1>2, <1>3, ChargesKept DEF OutcomeInv

\* The statuses a refusal writes are none of a success.
LEMMA Refusals ==
    ASSUME NEW r \in Recipients
    PROVE  /\ {"candidate", "delayed", "skipped", "blocked", "failed", "exhausted",
               "canceled", "expired", "policy_window_expired",
               "submission_unknown"} \subseteq Plain(r)
           /\ log[r] \in Plain(r)
  BY DEF Plain, LogStatus, SendPending, SendSuccess, SendFailure

LEMMA EarlyReturnOutcome ==
    ASSUME IInv, OutcomeInv, NEW r \in Recipients, EarlyReturn(r)
    PROVE  OutcomeInv'
  <1>0. /\ IInv' /\ "decide" \in InHand /\ worker.view.cancel \in BOOLEAN
        /\ worker \in WorkerRecords
    BY EarlyReturnInv DEF InHand, DispatchPoints, IInv, TypeOK, WorkerRecords, Views
  <1>1. CASE DispatchRunCanceled(r)
    BY <1>0, <1>1, Refusals, UnsentEnding DEF DispatchRunCanceled, Deciding,
       EarlyReturnUnchanged
  <1>2. CASE DispatchCampaignPaused(r)
    BY <1>0, <1>2, Refusals, UnsentEnding DEF DispatchCampaignPaused, Deciding,
       EarlyReturnUnchanged
  <1>3. CASE DispatchExpired(r)
    BY <1>0, <1>3, Refusals, UnsentEnding DEF DispatchExpired, Deciding,
       EarlyReturnUnchanged
  <1>4. CASE DispatchAlreadySent(r)
    <2>1. worker'.pc = "consume" /\ worker'.cur = r /\ "consume" \in InHand
      BY <1>0, <1>4 DEF DispatchAlreadySent, Deciding, WorkerRecords, InHand,
         DispatchPoints
    <2>2. Handed(r)
      BY <1>4 DEF DispatchAlreadySent, Deciding, OutcomeInv, AccountingInv, Carrying
    <2>3. Moves(r) /\ Carrying(r)'
      BY <1>0, <1>4, <2>1, <2>2 DEF DispatchAlreadySent, Deciding, Moves,
         EarlyReturnUnchanged, Carrying, Handed
    <2> QED
      BY <1>0, <1>4, <2>2, <2>3, MovesOutcome DEF DispatchAlreadySent,
         EarlyReturnUnchanged
  <1>5. CASE DispatchAlreadyFailed(r)
    BY <1>0, <1>5, Refusals, UnsentEnding DEF DispatchAlreadyFailed, Deciding,
       EarlyReturnUnchanged
  <1>6. CASE DispatchAwaitsSelection(r)
    BY <1>0, <1>6, Refusals, UnsentEnding DEF DispatchAwaitsSelection, Deciding,
       EarlyReturnUnchanged
  <1>7. CASE RevalidationRejects(r)
    BY <1>0, <1>7, Refusals, UnsentEnding DEF RevalidationRejects, ReadyToSend, Deciding,
       EarlyReturnUnchanged
  <1>8. CASE SenderPaused(r)
    BY <1>0, <1>8, Refusals, UnsentEnding DEF SenderPaused, ReadyToSend, Deciding,
       EarlyReturnUnchanged
  <1>9. CASE ProfileUnavailable(r)
    BY <1>0, <1>9, Refusals, UnsentEnding DEF ProfileUnavailable, ReadyToSend, Deciding,
       EarlyReturnUnchanged
  <1>10. CASE RevalidationPasses(r)
    <2>1. worker'.pc = "gate" /\ worker'.cur = r /\ "gate" \in InHand
      BY <1>0, <1>10 DEF RevalidationPasses, ReadyToSend, Deciding, WorkerRecords,
         InHand, DispatchPoints
    <2>2. Moves(r) /\ Carrying(r)'
      BY <1>0, <1>10, <2>1 DEF RevalidationPasses, ReadyToSend, Deciding, Moves,
         EarlyReturnUnchanged, Carrying
    <2> QED
      BY <1>0, <1>10, <2>2, MovesOutcome DEF RevalidationPasses, EarlyReturnUnchanged
  <1> QED
    BY <1>1, <1>2, <1>3, <1>4, <1>5, <1>6, <1>7, <1>8, <1>9, <1>10 DEF EarlyReturn

LEMMA HandOffOutcome ==
    ASSUME IInv, OutcomeInv, NEW r \in Recipients, HandOff(r)
    PROVE  OutcomeInv'
  <1>0. /\ IInv' /\ {"gate", "confirm", "send", "submit_gate"} \subseteq InHand
        /\ worker.view.cancel \in BOOLEAN /\ worker \in WorkerRecords
    BY HandOffInv DEF InHand, DispatchPoints, IInv, TypeOK, WorkerRecords, Views
  <1>1. CASE GateCanceled(r)
    BY <1>0, <1>1, Refusals, UnsentEnding DEF GateCanceled, AtPoint, EarlyReturnUnchanged
  <1>2. CASE GatePaused(r)
    BY <1>0, <1>2, Refusals, UnsentEnding DEF GatePaused, AtPoint, EarlyReturnUnchanged
  <1>3. CASE GatePasses(r)
    <2>1. worker'.pc \in {"confirm", "send"} /\ worker'.cur = r
      BY <1>0, <1>3 DEF GatePasses, AtPoint, WorkerRecords
    <2>2. Moves(r) /\ Carrying(r)'
      BY <1>0, <1>3, <2>1 DEF GatePasses, AtPoint, Moves, EarlyReturnUnchanged, Carrying
    <2> QED
      BY <1>0, <1>3, <2>2, MovesOutcome DEF GatePasses, EarlyReturnUnchanged
  <1>4. CASE ConfirmNotEnforced(r)
    BY <1>0, <1>4, Refusals, UnsentEnding DEF ConfirmNotEnforced, AtPoint,
       EarlyReturnUnchanged
  <1>5. CASE ConfirmReservationGone(r)
    BY <1>0, <1>5, Refusals, UnsentEnding DEF ConfirmReservationGone, AtPoint,
       EarlyReturnUnchanged
  <1>6. CASE ConfirmLost(r)
    BY <1>0, <1>6, Refusals, UnsentEnding DEF ConfirmLost, AtPoint, EarlyReturnUnchanged
  <1>7. CASE ConfirmWins(r)
    <2>1. worker'.pc = "send" /\ worker'.cur = r
      BY <1>0, <1>7 DEF ConfirmWins, AtPoint, WorkerRecords
    <2>2. Moves(r) /\ Carrying(r)'
      BY <1>0, <1>7, <2>1 DEF ConfirmWins, AtPoint, Moves, EarlyReturnUnchanged, Carrying
    <2> QED
      BY <1>0, <1>7, <2>2, MovesOutcome DEF ConfirmWins, EarlyReturnUnchanged
  <1>8. CASE ThrottleRequeues(r)
    BY <1>0, <1>8, Refusals, UnsentEnding DEF ThrottleRequeues, AtPoint,
       EarlyReturnUnchanged
  <1>9. CASE ThrottleMissesDeadline(r)
    BY <1>0, <1>9, Refusals, UnsentEnding DEF ThrottleMissesDeadline, AtPoint,
       EarlyReturnUnchanged
  <1>10. CASE SendParksCandidate(r)
    BY <1>0, <1>10, Refusals, UnsentEnding DEF SendParksCandidate, AtPoint
  <1>11. CASE SendRefusesNew(r)
    BY <1>0, <1>11, Refusals, UnsentEnding DEF SendRefusesNew, AtPoint
  <1>12. CASE SendRefusesSelected(r)
    BY <1>0, <1>12, Refusals, UnsentEnding DEF SendRefusesSelected, AtPoint,
       EarlyReturnUnchanged
  <1>13. CASE CommitIntent(r)
    <2>1. worker'.pc = "submit_gate" /\ worker'.cur = r /\ log'[r] \notin SendSuccess
      BY <1>0, <1>13 DEF CommitIntent, AtPoint, WorkerRecords, IInv, TypeOK, SendSuccess
    <2>2. Moves(r) /\ Carrying(r)'
      BY <1>0, <1>13, <2>1 DEF CommitIntent, AtPoint, Moves, EarlyReturnUnchanged,
         Carrying, IInv, TypeOK
    <2> QED
      BY <1>0, <1>13, <2>1, <2>2, MovesOutcome DEF CommitIntent, EarlyReturnUnchanged
  <1> QED
    BY <1>1, <1>2, <1>3, <1>4, <1>5, <1>6, <1>7, <1>8, <1>9, <1>10, <1>11, <1>12,
       <1>13 DEF HandOff
LEMMA SubmissionOutcome ==
    ASSUME IInv, OutcomeInv, NEW r \in Recipients, Submission(r)
    PROVE  OutcomeInv'
  <1>0. /\ IInv' /\ worker \in WorkerRecords
        /\ {"submit_gate", "provider", "record", "consume"} \subseteq InHand
    BY SubmissionStepInv DEF InHand, DispatchPoints, IInv, TypeOK
  <1>1. CASE SubmissionGatePasses(r)
    <2>1. worker'.pc = "provider" /\ worker'.cur = r
      BY <1>0, <1>1 DEF SubmissionGatePasses, AtPoint, WorkerRecords
    <2>2. Moves(r) /\ Carrying(r)'
      BY <1>0, <1>1, <2>1 DEF SubmissionGatePasses, AtPoint, Moves, EarlyReturnUnchanged,
         Carrying
    <2> QED
      BY <1>0, <1>1, <2>2, MovesOutcome DEF SubmissionGatePasses, EarlyReturnUnchanged
  <1>2. CASE SubmissionGateCanceled(r)
    BY <1>0, <1>2, Refusals, UnsentEnding DEF SubmissionGateCanceled, AtPoint,
       EarlyReturnUnchanged
  <1>3. CASE SubmissionGateHolds(r)
    BY <1>0, <1>3, Refusals, UnsentEnding DEF SubmissionGateHolds, AtPoint,
       EarlyReturnUnchanged
  <1>4. CASE SubmissionGateRefuses(r)
    BY <1>0, <1>4, Refusals, UnsentEnding DEF SubmissionGateRefuses, AtPoint,
       EarlyReturnUnchanged
  <1>5. CASE ProviderCall(r)
    <2>1. worker'.pc = "record" /\ worker'.cur = r
      BY <1>0, <1>5 DEF ProviderCall, AtPoint, WorkerRecords
    <2>2. submitted'[r] > 0
      BY <1>5 DEF ProviderCall, IInv, TypeOK
    <2>3. Moves(r) /\ Carrying(r)'
      BY <1>0, <1>5, <2>1, <2>2 DEF ProviderCall, AtPoint, Moves, Carrying, Handed, IInv,
         TypeOK
    <2> QED
      BY <1>0, <1>5, <2>3, MovesOutcome DEF ProviderCall
  <1>6. CASE RecordSent(r)
    <2>1. worker'.pc = "consume" /\ worker'.cur = r
      BY <1>0, <1>6 DEF RecordSent, AtPoint, WorkerRecords
    <2>2. Handed(r)
      BY <1>6 DEF RecordSent, AtPoint, OutcomeInv, AccountingInv, Carrying
    <2>3. Moves(r) /\ Carrying(r)'
      BY <1>0, <1>6, <2>1, <2>2 DEF RecordSent, AtPoint, Moves, EarlyReturnUnchanged,
         Carrying, Handed, IInv, TypeOK
    <2> QED
      BY <1>0, <1>6, <2>2, <2>3, MovesOutcome DEF RecordSent, EarlyReturnUnchanged
  <1>7. CASE RecordExhausted(r)
    BY <1>0, <1>7, Refusals, UnsentEnding DEF RecordExhausted, AtPoint,
       EarlyReturnUnchanged
  <1>8. CASE RecordUnknown(r)
    BY <1>0, <1>8, Refusals, UnsentEnding DEF RecordUnknown, UnknownSubmission, AtPoint,
       EarlyReturnUnchanged
  <1> QED
    BY <1>1, <1>2, <1>3, <1>4, <1>5, <1>6, <1>7, <1>8 DEF Submission

\* The recipient's ending as a success: the message was handed over, and the
\* contact is in the ledger or an operator was told.
LEMMA DeliveredEnding ==
    ASSUME IInv, IInv', OutcomeInv, NEW r \in Recipients, worker.cur = r,
           worker.pc \in {"ledger", "finish"}, Finish(r, worker.outcome, log[r]),
           r \in ledger' \cup alerts, EndFrame, UNCHANGED budget
    PROVE  OutcomeInv'
  <1>1. worker.outcome \in Over /\ log[r] \in LogStatus /\ TypeOK
    BY DEF IInv, SubmissionInv, WorkerPoint, Over, SendSuccess, TypeOK
  <1>2. Ends(r)
    BY <1>1, FinishEnds
  <1>3. Handed(r)
    BY DEF OutcomeInv, AccountingInv, Carrying
  <1>4. Accounted(r)'
    BY DEF Accounted, EndFrame
  <1>5. worker.pc \in InHand /\ worker.pc \in DispatchPoints /\ budget' = budget
    BY DEF InHand, DispatchPoints
  <1> QED
    BY <1>2, <1>3, <1>4, <1>5, EndsOutcome

LEMMA CompletionOutcome ==
    ASSUME IInv, OutcomeInv, NEW r \in Recipients, Completion(r)
    PROVE  OutcomeInv'
  <1>0. /\ IInv' /\ worker \in WorkerRecords
        /\ {"consume", "ledger", "finish"} \subseteq InHand
    BY CompletionInv DEF InHand, DispatchPoints, IInv, TypeOK
  <1>1. CASE ConsumeCapacity(r)
    <2>1. worker'.pc = "ledger" /\ worker'.cur = r
      BY <1>0, <1>1 DEF ConsumeCapacity, AtPoint, WorkerRecords
    <2>2. Handed(r) /\ recipient[r].status = "processing"
      BY <1>0, <1>1 DEF ConsumeCapacity, AtPoint, OutcomeInv, AccountingInv, Carrying,
         QuietInv, Holding
    <2>3. /\ \A q \in Recipients : q # r => recipient'[q] = recipient[q]
          /\ recipient'[r].status = recipient[r].status /\ recipient'[r].marker = TRUE
      BY <1>1 DEF ConsumeCapacity, IInv, TypeOK, RecipientRecords
    <2>4. Moves(r) /\ Carrying(r)'
      BY <1>0, <1>1, <2>1, <2>2, <2>3 DEF ConsumeCapacity, AtPoint, Moves, Carrying,
         Handed
    <2>5. QuietInv' /\ AccountingInv' /\ AccountsGrow
      BY <1>1, <2>4, MovesQuiet, MovesAccounting DEF ConsumeCapacity, OutcomeInv
    <2>6. ~Charged(r)
      BY <1>1, <2>2 DEF ConsumeCapacity, Charged, ActiveStatus
    <2>7. Charged(r)' /\ \A q \in Recipients : Charged(q) => Charged(q)'
      BY <2>2, <2>3, <2>5 DEF AccountsGrow, Charged
    <2>8. /\ reservation'[WaveOf[r]].consumed = reservation[WaveOf[r]].consumed + 1
          /\ \A w \in Waves : w # WaveOf[r] =>
                reservation'[w].consumed = reservation[w].consumed
      <3>1. WaveOf[r] \in Waves
        BY WaveAssumption
      <3> QED
        BY <1>1, <3>1 DEF ConsumeCapacity, IInv, TypeOK, ReservationRecords
    <2>9. budget'.raises = budget.raises
      BY <1>1 DEF ConsumeCapacity
    <2> QED
      BY <1>0, <2>5, <2>6, <2>7, <2>8, <2>9, ChargeMade DEF OutcomeInv
  <1>2. CASE SkipCapacity(r)
    <2>1. worker'.pc = "ledger" /\ worker'.cur = r
      BY <1>0, <1>2 DEF SkipCapacity, AtPoint, WorkerRecords
    <2>2. Moves(r) /\ Carrying(r)'
      BY <1>0, <1>2, <2>1 DEF SkipCapacity, AtPoint, Moves, EarlyReturnUnchanged,
         Carrying, Handed, OutcomeInv, AccountingInv
    <2> QED
      BY <1>0, <1>2, <2>2, MovesOutcome DEF SkipCapacity, EarlyReturnUnchanged
  <1>3. CASE RecordLedger(r)
    BY <1>0, <1>3, DeliveredEnding DEF RecordLedger, AtPoint, EndFrame,
       EarlyReturnUnchanged
  <1>4. CASE LedgerFails(r)
    <2>1. worker'.pc = "finish" /\ worker'.cur = r
      BY <1>0, <1>4 DEF LedgerFails, AtPoint, WorkerRecords
    <2>2. Moves(r) /\ Carrying(r)'
      BY <1>0, <1>4, <2>1 DEF LedgerFails, AtPoint, Moves, Carrying, Handed, Accounted,
         OutcomeInv, AccountingInv
    <2> QED
      BY <1>0, <1>4, <2>2, MovesOutcome DEF LedgerFails
  <1>5. CASE FinishDelivered(r)
    <2>1. r \in ledger' \cup alerts
      BY <1>5 DEF FinishDelivered, AtPoint, OutcomeInv, AccountingInv, Carrying, Accounted
    <2> QED
      BY <1>0, <1>5, <2>1, DeliveredEnding DEF FinishDelivered, AtPoint, EndFrame,
         EarlyReturnUnchanged
  <1> QED
    BY <1>1, <1>2, <1>3, <1>4, <1>5 DEF Completion

\* The except branch closes a recipient or queues it again, whatever had become
\* of it; a canceled run gets nothing queued.
LEMMA DispatchRaisesOutcome ==
    ASSUME IInv, OutcomeInv, NEW r \in Recipients, DispatchRaises(r)
    PROVE  OutcomeInv'
  <1>0. /\ IInv' /\ TypeOK /\ log[r] \in LogStatus /\ run.cancel \in BOOLEAN
        /\ "failed" \in Over /\ "submission_unknown" \in LogStatus \ SendSuccess
    BY DispatchRaisesInv DEF IInv, TypeOK, RunRecords, Over, LogStatus, SendFailure,
       SendSuccess
  <1>1. /\ worker.cur = r /\ worker.pc \in DispatchPoints /\ EndFrame
        /\ budget'.raises = budget.raises - 1
    BY DEF DispatchRaises, EndFrame, IInv, TypeOK, UnknownSubmission
  <1>2. /\ Ends(r)
        /\ recipient'[r].status \in {"pending", "failed"}
        /\ recipient'[r].status = "pending" => ~run.cancel
    <2>1. CASE UnknownSubmission(r)
      <3>1. Finish(r, "failed", "submission_unknown")
        BY <2>1 DEF UnknownSubmission
      <3> QED
        BY <1>0, <3>1, FinishEnds
    <2>2. CASE RetryOrFail(r, log[r], run.cancel)
      BY <1>0, <2>2, RetryOrFailEnds
    <2> QED
      BY <2>1, <2>2 DEF DispatchRaises
  <1>3. recipient'[r].status \notin SendSuccess
    BY <1>2 DEF SendSuccess
  <1> QED
    BY <1>0, <1>1, <1>2, <1>3, EndsOutcome
-----------------------------------------------------------------------------
(* Steps that are not a dispatch's: what they do to the recipients' rows *)

\* A step beside the dispatch of q leaves its row alone, keeps a live recipient
\* live, or closes it; a success it reports is accounted for.
Turns(q) ==
    \/ recipient'[q] = recipient[q]
    \/ /\ recipient[q].status \in ActiveStatus
       /\ recipient'[q].status \in {"pending", "processing"}
       /\ recipient'[q].marker = recipient[q].marker
    \/ recipient'[q].status \in {"failed", "canceled"}
    \/ recipient'[q].status \in SendSuccess /\ Handed(q) /\ Accounted(q)

\* No such step makes a quiet run or wave busy again.
LEMMA TurnsQuiescence ==
    ASSUME \A q \in Recipients : Turns(q)
    PROVE  /\ RunQuiescent => RunQuiescent'
           /\ \A w \in Waves : WaveQuiescent(w) => WaveQuiescent(w)'
  <1>1. ASSUME NEW q \in Recipients, recipient'[q].status \in ActiveStatus
        PROVE  recipient[q].status \in ActiveStatus
    BY <1>1 DEF Turns, ActiveStatus, SendSuccess
  <1> QED
    BY <1>1 DEF RunQuiescent, WaveQuiescent

LEMMA TurnsAccounting ==
    ASSUME IInv, AccountingInv, \A q \in Recipients : Turns(q), AccountsGrow,
           \A q \in Recipients :
              /\ log'[q] \in SendSuccess => log[q] \in SendSuccess \/ Handed(q)'
              /\ Legacy(q)'
              /\ worker'.cur = q => Carrying(q)'
    PROVE  AccountingInv'
  <1>1. \A q \in Recipients : log'[q] \in SendSuccess => Handed(q)'
    BY DEF AccountingInv, AccountsGrow
  <1>2. SuccessIsAccounted'
    <2> SUFFICES ASSUME NEW q \in Recipients, recipient'[q].status \in SendSuccess
                 PROVE  Handed(q)' /\ Accounted(q)'
      BY DEF SuccessIsAccounted, Handed, Accounted
    <2>1. Handed(q) /\ Accounted(q)
      BY DEF Turns, AccountingInv, SuccessIsAccounted, Handed, Accounted, SendSuccess
    <2> QED
      BY <2>1 DEF AccountsGrow
  <1> QED
    BY <1>1, <1>2 DEF AccountingInv

LEMMA TurnsCapacity ==
    ASSUME IInv, IInv', CapacityInv, \A q \in Recipients : Turns(q), AccountsGrow,
           \A w \in Waves : reservation'[w].consumed = reservation[w].consumed,
           budget'.raises <= budget.raises
    PROVE  CapacityInv'
  <1>1. ASSUME NEW q \in Recipients, Charged(q)
        PROVE  Charged(q)'
    BY <1>1 DEF Charged, Turns, AccountsGrow, ActiveStatus, SendSuccess
  <1> QED
    BY <1>1, ChargesKept

\* A worker that handles no recipient, in the middle of its cycle.
LEMMA CycleOutcome ==
    ASSUME IInv, IInv', OutcomeInv, \A q \in Recipients : Turns(q),
           worker.pc = "cycle", worker'.cur = worker.cur,
           worker'.pc \in {"cycle", "refresh"},
           run'.status \in TerminalRun => run' = run,
           \A w \in Waves : wave'[w] = "completed" => wave[w] = "completed",
           UNCHANGED <<reservation, ledger, alerts, submitted, selector, budget>>,
           \A q \in Recipients :
              /\ log'[q] \in SendSuccess => log[q] \in SendSuccess
              /\ recipient'[q].status = "deferred" => log'[q] = log[q]
    PROVE  OutcomeInv'
  <1>1. worker'.cur = NoOne /\ NoOne \notin Recipients
    BY RecipientsAssumption DEF OutcomeInv, QuietInv
  <1>2. QuietInv'
    BY <1>1, TurnsQuiescence DEF OutcomeInv, QuietInv, TerminalRunIsQuiet,
       CompletedWaveIsQuiet, TerminalRunHoldsNoCapacity, RememberedQuiet
  <1>3. AccountsGrow
    BY DEF AccountsGrow, Handed, Accounted
  <1>4. \A q \in Recipients : Legacy(q)'
    BY DEF OutcomeInv, AccountingInv, Legacy, Turns, SendSuccess
  <1>5. AccountingInv'
    BY <1>1, <1>3, <1>4, TurnsAccounting DEF OutcomeInv
  <1>6. budget'.raises <= budget.raises
    BY DEF IInv, TypeOK
  <1>7. CapacityInv'
    BY <1>3, <1>6, TurnsCapacity DEF OutcomeInv
  <1> QED
    BY <1>2, <1>5, <1>7 DEF OutcomeInv

\* A step of another process, beside the worker: a claimed recipient stays claimed.
LEMMA BesideQuiet ==
    ASSUME IInv, QuietInv, \A q \in Recipients : Turns(q), UNCHANGED worker,
           \A q \in Recipients : recipient[q].status = "processing"
                                   => recipient'[q].status = "processing",
           \A w \in Waves : wave'[w] = "completed" => wave[w] = "completed",
           run'.status \in TerminalRun => run' = run \/ (run'.cancel /\ RunQuiescent'),
           TerminalRunHoldsNoCapacity'
    PROVE  QuietInv'
  <1>1. ASSUME NEW q \in Recipients, worker'.cur = q
        PROVE  Holding(q)'
    <2>1. Holding(q) /\ WaveOf[q] \in Waves
      BY <1>1, WaveAssumption DEF QuietInv
    <2>2. recipient'[q].status = "deferred" => recipient[q].status = "deferred"
      BY DEF Turns, SendSuccess
    <2> QED
      BY <2>1, <2>2 DEF Holding
  <1>2. TerminalRunIsQuiet'
    BY TurnsQuiescence DEF QuietInv, TerminalRunIsQuiet
  <1>3. CompletedWaveIsQuiet' /\ RememberedQuiet'
    <2>1. worker \in WorkerRecords
      BY DEF IInv, TypeOK
    <2> QED
      BY <2>1, TurnsQuiescence DEF QuietInv, CompletedWaveIsQuiet, RememberedQuiet,
         WorkerRecords
  <1> QED
    BY <1>1, <1>2, <1>3 DEF QuietInv

\* A step that leaves recipients, run, waves and reservations alone.
LEMMA BesideOutcome ==
    ASSUME IInv, IInv', OutcomeInv,
           UNCHANGED <<recipient, run, wave, reservation, ledger, alerts, submitted,
                       worker>>,
           budget'.raises <= budget.raises,
           selector.sent \subseteq selector'.sent,
           \A q \in Recipients :
              /\ log'[q] \in SendSuccess => log[q] \in SendSuccess \/ Handed(q)'
              /\ Legacy(q)'
    PROVE  OutcomeInv'
  <1>1. \A q \in Recipients : Turns(q)
    BY DEF Turns
  <1>2. TerminalRunHoldsNoCapacity'
    BY DEF OutcomeInv, QuietInv, TerminalRunHoldsNoCapacity
  <1>3. QuietInv'
    BY <1>1, <1>2, BesideQuiet DEF OutcomeInv
  <1>4. AccountsGrow
    BY DEF AccountsGrow, Handed, Accounted
  <1>5. \A q \in Recipients : worker'.cur = q => Carrying(q)'
    BY <1>4 DEF OutcomeInv, AccountingInv, AccountsGrow, Carrying
  <1>6. AccountingInv'
    BY <1>1, <1>4, <1>5, TurnsAccounting DEF OutcomeInv
  <1>7. CapacityInv'
    BY <1>1, <1>4, TurnsCapacity DEF OutcomeInv
  <1> QED
    BY <1>3, <1>6, <1>7 DEF OutcomeInv

-----------------------------------------------------------------------------
(* The cycle around the dispatches *)

LEMMA RecoverStaleOutcome ==
    ASSUME IInv, OutcomeInv, NEW S \in SUBSET Recipients, RecoverStale(S)
    PROVE  OutcomeInv'
  <1>0. IInv' /\ worker \in WorkerRecords
    BY MaintenanceInv DEF Maintenance, IInv, TypeOK
  <1>1. worker.pc = "cycle" /\ worker'.cur = worker.cur /\ worker'.pc \in {"cycle", "refresh"}
    BY ZenonT(60), <1>0 DEF RecoverStale, AtCycleStart, WorkerRecords
  <1>2. ASSUME NEW q \in Recipients
        PROVE  /\ Turns(q)
               /\ log'[q] \in SendSuccess => log[q] \in SendSuccess
               /\ recipient'[q].status = "deferred" => log'[q] = log[q]
    <2>1. recipient[q] \in RecipientRecords
      BY DEF IInv, TypeOK
    <2>2. \/ recipient'[q] = [recipient[q] EXCEPT !.status = "failed", !.marker = FALSE]
          \/ recipient'[q] = [recipient[q] EXCEPT !.status = "canceled", !.marker = FALSE]
          \/ /\ recipient[q].status = "processing"
             /\ recipient'[q] = [recipient[q] EXCEPT !.status = "pending"]
          \/ recipient'[q] = recipient[q]
      BY DEF RecoverStale
    <2>3. Turns(q)
      BY ZenonT(60), <2>1, <2>2 DEF Turns, RecipientRecords, ActiveStatus
    <2>4. CASE q \in S /\ log[q] = "submitting"
      <3>1. recipient'[q] = [recipient[q] EXCEPT !.status = "failed", !.marker = FALSE]
        BY <2>4 DEF RecoverStale
      <3>2. recipient'[q].status = "failed"
        BY <2>1, <3>1 DEF RecipientRecords
      <3>3. log'[q] = "submission_unknown"
        BY <2>4 DEF RecoverStale
      <3> QED
        BY <2>3, <3>2, <3>3 DEF SendSuccess
    <2>5. CASE ~(q \in S /\ log[q] = "submitting")
      <3>1. log'[q] = log[q]
        BY ZenonT(60), <2>5 DEF RecoverStale
      <3> QED
        BY <2>3, <3>1
    <2> QED
      BY <2>4, <2>5
  <1>3. UNCHANGED <<run, wave, reservation, ledger, alerts, submitted, selector, budget>>
    BY DEF RecoverStale
  <1> QED
    BY <1>0, <1>1, <1>2, <1>3, CycleOutcome

LEMMA ReconcileOutcome ==
    ASSUME IInv, OutcomeInv, ReconcileSendLogs
    PROVE  OutcomeInv'
  <1>0. IInv' /\ worker \in WorkerRecords
    BY MaintenanceInv DEF Maintenance, IInv, TypeOK
  <1>1. worker.pc = "cycle" /\ worker'.cur = worker.cur /\ worker'.pc = "refresh"
    BY <1>0 DEF ReconcileSendLogs, AtCycleStart, WorkerRecords
  <1>2. ASSUME NEW q \in Recipients
        PROVE  Turns(q)
    <2>1. recipient[q] \in RecipientRecords
      BY DEF IInv, TypeOK
    <2>2. CASE ~Reconcilable(q)
      BY <2>2 DEF ReconcileSendLogs, Turns
    <2>3. CASE Reconcilable(q) /\ log[q] \notin SendSuccess
      BY <2>1, <2>3 DEF ReconcileSendLogs, Turns, RecipientRecords
    <2>4. CASE Reconcilable(q) /\ log[q] \in SendSuccess
      <3>1. recipient'[q].status = log[q]
        BY <2>1, <2>4 DEF ReconcileSendLogs, RecipientRecords
      <3>2. CASE recipient[q].status = "deferred"
        <4>1. submitted[q] > 0 /\ q \in ledger
          BY <2>4, <3>2 DEF OutcomeInv, AccountingInv, Legacy, SendSuccess
        <4> QED
          BY <2>4, <3>1, <4>1 DEF Turns, Handed, Accounted
      <3>3. CASE recipient[q].status = "sent"
        <4>1. Handed(q) /\ Accounted(q)
          BY <3>3 DEF OutcomeInv, AccountingInv, SuccessIsAccounted, SendSuccess, Handed,
             Accounted
        <4> QED
          BY <2>4, <3>1, <4>1 DEF Turns
      <3> QED
        BY <2>4, <3>2, <3>3 DEF Reconcilable
    <2> QED
      BY <2>2, <2>3, <2>4
  <1>3. UNCHANGED <<log, run, wave, reservation, ledger, alerts, submitted, selector,
                    budget>>
    BY DEF ReconcileSendLogs
  <1> QED
    BY <1>0, <1>1, <1>2, <1>3, CycleOutcome

LEMMA ReclaimOutcome ==
    ASSUME IInv, OutcomeInv, ReclaimDeferrals
    PROVE  OutcomeInv'
  <1>0. IInv' /\ worker \in WorkerRecords
    BY MaintenanceInv DEF Maintenance, IInv, TypeOK
  <1>1. worker.pc = "cycle" /\ worker'.cur = worker.cur /\ worker'.pc = "refresh"
    BY <1>0 DEF ReclaimDeferrals, AtCycleStart, WorkerRecords
  <1>2. \A q \in Recipients : Turns(q)
    BY DEF ReclaimDeferrals, Turns, IInv, TypeOK, RecipientRecords, ActiveStatus
  <1>3. UNCHANGED <<log, run, wave, reservation, ledger, alerts, submitted, selector,
                    budget>>
    BY DEF ReclaimDeferrals
  <1> QED
    BY <1>0, <1>1, <1>2, <1>3, CycleOutcome

LEMMA FinalizeOutcome ==
    ASSUME IInv, OutcomeInv, FinalizeQuiescentRun
    PROVE  OutcomeInv'
  <1>0. IInv' /\ worker \in WorkerRecords
    BY MaintenanceInv DEF Maintenance, IInv, TypeOK
  <1>1. worker.pc = "cycle" /\ worker'.cur = worker.cur /\ worker'.pc = "refresh"
    BY <1>0 DEF FinalizeQuiescentRun, RepairQuiescentRun, AtCycleStart, WorkerRecords
  <1>2. /\ \A q \in Recipients : Turns(q)
        /\ UNCHANGED <<log, run, wave, reservation, ledger, alerts, submitted, selector,
                       budget>>
    BY DEF FinalizeQuiescentRun, RepairQuiescentRun, Turns
  <1> QED
    BY <1>0, <1>1, <1>2, CycleOutcome

LEMMA ClaimOutcome ==
    ASSUME IInv, OutcomeInv, NEW r \in Recipients, Claim(r)
    PROVE  OutcomeInv'
  <1>0. IInv' /\ worker \in WorkerRecords
    BY ClaimInv DEF IInv, TypeOK
  <1>1. worker.pc = "cycle" /\ worker'.cur = worker.cur /\ worker'.pc = "cycle"
    BY <1>0 DEF Claim, ClaimFrom, WorkerRecords
  <1>2. \A q \in Recipients : Turns(q)
    BY DEF Claim, ClaimFrom, Turns, IInv, TypeOK, RecipientRecords, ActiveStatus
  <1>3. /\ run'.status \notin TerminalRun
        /\ \A w \in Waves : wave'[w] = "completed" => wave[w] = "completed"
    BY DEF Claim, ClaimFrom, IInv, TypeOK, RunRecords, TerminalRun
  <1>4. UNCHANGED <<log, reservation, ledger, alerts, submitted, selector, budget>>
    BY DEF Claim, ClaimFrom
  <1> QED
    BY <1>0, <1>1, <1>2, <1>3, <1>4, CycleOutcome
LEMMA LoadDispatchOutcome ==
    ASSUME IInv, OutcomeInv, NEW r \in Recipients, LoadDispatch(r)
    PROVE  OutcomeInv'
  <1>0. /\ IInv' /\ worker \in WorkerRecords
        /\ NoOne \notin Recipients /\ "decide" \in InHand
    BY LoadDispatchInv, RecipientsAssumption DEF IInv, TypeOK, InHand, DispatchPoints
  <1>1. worker'.pc = "decide" /\ worker'.cur = r
    BY <1>0 DEF LoadDispatch, WorkerRecords
  <1>2. worker'.view.log \in SendSuccess => log[r] \in SendSuccess
    <2>1. worker'.view.log = IF log[r] \in Visible THEN log[r] ELSE "none"
      BY <1>0 DEF LoadDispatch, WorkerRecords
    <2> QED
      BY <2>1 DEF SendSuccess
  <1>3. UNCHANGED <<recipient, log, run, wave, reservation, ledger, alerts, submitted,
                    selector, budget>>
    BY DEF LoadDispatch
  <1>4. QuietInv'
    <2>1. Holding(r)'
      BY <1>1, <1>3 DEF LoadDispatch, Holding
    <2>2. TerminalRunIsQuiet' /\ CompletedWaveIsQuiet' /\ TerminalRunHoldsNoCapacity'
      BY <1>3 DEF OutcomeInv, QuietInv, TerminalRunIsQuiet, RunQuiescent,
         CompletedWaveIsQuiet, WaveQuiescent, TerminalRunHoldsNoCapacity
    <2> QED
      BY <1>1, <2>1, <2>2 DEF QuietInv, RememberedQuiet
  <1>5. AccountsGrow /\ (\A q \in Recipients : Turns(q))
    BY <1>3 DEF AccountsGrow, Handed, Accounted, Turns
  <1>6. Carrying(r)'
    BY <1>1, <1>2, <1>5 DEF OutcomeInv, AccountingInv, AccountsGrow, Carrying
  <1>7. \A q \in Recipients : Legacy(q)'
    BY <1>3 DEF OutcomeInv, AccountingInv, Legacy
  <1>8. AccountingInv'
    BY <1>1, <1>3, <1>5, <1>6, <1>7, TurnsAccounting DEF OutcomeInv
  <1>9. CapacityInv'
    <2>1. budget'.raises <= budget.raises
      BY <1>3 DEF IInv, TypeOK
    <2> QED
      BY <1>0, <1>3, <1>5, <2>1, TurnsCapacity DEF OutcomeInv
  <1> QED
    BY <1>4, <1>8, <1>9 DEF OutcomeInv

\* A step of the worker that writes no recipient and comes from or goes to a point
\* at which it carries nothing.
LEMMA RefreshAccounts ==
    ASSUME IInv, IInv', AccountingInv, CapacityInv,
           worker'.pc \in {"cycle", "dispatch", "refresh", "refresh_write"},
           UNCHANGED <<recipient, log, ledger, alerts, submitted, budget>>,
           selector'.sent = selector.sent, selector'.cur \in {selector.cur, NoOne},
           \A w \in Waves : reservation'[w].consumed = reservation[w].consumed
    PROVE  AccountingInv' /\ CapacityInv'
  <1>1. AccountsGrow /\ (\A q \in Recipients : Turns(q))
    BY DEF AccountsGrow, Handed, Accounted, Turns
  <1>2. \A q \in Recipients : Legacy(q)' /\ Carrying(q)'
    BY RecipientsAssumption DEF AccountingInv, Legacy, Carrying
  <1>3. budget'.raises <= budget.raises
    BY DEF IInv, TypeOK
  <1> QED
    BY <1>1, <1>2, <1>3, TurnsAccounting, TurnsCapacity

LEMMA RefreshReadOutcome ==
    ASSUME IInv, OutcomeInv, RefreshRead
    PROVE  OutcomeInv'
  <1>0. IInv' /\ worker \in WorkerRecords
    BY RefreshReadInv DEF IInv, TypeOK
  <1>1. PICK target \in {{w} : w \in worker.touched} \cup
                        (IF worker.touched = {} THEN {{}} ELSE {}) :
           worker' = [worker EXCEPT
              !.pc = "refresh_write",
              !.touched = @ \ target,
              !.target = target,
              !.view = [NoView EXCEPT !.cancel = run.cancel],
              !.quiet = IF RunQuiescent THEN "run"
                        ELSE IF \A w \in target : WaveQuiescent(w) THEN "wave"
                        ELSE "no"]
    BY DEF RefreshRead
  <1>2. /\ worker'.pc = "refresh_write" /\ worker'.cur = worker.cur
        /\ worker'.touched = worker.touched \ target /\ worker'.target = target
        /\ worker'.quiet = IF RunQuiescent THEN "run"
                           ELSE IF \A w \in target : WaveQuiescent(w) THEN "wave"
                           ELSE "no"
    BY <1>0, <1>1 DEF WorkerRecords
  <1>3. worker.pc = "refresh"
    BY DEF RefreshRead
  <1>4. UNCHANGED <<recipient, log, run, wave, reservation, ledger, alerts, submitted,
                    selector, budget>>
    BY DEF RefreshRead
  <1>5. RunQuiescent' = RunQuiescent /\ \A w \in Waves : WaveQuiescent(w)' = WaveQuiescent(w)
    BY <1>4 DEF RunQuiescent, WaveQuiescent
  <1>6. RememberedQuiet'
    <2>1. target \in SUBSET Waves
      BY <1>0 DEF WorkerRecords
    <2>2. RunQuiescent => \A w \in target : WaveQuiescent(w)
      BY DEF RunQuiescent, WaveQuiescent
    <2> QED
      BY <1>2, <1>5, <2>1, <2>2 DEF RememberedQuiet
  <1>7. \A q \in Recipients : worker'.cur = q => Holding(q)'
    <2> SUFFICES ASSUME NEW q \in Recipients, worker'.cur = q
                 PROVE  Holding(q)'
      OBVIOUS
    <2>1. Holding(q)
      BY <1>2 DEF OutcomeInv, QuietInv
    <2>2. worker'.touched = {}
      BY <1>1, <1>2, <1>3, <2>1 DEF Holding
    <2> QED
      BY <1>2, <1>3, <1>4, <2>1, <2>2 DEF Holding, InHand
  <1>8. QuietInv'
    BY <1>2, <1>4, <1>5, <1>6, <1>7 DEF OutcomeInv, QuietInv, TerminalRunIsQuiet,
       CompletedWaveIsQuiet, TerminalRunHoldsNoCapacity
  <1>9. AccountingInv' /\ CapacityInv'
    BY <1>0, <1>2, <1>4, RefreshAccounts DEF OutcomeInv
  <1> QED
    BY <1>8, <1>9 DEF OutcomeInv

LEMMA TrimmedReservation ==
    ASSUME NEW v \in ReservationRecords
    PROVE  /\ Trimmed(v).consumed = v.consumed
           /\ Trimmed(v).status \in {"consumed", "released"}
  BY DEF Trimmed, ReservationRecords

LEMMA RefreshWriteOutcome ==
    ASSUME IInv, OutcomeInv, RefreshWrite
    PROVE  OutcomeInv'
  <1>0. IInv' /\ worker \in WorkerRecords /\ TypeOK
    BY RefreshWriteInv DEF IInv, TypeOK
  <1>1. worker.pc = "refresh_write"
    BY DEF RefreshWrite, WriteRefresh
  <1>2. /\ worker'.pc \in {"refresh", "cycle", "dispatch"}
        /\ worker'.pc # "refresh" => worker'.cur = NoOne
        /\ worker'.pc = "refresh" => worker'.cur = worker.cur /\ worker.touched # {}
    BY <1>0 DEF RefreshWrite, WriteRefresh, WorkerRecords
  <1>3. \A q \in Recipients : worker'.cur # q
    BY <1>1, <1>2, RecipientsAssumption DEF OutcomeInv, QuietInv, Holding
  <1>4. UNCHANGED <<recipient, log, ledger, alerts, submitted, selector, budget>>
    BY DEF RefreshWrite, WriteRefresh
  <1>5. RunQuiescent' = RunQuiescent /\ \A w \in Waves : WaveQuiescent(w)' = WaveQuiescent(w)
    BY <1>4 DEF RunQuiescent, WaveQuiescent
  <1>6. \A w \in Waves : wave'[w] = "completed" => WaveQuiescent(w)
    BY <1>1 DEF RefreshWrite, WriteRefresh, OutcomeInv, QuietInv, RememberedQuiet,
       CompletedWaveIsQuiet
  <1>7. CASE worker.quiet = "run"
    <2>1. RunQuiescent
      BY <1>1, <1>7 DEF OutcomeInv, QuietInv, RememberedQuiet
    <2>2. \A w \in Waves : reservation'[w] = Trimmed(reservation[w])
                             /\ reservation[w] \in ReservationRecords
      BY <1>0, <1>7 DEF RefreshWrite, WriteRefresh, TypeOK
    <2>3. /\ \A w \in Waves : reservation'[w].consumed = reservation[w].consumed
          /\ \A w \in Waves : reservation'[w].status \in {"consumed", "released"}
      BY <2>2, TrimmedReservation
    <2>4. QuietInv'
      BY <1>2, <1>3, <1>5, <1>6, <2>1, <2>3 DEF QuietInv, RememberedQuiet,
         TerminalRunIsQuiet, CompletedWaveIsQuiet, TerminalRunHoldsNoCapacity
    <2>5. AccountingInv' /\ CapacityInv'
      BY <1>0, <1>2, <1>4, <2>3, RefreshAccounts DEF OutcomeInv
    <2> QED
      BY <2>4, <2>5 DEF OutcomeInv
  <1>8. CASE worker.quiet # "run"
    <2>1. UNCHANGED <<run, reservation>>
      BY <1>8 DEF RefreshWrite, WriteRefresh
    <2>2. QuietInv'
      BY <1>2, <1>3, <1>5, <1>6, <2>1 DEF OutcomeInv, QuietInv, RememberedQuiet,
         TerminalRunIsQuiet, CompletedWaveIsQuiet, TerminalRunHoldsNoCapacity
    <2>3. AccountingInv' /\ CapacityInv'
      BY <1>0, <1>2, <1>4, <2>1, RefreshAccounts DEF OutcomeInv
    <2> QED
      BY <2>2, <2>3 DEF OutcomeInv
  <1> QED
    BY <1>7, <1>8

-----------------------------------------------------------------------------
(* Crashes, operators, the selector and the provider *)

LEMMA CrashOutcome ==
    ASSUME IInv, OutcomeInv, Crash
    PROVE  OutcomeInv'
  <1>0. /\ IInv' /\ selector \in SelectorRecords /\ NoOne \notin Recipients
        /\ worker' = Idle /\ Idle.pc = "cycle" /\ Idle.cur = NoOne
    BY CrashInv, RecipientsAssumption DEF IInv, TypeOK, Crash, Idle
  <1>1. /\ UNCHANGED <<recipient, log, run, wave, reservation, ledger, alerts, submitted>>
        /\ budget'.raises = budget.raises
        /\ selector'.sent = selector.sent /\ selector'.cur = NoOne
    BY <1>0 DEF Crash, SelectorClosed, SelectorRecords, IInv, TypeOK
  <1>2. QuietInv'
    BY <1>0, <1>1 DEF OutcomeInv, QuietInv, RememberedQuiet, TerminalRunIsQuiet,
       RunQuiescent, CompletedWaveIsQuiet, WaveQuiescent, TerminalRunHoldsNoCapacity
  <1>3. AccountsGrow /\ (\A q \in Recipients : Turns(q))
    BY <1>1 DEF AccountsGrow, Handed, Accounted, Turns
  <1>4. \A q \in Recipients : Legacy(q)'
    BY <1>0, <1>1 DEF OutcomeInv, AccountingInv, Legacy
  <1>5. AccountingInv'
    BY <1>0, <1>1, <1>3, <1>4, TurnsAccounting DEF OutcomeInv
  <1>6. budget'.raises <= budget.raises
    BY <1>1 DEF IInv, TypeOK
  <1>7. CapacityInv'
    BY <1>0, <1>1, <1>3, <1>6, TurnsCapacity DEF OutcomeInv
  <1> QED
    BY <1>2, <1>5, <1>7 DEF OutcomeInv

LEMMA PauseOutcome ==
    ASSUME IInv, OutcomeInv, PauseCampaign \/ ActivateCampaign
    PROVE  OutcomeInv'
  <1>1. /\ IInv'
        /\ UNCHANGED <<recipient, log, run, wave, reservation, ledger, alerts, submitted,
                       worker, selector>>
        /\ budget'.raises = budget.raises
    BY OperatorInv DEF PauseCampaign, ActivateCampaign, IInv, TypeOK
  <1>2. budget'.raises <= budget.raises
    BY <1>1 DEF IInv, TypeOK
  <1>3. \A q \in Recipients : Legacy(q)'
    BY <1>1 DEF OutcomeInv, AccountingInv, Legacy
  <1> QED
    BY <1>1, <1>2, <1>3, BesideOutcome

LEMMA ApproveOutcome ==
    ASSUME IInv, OutcomeInv, NEW w \in Waves, ApproveWave(w)
    PROVE  OutcomeInv'
  <1>0. IInv' /\ UNCHANGED <<log, run, reservation, ledger, alerts, submitted, worker,
                             selector, budget>>
    BY OperatorInv DEF ApproveWave
  <1>1. ASSUME NEW q \in Recipients
        PROVE  /\ Turns(q)
               /\ recipient[q].status = "processing" => recipient'[q].status = "processing"
               /\ recipient'[q].status = "deferred" => recipient[q].status = "deferred"
    <2>1. recipient[q] \in RecipientRecords
      BY DEF IInv, TypeOK
    <2>2. \/ /\ recipient[q].status = "held"
             /\ recipient'[q] = [recipient[q] EXCEPT !.status = "pending"]
          \/ recipient'[q] = recipient[q]
      BY DEF ApproveWave
    <2> QED
      BY <2>1, <2>2 DEF Turns, RecipientRecords, ActiveStatus
  <1>2. \A v \in Waves : wave'[v] = "completed" => wave[v] = "completed"
    BY DEF ApproveWave, IInv, TypeOK
  <1>3. TerminalRunHoldsNoCapacity'
    BY <1>0 DEF OutcomeInv, QuietInv, TerminalRunHoldsNoCapacity
  <1>4. QuietInv'
    BY <1>0, <1>1, <1>2, <1>3, BesideQuiet DEF OutcomeInv
  <1>5. AccountsGrow
    BY <1>0 DEF AccountsGrow, Handed, Accounted
  <1>6. \A q \in Recipients : Legacy(q)' /\ (worker'.cur = q => Carrying(q)')
    BY <1>0, <1>1, <1>5 DEF OutcomeInv, AccountingInv, Legacy, Carrying, AccountsGrow
  <1>7. AccountingInv'
    BY <1>0, <1>1, <1>5, <1>6, TurnsAccounting DEF OutcomeInv
  <1>8. budget'.raises <= budget.raises
    BY <1>0 DEF IInv, TypeOK
  <1>9. CapacityInv'
    BY <1>0, <1>1, <1>5, <1>8, TurnsCapacity DEF OutcomeInv
  <1> QED
    BY <1>4, <1>7, <1>9 DEF OutcomeInv

\* A cancellation with claims in flight waits for them; without, it closes the run
\* and settles the reservations itself.
LEMMA CancelOutcome ==
    ASSUME IInv, OutcomeInv, CancelRun
    PROVE  OutcomeInv'
  <1>0. IInv' /\ UNCHANGED <<wave, ledger, alerts, submitted, worker, selector>>
    BY CancelRunInv DEF CancelRun, CloseRun
  <1>1. ASSUME NEW q \in Recipients
        PROVE  /\ Turns(q)
               /\ recipient[q].status = "processing" => recipient'[q].status = "processing"
               /\ recipient'[q].status # "deferred"
               /\ recipient'[q].status \in ActiveStatus => recipient[q].status = "processing"
               /\ log'[q] \in SendSuccess => log[q] \in SendSuccess
    <2>1. recipient[q] \in RecipientRecords
      BY DEF IInv, TypeOK
    <2>2. \/ /\ recipient[q].status \in {"pending", "held", "deferred"}
             /\ recipient'[q] = [recipient[q] EXCEPT !.status = "canceled"]
          \/ /\ recipient[q].status \notin {"pending", "held", "deferred"}
             /\ recipient'[q] = recipient[q]
      BY DEF CancelRun, CloseRun
    <2>3. log'[q] = log[q] \/ log'[q] = "canceled"
      BY DEF CancelRun, CloseRun
    <2> QED
      BY <2>1, <2>2, <2>3 DEF Turns, RecipientRecords, ActiveStatus, SendSuccess
  <1>2. /\ run'.cancel
        /\ run'.status \in TerminalRun => ~ClaimsInFlight
    BY DEF CancelRun, CloseRun, TerminalRun
  <1>3. run'.status \in TerminalRun => RunQuiescent'
    BY <1>1, <1>2 DEF ClaimsInFlight, RunQuiescent
  <1>4. /\ \A w \in Waves : reservation'[w].consumed = reservation[w].consumed
        /\ TerminalRunHoldsNoCapacity'
    <2>1. ASSUME NEW w \in Waves
          PROVE  /\ reservation'[w].consumed = reservation[w].consumed
                 /\ ~ClaimsInFlight => reservation'[w].status \in {"consumed", "released"}
      <3>1. reservation[w] \in ReservationRecords
        BY DEF IInv, TypeOK
      <3>2. \/ /\ ClaimsInFlight \/ reservation[w].status = "released"
               /\ reservation'[w] = reservation[w]
            \/ reservation'[w] = [reservation[w] EXCEPT
                                     !.reserved = reservation[w].consumed,
                                     !.status = "consumed"]
            \/ reservation'[w] = [reservation[w] EXCEPT !.status = "released"]
        BY DEF CancelRun, CloseRun
      <3> QED
        BY <3>1, <3>2 DEF ReservationRecords
    <2> QED
      BY <1>2, <2>1 DEF TerminalRunHoldsNoCapacity
  <1>5. QuietInv'
    BY <1>0, <1>1, <1>2, <1>3, <1>4, BesideQuiet DEF OutcomeInv
  <1>6. AccountsGrow
    BY <1>0 DEF AccountsGrow, Handed, Accounted
  <1>7. \A q \in Recipients : Legacy(q)' /\ (worker'.cur = q => Carrying(q)')
    BY <1>0, <1>1, <1>6 DEF OutcomeInv, AccountingInv, Legacy, Carrying, AccountsGrow
  <1>8. AccountingInv'
    BY <1>0, <1>1, <1>6, <1>7, TurnsAccounting DEF OutcomeInv
  <1>9. budget'.raises <= budget.raises
    <2>1. budget' = [budget EXCEPT !.operator = @ - 1]
      BY DEF CancelRun, CloseRun
    <2> QED
      BY <2>1 DEF IInv, TypeOK
  <1>10. CapacityInv'
    BY <1>0, <1>1, <1>4, <1>6, <1>9, TurnsCapacity DEF OutcomeInv
  <1> QED
    BY <1>5, <1>8, <1>10 DEF OutcomeInv

LEMMA SelectorReadOutcome ==
    ASSUME IInv, OutcomeInv, NEW r \in Recipients, SelectorOpen(r) \/ SelectorTurn(r)
    PROVE  OutcomeInv'
  <1>0. /\ IInv' /\ TypeOK
        /\ UNCHANGED <<recipient, log, run, wave, reservation, ledger, alerts, submitted,
                       worker, budget>>
    BY SelectorReadInv DEF SelectorOpen, LoadContest, SelectorTurn, IInv
  <1>1. selector'.sent = selector.sent
    BY <1>0 DEF SelectorOpen, LoadContest, SelectorTurn, TypeOK, SelectorRecords
  <1>2. recipient[r].status # "deferred" /\ selector'.cur = r
    <2>1. CASE SelectorOpen(r)
      <3>1. log[r] \in {"candidate", "campaign_selected"} /\ selector'.cur = r
        BY <1>0, <2>1 DEF SelectorOpen, LoadContest, TypeOK, SelectorRecords
      <3>2. submitted[r] = 0
        BY <1>0, <3>1 DEF IInv, SubmissionInv, SubmittedNeverSendable, PreSubmit,
           SendPending, TypeOK
      <3> QED
        BY <3>1, <3>2 DEF OutcomeInv, AccountingInv, Legacy
    <2>2. CASE SelectorTurn(r)
      BY <1>0, <2>2 DEF SelectorTurn, OutcomeInv, AccountingInv, Legacy, TypeOK,
         SelectorRecords
    <2> QED
      BY <2>1, <2>2
  <1>3. \A q \in Recipients : Legacy(q)'
    BY <1>0, <1>2 DEF OutcomeInv, AccountingInv, Legacy
  <1>4. budget'.raises <= budget.raises
    BY <1>0 DEF TypeOK
  <1> QED
    BY <1>0, <1>1, <1>3, <1>4, BesideOutcome

LEMMA SelectorEndOutcome ==
    ASSUME IInv, OutcomeInv, NEW r \in Recipients,
           SelectorSettles(r) \/ SelectorSends(r) \/ SelectorRaises(r)
    PROVE  OutcomeInv'
  <1>0. /\ IInv' /\ TypeOK /\ NoOne \notin Recipients
        /\ UNCHANGED <<recipient, run, wave, reservation, ledger, alerts, submitted,
                       worker>>
    BY SelectorEndInv, RecipientsAssumption DEF SelectorSettles, SelectorSends,
       SelectorRaises, IInv
  <1>1. selector.cur = r /\ recipient[r].status # "deferred"
    BY DEF SelectorSettles, SelectorSends, SelectorRaises, OutcomeInv, AccountingInv,
       Legacy
  <1>2. /\ selector'.cur = NoOne /\ selector.sent \subseteq selector'.sent
        /\ \A q \in Recipients : q # r => log'[q] = log[q]
        /\ log'[r] \in SendSuccess => log[r] \in SendSuccess \/ r \in selector'.sent
    <2>1. CASE SelectorSettles(r)
      <3>1. PICK verdict \in Verdicts :
               log' = IF verdict = selector.log THEN log
                      ELSE [log EXCEPT ![r] = verdict]
        BY <2>1 DEF SelectorSettles
      <3>2. verdict # selector.log => verdict \notin SendSuccess
        BY <3>1 DEF Verdicts, SendSuccess
      <3>3. selector'.cur = NoOne /\ selector'.sent = selector.sent
        BY <1>0, <2>1 DEF SelectorSettles, SelectorClosed, TypeOK, SelectorRecords
      <3> QED
        BY <1>0, <3>1, <3>2, <3>3 DEF TypeOK
    <2>2. CASE SelectorSends(r)
      <3>1. CASE /\ \E l \in {"skipped", "blocked", "exhausted", "delayed"} :
                       log' = [log EXCEPT ![r] = l]
                 /\ SelectorClosed
        BY <1>0, <3>1 DEF SelectorClosed, TypeOK, SelectorRecords, SendSuccess
      <3>2. CASE /\ \E l \in {"sent", "exhausted", "submission_unknown"} :
                       log' = [log EXCEPT ![r] = l]
                 /\ selector' = [selector EXCEPT !.cur = NoOne, !.log = "none",
                                                 !.ttl = "none", !.sent = @ \cup {r}]
        <4>1. selector'.cur = NoOne /\ selector'.sent = selector.sent \cup {r}
          BY <1>0, <3>2 DEF TypeOK, SelectorRecords
        <4> QED
          BY <1>0, <3>2, <4>1 DEF TypeOK
      <3> QED
        BY <2>2, <3>1, <3>2 DEF SelectorSends
    <2>3. CASE SelectorRaises(r)
      BY <1>0, <2>3 DEF SelectorRaises, SelectorClosed, TypeOK, SelectorRecords,
         SendSuccess
    <2> QED
      BY <2>1, <2>2, <2>3
  <1>3. \A q \in Recipients :
           /\ log'[q] \in SendSuccess => log[q] \in SendSuccess \/ Handed(q)'
           /\ Legacy(q)'
    BY <1>0, <1>1, <1>2 DEF OutcomeInv, AccountingInv, Legacy, Handed
  <1>4. budget'.raises <= budget.raises
    BY <1>0 DEF SelectorSettles, SelectorSends, SelectorRaises, TypeOK
  <1> QED
    BY <1>0, <1>2, <1>3, <1>4, BesideOutcome

LEMMA TtlOutcome ==
    ASSUME IInv, OutcomeInv, NEW r \in Recipients, TtlPasses(r)
    PROVE  OutcomeInv'
  <1>1. /\ IInv'
        /\ UNCHANGED <<recipient, log, run, wave, reservation, ledger, alerts, submitted,
                       worker, selector, budget>>
    BY TtlInv DEF TtlPasses
  <1>2. budget'.raises <= budget.raises
    BY <1>1 DEF IInv, TypeOK
  <1>3. \A q \in Recipients : Legacy(q)'
    BY <1>1 DEF OutcomeInv, AccountingInv, Legacy
  <1> QED
    BY <1>1, <1>2, <1>3, BesideOutcome

LEMMA ProviderReportsOutcome ==
    ASSUME IInv, OutcomeInv, NEW r \in Recipients, ProviderReports(r)
    PROVE  OutcomeInv'
  <1>1. /\ IInv'
        /\ UNCHANGED <<recipient, run, wave, reservation, ledger, alerts, submitted,
                       worker, selector, budget>>
        /\ submitted[r] > 0
        /\ \A q \in Recipients : q # r => log'[q] = log[q]
    BY ProviderReportsInv DEF ProviderReports, IInv, TypeOK
  <1>2. budget'.raises <= budget.raises
    BY <1>1 DEF IInv, TypeOK
  <1>3. \A q \in Recipients :
           /\ log'[q] \in SendSuccess => log[q] \in SendSuccess \/ Handed(q)'
           /\ Legacy(q)'
    BY <1>1 DEF OutcomeInv, AccountingInv, Legacy, Handed
  <1> QED
    BY <1>1, <1>2, <1>3, BesideOutcome
-----------------------------------------------------------------------------
(* The theorems *)

LEMMA OutcomeInit == Init => OutcomeInv
  <1> SUFFICES ASSUME Init
               PROVE  OutcomeInv
    OBVIOUS
  <1>0. IInv
    BY InitInv
  <1>1. PICK old \in [LegacyDeferred -> {"deferred", "sent", "expired"}] :
           /\ log = [r \in Recipients |->
                        IF r \in LegacyDeferred THEN old[r] ELSE "none"]
           /\ submitted = [r \in Recipients |->
                        IF r \in LegacyDeferred /\ old[r] = "sent" THEN 1 ELSE 0]
           /\ ledger = {r \in LegacyDeferred : old[r] = "sent"}
    BY DEF Init
  <1>2. /\ worker.pc = "cycle" /\ worker.cur = NoOne /\ selector.cur = NoOne
        /\ run.status \notin TerminalRun
        /\ \A w \in Waves : wave[w] # "completed" /\ reservation[w].consumed = 0
        /\ \A r \in Recipients : recipient[r].status \in {"deferred", "held", "pending"}
        /\ \A r \in Recipients : recipient[r].status = "deferred" => r \in LegacyDeferred
        /\ budget.raises = MaxRaises
    BY DEF Init, Idle, TerminalRun
  <1>3. QuietInv
    BY <1>2, RecipientsAssumption DEF QuietInv, RememberedQuiet, TerminalRunIsQuiet,
       CompletedWaveIsQuiet, TerminalRunHoldsNoCapacity
  <1>4. \A r \in Recipients : log[r] \in SendSuccess => Handed(r)
    BY <1>1 DEF SendSuccess, Handed
  <1>5. \A r \in Recipients : Legacy(r)
    BY <1>1, <1>2, RecipientsAssumption DEF Legacy
  <1>6. AccountingInv
    BY <1>2, <1>4, <1>5, RecipientsAssumption DEF AccountingInv, SuccessIsAccounted,
       SendSuccess
  <1>7. CapacityInv
    <2>1. \A w \in Waves : 0 <= Cardinality(ChargedIn(w)) + (MaxRaises - budget.raises)
      BY <1>2, ChargedCount, BoundsAssumption
    <2> QED
      BY <1>2, <2>1, BoundsAssumption DEF CapacityInv
  <1> QED
    BY <1>3, <1>6, <1>7 DEF OutcomeInv

LEMMA OutcomeNext ==
    ASSUME IInv, OutcomeInv, [Next]_vars
    PROVE  OutcomeInv'
  <1>1. CASE Maintenance
    BY <1>1, RecoverStaleOutcome, ReconcileOutcome, ReclaimOutcome, FinalizeOutcome
       DEF Maintenance
  <1>2. CASE RefreshRead \/ RefreshWrite
    BY <1>2, RefreshReadOutcome, RefreshWriteOutcome
  <1>3. ASSUME NEW r \in Recipients,
               \/ Claim(r) \/ LoadDispatch(r) \/ SelectorOpen(r) \/ SelectorTurn(r)
               \/ SelectorSettles(r) \/ SelectorSends(r)
        PROVE  OutcomeInv'
    BY <1>3, ClaimOutcome, LoadDispatchOutcome, SelectorReadOutcome, SelectorEndOutcome
  <1>4. ASSUME NEW r \in Recipients, DispatchStep(r)
        PROVE  OutcomeInv'
    BY <1>4, EarlyReturnOutcome, HandOffOutcome, SubmissionOutcome, CompletionOutcome
       DEF DispatchStep
  <1>5. CASE Environment
    BY <1>5, CrashOutcome, PauseOutcome, ApproveOutcome, CancelOutcome,
       DispatchRaisesOutcome, SelectorEndOutcome, TtlOutcome, ProviderReportsOutcome
       DEF Environment
  <1>6. CASE UNCHANGED vars
    <2>1. IInv'
      BY NextInv
    <2>2. \A q \in Recipients : Legacy(q)'
      BY <1>6 DEF vars, OutcomeInv, AccountingInv, Legacy
    <2>3. budget'.raises <= budget.raises
      BY <1>6 DEF vars, IInv, TypeOK
    <2> QED
      BY <1>6, <2>1, <2>2, <2>3, BesideOutcome DEF vars
  <1> QED
    BY <1>1, <1>2, <1>3, <1>4, <1>5, <1>6 DEF Next

\* OutcomeInv is an inductive invariant on top of IInv, for any finite number of
\* recipients, any waves and any number of crashes, exceptions and operator calls.
THEOREM OutcomeInvariance == Spec => []OutcomeInv
  <1>1. Init => OutcomeInv
    BY OutcomeInit
  <1>2. IInv /\ OutcomeInv /\ [Next]_vars => OutcomeInv'
    BY OutcomeNext
  <1> QED
    BY <1>1, <1>2, Invariance, PTL DEF Spec

\* A completed or canceled run never has a recipient left to dispatch, whatever
\* commits between the count and the write of _refresh_run.
THEOREM TerminalRunsAreQuiet == Spec => []TerminalRunIsQuiet
  <1>1. OutcomeInv => TerminalRunIsQuiet
    BY DEF OutcomeInv, QuietInv
  <1> QED
    BY <1>1, OutcomeInvariance, PTL

\* No recipient of a completed wave is stranded in it (_refresh_run, _claim_one).
THEOREM CompletedWavesAreQuiet == Spec => []CompletedWaveIsQuiet
  <1>1. OutcomeInv => CompletedWaveIsQuiet
    BY DEF OutcomeInv, QuietInv
  <1> QED
    BY <1>1, OutcomeInvariance, PTL

\* Whoever closes a run, cancel_run or _refresh_run, leaves no reservation that
\* still holds unconsumed capacity.
THEOREM ClosedRunsReleaseCapacity == Spec => []TerminalRunHoldsNoCapacity
  <1>1. OutcomeInv => TerminalRunHoldsNoCapacity
    BY DEF OutcomeInv, QuietInv
  <1> QED
    BY <1>1, OutcomeInvariance, PTL

\* A recipient reported as sent or delivered was handed to the provider, and is in
\* the ledger or alerted (_complete_provider_success, _reconcile_send_logs).
THEOREM SuccessesAreAccounted == Spec => []SuccessIsAccounted
  <1>1. OutcomeInv => SuccessIsAccounted
    BY DEF OutcomeInv, AccountingInv
  <1> QED
    BY <1>1, OutcomeInvariance, PTL

\* A wave consumes at most one unit for each of its messages that was handed over,
\* and one more for each exception (_consume_capacity, _dispatch's except branch).
THEOREM CapacityIsConsumedOnce == Spec => []CapacityConsumedOnce
  <1>1. IInv /\ OutcomeInv => CapacityConsumedOnce
    BY CapacityFromInv DEF OutcomeInv
  <1> QED
    BY <1>1, Invariance, OutcomeInvariance, PTL
=============================================================================

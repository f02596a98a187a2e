------------------------ MODULE VerificationUploads ------------------------
(***************************************************************************)
(* Bulk verification of contacts: the files of e-mail addresses that       *)
(* app/services/contact_verification uploads to a provider, polls, reads   *)
(* and must delete there, and the worker cycle that drives them.           *)
(*                                                                         *)
(* One process runs the worker (the scheduler leader of app/main.py); the  *)
(* API writes cancellations beside it.  A chunk stands for the identifiers *)
(* of one file, at most MAX_BULK_IDENTIFIERS of them; its operation is its *)
(* row of contact_verification_operations, its item the rows of its        *)
(* identifiers.  The session does not autoflush (app/database.py), so a    *)
(* query sees what was committed or updated in bulk, not what the pass has *)
(* changed in memory.                                                      *)
(***************************************************************************)
EXTENDS Integers, FiniteSets

CONSTANTS
  Jobs,       \* bulk jobs, numbered in the order of created_at
  Chunks,     \* the files they need, numbered in the order of upload
  Owner,      \* Chunks -> Jobs
  MinMisses,  \* UPLOAD_RECONCILIATION_MIN_ATTEMPTS
  PollLimit,  \* transport failures of a file's poll before the pass gives up
  MaxFaults   \* bound on provider failures, lost requests, crashes and the
              \* loss of the entitlement, together

ASSUME VerificationUploadsAssumption ==
  /\ IsFiniteSet(Chunks)
  /\ Jobs \subseteq Nat \ {0}
  /\ Chunks \subseteq Nat
  /\ Owner \in [Chunks -> Jobs]
  /\ MinMisses \in Nat \ {0}
  /\ PollLimit \in Nat \ {0}
  /\ MaxFaults \in Nat

VARIABLES
  job,       \* Jobs -> [status, cancel]: status and cancel_requested
  op,        \* Chunks -> status of the operation, "none" without a row
  misses,    \* Chunks -> reconciliation_attempts
  aged,      \* Chunks -> the consistency delay has passed since started_at
  due,       \* Chunks -> the next attempt of the operation is due
  polls,     \* Chunks -> transport failures recorded for the file
  item,      \* Chunks -> status of the items
  file,      \* Chunks -> the file at the provider
  posts,     \* Chunks -> uploads the provider has taken
  pc,        \* where the worker is in its cycle
  cur,       \* the job in hand, 0 for none
  todo,      \* chunks of the sweep, or those left to upload in this pass
  seen,      \* jobs whose cancel_requested the session has read as true
  asking,    \* jobs whose cancel handler is between its test and its write
  entitled,  \* VerificationAccessService.authorize succeeds
  faults     \* faults so far

opVars == <<op, misses, aged, due, polls>>
workerVars == <<pc, cur, todo, seen>>
vars == <<job, opVars, item, file, posts, workerVars, asking, entitled, faults>>

-----------------------------------------------------------------------------
(* State. *)

\* Mutant: jobs under cancellation are no longer dequeued.
ActiveJob_NotCanceling == {"queued", "running", "provider_processing"}

ActiveJob == {"queued", "running", "provider_processing", "cancel_requested"}
ClosedJob == {"completed", "failed", "cancelled"}
JobStatus == {"absent", "reconciliation_required"} \cup ActiveJob \cup ClosedJob

\* upload_reconciliation_unsupported is left out: the one adapter there is
\* supports reconciliation.
Uploading == {"upload_intent", "upload_reconciling", "upload_retry_ready",
              "upload_reconciliation_conflict"}
Pending == Uploading \cup {"provider_processing", "provider_deleting"}
OpStatus == {"none", "completed", "failed"} \cup Pending

ClosedItem == {"succeeded", "failed", "cancelled"}
ItemStatus == {"queued", "upload_pending", "provider_processing"}
                \cup ClosedItem

\* External: the provider.  A request is on the wire until it is taken or
\* lost; a taken file is missing from the listing at first (hidden); ready
\* means its report can be downloaded.
Held == {"hidden", "visible", "ready"}
FileStatus == {"none", "wire", "deleted"} \cup Held

ChunksOf(j) == {c \in Chunks : Owner[c] = j}
PendingOf(j) == {c \in ChunksOf(j) : op[c] \in Pending}
QueuedOf(j) == {c \in ChunksOf(j) : item[c] = "queued"}

\* The order by created_at of the worker's dequeue.
FirstActive(j) ==
  /\ job[j].status \in ActiveJob
  /\ \A k \in Jobs : job[k].status \in ActiveJob => j <= k

Earliest(S) == CHOOSE c \in S : \A d \in S : c <= d
Latest(S) == CHOOSE c \in S : \A d \in S : d <= c

WithStatus(j, s) == [status |-> s, cancel |-> job[j].cancel]
SetStatus(j, s) == job' = [job EXCEPT ![j] = WithStatus(j, s)]

Fault == faults < MaxFaults /\ faults' = faults + 1

Rest == pc' = "idle" /\ cur' = 0 /\ todo' = {} /\ seen' = {}

Init ==
  /\ job = [j \in Jobs |-> [status |-> "absent", cancel |-> FALSE]]
  /\ op = [c \in Chunks |-> "none"]
  /\ misses = [c \in Chunks |-> 0]
  /\ aged = [c \in Chunks |-> FALSE]
  /\ due = [c \in Chunks |-> TRUE]
  /\ polls = [c \in Chunks |-> 0]
  /\ item = [c \in Chunks |-> "queued"]
  /\ file = [c \in Chunks |-> "none"]
  /\ posts = [c \in Chunks |-> 0]
  /\ pc = "idle" /\ cur = 0 /\ todo = {} /\ seen = {}
  /\ asking = {}
  /\ entitled = TRUE
  /\ faults = 0

-----------------------------------------------------------------------------
(* What one pass over operations may find at the provider, and what it     *)
(* makes of each.  kept: a deletion that failed; reported: the report held *)
(* a row for the chunk, omitted: it did not, or the provider gave up on    *)
(* the file; broken, vanished: the poll raises.  A file that a pass adopts *)
(* is polled by the same pass; here the next one does.                     *)

Adopted == {"adopt"}
Absent == {"absent"}
Missed == {"miss", "unlisted"}
Conflict == {"conflict"}
Erased == {"gone", "reported", "omitted"}
Kept == {"kept", "reported_kept", "omitted_kept"}
Withdrawn == {"withdrawn"}
Reported == {"reported", "reported_kept"}
Fatal == {"broken", "vanished"}
Untouched == {"ready", "wait", "flaky"} \cup Fatal
Outcome == Adopted \cup Absent \cup Missed \cup Conflict \cup Erased \cup Kept
             \cup Withdrawn \cup Untouched
Faulty == Conflict \cup Kept \cup {"unlisted", "omitted", "flaky", "broken"}

Listed(c) == file[c] \in {"visible", "ready"}
MissCount(c) == IF misses[c] < MinMisses THEN misses[c] + 1 ELSE misses[c]

\* Mutant: enough listings, however soon.
Absence_NoDelay(c) == ~Listed(c) /\ MissCount(c) = MinMisses

\* No file under the intent's name in enough listings, late enough.
Absence(c) == ~Listed(c) /\ MissCount(c) = MinMisses /\ aged[c]

\* _reconcile_bulk_upload_intent
ReconcileOutcomes(c) ==
  {"unlisted"} \cup
  IF Listed(c) THEN {"adopt", "conflict"}
  ELSE IF Absence(c) THEN {"absent"} ELSE {"miss"}

DeleteOutcomes(c) == IF due[c] THEN {"gone", "kept"} ELSE {"wait"}

SweepOutcomes(c) ==
  IF op[c] = "upload_retry_ready" THEN {"ready"}
  ELSE IF op[c] \in Uploading THEN ReconcileOutcomes(c)
  ELSE DeleteOutcomes(c)

\* Mutant: the failures of a file's poll are not limited.
PollOutcomes_NoLimit(c) ==
  IF file[c] = "deleted" THEN {}
  ELSE {"omitted", "omitted_kept", "flaky"}
         \cup (IF file[c] = "ready" THEN {"reported", "reported_kept"}
               ELSE {"wait"})

\* bulk_info and download_bulk.
PollOutcomes(c) ==
  IF file[c] = "deleted" THEN {}
  ELSE {"omitted", "omitted_kept"}
         \cup (IF polls[c] + 1 < PollLimit THEN {"flaky"} ELSE {})
         \cup (IF file[c] = "ready" THEN {"reported", "reported_kept"}
               ELSE {"wait"})

\* A poll that raises: a permanent error, the last failure allowed, or a file
\* that is gone.
FatalOutcomes(c) ==
  IF op[c] # "provider_processing" THEN {}
  ELSE IF file[c] = "deleted" THEN {"vanished"} ELSE {"broken"}

PassOutcomes(c) ==
  IF op[c] \in Uploading
    THEN IF due[c] THEN ReconcileOutcomes(c) ELSE {"wait"}
  ELSE IF op[c] = "provider_deleting" THEN DeleteOutcomes(c)
  ELSE PollOutcomes(c)

\* _cancel_provider_operations: an adopted file is deleted at once, an absent
\* one closes its intent.
CancelOutcomes(c) ==
  IF op[c] = "upload_retry_ready" THEN {"withdrawn"}
  ELSE IF op[c] \in Uploading
    THEN IF ~due[c] THEN {"wait"}
         ELSE {"unlisted"} \cup
              (IF Listed(c) THEN {"gone", "kept", "conflict"}
               ELSE IF Absence(c) THEN {"withdrawn"} ELSE {"miss"})
  ELSE IF op[c] = "provider_deleting" THEN DeleteOutcomes(c)
  ELSE {"gone", "kept"}

\* Mutant: an operation is over whether or not its file could be deleted.
After_KeptIsDone(c, o) ==
  IF o \in Adopted THEN "provider_processing"
  ELSE IF o \in Absent THEN "upload_retry_ready"
  ELSE IF o \in Missed THEN "upload_reconciling"
  ELSE IF o \in Conflict THEN "upload_reconciliation_conflict"
  ELSE IF o \in Untouched THEN op[c]
  ELSE "completed"

After(c, o) ==
  IF o \in Adopted THEN "provider_processing"
  ELSE IF o \in Absent THEN "upload_retry_ready"
  ELSE IF o \in Missed THEN "upload_reconciling"
  ELSE IF o \in Conflict THEN "upload_reconciliation_conflict"
  ELSE IF o \in Kept THEN "provider_deleting"
  ELSE IF o \in Untouched THEN op[c]
  ELSE "completed"

\* The statuses of the operations, and of the items, once those of D are
\* settled with one outcome each.
OpAfter(D, out) ==
  [c \in Chunks |-> IF c \in D THEN After(c, out[c]) ELSE op[c]]

ItemAfter(D, out) ==
  [c \in Chunks |->
     IF c \notin D THEN item[c]
     ELSE IF out[c] \in Adopted /\ item[c] = "upload_pending"
          THEN "provider_processing"
     ELSE IF out[c] \in Reported /\ item[c] = "provider_processing"
          THEN "succeeded"
     ELSE item[c]]

\* The rest of their rows, and what happens at the provider.
Settle(D, out) ==
  /\ misses' = [c \in Chunks |->
       IF c \in D /\ out[c] \in Missed \cup Absent THEN MissCount(c)
       ELSE misses[c]]
  /\ due' = [c \in Chunks |->
       IF c \in D /\ out[c] \notin Untouched
       THEN out[c] \notin Missed \cup Conflict \cup Kept ELSE due[c]]
  /\ polls' = [c \in Chunks |->
       IF c \in D /\ out[c] = "flaky" THEN polls[c] + 1 ELSE polls[c]]
  /\ file' = [c \in Chunks |->
       IF c \in D /\ out[c] \in Erased THEN "deleted" ELSE file[c]]
  /\ faults' = faults + Cardinality({c \in D : out[c] \in Faulty})
  /\ faults' <= MaxFaults
  /\ UNCHANGED aged

\* Mutant: the job fails with its files still at the provider.
FailJob_NoDefer(j, canceled, o, n) == op' = n /\ SetStatus(j, "failed")

\* The except branches of process_job: a job with operations that may still
\* have a file at the provider is deferred, any other fails.  The database
\* holds o; the commit then writes what the session has changed, n.
FailJob(j, canceled, o, n) ==
  LET open == {c \in ChunksOf(j) : o[c] \in Pending}
  IN /\ op' = [c \in Chunks |->
                 IF c \in open /\ o[c] = "provider_processing" /\ n[c] = o[c]
                 THEN "provider_deleting" ELSE n[c]]
     /\ SetStatus(j, IF open = {} THEN "failed"
                     ELSE IF canceled THEN "cancel_requested"
                     ELSE IF \E c \in open : o[c] \in Uploading
                          THEN "reconciliation_required"
                     ELSE "provider_processing")

-----------------------------------------------------------------------------
(* The API. *)

\* create_job: the job and its items in one commit.
CreateJob(j) ==
  /\ job[j].status = "absent"
  /\ entitled
  /\ SetStatus(j, "queued")
  /\ UNCHANGED <<opVars, item, file, posts, workerVars, asking, entitled,
                 faults>>

\* cancel_job tests the status it has loaded and writes without a lock.
AskCancel(j) ==
  /\ job[j].status \in ActiveJob \cup {"reconciliation_required"}
  /\ ~job[j].cancel
  /\ asking' = asking \cup {j}
  /\ UNCHANGED <<job, opVars, item, file, posts, workerVars, entitled, faults>>

WriteCancel(j) ==
  /\ j \in asking
  /\ job' = [job EXCEPT ![j] = [status |-> "cancel_requested", cancel |-> TRUE]]
  /\ asking' = asking \ {j}
  /\ UNCHANGED <<opVars, item, file, posts, workerVars, entitled, faults>>

\* External: an administrator ends the workspace's entitlement.
Revoke ==
  /\ entitled
  /\ Fault
  /\ entitled' = FALSE
  /\ UNCHANGED <<job, opVars, item, file, posts, workerVars, asking>>

-----------------------------------------------------------------------------
(* sweep_remote_cleanup. *)

\* Mutant: confirmed absences are left to process_job.
DueNow_SkipsRetry ==
  {c \in Chunks : op[c] \in (Uploading \ {"upload_retry_ready"})
                              \cup {"provider_deleting"} /\ due[c]}

DueNow ==
  {c \in Chunks : op[c] \in Uploading \cup {"provider_deleting"} /\ due[c]}

\* A sweep that attempts nothing lets the cycle go on to requests and jobs.
BeginSweep ==
  /\ pc = "idle"
  /\ IF DueNow = {}
       THEN pc' = "dequeue" /\ UNCHANGED <<todo, seen>>
       ELSE /\ pc' = "sweep"
            /\ todo' = DueNow
            /\ seen' = {j \in Jobs : job[j].cancel}
  /\ UNCHANGED <<job, opVars, item, file, posts, cur, asking, entitled, faults>>

\* Mutant: an upload the sweep has adopted does not bring its job back.
SweptStatus_NoRevival(j, out) ==
  LET ups == {c \in todo \cap ChunksOf(j) : op[c] \in Uploading}
      failed == {c \in todo \cap ChunksOf(j) : out[c] = "kept"}
  IN IF ups \cup failed = {} THEN job[j].status
     ELSE IF j \in seen THEN "cancel_requested"
     ELSE IF failed = {} THEN "reconciliation_required"
     ELSE "provider_processing"

\* The status the sweep's last write leaves on a job: uploads come before
\* deletions, each in the order of their rows.
SweptStatus(j, out) ==
  LET ups == {c \in todo \cap ChunksOf(j) : op[c] \in Uploading}
      failed == {c \in todo \cap ChunksOf(j) : out[c] = "kept"}
  IN IF ups \cup failed = {} THEN job[j].status
     ELSE IF j \in seen THEN "cancel_requested"
     ELSE IF failed = {} /\ out[Latest(ups)] \in Missed \cup Conflict
          THEN "reconciliation_required"
     ELSE "provider_processing"

\* The sweep commits once, at its end, and the cycle ends with it.
EndSweep ==
  /\ pc = "sweep"
  /\ \E out \in [todo -> UNION {SweepOutcomes(c) : c \in todo}] :
       /\ \A c \in todo : out[c] \in SweepOutcomes(c)
       /\ Settle(todo, out)
       /\ op' = OpAfter(todo, out)
       /\ item' = ItemAfter(todo, out)
       /\ job' = [j \in Jobs |-> WithStatus(j, SweptStatus(j, out))]
  /\ Rest
  /\ UNCHANGED <<posts, asking, entitled>>

-----------------------------------------------------------------------------
(* process_job. *)

NoWork ==
  /\ pc = "dequeue"
  /\ \A j \in Jobs : job[j].status \notin ActiveJob
  /\ Rest
  /\ UNCHANGED <<job, opVars, item, file, posts, asking, entitled, faults>>

Refuse(j) ==
  /\ pc = "dequeue" /\ FirstActive(j)
  /\ ~entitled
  /\ FailJob(j, job[j].cancel, op, op)
  /\ Rest
  /\ UNCHANGED <<misses, aged, due, polls, item, file, posts, asking, entitled,
                 faults>>

CancelPass(j) ==
  /\ pc = "dequeue" /\ FirstActive(j)
  /\ entitled
  /\ job[j].cancel
  /\ \E out \in [PendingOf(j) ->
                  UNION {CancelOutcomes(c) : c \in PendingOf(j)}] :
       /\ \A c \in PendingOf(j) : out[c] \in CancelOutcomes(c)
       /\ Settle(PendingOf(j), out)
       /\ op' = OpAfter(PendingOf(j), out)
       /\ SetStatus(j, IF \E c \in PendingOf(j) : After(c, out[c]) \in Pending
                       THEN "cancel_requested" ELSE "cancelled")
  /\ item' = [c \in Chunks |->
       IF c \in ChunksOf(j) /\ item[c] \notin ClosedItem THEN "cancelled"
       ELSE item[c]]
  /\ Rest
  /\ UNCHANGED <<posts, asking, entitled>>

\* The commit of status running; the session reads the row again after it.
Begin(j) ==
  /\ pc = "dequeue" /\ FirstActive(j)
  /\ entitled
  /\ ~job[j].cancel
  /\ SetStatus(j, "running")
  /\ pc' = "bulk" /\ cur' = j
  /\ UNCHANGED <<opVars, item, file, posts, todo, seen, asking, entitled,
                 faults>>

\* A pass that uploads: intents whose absence is confirmed, else whatever is
\* queued once nothing is pending.
RetryOf(j) == {c \in ChunksOf(j) : op[c] = "upload_retry_ready"}

Plan ==
  /\ pc = "bulk"
  /\ RetryOf(cur) # {} \/ (PendingOf(cur) = {} /\ QueuedOf(cur) # {})
  /\ IF RetryOf(cur) # {} THEN pc' = "intend" /\ todo' = RetryOf(cur)
     ELSE pc' = "credits" /\ todo' = QueuedOf(cur)
  /\ UNCHANGED <<job, opVars, item, file, posts, cur, seen, asking, entitled,
                 faults>>

Credits ==
  /\ pc = "credits"
  /\ pc' = "intend"
  /\ UNCHANGED <<job, opVars, item, file, posts, cur, todo, seen, asking,
                 entitled, faults>>

NoCredits ==
  /\ pc = "credits"
  /\ Fault
  /\ FailJob(cur, FALSE, op, op)
  /\ Rest
  /\ UNCHANGED <<misses, aged, due, polls, item, file, posts, asking, entitled>>

\* _create_bulk_upload_intent and the commit in front of the POST.
Intend ==
  /\ pc = "intend"
  /\ LET c == Earliest(todo)
     IN /\ op' = [op EXCEPT ![c] = "upload_intent"]
        /\ due' = [due EXCEPT ![c] = TRUE]
        /\ file' = [file EXCEPT ![c] = "wire"]
        /\ IF op[c] = "upload_retry_ready"
             THEN UNCHANGED <<misses, aged, item, job>>
             ELSE /\ misses' = [misses EXCEPT ![c] = 0]
                  /\ aged' = [aged EXCEPT ![c] = FALSE]
                  /\ item' = [item EXCEPT ![c] = "upload_pending"]
                  /\ SetStatus(cur, "provider_processing")
  /\ pc' = "post"
  /\ UNCHANGED <<polls, posts, cur, todo, seen, asking, entitled, faults>>

Acknowledge ==
  /\ pc = "post"
  /\ LET c == Earliest(todo)
     IN /\ file[c] \in Held
        /\ op' = [op EXCEPT ![c] = "provider_processing"]
        /\ item' = [item EXCEPT ![c] =
             IF @ = "upload_pending" THEN "provider_processing" ELSE @]
        /\ SetStatus(cur, "provider_processing")
        /\ IF todo = {c} THEN Rest
           ELSE pc' = "intend" /\ todo' = todo \ {c} /\ UNCHANGED <<cur, seen>>
  /\ UNCHANGED <<misses, aged, due, polls, file, posts, asking, entitled,
                 faults>>

\* outcome_unknown: a timeout, a broken connection, a 5xx, an unreadable body.
UploadUnknown ==
  /\ pc = "post"
  /\ LET c == Earliest(todo)
     IN /\ IF file[c] = "none" THEN UNCHANGED faults ELSE Fault
        /\ op' = [op EXCEPT ![c] = "upload_reconciling"]
        /\ due' = [due EXCEPT ![c] = FALSE]
        /\ SetStatus(cur, IF job[cur].cancel THEN "cancel_requested"
                          ELSE "reconciliation_required")
  /\ Rest
  /\ UNCHANGED <<misses, aged, polls, item, file, posts, asking, entitled>>

UploadRejected ==
  /\ pc = "post"
  /\ Fault
  /\ LET c == Earliest(todo)
     IN /\ file[c] = "wire"
        /\ file' = [file EXCEPT ![c] = "none"]
        /\ item' = [item EXCEPT ![c] =
             IF @ = "upload_pending" THEN "failed" ELSE @]
        /\ LET o == [op EXCEPT ![c] = "failed"]
           IN FailJob(cur, job[cur].cancel, o, o)
  /\ Rest
  /\ UNCHANGED <<misses, aged, due, polls, posts, asking, entitled>>

\* A pass that reconciles, polls, reads reports and deletes, with one commit.
\* While the pass leaves nothing pending, identifiers without a result fail.
PollPass ==
  /\ pc = "bulk"
  /\ RetryOf(cur) = {} /\ PendingOf(cur) # {}
  /\ \E out \in [PendingOf(cur) ->
                  UNION {PassOutcomes(c) : c \in PendingOf(cur)}] :
       LET settled == \A c \in PendingOf(cur) : After(c, out[c]) \notin Pending
           after == ItemAfter(PendingOf(cur), out)
       IN /\ \A c \in PendingOf(cur) : out[c] \in PassOutcomes(c)
          /\ Settle(PendingOf(cur), out)
          /\ op' = OpAfter(PendingOf(cur), out)
          /\ SetStatus(cur, IF settled THEN "running"
                            ELSE "provider_processing")
          /\ item' = [c \in Chunks |->
               IF settled /\ c \in ChunksOf(cur)
                  /\ after[c] = "provider_processing"
               THEN "failed" ELSE after[c]]
  /\ Rest
  /\ UNCHANGED <<posts, asking, entitled>>

\* A poll that raises ends the pass: uploads come first, then files in order.
\* What the pass has done by then is committed with the deferral.
PollFails ==
  /\ pc = "bulk"
  /\ RetryOf(cur) = {}
  /\ \E c \in PendingOf(cur) :
       LET D == {d \in PendingOf(cur) : op[d] \in Uploading \/ d <= c}
       IN \E out \in [D -> UNION {PassOutcomes(d) : d \in D}
                               \cup FatalOutcomes(c)] :
            /\ out[c] \in FatalOutcomes(c)
            /\ \A d \in D \ {c} : out[d] \in PassOutcomes(d)
            /\ Settle(D, out)
            /\ FailJob(cur, FALSE, op, OpAfter(D, out))
            /\ item' = ItemAfter(D, out)
  /\ Rest
  /\ UNCHANGED <<posts, asking, entitled>>

\* Mutant: files the provider still works on are not counted.
Finalize_EarlyCount ==
  /\ pc = "bulk"
  /\ QueuedOf(cur) = {}
  /\ item' = [c \in Chunks |->
       IF c \in ChunksOf(cur) /\ item[c] = "provider_processing"
       THEN "failed" ELSE item[c]]
  /\ IF \A c \in ChunksOf(cur) : item'[c] \in ClosedItem
       THEN SetStatus(cur, "completed") ELSE UNCHANGED job
  /\ Rest
  /\ UNCHANGED <<opVars, file, posts, asking, entitled, faults>>

\* _finalize_if_done, which counts what the database holds before the flush:
\* only a pass that begins with nothing pending closes the job.
Finalize ==
  /\ pc = "bulk"
  /\ PendingOf(cur) = {} /\ QueuedOf(cur) = {}
  /\ item' = [c \in Chunks |->
       IF c \in ChunksOf(cur) /\ item[c] = "provider_processing"
       THEN "failed" ELSE item[c]]
  /\ IF \A c \in ChunksOf(cur) : item'[c] \in ClosedItem
       THEN SetStatus(cur, "completed") ELSE UNCHANGED job
  /\ Rest
  /\ UNCHANGED <<opVars, file, posts, asking, entitled, faults>>

\* A restart.  Deletions the provider has carried out stay carried out, with
\* the rest of the transaction they belong to undone: that of a sweep, of a
\* pass that has read a report, or of a cancellation.
Deleting(c) ==
  \/ pc = "sweep" /\ c \in todo /\ op[c] = "provider_deleting"
  \/ /\ pc = "bulk" /\ Owner[c] = cur
     /\ op[c] = "provider_deleting" \/ (op[c] \in Pending /\ file[c] = "ready")
  \/ /\ pc = "dequeue" /\ FirstActive(Owner[c]) /\ job[Owner[c]].cancel
     /\ op[c] \in {"provider_processing", "provider_deleting"}
          \/ (op[c] \in Uploading /\ Listed(c))

Crash ==
  /\ pc # "idle"
  /\ Fault
  /\ \E D \in SUBSET {c \in Chunks : Deleting(c)} :
       file' = [c \in Chunks |-> IF c \in D THEN "deleted" ELSE file[c]]
  /\ Rest
  /\ UNCHANGED <<job, opVars, item, posts, asking, entitled>>

-----------------------------------------------------------------------------
(* External: the provider and time. *)

Become(c, s) == file' = [file EXCEPT ![c] = s]

Take(c) ==
  /\ file[c] = "wire"
  /\ Become(c, "hidden")
  /\ posts' = [posts EXCEPT ![c] = @ + 1]
  /\ UNCHANGED faults

Lose(c) == file[c] = "wire" /\ Fault /\ Become(c, "none") /\ UNCHANGED posts

Advance(c) ==
  /\ \/ file[c] = "hidden" /\ Become(c, "visible")
     \/ file[c] = "visible" /\ Become(c, "ready")
  /\ UNCHANGED <<posts, faults>>

Provider(c) ==
  /\ Take(c) \/ Lose(c) \/ Advance(c)
  /\ UNCHANGED <<job, opVars, item, workerVars, asking, entitled>>

\* The consistency delay is over: the worker's request has long been answered
\* and a file the provider took by then is in its listing.
Age(c) ==
  /\ op[c] \in Uploading
  /\ ~aged[c]
  /\ file[c] # "wire"
  /\ ~(pc = "post" /\ c = Earliest(todo))
  /\ aged' = [aged EXCEPT ![c] = TRUE]
  /\ IF file[c] = "hidden" THEN Become(c, "visible") ELSE UNCHANGED file
  /\ UNCHANGED <<job, op, misses, due, polls, item, posts, workerVars, asking,
                 entitled, faults>>

BackoffElapses(c) ==
  /\ ~due[c]
  /\ due' = [due EXCEPT ![c] = TRUE]
  /\ UNCHANGED <<job, op, misses, aged, polls, item, file, posts, workerVars,
                 asking, entitled, faults>>

-----------------------------------------------------------------------------
Api == \E j \in Jobs : CreateJob(j) \/ AskCancel(j) \/ WriteCancel(j)

Worker ==
  \/ BeginSweep \/ EndSweep \/ NoWork \/ Plan \/ Credits \/ Intend
  \/ Acknowledge \/ UploadUnknown \/ PollPass \/ PollFails \/ Finalize
  \/ \E j \in Jobs : Refuse(j) \/ CancelPass(j) \/ Begin(j)

Surroundings ==
  \E c \in Chunks : Provider(c) \/ Age(c) \/ BackoffElapses(c)

Next == Api \/ Revoke \/ Worker \/ NoCredits \/ UploadRejected \/ Crash
          \/ Surroundings

\* The worker's loop keeps running, a cancel handler finishes, requests are
\* answered or lost, files become visible and ready, and clocks go on.
Fairness ==
  /\ WF_vars(Worker)
  /\ \A j \in Jobs : WF_vars(WriteCancel(j))
  /\ \A c \in Chunks : WF_vars(Provider(c)) /\ WF_vars(Age(c))
                         /\ WF_vars(BackoffElapses(c))

Spec == Init /\ [][Next]_vars /\ Fairness

-----------------------------------------------------------------------------
(* Properties. *)

\* Types of the variables.
TypeOK ==
  /\ job \in [Jobs -> [status : JobStatus, cancel : BOOLEAN]]
  /\ op \in [Chunks -> OpStatus]
  /\ misses \in [Chunks -> 0 .. MinMisses]
  /\ aged \in [Chunks -> BOOLEAN]
  /\ due \in [Chunks -> BOOLEAN]
  /\ polls \in [Chunks -> 0 .. PollLimit - 1]
  /\ item \in [Chunks -> ItemStatus]
  /\ file \in [Chunks -> FileStatus]
  /\ posts \in [Chunks -> Nat]
  /\ pc \in {"idle", "sweep", "dequeue", "bulk", "credits", "intend", "post"}
  /\ cur \in Jobs \cup {0}
  /\ todo \subseteq Chunks
  /\ seen \subseteq Jobs
  /\ asking \subseteq Jobs
  /\ entitled \in BOOLEAN
  /\ faults \in 0 .. MaxFaults

\* A request that is on its way to the provider, or a file there.
Outside(c) == file[c] \in Held \cup {"wire"}

\* No orphan: whatever crashed, timed out or was hidden from the listing, an
\* upload that may have reached the provider has an operation row that the
\* sweep or a pass will come back to.
RemoteFileIsTracked == \A c \in Chunks : Outside(c) => op[c] \in Pending

\* A job that is completed, failed or cancelled has no identifiers at the
\* provider and none on the way there, even when it was closed by an error,
\* by the loss of the entitlement or by a cancellation that raced a pass.
ClosedJobIsClean ==
  \A c \in Chunks : job[Owner[c]].status \in ClosedJob =>
    op[c] \notin Pending /\ ~Outside(c)

\* The provider never takes the same chunk twice: an upload with an unknown
\* outcome is reconciled before it may be repeated.
UploadedOnce == \A c \in Chunks : posts[c] <= 1

\* Without a failure outside the program every identifier gets the result of
\* its file: neither cancellations nor the order of passes lose one.
NoLossWithoutFault == \A c \in Chunks : item[c] = "failed" => faults > 0

\* An absence that is confirmed is counted as an attempt by every sweep, and a
\* sweep that attempts something ends the cycle: no job is processed again.
Stuck == \E c \in Chunks : op[c] = "upload_retry_ready"

\* Every file the provider has taken is deleted there, unless the worker is
\* stuck behind a confirmed absence.
RemoteFilesAreDeleted ==
  \A c \in Chunks : file[c] \in Held ~> (file[c] = "deleted" \/ Stuck)

\* Every job ends, through failed uploads, errors and restarts, unless the
\* worker is stuck.
JobsEnd ==
  \A j \in Jobs : (job[j].status # "absent") ~>
                    (job[j].status \in ClosedJob \/ Stuck)

\* What the sweep is for: an upload that never reached the provider is sent
\* again once its absence is confirmed, or given up.
RetryIsDispatched ==
  \A c \in Chunks : (op[c] = "upload_retry_ready") ~>
                      (op[c] # "upload_retry_ready")

-----------------------------------------------------------------------------
(* The promise of FileCustody: a chunk is abroad while the provider may have *)
(* it, whatever the rows say, and while the rows say it may.               *)

Custody ==
  [c \in Chunks |-> IF op[c] \in Pending \/ Outside(c) THEN "abroad"
                    ELSE IF file[c] = "deleted" THEN "erased" ELSE "home"]

Contract ==
  INSTANCE FileCustody WITH Files <- Chunks, Batches <- Jobs, BatchOf <- Owner,
    custody <- Custody, closed <- {j \in Jobs : job[j].status \in ClosedJob}

\* Uploads, deletions and the closing of jobs keep to the custody contract:
\* nothing is handed out for a closed job, nothing is handed out again once
\* it was erased, and no job is closed over a file that is still abroad.
ImplementsCustody == Contract!Spec
=============================================================================

----------------------------- MODULE EventDrain -----------------------------
(***************************************************************************)
(* The drain of system-emitted messaging events: the worker of             *)
(* app/services/messaging/event_drain_worker.py, the consumer it calls     *)
(* (process_event of event_processor.py), the transactions that write the  *)
(* events, and the ingress handlers that run the same consumer inline.     *)
(*                                                                         *)
(* One process runs the worker: the scheduler leader of app/main.py.  The  *)
(* worker keeps a watermark in memory and, in worker_state, a copy of it;  *)
(* an event whose created_at lies below the watermark is never read again. *)
(* The ghost variables excused and failed record why an event may lie      *)
(* below it; the worker does not read them.                                *)
(***************************************************************************)
EXTENDS Integers, FiniteSets

CONSTANTS
  Events,        \* the rows messaging_events may come to hold
  InlineEvents,  \* those an ingress handler also processes itself
  Poison,        \* those whose processing may fail every time
  BatchSize,     \* EventDrainWorker.batch_size
  Lookback,      \* MAX_CATCHUP_HOURS, in ticks of the clock
  MaxTime,       \* bound on the clock
  MaxFaults      \* bound on crashes, row locks, abandoned batches and failures
                 \* of other events than Poison, together

ASSUME EventDrainAssumption ==
  /\ IsFiniteSet(Events)
  /\ InlineEvents \subseteq Events
  /\ Poison \subseteq Events
  /\ BatchSize \in Nat \ {0}
  /\ Lookback \in Nat
  /\ MaxTime \in Nat \ {0}
  /\ MaxFaults \in Nat

VARIABLES
  clock,      \* database time; created_at and utcnow() are read from it
  event,      \* Events -> [state, created]: the row and what became of it
  inflight,   \* the inline events whose handler has yet to run the consumer
  locked,     \* rows another transaction holds (identity and contact merges)
  persisted,  \* worker_state["event_drain_watermark"], 0 while there is no row
  worker,     \* the worker's memory
  runs,       \* Events -> how many process_event runs have committed
  excused,    \* ghost: events the drain is known to leave behind
  failed,     \* ghost: events of the open batch whose processing failed
  faults      \* faults so far

vars == <<clock, event, inflight, locked, persisted, worker, runs,
          excused, failed, faults>>

-----------------------------------------------------------------------------
(* State. *)

Times == 1 .. MaxTime

EventStates == {"absent", "open", "live", "processed"}

Row == [state : EventStates, created : 0 .. MaxTime]

\* The worker: watermark is _watermark; batch is what the query returned and
\* todo the part of it the loop has not reached; maxSeen and earliestFailed
\* are the loop's locals, 0 for None.
WorkerMemory ==
  [pc : {"down", "idle", "batch"}, watermark : 0 .. MaxTime,
   batch : SUBSET Events, todo : SUBSET Events,
   maxSeen : 0 .. MaxTime, earliestFailed : 0 .. MaxTime]

NoBatch(pc, w) == [pc |-> pc, watermark |-> w, batch |-> {}, todo |-> {},
                   maxSeen |-> 0, earliestFailed |-> 0]

Stopped == NoBatch("down", 0)
Idle(w) == NoBatch("idle", w)

Created(e) == event[e].created
Live == {e \in Events : event[e].state = "live"}

\* Mutant: created_at > the watermark, which loses the ties of a batch that
\* was cut by its LIMIT.
InScope_After == {e \in Live : Created(e) > worker.watermark}

\* The rows of the drain's query but for its LIMIT and its locks: live rows
\* with processed = FALSE and created_at >= the watermark.
InScope == {e \in Live : Created(e) >= worker.watermark}

\* Rows whose turn it is: the loop follows ORDER BY created_at.
Due == {e \in worker.todo : \A f \in worker.todo : Created(e) <= Created(f)}

\* A row that becomes visible with a created_at the drain has already gone
\* past, or will have when it closes the batch it has read.
Late(e) ==
  \/ Created(e) < persisted
  \/ worker.pc # "down" /\ Created(e) < worker.watermark
  \/ \E f \in worker.batch : Created(e) < Created(f)

Fault == faults < MaxFaults /\ faults' = faults + 1

Init ==
  /\ clock = 1
  /\ event = [e \in Events |-> [state |-> "absent", created |-> 0]]
  /\ inflight = {}
  /\ locked = {}
  /\ persisted = 0
  /\ worker = Stopped
  /\ runs = [e \in Events |-> 0]
  /\ excused = {}
  /\ failed = {}
  /\ faults = 0

-----------------------------------------------------------------------------
(* The transactions that write events, and the ingress handlers. *)

Tick ==
  /\ clock < MaxTime
  /\ clock' = clock + 1
  /\ UNCHANGED <<event, inflight, locked, persisted, worker, runs, excused,
                 failed, faults>>

\* A transaction that will insert an event begins: created_at is the server
\* default now(), the time the TRANSACTION began (a webhook's occurred_at is
\* earlier still).
BeginEmit(e) ==
  /\ event[e].state = "absent"
  /\ event' = [event EXCEPT ![e] = [state |-> "open", created |-> clock]]
  /\ UNCHANGED <<clock, inflight, locked, persisted, worker, runs, excused,
                 failed, faults>>

\* It commits, and the row becomes visible.  An ingress handler goes on to
\* run the consumer on it.
CommitEmit(e) ==
  /\ event[e].state = "open"
  /\ event' = [event EXCEPT ![e].state = "live"]
  /\ inflight' = IF e \in InlineEvents THEN inflight \cup {e} ELSE inflight
  /\ excused' = IF Late(e) THEN excused \cup {e} ELSE excused
  /\ UNCHANGED <<clock, locked, persisted, worker, runs, failed, faults>>

\* The handler's own process_event commits.  Neither it nor the drain looks
\* at processed before it runs.
InlineDone(e) ==
  /\ e \in inflight
  /\ inflight' = inflight \ {e}
  /\ event' = [event EXCEPT ![e].state = "processed"]
  /\ runs' = [runs EXCEPT ![e] = @ + 1]
  /\ UNCHANGED <<clock, locked, persisted, worker, excused, failed, faults>>

\* It fails, or its process dies first: the row stays for the drain.
InlineLost(e) ==
  /\ e \in inflight
  /\ inflight' = inflight \ {e}
  /\ UNCHANGED <<clock, event, locked, persisted, worker, runs, excused,
                 failed, faults>>

\* An identity or contact merge updates the row's user_id and holds its lock
\* to the end of its transaction.
LockRow(e) ==
  /\ e \in Live \ locked
  /\ Fault
  /\ locked' = locked \cup {e}
  /\ UNCHANGED <<clock, event, inflight, persisted, worker, runs, excused,
                 failed>>

UnlockRow(e) ==
  /\ e \in locked
  /\ locked' = locked \ {e}
  /\ UNCHANGED <<clock, event, inflight, persisted, worker, runs, excused,
                 failed, faults>>

-----------------------------------------------------------------------------
(* The worker. *)

Later(a, b) == IF a > b THEN a ELSE b

\* _load_watermark finds the row: resume there, but at most Lookback back.
StartResumed ==
  /\ worker.pc = "down"
  /\ persisted # 0
  /\ worker' = Idle(Later(persisted, clock - Lookback))
  /\ excused' = excused \cup {e \in Live : Created(e) < clock - Lookback}
  /\ UNCHANGED <<clock, event, inflight, locked, persisted, runs, failed,
                 faults>>

\* It finds no row, or the read fails and the error is logged: start from now.
StartFromNow ==
  /\ worker.pc = "down"
  /\ worker' = Idle(clock)
  /\ excused' = excused \cup {e \in Live : Created(e) < clock}
  /\ UNCHANGED <<clock, event, inflight, locked, persisted, runs, failed,
                 faults>>

\* stop(), or the death of the process.  Cancellation is not an Exception: it
\* leaves the loop at its await without closing the batch.
Crash ==
  /\ worker.pc # "down"
  /\ Fault
  /\ worker' = Stopped
  /\ failed' = {}
  /\ UNCHANGED <<clock, event, inflight, locked, persisted, runs, excused>>

\* The query of _process_cycle: the first BatchSize rows by created_at, FOR
\* UPDATE SKIP LOCKED.  The first commit in the loop releases the row locks,
\* so they protect nothing after it and are not modelled.
OpenBatch ==
  LET free == InScope \ locked IN
  /\ worker.pc = "idle"
  /\ \E B \in SUBSET free :
       /\ B # {}
       /\ \/ B = free /\ Cardinality(B) <= BatchSize
          \/ Cardinality(B) = BatchSize
       /\ \A e \in B, f \in free \ B : Created(e) <= Created(f)
       /\ worker' = [worker EXCEPT !.pc = "batch", !.batch = B, !.todo = B]
       /\ excused' = excused \cup
            {e \in locked \cap Live : \E f \in B : Created(e) < Created(f)}
  /\ UNCHANGED <<clock, event, inflight, locked, persisted, runs, failed,
                 faults>>

\* Mutant: a max_seen that adds up instead of comparing.
Counted_Sum(e) ==
  [worker EXCEPT !.todo = @ \ {e}, !.maxSeen = @ + Created(e)]

\* process_event returned: the loop counts the event and moves max_seen.
Counted(e) ==
  [worker EXCEPT !.todo = @ \ {e}, !.maxSeen = Later(@, Created(e))]

\* Mutant: the commit leaves processed as it was.
ProcessOk_Unmarked(e) ==
  /\ worker.pc = "batch" /\ e \in Due
  /\ runs' = [runs EXCEPT ![e] = IF @ < 3 THEN @ + 1 ELSE @]
  /\ worker' = Counted(e)
  /\ UNCHANGED <<clock, event, inflight, locked, persisted, excused, failed,
                 faults>>

\* The consumer ran to its commit.
ProcessOk(e) ==
  /\ worker.pc = "batch" /\ e \in Due
  /\ event' = [event EXCEPT ![e].state = "processed"]
  /\ runs' = [runs EXCEPT ![e] = @ + 1]
  /\ worker' = Counted(e)
  /\ UNCHANGED <<clock, inflight, locked, persisted, excused, failed, faults>>

\* Something inside process_event's own try failed: it logs, rolls back and
\* RETURNS, so the loop counts the event as drained.
ProcessSwallowed(e) ==
  /\ worker.pc = "batch" /\ e \in Due
  /\ IF e \in Poison THEN UNCHANGED faults ELSE Fault
  /\ worker' = Counted(e)
  /\ excused' = excused \cup {e}
  /\ failed' = failed \cup {e}
  /\ UNCHANGED <<clock, event, inflight, locked, persisted, runs>>

\* earliest_failed once e has failed as well.
EarliestWith(e) ==
  IF worker.earliestFailed = 0 THEN Created(e)
  ELSE IF Created(e) < worker.earliestFailed THEN Created(e)
  ELSE worker.earliestFailed

\* The cutover guard ahead of that try, or its rollback, raised: the loop
\* rolls back and remembers the earliest such event.
ProcessRaises(e) ==
  /\ worker.pc = "batch" /\ e \in Due
  /\ IF e \in Poison THEN UNCHANGED faults ELSE Fault
  /\ worker' = [worker EXCEPT !.todo = @ \ {e},
                               !.earliestFailed = EarliestWith(e)]
  /\ failed' = failed \cup {e}
  /\ UNCHANGED <<clock, event, inflight, locked, persisted, runs, excused>>

\* An error outside the loop's try (the reload of the next row after a commit
\* or a rollback) leaves _process_cycle; _run_loop logs it and polls again.
AbandonBatch ==
  /\ worker.pc = "batch" /\ worker.todo # {}
  /\ Fault
  /\ worker' = Idle(worker.watermark)
  /\ failed' = {}
  /\ UNCHANGED <<clock, event, inflight, locked, persisted, runs, excused>>

\* Mutant: the latest success before the earliest failure.
Candidate_SuccessFirst ==
  IF worker.maxSeen # 0 THEN worker.maxSeen ELSE worker.earliestFailed

\* What the loop hands on: the earliest failure, or else the latest success.
Candidate ==
  IF worker.earliestFailed # 0 THEN worker.earliestFailed ELSE worker.maxSeen

\* The write of worker_state; when it fails, that is logged and rolled back.
PersistWatermark(w) == persisted' = w \/ UNCHANGED persisted

\* Mutant: the candidate is persisted and not kept in memory.
CloseBatch_NotKept ==
  /\ worker.pc = "batch" /\ worker.todo = {}
  /\ worker' = Idle(worker.watermark)
  /\ persisted' = IF Candidate > worker.watermark THEN Candidate ELSE persisted
  /\ failed' = {}
  /\ UNCHANGED <<clock, event, inflight, locked, runs, excused, faults>>

\* The end of the cycle: the watermark moves if the candidate lies ahead of
\* it, and only then is it persisted.
CloseBatch ==
  /\ worker.pc = "batch" /\ worker.todo = {}
  /\ worker' = Idle(Later(worker.watermark, Candidate))
  /\ IF Candidate > worker.watermark
       THEN PersistWatermark(Candidate) ELSE UNCHANGED persisted
  /\ failed' = {}
  /\ UNCHANGED <<clock, event, inflight, locked, runs, excused, faults>>

-----------------------------------------------------------------------------
ProcessNext(e) == ProcessOk(e) \/ ProcessSwallowed(e) \/ ProcessRaises(e)

Start == StartResumed \/ StartFromNow

Next ==
  \/ Tick
  \/ StartResumed \/ StartFromNow \/ Crash
  \/ OpenBatch \/ AbandonBatch \/ CloseBatch
  \/ \E e \in Events :
       \/ BeginEmit(e) \/ CommitEmit(e)
       \/ InlineDone(e) \/ InlineLost(e)
       \/ LockRow(e) \/ UnlockRow(e)
       \/ ProcessOk(e) \/ ProcessSwallowed(e) \/ ProcessRaises(e)

Spec == Init /\ [][Next]_vars

\* The poll loop is an asyncio task and the process manager restarts a dead
\* process; a merge ends its transaction.  Nothing is assumed of emitters.
Fairness ==
  /\ WF_vars(Start)
  /\ WF_vars(OpenBatch)
  /\ WF_vars(\E e \in Events : ProcessNext(e))
  /\ WF_vars(CloseBatch)
  /\ WF_vars(\E e \in Events : UnlockRow(e))

FairSpec == Spec /\ Fairness

-----------------------------------------------------------------------------
(* Properties. *)

\* Every variable has its type.
TypeOK ==
  /\ clock \in Times
  /\ event \in [Events -> Row]
  /\ inflight \subseteq InlineEvents
  /\ locked \subseteq Events
  /\ persisted \in 0 .. MaxTime
  /\ worker \in WorkerMemory
  /\ runs \in [Events -> Nat]
  /\ excused \subseteq Events
  /\ failed \subseteq Events
  /\ faults \in 0 .. MaxFaults

\* Nothing is lost in silence: an unprocessed event behind the watermark, the
\* worker's or the persisted one a restart will resume from, is one of the
\* four the code gives up: committed after the drain had passed its
\* created_at, skipped because its row was locked, failed inside
\* process_event, or older than where a start began.
LeftBehindIsExcused ==
  \A e \in Live \ excused :
     /\ Created(e) >= persisted
     /\ worker.pc # "down" => Created(e) >= worker.watermark

\* Runs of the consumer that commit: one for the drain, whatever its batches,
\* retries and restarts, and one more only for an event whose ingress handler
\* runs the consumer too.
DrainsOnce ==
  \A e \in Events : runs[e] <= IF e \in InlineEvents THEN 2 ELSE 1

\* The persisted watermark never moves back, whatever a restart resumes from,
\* so no restart drains again what an earlier one has passed.
WatermarkNeverMovesBack == [][persisted' >= persisted]_vars

\* Every event that becomes visible is processed in the end, unless it is one
\* the code gives up (LeftBehindIsExcused) or one whose processing always
\* fails; fewer than BatchSize failing events never hold up the others.
EventsAreDrained ==
  \A e \in Events \ Poison :
     (event[e].state = "live") ~> (event[e].state = "processed" \/ e \in excused)

\* The comment at the watermark's advance: "On failures, hold it at the
\* earliest failed event so the row is retried next cycle".  Whatever way the
\* processing of an event failed, closing its batch leaves it in scope.
FailuresAreRetried ==
  [][CloseBatch =>
       \A e \in failed : event[e].state = "live" =>
                            Created(e) >= worker'.watermark]_vars
=============================================================================

-------------------------- MODULE EventDrainProofs --------------------------
(***************************************************************************)
(* What the event drain promises for every number of events, batch size,   *)
(* lookback and fault: nothing is left behind the watermark but what the   *)
(* code gives up, no event is drained twice, and the persisted watermark   *)
(* never moves back.  DrainInv is the inductive invariant.                 *)
(***************************************************************************)
EXTENDS EventDrain, TLAPS

\* No time lies in the future, and a restart resumes no further than the
\* worker had come.
TimeInv ==
  /\ \A e \in Events : event[e].state # "absent" => Created(e) \in 1 .. clock
  /\ worker.watermark <= clock
  /\ persisted <= clock
  /\ worker.pc # "down" => 1 <= worker.watermark /\ persisted <= worker.watermark

\* The batch in hand: rows that were in scope when it was read, with max_seen
\* and earliest_failed taken from among them.
BatchInv ==
  /\ worker.pc # "batch" => /\ worker.batch = {} /\ worker.todo = {}
                            /\ worker.maxSeen = 0 /\ worker.earliestFailed = 0
  /\ worker.todo \subseteq worker.batch
  /\ \A e \in worker.batch : /\ event[e].state \in {"live", "processed"}
                             /\ Created(e) >= worker.watermark
  /\ worker.maxSeen = 0 \/ \E f \in worker.batch : Created(f) = worker.maxSeen
  /\ worker.earliestFailed = 0
       \/ \E f \in worker.batch : Created(f) = worker.earliestFailed

\* An unprocessed event that is not given up is still to be read, still to be
\* reached in the batch, or holds the watermark back.
KeepInv ==
  \A e \in Live \ excused :
     /\ Created(e) >= persisted
     /\ worker.pc # "down" => Created(e) >= worker.watermark
     /\ IF e \in worker.batch
          THEN e \in worker.todo
                 \/ (worker.earliestFailed # 0 /\ worker.earliestFailed <= Created(e))
          ELSE \A f \in worker.batch : Created(f) <= Created(e)

\* Runs made and runs still possible: the handler's while it is in flight, the
\* drain's until it has processed the event.
RunsInv ==
  \A e \in Events :
     /\ event[e].state \in {"absent", "open"} => runs[e] = 0 /\ e \notin inflight
     /\ runs[e] + (IF e \in inflight THEN 1 ELSE 0)
          + (IF event[e].state = "processed" /\ e \notin worker.todo THEN 0 ELSE 1)
          <= IF e \in InlineEvents THEN 2 ELSE 1

DrainInv == TypeOK /\ TimeInv /\ BatchInv /\ KeepInv /\ RunsInv

\* The initial state, before the worker's first start.
LEMMA DrainInit == Init => DrainInv
<1> SUFFICES ASSUME Init PROVE DrainInv
  OBVIOUS
<1> USE EventDrainAssumption
<1>1. TypeOK
  BY DEF Init, TypeOK, Times, Row, EventStates, WorkerMemory, Stopped, NoBatch
<1>2. TimeInv
  BY DEF Init, TimeInv, Stopped, NoBatch, Created
<1>3. BatchInv
  BY DEF Init, BatchInv, Stopped, NoBatch
<1>4. KeepInv
  BY DEF Init, KeepInv, Live
<1>5. RunsInv
  BY DEF Init, RunsInv, Stopped, NoBatch
<1> QED
  BY <1>1, <1>2, <1>3, <1>4, <1>5 DEF DrainInv

\* A step of the writers of events, of their handlers or of the clock.
LEMMA WriterStep ==
  ASSUME DrainInv,
         \/ Tick
         \/ \E e \in Events : \/ BeginEmit(e) \/ CommitEmit(e)
                              \/ InlineDone(e) \/ InlineLost(e)
                              \/ LockRow(e) \/ UnlockRow(e)
  PROVE  DrainInv'
<1> USE EventDrainAssumption
<1>t. TypeOK /\ TimeInv /\ BatchInv /\ KeepInv /\ RunsInv
  BY DEF DrainInv
<1>1. CASE Tick
  <2>1. TypeOK'
    BY <1>t, <1>1 DEF Tick, TypeOK, Times
  <2>2. TimeInv' /\ BatchInv' /\ KeepInv' /\ RunsInv'
    BY <1>t, <1>1 DEF Tick, TypeOK, Times, TimeInv, BatchInv, KeepInv, RunsInv,
                      Live, Created, WorkerMemory, Row
  <2> QED
    BY <2>1, <2>2 DEF DrainInv
<1>2. ASSUME NEW e \in Events, BeginEmit(e) PROVE DrainInv'
  <2>1. TypeOK'
    BY <1>t, <1>2 DEF BeginEmit, TypeOK, Times, Row, EventStates
  <2>2. /\ \A f \in Events \ {e} : event'[f] = event[f]
        /\ event'[e] = [state |-> "open", created |-> clock]
        /\ event[e].state = "absent" /\ e \notin worker.batch
    BY <1>t, <1>2 DEF BeginEmit, TypeOK, BatchInv
  <2>3. TimeInv'
    BY <1>t, <1>2, <2>2 DEF BeginEmit, TimeInv, TypeOK, Times, Created
  <2>4. BatchInv'
    BY <1>t, <1>2, <2>2 DEF BeginEmit, BatchInv, TypeOK, WorkerMemory, Created
  <2>5. KeepInv'
    BY <1>t, <1>2, <2>2 DEF BeginEmit, KeepInv, TypeOK, WorkerMemory, Live, Created
  <2>6. RunsInv'
    BY <1>t, <1>2, <2>2 DEF BeginEmit, RunsInv, TypeOK
  <2> QED
    BY <2>1, <2>3, <2>4, <2>5, <2>6 DEF DrainInv
<1>3. ASSUME NEW e \in Events, CommitEmit(e) PROVE DrainInv'
  <2>1. TypeOK'
    BY <1>t, <1>3 DEF CommitEmit, TypeOK, Row, EventStates
  <2>2. /\ \A f \in Events \ {e} : event'[f] = event[f]
        /\ event'[e].state = "live" /\ event'[e].created = event[e].created
        /\ event[e].state = "open" /\ e \notin worker.batch
    BY <1>t, <1>3 DEF CommitEmit, TypeOK, BatchInv, Row
  <2>3. TimeInv'
    BY <1>t, <1>3, <2>2 DEF CommitEmit, TimeInv, Created
  <2>4. BatchInv'
    BY <1>t, <1>3, <2>2 DEF CommitEmit, BatchInv, TypeOK, WorkerMemory, Created
  <2>5. ASSUME e \notin excused'
        PROVE  /\ Created(e) >= persisted
               /\ worker.pc # "down" => Created(e) >= worker.watermark
               /\ \A f \in worker.batch : Created(f) <= Created(e)
    <3>1. ~Late(e)
      BY <1>3, <2>5 DEF CommitEmit
    <3>2. \A f \in Events : Created(f) \in Int
      BY <1>t DEF TypeOK, Row, Created
    <3> QED
      BY <1>t, <3>1, <3>2 DEF Late, TypeOK, WorkerMemory
  <2>6. KeepInv'
    <3> SUFFICES ASSUME NEW f \in Live' \ excused'
                 PROVE  /\ Created(f)' >= persisted'
                        /\ worker'.pc # "down" => Created(f)' >= worker'.watermark
                        /\ IF f \in worker'.batch
                             THEN f \in worker'.todo
                                    \/ (worker'.earliestFailed # 0
                                        /\ worker'.earliestFailed <= Created(f)')
                             ELSE \A g \in worker'.batch : Created(g)' <= Created(f)'
      BY DEF KeepInv
    <3>1. worker' = worker /\ persisted' = persisted
      BY <1>3 DEF CommitEmit
    <3>2. \A g \in Events : Created(g)' = Created(g)
      BY <2>2 DEF Created
    <3>3. worker.batch \subseteq Events
      BY <1>t DEF TypeOK, WorkerMemory
    <3>4. CASE f = e
      BY <2>2, <2>5, <3>1, <3>2, <3>3, <3>4
    <3>5. CASE f # e
      <4>1. f \in Live \ excused
        BY <1>3, <2>2, <3>5 DEF CommitEmit, Live
      <4> QED
        BY <1>t, <4>1, <3>1, <3>2, <3>3 DEF KeepInv, Live
    <3> QED
      BY <3>4, <3>5
  <2>7. RunsInv'
    BY <1>t, <1>3, <2>2 DEF CommitEmit, RunsInv, TypeOK
  <2> QED
    BY <2>1, <2>3, <2>4, <2>6, <2>7 DEF DrainInv
<1>4. ASSUME NEW e \in Events, InlineDone(e) PROVE DrainInv'
  <2>1. TypeOK'
    BY <1>t, <1>4 DEF InlineDone, TypeOK, Row, EventStates
  <2>2. /\ \A f \in Events \ {e} : event'[f] = event[f] /\ runs'[f] = runs[f]
        /\ event'[e].state = "processed" /\ event'[e].created = event[e].created
        /\ event[e].state \in {"live", "processed"}
        /\ runs'[e] = runs[e] + 1
    BY <1>t, <1>4 DEF InlineDone, TypeOK, RunsInv, Row, EventStates
  <2>3. TimeInv'
    BY <1>t, <1>4, <2>2 DEF InlineDone, TimeInv, Created
  <2>4. BatchInv'
    BY <1>t, <1>4, <2>2 DEF InlineDone, BatchInv, TypeOK, WorkerMemory, Created
  <2>5. KeepInv'
    BY <1>t, <1>4, <2>2 DEF InlineDone, KeepInv, TypeOK, WorkerMemory, Live, Created
  <2>6. RunsInv'
    BY <1>t, <1>4, <2>2 DEF InlineDone, RunsInv, TypeOK
  <2> QED
    BY <2>1, <2>3, <2>4, <2>5, <2>6 DEF DrainInv
<1>5. ASSUME NEW e \in Events, InlineLost(e) PROVE DrainInv'
  <2>1. TypeOK'
    BY <1>t, <1>5 DEF InlineLost, TypeOK
  <2>2. TimeInv' /\ BatchInv' /\ KeepInv'
    BY <1>t, <1>5 DEF InlineLost, TimeInv, BatchInv, KeepInv, Live, Created
  <2>3. RunsInv'
    BY <1>t, <1>5 DEF InlineLost, RunsInv, TypeOK
  <2> QED
    BY <2>1, <2>2, <2>3 DEF DrainInv
<1>6. ASSUME NEW e \in Events, LockRow(e) \/ UnlockRow(e) PROVE DrainInv'
  <2>1. TypeOK'
    BY <1>t, <1>6 DEF LockRow, UnlockRow, TypeOK, Live, Fault
  <2>2. TimeInv' /\ BatchInv' /\ KeepInv' /\ RunsInv'
    BY <1>t, <1>6 DEF LockRow, UnlockRow, TimeInv, BatchInv, KeepInv, RunsInv,
                      Live, Created
  <2> QED
    BY <2>1, <2>2 DEF DrainInv
<1> QED
  BY <1>1, <1>2, <1>3, <1>4, <1>5, <1>6

\* A start or the end of the worker, or a batch given up before it is closed:
\* no batch is in hand afterwards.
LEMMA RestartStep ==
  ASSUME DrainInv, StartResumed \/ StartFromNow \/ Crash \/ AbandonBatch
  PROVE  DrainInv'
<1> USE EventDrainAssumption
<1>t. TypeOK /\ TimeInv /\ BatchInv /\ KeepInv /\ RunsInv
  BY DEF DrainInv
<1>c. \A e \in Events : Created(e) \in 0 .. MaxTime /\ Created(e)' = Created(e)
  BY <1>t DEF StartResumed, StartFromNow, Crash, AbandonBatch, TypeOK, Row, Created
<1>w. /\ worker'.batch = {} /\ worker'.todo = {}
      /\ worker'.maxSeen = 0 /\ worker'.earliestFailed = 0
      /\ worker'.pc \in {"down", "idle"}
  BY DEF StartResumed, StartFromNow, Crash, AbandonBatch, Idle, Stopped, NoBatch
<1>1. TypeOK' /\ worker'.watermark <= clock
         /\ (worker'.pc # "down" =>
               1 <= worker'.watermark /\ persisted <= worker'.watermark)
  <2>1. CASE StartResumed
    <3>1. /\ Later(persisted, clock - Lookback) \in 1 .. clock
          /\ persisted <= Later(persisted, clock - Lookback)
      BY <1>t, <2>1 DEF StartResumed, TypeOK, TimeInv, Times, Later
    <3> QED
      BY <1>t, <2>1, <3>1 DEF StartResumed, TypeOK, TimeInv, Times, Idle, NoBatch,
                              WorkerMemory, Live
  <2>2. CASE StartFromNow
    BY <1>t, <2>2 DEF StartFromNow, TypeOK, TimeInv, Times, Idle, NoBatch,
                      WorkerMemory, Live
  <2>3. CASE Crash
    BY <1>t, <2>3 DEF Crash, TypeOK, TimeInv, Times, Stopped, NoBatch, WorkerMemory, Fault
  <2>4. CASE AbandonBatch
    BY <1>t, <2>4 DEF AbandonBatch, TypeOK, TimeInv, Times, Idle, NoBatch,
                      WorkerMemory, Fault
  <2> QED
    BY <2>1, <2>2, <2>3, <2>4
<1>2. TimeInv'
  BY <1>t, <1>1, <1>c DEF StartResumed, StartFromNow, Crash, AbandonBatch, TimeInv
<1>3. BatchInv'
  BY <1>w DEF BatchInv
<1>4. KeepInv'
  <2> SUFFICES ASSUME NEW e \in Live' \ excused'
               PROVE  /\ Created(e) >= persisted'
                      /\ worker'.pc # "down" => Created(e) >= worker'.watermark
    BY <1>c, <1>w DEF KeepInv, Live
  <2>1. e \in Live \ excused /\ persisted' = persisted
    BY DEF StartResumed, StartFromNow, Crash, AbandonBatch, Live
  <2>2. Created(e) >= persisted /\ (worker.pc # "down" => Created(e) >= worker.watermark)
    BY <1>t, <2>1 DEF KeepInv
  <2>3. CASE StartResumed
    <3>1. ~(Created(e) < clock - Lookback)
      BY <2>1, <2>3 DEF StartResumed
    <3>2. Created(e) >= Later(persisted, clock - Lookback)
      BY <1>c, <1>t, <2>1, <2>2, <3>1 DEF Later, TypeOK, Times, Live
    <3> QED
      BY <2>1, <2>2, <2>3, <3>2 DEF StartResumed, Idle, NoBatch
  <2>4. CASE StartFromNow
    <3>1. ~(Created(e) < clock)
      BY <2>1, <2>4 DEF StartFromNow
    <3> QED
      BY <1>c, <1>t, <2>1, <2>2, <2>4, <3>1 DEF StartFromNow, Idle, NoBatch, TypeOK,
                                                Times, Live
  <2>5. CASE Crash \/ AbandonBatch
    BY <2>1, <2>2, <2>5 DEF Crash, AbandonBatch, Idle, Stopped, NoBatch
  <2> QED
    BY <2>3, <2>4, <2>5
<1>5. RunsInv'
  BY <1>t, <1>w DEF RunsInv, TypeOK, StartResumed, StartFromNow, Crash, AbandonBatch
<1> QED
  BY <1>1, <1>2, <1>3, <1>4, <1>5 DEF DrainInv

\* The query.
LEMMA OpenStep == ASSUME DrainInv, OpenBatch PROVE DrainInv'
<1> USE EventDrainAssumption
<1>t. TypeOK /\ TimeInv /\ BatchInv /\ KeepInv /\ RunsInv
  BY DEF DrainInv
<1> DEFINE free == InScope \ locked
<1>1. PICK B \in SUBSET free :
         /\ \A e \in B, f \in free \ B : Created(e) <= Created(f)
         /\ worker' = [worker EXCEPT !.pc = "batch", !.batch = B, !.todo = B]
         /\ excused' = excused \cup
              {e \in locked \cap Live : \E f \in B : Created(e) < Created(f)}
  BY DEF OpenBatch
<1>2. B \subseteq Live /\ \A e \in B : Created(e) >= worker.watermark
  BY DEF InScope
<1>3. /\ worker.pc = "idle"
      /\ UNCHANGED <<clock, event, inflight, locked, persisted, runs, failed, faults>>
  BY DEF OpenBatch
<1>4. /\ worker'.pc = "batch" /\ worker'.batch = B /\ worker'.todo = B
      /\ worker'.watermark = worker.watermark
      /\ worker'.maxSeen = 0 /\ worker'.earliestFailed = 0
  BY <1>t, <1>1, <1>3 DEF TypeOK, WorkerMemory, BatchInv
<1>5. TypeOK'
  BY <1>t, <1>1, <1>2, <1>3 DEF TypeOK, WorkerMemory, Live
<1>6. TimeInv'
  BY <1>t, <1>3, <1>4 DEF TimeInv, Created
<1>7. BatchInv'
  BY <1>2, <1>3, <1>4 DEF BatchInv, Live, Created
<1>8. KeepInv'
  <2> SUFFICES ASSUME NEW e \in Live \ excused'
               PROVE  /\ Created(e) >= persisted
                      /\ Created(e) >= worker.watermark
                      /\ e \notin B => \A f \in B : Created(f) <= Created(e)
    BY <1>3, <1>4 DEF KeepInv, Live, Created
  <2>1. e \in Live \ excused
    BY <1>1
  <2>2. Created(e) >= persisted /\ Created(e) >= worker.watermark
    BY <1>t, <1>3, <2>1 DEF KeepInv
  <2>3. ASSUME e \notin B, NEW f \in B PROVE Created(f) <= Created(e)
    <3>1. CASE e \in locked
      <4>1. ~(Created(e) < Created(f))
        BY <1>1, <3>1
      <4>2. Created(e) \in Int /\ Created(f) \in Int
        BY <1>t, <1>2 DEF TypeOK, Row, Created, Live
      <4> QED
        BY <4>1, <4>2
    <3>2. CASE e \notin locked
      BY <1>1, <2>2, <2>3, <3>2 DEF InScope
    <3> QED
      BY <3>1, <3>2
  <2> QED
    BY <2>2, <2>3
<1>9. RunsInv'
  BY <1>t, <1>2, <1>3, <1>4 DEF RunsInv, TypeOK, Live, BatchInv
<1> QED
  BY <1>5, <1>6, <1>7, <1>8, <1>9 DEF DrainInv

\* One event of the batch: it ends processed, given up, or holding the
\* watermark at or below its created_at.
LEMMA ProcessStep ==
  ASSUME DrainInv, NEW e \in Events,
         ProcessOk(e) \/ ProcessSwallowed(e) \/ ProcessRaises(e)
  PROVE  DrainInv'
<1> USE EventDrainAssumption
<1>t. TypeOK /\ TimeInv /\ BatchInv /\ KeepInv /\ RunsInv
  BY DEF DrainInv
<1>1. /\ worker.pc = "batch" /\ e \in worker.todo /\ e \in worker.batch
      /\ UNCHANGED <<clock, inflight, locked, persisted>>
      /\ worker.batch \subseteq Events
  BY <1>t DEF ProcessOk, ProcessSwallowed, ProcessRaises, Due, BatchInv, TypeOK,
              WorkerMemory
<1>2. /\ worker'.pc = "batch" /\ worker'.batch = worker.batch
      /\ worker'.watermark = worker.watermark
      /\ worker'.todo = worker.todo \ {e}
  BY <1>t, <1>1 DEF ProcessOk, ProcessSwallowed, ProcessRaises, Counted, TypeOK,
                    WorkerMemory
<1>3. /\ \A f \in Events : Created(f) \in 0 .. MaxTime /\ Created(f)' = Created(f)
      /\ \A f \in Events \ {e} : event'[f] = event[f] /\ runs'[f] = runs[f]
      /\ Created(e) \in 1 .. clock
  BY <1>t, <1>1 DEF ProcessOk, ProcessSwallowed, ProcessRaises, TypeOK, Row, Created,
                    TimeInv, BatchInv
<1>m. Later(worker.maxSeen, Created(e)) \in {worker.maxSeen, Created(e)}
  BY DEF Later
<1>f. /\ EarliestWith(e) # 0 /\ EarliestWith(e) <= Created(e)
      /\ EarliestWith(e) \in 0 .. MaxTime
      /\ \/ EarliestWith(e) = worker.earliestFailed
         \/ /\ EarliestWith(e) = Created(e)
            /\ worker.earliestFailed = 0 \/ Created(e) < worker.earliestFailed
  BY <1>t, <1>1, <1>3 DEF EarliestWith, TypeOK, WorkerMemory, Times
<1>4. \/ /\ event' = [event EXCEPT ![e].state = "processed"]
         /\ runs' = [runs EXCEPT ![e] = @ + 1] /\ excused' = excused
      \/ event' = event /\ runs' = runs /\ excused' = excused \cup {e}
      \/ /\ event' = event /\ runs' = runs /\ excused' = excused
         /\ worker'.earliestFailed # 0 /\ worker'.earliestFailed <= Created(e)
  BY <1>t, <1>f DEF ProcessOk, ProcessSwallowed, ProcessRaises, TypeOK, WorkerMemory
<1>5. /\ worker'.maxSeen \in {worker.maxSeen, Created(e)}
      /\ \/ worker'.earliestFailed = worker.earliestFailed
         \/ /\ worker'.earliestFailed = Created(e)
            /\ worker.earliestFailed = 0 \/ Created(e) < worker.earliestFailed
      /\ worker' \in WorkerMemory
  <2>1. CASE ProcessOk(e) \/ ProcessSwallowed(e)
    <3>1. worker' = [worker EXCEPT !.todo = worker.todo \ {e},
                                   !.maxSeen = Later(worker.maxSeen, Created(e))]
      BY <2>1 DEF ProcessOk, ProcessSwallowed, Counted
    <3>2. Later(worker.maxSeen, Created(e)) \in 0 .. MaxTime
      BY <1>t, <1>1, <1>3, <1>m DEF TypeOK, WorkerMemory
    <3> QED
      BY <1>t, <1>m, <3>1, <3>2 DEF TypeOK, WorkerMemory
  <2>2. CASE ProcessRaises(e)
    BY <1>t, <1>1, <1>3, <1>f, <2>2 DEF ProcessRaises, TypeOK, WorkerMemory
  <2> QED
    BY <2>1, <2>2
<1>6. TypeOK'
  BY <1>t, <1>1, <1>3, <1>5 DEF ProcessOk, ProcessSwallowed, ProcessRaises, TypeOK,
                                Fault, Row, EventStates
<1>7. TimeInv'
  BY <1>t, <1>1, <1>2, <1>3, <1>4 DEF TimeInv, BatchInv, TypeOK
<1>8. BatchInv'
  <2>1. \A f \in worker.batch : /\ event'[f].state \in {"live", "processed"}
                                /\ Created(f)' >= worker'.watermark
    BY <1>t, <1>1, <1>2, <1>3, <1>4 DEF BatchInv, TypeOK, Row, EventStates
  <2>2. worker'.maxSeen = 0 \/ \E f \in worker.batch : Created(f)' = worker'.maxSeen
    BY <1>t, <1>1, <1>3, <1>5 DEF BatchInv
  <2>3. worker'.earliestFailed = 0
          \/ \E f \in worker.batch : Created(f)' = worker'.earliestFailed
    BY <1>t, <1>1, <1>3, <1>5 DEF BatchInv
  <2> QED
    BY <1>t, <1>2, <2>1, <2>2, <2>3 DEF BatchInv
<1>9. KeepInv'
  <2> SUFFICES ASSUME NEW f \in Live' \ excused'
               PROVE  /\ Created(f)' >= persisted'
                      /\ worker'.pc # "down" => Created(f)' >= worker'.watermark
                      /\ IF f \in worker'.batch
                           THEN f \in worker'.todo
                                  \/ (worker'.earliestFailed # 0
                                      /\ worker'.earliestFailed <= Created(f)')
                           ELSE \A g \in worker'.batch : Created(g)' <= Created(f)'
    BY DEF KeepInv
  <2>1. f \in Live \ excused
    BY <1>t, <1>1, <1>3, <1>4 DEF Live, TypeOK, Row, BatchInv
  <2>2. Created(f)' >= persisted' /\ Created(f)' >= worker'.watermark
    BY <1>t, <1>1, <1>2, <1>3, <2>1 DEF KeepInv, Live
  <2>3. CASE f \notin worker.batch
    BY <1>t, <1>1, <1>2, <1>3, <2>1, <2>2, <2>3 DEF KeepInv, Live
  <2>4. CASE f \in worker.batch /\ f = e
    <3>1. worker'.earliestFailed # 0 /\ worker'.earliestFailed <= Created(e)
      BY <1>t, <1>4, <2>1, <2>4 DEF Live, TypeOK, Row
    <3> QED
      BY <1>2, <1>3, <2>2, <2>4, <3>1
  <2>5. CASE f \in worker.batch /\ f # e
    <3>1. f \in worker.todo
            \/ (worker.earliestFailed # 0 /\ worker.earliestFailed <= Created(f))
      BY <1>t, <2>1, <2>5 DEF KeepInv
    <3>2. worker.earliestFailed # 0 /\ worker.earliestFailed <= Created(f)
            => worker'.earliestFailed # 0 /\ worker'.earliestFailed <= Created(f)
      BY <1>t, <1>1, <1>3, <1>5, <2>5 DEF TypeOK, WorkerMemory, Times
    <3> QED
      BY <1>2, <1>3, <1>1, <2>2, <2>5, <3>1, <3>2
  <2> QED
    BY <2>3, <2>4, <2>5
<1>10. RunsInv'
  <2> SUFFICES ASSUME NEW f \in Events
               PROVE  /\ event'[f].state \in {"absent", "open"}
                           => runs'[f] = 0 /\ f \notin inflight'
                      /\ runs'[f] + (IF f \in inflight' THEN 1 ELSE 0)
                           + (IF event'[f].state = "processed" /\ f \notin worker'.todo
                                THEN 0 ELSE 1)
                           <= IF f \in InlineEvents THEN 2 ELSE 1
    BY DEF RunsInv
  <2>1. CASE f # e
    BY <1>t, <1>1, <1>2, <1>3, <2>1 DEF RunsInv
  <2>2. CASE f = e
    <3>1. /\ runs[e] \in Nat /\ event[e].state \in {"live", "processed"}
          /\ runs[e] + (IF e \in inflight THEN 1 ELSE 0) + 1
               <= IF e \in InlineEvents THEN 2 ELSE 1
      BY <1>t, <1>1 DEF RunsInv, BatchInv, TypeOK
    <3>2. \/ event'[e].state = "processed" /\ runs'[e] = runs[e] + 1
          \/ event'[e] = event[e] /\ runs'[e] = runs[e]
      BY <1>t, <1>4 DEF TypeOK, Row
    <3> QED
      BY <1>1, <1>2, <2>2, <3>1, <3>2
  <2> QED
    BY <2>1, <2>2
<1> QED
  BY <1>6, <1>7, <1>8, <1>9, <1>10 DEF DrainInv

\* The end of a cycle.  Every event of the batch was reached, so an event that
\* is kept lies at or above the earliest failure, or above all of the batch.
LEMMA CloseStep ==
  ASSUME DrainInv, CloseBatch
  PROVE  DrainInv' /\ persisted' >= persisted
<1> USE EventDrainAssumption
<1>t. TypeOK /\ TimeInv /\ BatchInv /\ KeepInv /\ RunsInv
  BY DEF DrainInv
<1>1. /\ worker.pc = "batch" /\ worker.todo = {}
      /\ worker' = Idle(Later(worker.watermark, Candidate))
      /\ UNCHANGED <<clock, event, inflight, locked, runs, excused, faults>>
      /\ failed' = {}
  BY DEF CloseBatch
<1>p. \/ persisted' = persisted
      \/ Candidate > worker.watermark /\ persisted' = Candidate
  BY DEF CloseBatch, PersistWatermark
<1>2. /\ worker.watermark \in 1 .. clock /\ persisted \in 0 .. clock
      /\ persisted <= worker.watermark /\ clock \in Times
      /\ \A e \in Events : Created(e) \in 0 .. MaxTime /\ Created(e)' = Created(e)
      /\ worker.batch \subseteq Events
  BY <1>t, <1>1 DEF TypeOK, TimeInv, WorkerMemory, Times, Row, Created
<1>3. \A f \in worker.batch : Created(f) \in 1 .. clock
  BY <1>t, <1>2 DEF BatchInv, TimeInv
<1>4. Candidate = 0 \/ \E f \in worker.batch : Created(f) = Candidate
  BY <1>t DEF BatchInv, Candidate
<1>5. Candidate \in 0 .. clock
  BY <1>2, <1>3, <1>4 DEF Times
<1>6. /\ Later(worker.watermark, Candidate) \in 1 .. clock
      /\ Later(worker.watermark, Candidate) >= Candidate
      /\ Later(worker.watermark, Candidate) \in {worker.watermark, Candidate}
      /\ persisted' \in 0 .. clock
      /\ persisted' >= persisted
      /\ persisted' <= Later(worker.watermark, Candidate)
  BY <1>1, <1>p, <1>2, <1>5 DEF Later, Times
<1>7. /\ worker'.pc = "idle" /\ worker'.watermark = Later(worker.watermark, Candidate)
      /\ worker'.batch = {} /\ worker'.todo = {}
      /\ worker'.maxSeen = 0 /\ worker'.earliestFailed = 0
  BY <1>1 DEF Idle, NoBatch
<1>8. TypeOK'
  BY <1>t, <1>1, <1>2, <1>6 DEF TypeOK, WorkerMemory, Idle, NoBatch, Times
<1>9. TimeInv'
  BY <1>t, <1>1, <1>2, <1>6, <1>7 DEF TimeInv, Times
<1>10. BatchInv'
  BY <1>7 DEF BatchInv
<1>11. KeepInv'
  <2> SUFFICES ASSUME NEW e \in Live \ excused
               PROVE  Created(e) >= Later(worker.watermark, Candidate)
                        /\ Created(e) >= persisted'
    BY <1>1, <1>2, <1>7 DEF KeepInv, Live
  <2>1. Created(e) >= worker.watermark
    BY <1>t, <1>1 DEF KeepInv
  <2>2. Created(e) >= Candidate
    <3>1. CASE e \in worker.batch
      BY <1>t, <1>1, <3>1 DEF KeepInv, Candidate
    <3>2. CASE e \notin worker.batch
      BY <1>t, <1>2, <1>4, <3>2 DEF KeepInv, Live
    <3> QED
      BY <3>1, <3>2
  <2> QED
    BY <1>2, <1>5, <1>6, <2>1, <2>2 DEF Live, Times
<1>12. RunsInv'
  BY <1>t, <1>1, <1>7 DEF RunsInv, TypeOK
<1> QED
  BY <1>6, <1>8, <1>9, <1>10, <1>11, <1>12 DEF DrainInv

\* Every step keeps the invariant.
LEMMA DrainNext == DrainInv /\ [Next]_vars => DrainInv'
<1> SUFFICES ASSUME DrainInv, [Next]_vars PROVE DrainInv'
  OBVIOUS
<1>1. CASE UNCHANGED vars
  BY <1>1 DEF vars, DrainInv, TypeOK, TimeInv, BatchInv, KeepInv, RunsInv, Live,
              Created
<1>2. CASE Next
  BY <1>2, WriterStep, RestartStep, OpenStep, ProcessStep, CloseStep DEF Next
<1> QED
  BY <1>1, <1>2

\* The inductive invariant holds in every reachable state.
THEOREM DrainInvariance == Spec => []DrainInv
  BY DrainInit, DrainNext, PTL DEF Spec

\* Every variable of the drain keeps its type.
THEOREM DrainTypes == Spec => []TypeOK
<1>1. DrainInv => TypeOK
  BY DEF DrainInv
<1> QED
  BY <1>1, DrainInvariance, PTL

\* Nothing is left behind the watermark of the drain, or behind the persisted
\* one, except what the code gives up.
THEOREM NothingLostInSilence == Spec => []LeftBehindIsExcused
<1>1. DrainInv => LeftBehindIsExcused
  BY DEF DrainInv, KeepInv, LeftBehindIsExcused
<1> QED
  BY <1>1, DrainInvariance, PTL

\* However batches, retries and restarts fall, the drain processes an event at
\* most once, and a second run is only the ingress handler's.
THEOREM NoSecondDrain == Spec => []DrainsOnce
<1>1. DrainInv => DrainsOnce
  <2> SUFFICES ASSUME DrainInv, NEW e \in Events
               PROVE  runs[e] <= IF e \in InlineEvents THEN 2 ELSE 1
    BY DEF DrainsOnce
  <2>1. runs[e] \in Nat
    BY DEF DrainInv, TypeOK
  <2> QED
    BY <2>1 DEF DrainInv, RunsInv
<1> QED
  BY <1>1, DrainInvariance, PTL

\* The persisted watermark never moves back.
THEOREM WatermarkIsMonotone == Spec => WatermarkNeverMovesBack
<1>1. DrainInv /\ [Next]_vars => [persisted' >= persisted]_vars
  <2> SUFFICES ASSUME DrainInv, Next PROVE persisted' >= persisted
    OBVIOUS
  <2>1. persisted \in Nat
    BY EventDrainAssumption DEF DrainInv, TypeOK
  <2>2. CASE CloseBatch
    BY <2>2, CloseStep
  <2>3. CASE ~CloseBatch
    <3>1. persisted' = persisted
      BY <2>3 DEF Next, Tick, StartResumed, StartFromNow, Crash, OpenBatch,
                  AbandonBatch, BeginEmit, CommitEmit, InlineDone, InlineLost,
                  LockRow, UnlockRow, ProcessOk, ProcessSwallowed, ProcessRaises
    <3> QED
      BY <2>1, <3>1
  <2> QED
    BY <2>2, <2>3
<1> QED
  BY <1>1, DrainInvariance, PTL DEF Spec, WatermarkNeverMovesBack
=============================================================================

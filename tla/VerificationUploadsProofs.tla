---------------------- MODULE VerificationUploadsProofs ----------------------
(***************************************************************************)
(* Proofs about VerificationUploads: UploadInv is an inductive invariant,  *)
(* for any jobs, chunks and bounds; the safety properties follow from it,  *)
(* and so does the refinement of FileCustody.                              *)
(***************************************************************************)
EXTENDS VerificationUploads, FiniteSetTheorems, WellFoundedInduction, TLAPS

-----------------------------------------------------------------------------
(* Chunks have a first one. *)

Below == {p \in Nat \X Nat : p[1] < p[2]}

LEMMA Smallest ==
    ASSUME NEW S, S \subseteq Nat, S # {}
    PROVE  \E n \in S : \A m \in S : n <= m
  <1>1. IsWellFoundedOn(Below, Nat)
    BY ONLY NatLessThanWellFounded DEF OpToRel, Below
  <1>2. PICK n \in S : \A m \in S : <<m, n>> \notin Below
    BY <1>1, WFMin
  <1>3. \A m \in S : ~(m < n)
    BY <1>2 DEF Below
  <1> QED
    BY <1>3

\* A non-empty set of chunks has an earliest one, and it is one of them.
LEMMA EarliestIsIn ==
    ASSUME NEW S \in SUBSET Chunks, S # {}
    PROVE  Earliest(S) \in S
  BY Smallest, VerificationUploadsAssumption DEF Earliest

-----------------------------------------------------------------------------
(* Types. *)

LEMMA AfterType ==
    ASSUME TypeOK, NEW c \in Chunks, NEW o
    PROVE  After(c, o) \in OpStatus
  BY DEF TypeOK, After, OpStatus, Pending, Uploading

LEMMA OpAfterType ==
    ASSUME TypeOK, NEW D, NEW out
    PROVE  OpAfter(D, out) \in [Chunks -> OpStatus]
  BY AfterType DEF OpAfter, TypeOK

LEMMA ItemAfterType ==
    ASSUME TypeOK, NEW D, NEW out
    PROVE  ItemAfter(D, out) \in [Chunks -> ItemStatus]
  BY DEF ItemAfter, TypeOK, ItemStatus, ClosedItem

LEMMA MissCountType ==
    ASSUME TypeOK, NEW c \in Chunks
    PROVE  MissCount(c) \in 0 .. MinMisses
  BY VerificationUploadsAssumption DEF TypeOK, MissCount

LEMMA StatusType ==
    ASSUME TypeOK, NEW j \in Jobs, NEW s \in JobStatus
    PROVE  /\ WithStatus(j, s) \in [status : JobStatus, cancel : BOOLEAN]
           /\ SetStatus(j, s) => job' \in [Jobs -> [status : JobStatus, cancel : BOOLEAN]]
  <1>1. WithStatus(j, s) \in [status : JobStatus, cancel : BOOLEAN]
    BY DEF WithStatus, TypeOK
  <1> QED
    BY <1>1 DEF SetStatus, TypeOK

LEMMA FailJobType ==
    ASSUME TypeOK, NEW j \in Jobs, NEW canceled, NEW o, NEW n \in [Chunks -> OpStatus],
           FailJob(j, canceled, o, n)
    PROVE  /\ op' \in [Chunks -> OpStatus]
           /\ job' \in [Jobs -> [status : JobStatus, cancel : BOOLEAN]]
  <1> DEFINE open == {c \in ChunksOf(j) : o[c] \in Pending}
             s == IF open = {} THEN "failed"
                  ELSE IF canceled THEN "cancel_requested"
                  ELSE IF \E c \in open : o[c] \in Uploading
                       THEN "reconciliation_required"
                  ELSE "provider_processing"
  <1>1. s \in JobStatus
    BY DEF JobStatus, ActiveJob, ClosedJob
  <1>2. SetStatus(j, s)
    BY DEF FailJob
  <1>3. op' \in [Chunks -> OpStatus]
    BY DEF FailJob, OpStatus, Pending
  <1> QED
    BY <1>1, <1>2, <1>3, StatusType

\* The counters and files after a pass over D, if no poll exceeds its limit.
LEMMA SettleType ==
    ASSUME TypeOK, NEW D \in SUBSET Chunks, NEW out,
           \A c \in D : out[c] = "flaky" => polls[c] + 1 < PollLimit,
           Settle(D, out)
    PROVE  /\ misses' \in [Chunks -> 0 .. MinMisses]
           /\ aged' \in [Chunks -> BOOLEAN]
           /\ due' \in [Chunks -> BOOLEAN]
           /\ polls' \in [Chunks -> 0 .. PollLimit - 1]
           /\ file' \in [Chunks -> FileStatus]
           /\ faults' \in 0 .. MaxFaults
  <1> USE VerificationUploadsAssumption DEF TypeOK, Settle
  <1>1. misses' \in [Chunks -> 0 .. MinMisses]
    BY MissCountType
  <1>2. aged' \in [Chunks -> BOOLEAN] /\ due' \in [Chunks -> BOOLEAN]
    OBVIOUS
  <1>3. polls' \in [Chunks -> 0 .. PollLimit - 1]
    OBVIOUS
  <1>4. file' \in [Chunks -> FileStatus]
    BY DEF FileStatus
  <1>5. faults' \in 0 .. MaxFaults
    <2>1. IsFiniteSet({c \in D : out[c] \in Faulty})
      BY FS_Subset
    <2>2. Cardinality({c \in D : out[c] \in Faulty}) \in Nat
      BY <2>1, FS_CardinalityType
    <2> QED
      BY <2>2
  <1> QED
    BY <1>1, <1>2, <1>3, <1>4, <1>5

-----------------------------------------------------------------------------
(* The inductive invariant. *)

Clean == \A c \in Chunks : job[Owner[c]].status \in ClosedJob => op[c] \notin Pending

\* When the consistency delay is over a file that is there is listed, so that an
\* absence that is confirmed is one; and a confirmed absence is due.
Listings ==
  \A c \in Chunks :
    /\ op[c] \in Uploading /\ aged[c] => file[c] \notin {"wire", "hidden"}
    /\ op[c] = "upload_retry_ready" => ~Outside(c) /\ due[c]

\* A chunk without an operation has never left the house, and a request that is
\* on its way is the first one.
Fresh ==
  \A c \in Chunks :
    /\ item[c] = "queued" => op[c] = "none"
    /\ op[c] = "none" => file[c] = "none" /\ posts[c] = 0
    /\ file[c] = "wire" => posts[c] = 0
    /\ posts[c] <= 1

\* Where the worker is.  The sweep sees every confirmed absence, and the cycle
\* ends with it: beyond the sweep there is none.
Working == {"bulk", "credits", "intend", "post"}
Uploads == {"credits", "intend", "post"}

Cycle ==
  /\ pc \in Working \cup {"dequeue"} =>
       \A c \in Chunks : op[c] # "upload_retry_ready"
  /\ pc \in Working => cur \in Jobs /\ job[cur].status \notin ClosedJob
  /\ pc = "sweep" => \A c \in todo : op[c] \in Uploading \cup {"provider_deleting"}
  /\ pc \in Uploads => todo # {} /\ todo \subseteq ChunksOf(cur)
  /\ pc \in {"credits", "intend"} => \A c \in todo : op[c] = "none"
  /\ pc = "post" =>
       /\ op[Earliest(todo)] = "upload_intent"
       /\ \A c \in todo \ {Earliest(todo)} : op[c] = "none"

UploadInv == TypeOK /\ RemoteFileIsTracked /\ Clean /\ Listings /\ Fresh /\ Cycle

\* What an outcome says of the operation it is an outcome of.
Sound(c, o) ==
  /\ o \in Outcome
  /\ o = "flaky" => polls[c] + 1 < PollLimit
  /\ o \in Adopted \cup Absent \cup Missed \cup Conflict \cup Withdrawn =>
       op[c] \in Uploading
  /\ o \in Adopted => Listed(c)
  /\ o \in Absent \cup Withdrawn => ~Outside(c)

LEMMA AbsenceIsReal ==
    ASSUME TypeOK, Listings, NEW c \in Chunks, op[c] \in Uploading, Absence(c)
    PROVE  ~Outside(c)
  BY DEF TypeOK, Listings, Absence, Listed, Outside, Held, FileStatus

LEMMA ReconcileIsSound ==
    ASSUME TypeOK, Listings, NEW c \in Chunks, op[c] \in Uploading,
           NEW o \in ReconcileOutcomes(c)
    PROVE  Sound(c, o)
  BY AbsenceIsReal DEF Outcome, Erased, Kept, Untouched, ReconcileOutcomes, Sound, Adopted, Absent, Missed, Conflict,
     Withdrawn

LEMMA SweepIsSound ==
    ASSUME TypeOK, Listings, NEW c \in Chunks,
           NEW o \in SweepOutcomes(c)
    PROVE  Sound(c, o)
  <1> USE DEF Sound, Outcome, Adopted, Absent, Missed, Conflict, Withdrawn, Erased,
              Kept, Untouched, Fatal
  <1>1. CASE op[c] = "upload_retry_ready"
    BY <1>1 DEF SweepOutcomes
  <1>2. CASE op[c] # "upload_retry_ready" /\ op[c] \in Uploading
    BY <1>2, ReconcileIsSound DEF SweepOutcomes
  <1>3. CASE op[c] \notin Uploading /\ op[c] # "upload_retry_ready"
    BY <1>3 DEF SweepOutcomes, DeleteOutcomes
  <1> QED
    BY <1>1, <1>2, <1>3

LEMMA PassIsSound ==
    ASSUME TypeOK, Listings, NEW c \in Chunks,
           NEW o \in PassOutcomes(c) \cup FatalOutcomes(c)
    PROVE  Sound(c, o)
  <1> USE DEF Sound, Outcome, Adopted, Absent, Missed, Conflict, Withdrawn, Erased,
              Kept, Untouched, Fatal
  <1>1. CASE o \in FatalOutcomes(c)
    BY <1>1 DEF FatalOutcomes
  <1>2. CASE o \in PassOutcomes(c) /\ op[c] \in Uploading /\ due[c]
    BY <1>2, ReconcileIsSound DEF PassOutcomes
  <1>3. CASE o \in PassOutcomes(c) /\ op[c] \in Uploading /\ ~due[c]
    BY <1>3 DEF PassOutcomes
  <1>4. CASE o \in PassOutcomes(c) /\ op[c] \notin Uploading /\ op[c] = "provider_deleting"
    BY <1>4 DEF PassOutcomes, DeleteOutcomes
  <1>5. CASE o \in PassOutcomes(c) /\ op[c] \notin Uploading /\ op[c] # "provider_deleting"
    BY <1>5 DEF PassOutcomes, PollOutcomes
  <1> QED
    BY <1>1, <1>2, <1>3, <1>4, <1>5

LEMMA CancelIsSound ==
    ASSUME TypeOK, Listings, NEW c \in Chunks,
           NEW o \in CancelOutcomes(c)
    PROVE  Sound(c, o)
  <1> USE DEF Sound, Outcome, Adopted, Absent, Missed, Conflict, Withdrawn, Erased,
              Kept, Untouched, Fatal
  <1>1. CASE op[c] = "upload_retry_ready"
    BY <1>1 DEF CancelOutcomes, Listings, Uploading
  <1>2. CASE op[c] # "upload_retry_ready" /\ op[c] \in Uploading /\ Listed(c)
    BY <1>2 DEF CancelOutcomes
  <1>3. CASE op[c] # "upload_retry_ready" /\ op[c] \in Uploading /\ ~Listed(c)
    BY <1>3, AbsenceIsReal DEF CancelOutcomes
  <1>4. CASE op[c] \notin Uploading /\ op[c] = "provider_deleting"
    BY <1>4 DEF CancelOutcomes, DeleteOutcomes, Uploading
  <1>5. CASE op[c] \notin Uploading /\ op[c] # "provider_deleting"
    BY <1>5 DEF CancelOutcomes, Uploading
  <1> QED
    BY <1>1, <1>2, <1>3, <1>4, <1>5

\* A pass over D that is committed, with or without a deferral.
Pass(D, out) ==
  /\ \A c \in D : op[c] \in Pending /\ Sound(c, out[c])
  /\ Settle(D, out)
  /\ \A c \in Chunks :
       LET n == OpAfter(D, out)[c]
       IN op'[c] = n \/ (n = "provider_processing" /\ op'[c] = "provider_deleting")
  /\ posts' = posts
  /\ \A c \in Chunks : item'[c] = "queued" => item[c] = "queued"

\* It loses no file: what may be at the provider stays tracked, an operation is
\* over only when its file is deleted or was never there.
LEMMA PassKeeps ==
    ASSUME UploadInv, NEW D \in SUBSET Chunks, NEW out, Pass(D, out)
    PROVE  RemoteFileIsTracked' /\ Listings' /\ Fresh'
  <1>1. ASSUME NEW c \in Chunks
        PROVE  /\ file'[c] = IF c \in D /\ out[c] \in Erased THEN "deleted" ELSE file[c]
               /\ aged'[c] = aged[c]
               /\ due'[c] = IF c \in D /\ out[c] \notin Untouched
                            THEN out[c] \notin Missed \cup Conflict \cup Kept ELSE due[c]
               /\ OpAfter(D, out)[c] = IF c \in D THEN After(c, out[c]) ELSE op[c]
               /\ posts'[c] = posts[c]
    BY DEF Pass, Settle, OpAfter
  <1>2. ASSUME NEW c \in Chunks, c \in D
        PROVE  \/ After(c, out[c]) \in Pending
               \/ out[c] \in Erased
               \/ ~Outside(c)
    BY <1>2 DEF Pass, Sound, Outcome, After, Pending, Uploading, Withdrawn, Adopted,
       Absent, Missed, Conflict, Kept, Erased, Untouched
  <1>3. ASSUME NEW c \in Chunks
        PROVE  Outside(c)' => op'[c] \in Pending
    <2>1. Outside(c)' => Outside(c) /\ ~(c \in D /\ out[c] \in Erased)
      BY <1>1 DEF Outside, Held
    <2>2. CASE c \notin D
      BY <1>1, <2>1, <2>2 DEF Pass, UploadInv, RemoteFileIsTracked, Pending
    <2>3. CASE c \in D
      BY <1>1, <1>2, <2>1, <2>3 DEF Pass, Pending
    <2> QED
      BY <2>2, <2>3
  <1>4. ASSUME NEW c \in Chunks
        PROVE  /\ op'[c] \in Uploading /\ aged'[c] => file'[c] \notin {"wire", "hidden"}
               /\ op'[c] = "upload_retry_ready" => ~Outside(c)' /\ due'[c]
    <2>1. CASE c \notin D
      BY <1>1, <2>1 DEF Pass, UploadInv, Listings, Outside, Held, Uploading
    <2>2. CASE c \in D
      <3>1. op'[c] \in Uploading => op[c] \in Uploading
        BY <1>1, <2>2 DEF Pass, Sound, Outcome, After, Uploading, Withdrawn, Adopted,
           Absent, Missed, Conflict, Kept, Erased, Untouched
      <3>2. op'[c] = "upload_retry_ready" =>
              ~Outside(c) /\ (out[c] \in Absent \/ (out[c] \in Untouched /\ due[c]))
        BY <1>1, <2>2 DEF UploadInv, Listings, Pass, Sound, Outcome, After, Withdrawn,
           Adopted, Absent, Missed, Conflict, Kept, Erased, Untouched
      <3>3. out[c] \in Absent => out[c] \notin Missed \cup Conflict \cup Kept \cup Untouched
        BY DEF Absent, Missed, Conflict, Kept, Untouched, Fatal
      <3> QED
        BY <1>1, <2>2, <3>1, <3>2, <3>3 DEF UploadInv, Listings, Outside, Held
    <2> QED
      BY <2>1, <2>2
  <1>5. ASSUME NEW c \in Chunks
        PROVE  /\ item'[c] = "queued" => op'[c] = "none"
               /\ op'[c] = "none" => file'[c] = "none" /\ posts'[c] = 0
               /\ file'[c] = "wire" => posts'[c] = 0
               /\ posts'[c] <= 1
    <2>1. op[c] = "none" => c \notin D
      BY DEF Pass, Pending, Uploading
    <2>2. op'[c] = "none" <=> op[c] = "none"
      BY <1>1, <2>1 DEF Pass, After, Pending, Uploading
    <2> QED
      BY <1>1, <2>1, <2>2 DEF Pass, UploadInv, Fresh
  <1> QED
    BY <1>3, <1>4, <1>5 DEF RemoteFileIsTracked, Listings, Fresh

-----------------------------------------------------------------------------
(* Every step keeps the types. *)

LEMMA RestType == Rest => /\ pc' = "idle" /\ cur' \in Jobs \cup {0}
                          /\ todo' \subseteq Chunks /\ seen' \subseteq Jobs
  BY DEF Rest

LEMMA FaultType == TypeOK /\ Fault => faults' \in 0 .. MaxFaults
  BY VerificationUploadsAssumption DEF TypeOK, Fault

\* What the worker commits for a pass over D is of the right type.
LEMMA PassType ==
    ASSUME TypeOK, NEW D \in SUBSET Chunks, NEW out,
           \A c \in D : Sound(c, out[c]), Settle(D, out)
    PROVE  /\ misses' \in [Chunks -> 0 .. MinMisses]
           /\ aged' \in [Chunks -> BOOLEAN]
           /\ due' \in [Chunks -> BOOLEAN]
           /\ polls' \in [Chunks -> 0 .. PollLimit - 1]
           /\ file' \in [Chunks -> FileStatus]
           /\ faults' \in 0 .. MaxFaults
  BY SettleType DEF Sound

LEMMA SweptStatusType ==
    ASSUME TypeOK, NEW j \in Jobs, NEW out
    PROVE  SweptStatus(j, out) \in JobStatus
  BY DEF TypeOK, SweptStatus, JobStatus, ActiveJob

\* What the pass does that a poll ends.
PollFailure(D, out) ==
  /\ \A d \in D : out[d] \in PassOutcomes(d) \cup FatalOutcomes(d)
  /\ \E c \in D : out[c] \in FatalOutcomes(c)
  /\ Settle(D, out)
  /\ FailJob(cur, FALSE, op, OpAfter(D, out))
  /\ item' = ItemAfter(D, out)

LEMMA PollFailsAt ==
    ASSUME PollFails
    PROVE  \E D \in SUBSET PendingOf(cur) : \E out : PollFailure(D, out)
  <1>1. PICK c \in PendingOf(cur) :
          LET D == {d \in PendingOf(cur) : op[d] \in Uploading \/ d <= c}
          IN \E out \in [D -> UNION {PassOutcomes(d) : d \in D} \cup FatalOutcomes(c)] :
               /\ out[c] \in FatalOutcomes(c)
               /\ \A d \in D \ {c} : out[d] \in PassOutcomes(d)
               /\ Settle(D, out)
               /\ FailJob(cur, FALSE, op, OpAfter(D, out))
               /\ item' = ItemAfter(D, out)
    BY DEF PollFails
  <1> DEFINE D == {d \in PendingOf(cur) : op[d] \in Uploading \/ d <= c}
  <1>2. c \in D
    BY VerificationUploadsAssumption DEF PendingOf, ChunksOf
  <1>3. PICK out :
          /\ out[c] \in FatalOutcomes(c)
          /\ \A d \in D \ {c} : out[d] \in PassOutcomes(d)
          /\ Settle(D, out)
          /\ FailJob(cur, FALSE, op, OpAfter(D, out))
          /\ item' = ItemAfter(D, out)
    BY <1>1
  <1>4. PollFailure(D, out)
    BY <1>2, <1>3 DEF PollFailure
  <1> QED
    BY <1>4

LEMMA TypeStep ==
    ASSUME UploadInv, Next
    PROVE  TypeOK'
  <1> USE VerificationUploadsAssumption DEF UploadInv
  <1>1. ASSUME NEW j \in Jobs, CreateJob(j)
        PROVE  TypeOK'
    <2>1. "queued" \in JobStatus
      BY DEF JobStatus, ActiveJob
    <2> QED
      BY <1>1, <2>1, StatusType DEF CreateJob, TypeOK, opVars, workerVars
  <1>2. ASSUME NEW j \in Jobs, AskCancel(j)
        PROVE  TypeOK'
    BY <1>2 DEF AskCancel, TypeOK, opVars, workerVars
  <1>3. ASSUME NEW j \in Jobs, WriteCancel(j)
        PROVE  TypeOK'
    <2>1. "cancel_requested" \in JobStatus
      BY DEF JobStatus, ActiveJob
    <2> QED
      BY <1>3, <2>1 DEF WriteCancel, TypeOK, opVars, workerVars
  <1>4. CASE Revoke
    BY <1>4, FaultType DEF Revoke, TypeOK, opVars, workerVars
  <1>5. CASE BeginSweep
    BY <1>5 DEF BeginSweep, DueNow, TypeOK, opVars
  <1>6. CASE EndSweep
    <2>1. PICK out \in [todo -> UNION {SweepOutcomes(c) : c \in todo}] :
            /\ \A c \in todo : out[c] \in SweepOutcomes(c)
            /\ Settle(todo, out)
            /\ op' = OpAfter(todo, out)
            /\ item' = ItemAfter(todo, out)
            /\ job' = [j \in Jobs |-> WithStatus(j, SweptStatus(j, out))]
      BY <1>6 DEF EndSweep
    <2>2. todo \in SUBSET Chunks /\ \A c \in todo : Sound(c, out[c])
      BY <2>1, SweepIsSound DEF TypeOK
    <2>3. job' \in [Jobs -> [status : JobStatus, cancel : BOOLEAN]]
      BY <2>1, SweptStatusType, StatusType
    <2> QED
      BY <1>6, <2>1, <2>2, <2>3, PassType, OpAfterType, ItemAfterType, RestType
         DEF EndSweep, TypeOK
  <1>7. CASE NoWork
    BY <1>7, RestType DEF NoWork, TypeOK, opVars
  <1>8. ASSUME NEW j \in Jobs, Refuse(j)
        PROVE  TypeOK'
    BY <1>8, FailJobType, RestType DEF Refuse, TypeOK
  <1>9. ASSUME NEW j \in Jobs, CancelPass(j)
        PROVE  TypeOK'
    <2>1. PICK out \in [PendingOf(j) -> UNION {CancelOutcomes(c) : c \in PendingOf(j)}] :
            /\ \A c \in PendingOf(j) : out[c] \in CancelOutcomes(c)
            /\ Settle(PendingOf(j), out)
            /\ op' = OpAfter(PendingOf(j), out)
            /\ SetStatus(j, IF \E c \in PendingOf(j) : After(c, out[c]) \in Pending
                            THEN "cancel_requested" ELSE "cancelled")
      BY <1>9 DEF CancelPass
    <2>2. PendingOf(j) \in SUBSET Chunks /\ \A c \in PendingOf(j) : Sound(c, out[c])
      BY <2>1, CancelIsSound DEF PendingOf, ChunksOf
    <2>3. job' \in [Jobs -> [status : JobStatus, cancel : BOOLEAN]]
      <3>1. {"cancel_requested", "cancelled"} \subseteq JobStatus
        BY DEF JobStatus, ActiveJob, ClosedJob
      <3> QED
        BY <2>1, <3>1, StatusType
    <2>4. item' \in [Chunks -> ItemStatus]
      BY <1>9 DEF CancelPass, TypeOK, ItemStatus, ClosedItem
    <2> QED
      BY <1>9, <2>1, <2>2, <2>3, <2>4, PassType, OpAfterType, RestType
         DEF CancelPass, TypeOK
  <1>10. ASSUME NEW j \in Jobs, Begin(j)
         PROVE  TypeOK'
    <2>1. "running" \in JobStatus
      BY DEF JobStatus, ActiveJob
    <2> QED
      BY <1>10, <2>1, StatusType DEF Begin, TypeOK, opVars
  <1>11. CASE Plan
    BY <1>11 DEF Plan, RetryOf, QueuedOf, ChunksOf, TypeOK, opVars
  <1>12. CASE Credits
    BY <1>12 DEF Credits, TypeOK, opVars
  <1>13. CASE NoCredits
    <2>1. cur \in Jobs
      BY <1>13 DEF NoCredits, Cycle, Working
    <2>2. op \in [Chunks -> OpStatus] /\ FailJob(cur, FALSE, op, op)
      BY <1>13 DEF NoCredits, TypeOK
    <2>3. op' \in [Chunks -> OpStatus] /\ job' \in [Jobs -> [status : JobStatus, cancel : BOOLEAN]]
      BY <2>1, <2>2, FailJobType
    <2> QED
      BY <1>13, <2>3, FaultType, RestType DEF NoCredits, TypeOK
  <1>14. CASE Intend
    <2> DEFINE c == Earliest(todo)
    <2>1. cur \in Jobs /\ c \in Chunks /\ op[c] # "upload_retry_ready"
      BY <1>14, EarliestIsIn DEF Intend, Cycle, Working, Uploads, TypeOK
    <2>2. "provider_processing" \in JobStatus
      BY DEF JobStatus, ActiveJob
    <2>3. job' \in [Jobs -> [status : JobStatus, cancel : BOOLEAN]]
      BY <1>14, <2>1, <2>2, StatusType DEF Intend
    <2>4. /\ op' \in [Chunks -> OpStatus] /\ due' \in [Chunks -> BOOLEAN]
          /\ file' \in [Chunks -> FileStatus] /\ item' \in [Chunks -> ItemStatus]
      BY <1>14, <2>1 DEF Intend, TypeOK, OpStatus, Pending, Uploading, ItemStatus,
         FileStatus
    <2>5. misses' \in [Chunks -> 0 .. MinMisses] /\ aged' \in [Chunks -> BOOLEAN]
      <3>1. misses' = [misses EXCEPT ![c] = 0] /\ aged' = [aged EXCEPT ![c] = FALSE]
        BY <1>14, <2>1 DEF Intend
      <3>2. 0 \in 0 .. MinMisses
        OBVIOUS
      <3> QED
        BY <3>1, <3>2 DEF TypeOK
    <2> QED
      BY <1>14, <2>3, <2>4, <2>5 DEF Intend, TypeOK
  <1>15. CASE Acknowledge
    <2> DEFINE c == Earliest(todo)
    <2>1. cur \in Jobs /\ c \in Chunks
      BY <1>15, EarliestIsIn DEF Acknowledge, Cycle, Working, Uploads, TypeOK
    <2>2. "provider_processing" \in JobStatus
      BY DEF JobStatus, ActiveJob
    <2>3. job' \in [Jobs -> [status : JobStatus, cancel : BOOLEAN]]
      BY <1>15, <2>1, <2>2, StatusType DEF Acknowledge
    <2>4. /\ pc' \in {"idle", "intend"} /\ cur' \in Jobs \cup {0}
          /\ todo' \subseteq Chunks /\ seen' \subseteq Jobs
      BY <1>15, RestType DEF Acknowledge, TypeOK
    <2> QED
      BY <1>15, <2>1, <2>3, <2>4 DEF Acknowledge, TypeOK, OpStatus, Pending, ItemStatus
  <1>16. CASE UploadUnknown
    <2> DEFINE c == Earliest(todo)
    <2>1. cur \in Jobs /\ c \in Chunks
      BY <1>16, EarliestIsIn DEF UploadUnknown, Cycle, Working, Uploads, TypeOK
    <2>2. {"cancel_requested", "reconciliation_required"} \subseteq JobStatus
      BY DEF JobStatus, ActiveJob
    <2>3. job' \in [Jobs -> [status : JobStatus, cancel : BOOLEAN]]
      BY <1>16, <2>1, <2>2, StatusType DEF UploadUnknown
    <2>4. faults' \in 0 .. MaxFaults
      BY <1>16 DEF UploadUnknown, Fault, TypeOK
    <2> QED
      BY <1>16, <2>1, <2>3, <2>4, RestType
         DEF UploadUnknown, TypeOK, OpStatus, Pending, Uploading
  <1>17. CASE UploadRejected
    <2> DEFINE c == Earliest(todo)
               o == [op EXCEPT ![c] = "failed"]
    <2>1. cur \in Jobs /\ c \in Chunks
      BY <1>17, EarliestIsIn DEF UploadRejected, Cycle, Working, Uploads, TypeOK
    <2>2. o \in [Chunks -> OpStatus]
      BY <2>1 DEF TypeOK, OpStatus
    <2>3. FailJob(cur, job[cur].cancel, o, o)
      BY <1>17 DEF UploadRejected
    <2>4. op' \in [Chunks -> OpStatus] /\ job' \in [Jobs -> [status : JobStatus, cancel : BOOLEAN]]
      BY <2>1, <2>2, <2>3, FailJobType
    <2>5. item' \in [Chunks -> ItemStatus] /\ file' \in [Chunks -> FileStatus]
      BY <1>17, <2>1 DEF UploadRejected, TypeOK, ItemStatus, ClosedItem, FileStatus
    <2> QED
      BY <1>17, <2>4, <2>5, RestType DEF UploadRejected, Fault, TypeOK
  <1>18. CASE PollPass
    <2>1. cur \in Jobs
      BY <1>18 DEF PollPass, Cycle, Working
    <2>2. PICK out \in [PendingOf(cur) -> UNION {PassOutcomes(c) : c \in PendingOf(cur)}],
               s \in {"running", "provider_processing"}, settled \in BOOLEAN :
            /\ \A c \in PendingOf(cur) : out[c] \in PassOutcomes(c)
            /\ Settle(PendingOf(cur), out)
            /\ op' = OpAfter(PendingOf(cur), out)
            /\ SetStatus(cur, s)
            /\ item' = [c \in Chunks |->
                 IF settled /\ c \in ChunksOf(cur)
                    /\ ItemAfter(PendingOf(cur), out)[c] = "provider_processing"
                 THEN "failed" ELSE ItemAfter(PendingOf(cur), out)[c]]
      BY <1>18 DEF PollPass
    <2>3. PendingOf(cur) \in SUBSET Chunks /\ \A c \in PendingOf(cur) : Sound(c, out[c])
      BY <2>2, PassIsSound DEF PendingOf, ChunksOf
    <2>4. job' \in [Jobs -> [status : JobStatus, cancel : BOOLEAN]]
      <3>1. {"running", "provider_processing"} \subseteq JobStatus
        BY DEF JobStatus, ActiveJob
      <3> QED
        BY <2>1, <2>2, <3>1, StatusType
    <2>5. item' \in [Chunks -> ItemStatus]
      BY <2>2, ItemAfterType DEF ItemStatus, ClosedItem
    <2> QED
      BY <1>18, <2>2, <2>3, <2>4, <2>5, PassType, OpAfterType, RestType
         DEF PollPass, TypeOK
  <1>19. CASE PollFails
    <2>1. cur \in Jobs
      BY <1>19 DEF PollFails, Cycle, Working
    <2>2. PICK D \in SUBSET PendingOf(cur) : \E out : PollFailure(D, out)
      BY <1>19, PollFailsAt
    <2>5. PICK out : PollFailure(D, out)
      BY <2>2
    <2>3. D \in SUBSET Chunks /\ \A d \in D : Sound(d, out[d])
      BY <2>5, PassIsSound DEF PollFailure, PendingOf, ChunksOf
    <2>4. op' \in [Chunks -> OpStatus] /\ job' \in [Jobs -> [status : JobStatus, cancel : BOOLEAN]]
      BY <2>1, <2>5, FailJobType, OpAfterType DEF PollFailure
    <2> QED
      BY <1>19, <2>3, <2>4, <2>5, PassType, ItemAfterType, RestType
         DEF PollFailure, PollFails, TypeOK
  <1>20. CASE Finalize
    <2>1. cur \in Jobs /\ "completed" \in JobStatus
      BY <1>20 DEF Finalize, Cycle, Working, JobStatus, ClosedJob
    <2>2. job' \in [Jobs -> [status : JobStatus, cancel : BOOLEAN]]
      BY <1>20, <2>1, StatusType DEF Finalize, TypeOK
    <2>3. item' \in [Chunks -> ItemStatus]
      BY <1>20 DEF Finalize, TypeOK, ItemStatus, ClosedItem
    <2> QED
      BY <1>20, <2>2, <2>3, RestType DEF Finalize, TypeOK, opVars
  <1>21. CASE Crash
    <2>1. file' \in [Chunks -> FileStatus]
      BY <1>21 DEF Crash, TypeOK, FileStatus
    <2> QED
      BY <1>21, <2>1, RestType DEF Crash, Fault, TypeOK, opVars
  <1>22. ASSUME NEW c \in Chunks, Provider(c)
         PROVE  TypeOK'
    <2>1. file' \in [Chunks -> FileStatus]
      BY <1>22 DEF Provider, Take, Lose, Advance, Become, TypeOK, FileStatus, Held
    <2>2. posts' \in [Chunks -> Nat] /\ faults' \in 0 .. MaxFaults
      BY <1>22 DEF Provider, Take, Lose, Advance, Fault, TypeOK
    <2> QED
      BY <1>22, <2>1, <2>2 DEF Provider, TypeOK, opVars, workerVars
  <1>23. ASSUME NEW c \in Chunks, Age(c)
         PROVE  TypeOK'
    <2>1. file' \in [Chunks -> FileStatus]
      BY <1>23 DEF Age, Become, TypeOK, FileStatus, Held
    <2> QED
      BY <1>23, <2>1 DEF Age, TypeOK, workerVars
  <1>24. ASSUME NEW c \in Chunks, BackoffElapses(c)
         PROVE  TypeOK'
    BY <1>24 DEF BackoffElapses, TypeOK, workerVars
  <1> QED
    BY <1>1, <1>2, <1>3, <1>4, <1>5, <1>6, <1>7, <1>8, <1>9, <1>10, <1>11, <1>12, <1>13,
       <1>14, <1>15, <1>16, <1>17, <1>18, <1>19, <1>20, <1>21, <1>22, <1>23, <1>24
       DEF Next, Api, Worker, Surroundings

-----------------------------------------------------------------------------
(* Every step keeps track of the files. *)

Files == RemoteFileIsTracked /\ Listings /\ Fresh

\* A deferral turns files in work into files to delete, and nothing else.
LEMMA FailJobOp ==
    ASSUME NEW j, NEW canceled, NEW o, NEW n, FailJob(j, canceled, o, n)
    PROVE  \A c \in Chunks : \/ op'[c] = n[c]
                             \/ n[c] = "provider_processing" /\ op'[c] = "provider_deleting"
  BY DEF FailJob

LEMMA ItemAfterQueued ==
    ASSUME NEW D, NEW out, NEW c \in Chunks, ItemAfter(D, out)[c] = "queued"
    PROVE  item[c] = "queued"
  BY DEF ItemAfter

\* The four steps that settle operations are passes.
LEMMA EndSweepIsPass ==
    ASSUME UploadInv, EndSweep
    PROVE  \E out : Pass(todo, out) /\ job' = [j \in Jobs |-> WithStatus(j, SweptStatus(j, out))]
                    /\ op' = OpAfter(todo, out) /\ item' = ItemAfter(todo, out)
                    /\ \A c \in todo : out[c] \in SweepOutcomes(c)
  <1>1. PICK out \in [todo -> UNION {SweepOutcomes(c) : c \in todo}] :
          /\ \A c \in todo : out[c] \in SweepOutcomes(c)
          /\ Settle(todo, out)
          /\ op' = OpAfter(todo, out)
          /\ item' = ItemAfter(todo, out)
          /\ job' = [j \in Jobs |-> WithStatus(j, SweptStatus(j, out))]
    BY DEF EndSweep
  <1>2. \A c \in todo : op[c] \in Pending /\ Sound(c, out[c])
    BY <1>1, SweepIsSound DEF EndSweep, UploadInv, TypeOK, Cycle, Pending
  <1>3. posts' = posts /\ \A c \in Chunks : item'[c] = "queued" => item[c] = "queued"
    BY <1>1, ItemAfterQueued DEF EndSweep
  <1> QED
    BY <1>1, <1>2, <1>3 DEF Pass

LEMMA CancelPassIsPass ==
    ASSUME UploadInv, NEW j \in Jobs, CancelPass(j)
    PROVE  \E out : Pass(PendingOf(j), out) /\ op' = OpAfter(PendingOf(j), out)
                    /\ SetStatus(j, IF \E c \in PendingOf(j) : After(c, out[c]) \in Pending
                                    THEN "cancel_requested" ELSE "cancelled")
                    /\ \A c \in PendingOf(j) : out[c] \in CancelOutcomes(c)
  <1>1. PICK out \in [PendingOf(j) -> UNION {CancelOutcomes(c) : c \in PendingOf(j)}] :
          /\ \A c \in PendingOf(j) : out[c] \in CancelOutcomes(c)
          /\ Settle(PendingOf(j), out)
          /\ op' = OpAfter(PendingOf(j), out)
          /\ SetStatus(j, IF \E c \in PendingOf(j) : After(c, out[c]) \in Pending
                          THEN "cancel_requested" ELSE "cancelled")
    BY DEF CancelPass
  <1>2. \A c \in PendingOf(j) : op[c] \in Pending /\ Sound(c, out[c])
    BY <1>1, CancelIsSound DEF UploadInv, PendingOf, ChunksOf
  <1>3. posts' = posts /\ \A c \in Chunks : item'[c] = "queued" => item[c] = "queued"
    BY DEF CancelPass
  <1> QED
    BY <1>1, <1>2, <1>3 DEF Pass

LEMMA PollPassIsPass ==
    ASSUME UploadInv, PollPass
    PROVE  \E s \in {"running", "provider_processing"} : \E out :
             /\ Pass(PendingOf(cur), out) /\ op' = OpAfter(PendingOf(cur), out)
             /\ SetStatus(cur, s)
             /\ \A c \in PendingOf(cur) : out[c] \in PassOutcomes(c)
             /\ item' = [c \in Chunks |->
                  IF (\A d \in PendingOf(cur) : After(d, out[d]) \notin Pending)
                     /\ c \in ChunksOf(cur)
                     /\ ItemAfter(PendingOf(cur), out)[c] = "provider_processing"
                  THEN "failed" ELSE ItemAfter(PendingOf(cur), out)[c]]
  <1>1. PICK out \in [PendingOf(cur) -> UNION {PassOutcomes(c) : c \in PendingOf(cur)}],
             s \in {"running", "provider_processing"} :
          /\ \A c \in PendingOf(cur) : out[c] \in PassOutcomes(c)
          /\ Settle(PendingOf(cur), out)
          /\ op' = OpAfter(PendingOf(cur), out)
          /\ SetStatus(cur, s)
          /\ item' = [c \in Chunks |->
               IF (\A d \in PendingOf(cur) : After(d, out[d]) \notin Pending)
                  /\ c \in ChunksOf(cur)
                  /\ ItemAfter(PendingOf(cur), out)[c] = "provider_processing"
               THEN "failed" ELSE ItemAfter(PendingOf(cur), out)[c]]
    BY DEF PollPass
  <1>2. \A c \in PendingOf(cur) : op[c] \in Pending /\ Sound(c, out[c])
    BY <1>1, PassIsSound DEF UploadInv, PendingOf, ChunksOf
  <1>3. posts' = posts /\ \A c \in Chunks : item'[c] = "queued" => item[c] = "queued"
    BY <1>1, ItemAfterQueued DEF PollPass
  <1>4. Pass(PendingOf(cur), out)
    BY <1>1, <1>2, <1>3 DEF Pass
  <1> QED
    BY <1>1, <1>4

LEMMA PollFailsIsPass ==
    ASSUME UploadInv, PollFails
    PROVE  \E D \in SUBSET PendingOf(cur) : \E out : Pass(D, out) /\ PollFailure(D, out)
  <1>1. PICK D \in SUBSET PendingOf(cur) : \E out : PollFailure(D, out)
    BY PollFailsAt
  <1>2. PICK out : PollFailure(D, out)
    BY <1>1
  <1>3. \A c \in D : op[c] \in Pending /\ Sound(c, out[c])
    BY <1>2, PassIsSound DEF PollFailure, UploadInv, PendingOf, ChunksOf
  <1>4. posts' = posts /\ \A c \in Chunks : item'[c] = "queued" => item[c] = "queued"
    BY <1>2, ItemAfterQueued DEF PollFailure, PollFails
  <1>5. Pass(D, out)
    BY <1>2, <1>3, <1>4, FailJobOp DEF Pass, PollFailure
  <1> QED
    BY <1>2, <1>5

LEMMA FilesStep ==
    ASSUME UploadInv, Next
    PROVE  Files'
  <1> USE DEF UploadInv
  <1>1. ASSUME UNCHANGED <<op, aged, due, item, file, posts>>
        PROVE  Files'
    BY <1>1 DEF Files, RemoteFileIsTracked, Listings, Fresh, Outside
  <1>2. ASSUME NEW j \in Jobs, CreateJob(j) \/ AskCancel(j) \/ WriteCancel(j) \/ Begin(j)
        PROVE  Files'
    BY <1>1, <1>2 DEF CreateJob, AskCancel, WriteCancel, Begin, opVars
  <1>3. CASE Revoke \/ BeginSweep \/ NoWork \/ Plan \/ Credits
    BY <1>1, <1>3 DEF Revoke, BeginSweep, NoWork, Plan, Credits, opVars
  <1>4. ASSUME NEW D \in SUBSET Chunks, NEW out, Pass(D, out)
        PROVE  Files'
    BY <1>4, PassKeeps DEF Files
  <1>5. CASE EndSweep
    BY <1>4, <1>5, EndSweepIsPass DEF TypeOK
  <1>6. ASSUME NEW j \in Jobs, CancelPass(j)
        PROVE  Files'
    BY <1>4, <1>6, CancelPassIsPass DEF PendingOf, ChunksOf
  <1>7. CASE PollPass
    BY <1>4, <1>7, PollPassIsPass DEF PendingOf, ChunksOf
  <1>8. CASE PollFails
    BY <1>4, <1>8, PollFailsIsPass DEF PendingOf, ChunksOf
  <1>9. ASSUME NEW j, NEW canceled, FailJob(j, canceled, op, op),
               UNCHANGED <<aged, due, item, file, posts>>
        PROVE  Files'
    <2>1. \A c \in Chunks : \/ op'[c] = op[c]
                            \/ op[c] = "provider_processing" /\ op'[c] = "provider_deleting"
      BY <1>9, FailJobOp
    <2> QED
      BY <1>9, <2>1 DEF Files, RemoteFileIsTracked, Listings, Fresh, Outside, Held,
         Pending, Uploading
  <1>10. ASSUME NEW j \in Jobs, Refuse(j)
         PROVE  Files'
    BY <1>9, <1>10 DEF Refuse
  <1>11. CASE NoCredits
    BY <1>9, <1>11 DEF NoCredits
  <1>12. CASE Intend
    <2> DEFINE c == Earliest(todo)
    <2>1. c \in Chunks /\ op[c] = "none"
      BY <1>12, EarliestIsIn DEF Intend, Cycle, Uploads, TypeOK
    <2>2. /\ op' = [op EXCEPT ![c] = "upload_intent"]
          /\ due' = [due EXCEPT ![c] = TRUE]
          /\ file' = [file EXCEPT ![c] = "wire"]
          /\ aged' = [aged EXCEPT ![c] = FALSE]
          /\ item' = [item EXCEPT ![c] = "upload_pending"]
          /\ posts' = posts
      BY <1>12, <2>1 DEF Intend
    <2> QED
      BY <2>1, <2>2 DEF TypeOK, Files, RemoteFileIsTracked, Listings, Fresh, Outside, Held,
         Pending, Uploading
  <1>13. CASE Acknowledge
    <2> DEFINE c == Earliest(todo)
    <2>1. c \in Chunks /\ op[c] = "upload_intent"
      BY <1>13, EarliestIsIn DEF Acknowledge, Cycle, Uploads, TypeOK
    <2>2. /\ op' = [op EXCEPT ![c] = "provider_processing"]
          /\ item' = [item EXCEPT ![c] =
               IF @ = "upload_pending" THEN "provider_processing" ELSE @]
          /\ UNCHANGED <<aged, due, file, posts>>
      BY <1>13 DEF Acknowledge
    <2> QED
      BY <2>1, <2>2 DEF TypeOK, Files, RemoteFileIsTracked, Listings, Fresh, Outside, Held,
         Pending, Uploading
  <1>14. CASE UploadUnknown
    <2> DEFINE c == Earliest(todo)
    <2>1. c \in Chunks /\ op[c] = "upload_intent"
      BY <1>14, EarliestIsIn DEF UploadUnknown, Cycle, Uploads, TypeOK
    <2>2. /\ op' = [op EXCEPT ![c] = "upload_reconciling"]
          /\ due' = [due EXCEPT ![c] = FALSE]
          /\ UNCHANGED <<aged, item, file, posts>>
      BY <1>14 DEF UploadUnknown
    <2> QED
      BY <2>1, <2>2 DEF TypeOK, Files, RemoteFileIsTracked, Listings, Fresh, Outside, Held,
         Pending, Uploading
  <1>15. CASE UploadRejected
    <2> DEFINE c == Earliest(todo)
               o == [op EXCEPT ![c] = "failed"]
    <2>1. c \in Chunks /\ op[c] = "upload_intent"
      BY <1>15, EarliestIsIn DEF UploadRejected, Cycle, Uploads, TypeOK
    <2>2. /\ FailJob(cur, job[cur].cancel, o, o)
          /\ file' = [file EXCEPT ![c] = "none"]
          /\ item' = [item EXCEPT ![c] = IF @ = "upload_pending" THEN "failed" ELSE @]
          /\ UNCHANGED <<aged, due, posts>>
      BY <1>15 DEF UploadRejected
    <2>3. /\ op'[c] = "failed"
          /\ \A d \in Chunks \ {c} :
               \/ op'[d] = op[d]
               \/ op[d] = "provider_processing" /\ op'[d] = "provider_deleting"
      <3>1. \A d \in Chunks : o[d] = IF d = c THEN "failed" ELSE op[d]
        BY <2>1 DEF TypeOK
      <3> HIDE DEF o
      <3>2. \A d \in Chunks : \/ op'[d] = o[d]
                              \/ o[d] = "provider_processing" /\ op'[d] = "provider_deleting"
        BY <2>2, FailJobOp
      <3> QED
        BY <2>1, <3>1, <3>2
    <2>4. \A d \in Chunks :
            /\ file'[d] = IF d = c THEN "none" ELSE file[d]
            /\ item'[d] = "queued" => item[d] = "queued"
            /\ aged'[d] = aged[d] /\ due'[d] = due[d] /\ posts'[d] = posts[d]
      BY <2>1, <2>2 DEF TypeOK
    <2>5. RemoteFileIsTracked'
      BY <2>1, <2>3, <2>4 DEF RemoteFileIsTracked, Outside, Held, Pending
    <2>6. Listings'
      BY <2>1, <2>3, <2>4 DEF Listings, Outside, Held, Uploading
    <2>7. Fresh'
      BY <2>1, <2>3, <2>4 DEF Fresh
    <2> QED
      BY <2>5, <2>6, <2>7 DEF Files
  <1>16. CASE Finalize
    BY <1>16 DEF Finalize, opVars, TypeOK, Files, RemoteFileIsTracked, Listings, Fresh,
       Outside
  <1>17. CASE Crash
    <2>1. PICK D \in SUBSET {c \in Chunks : Deleting(c)} :
            file' = [c \in Chunks |-> IF c \in D THEN "deleted" ELSE file[c]]
      BY <1>17 DEF Crash
    <2>2. \A c \in D : op[c] # "none"
      BY <2>1 DEF Deleting, Pending, Uploading
    <2>3. UNCHANGED <<op, aged, due, item, posts>>
      BY <1>17 DEF Crash, opVars
    <2> QED
      BY <2>1, <2>2, <2>3 DEF Files, RemoteFileIsTracked, Listings, Fresh, Outside, Held
  <1>18. ASSUME NEW c \in Chunks, Provider(c)
         PROVE  Files'
    <2>1. UNCHANGED <<op, aged, due, item>>
      BY <1>18 DEF Provider, opVars
    <2>2. CASE Take(c)
      BY <2>1, <2>2 DEF Take, Become, TypeOK, Files, RemoteFileIsTracked, Listings, Fresh,
         Outside, Held
    <2>3. CASE Lose(c)
      BY <2>1, <2>3 DEF Lose, Become, TypeOK, Files, RemoteFileIsTracked, Listings, Fresh,
         Outside, Held
    <2>4. CASE Advance(c)
      BY <2>1, <2>4 DEF Advance, Become, TypeOK, Files, RemoteFileIsTracked, Listings,
         Fresh, Outside, Held
    <2> QED
      BY <1>18, <2>2, <2>3, <2>4 DEF Provider
  <1>19. ASSUME NEW c \in Chunks, Age(c)
         PROVE  Files'
    BY <1>19 DEF Age, Become, TypeOK, Files, RemoteFileIsTracked, Listings, Fresh, Outside,
       Held
  <1>20. ASSUME NEW c \in Chunks, BackoffElapses(c)
         PROVE  Files'
    BY <1>20 DEF BackoffElapses, TypeOK, Files, RemoteFileIsTracked, Listings, Fresh,
       Outside
  <1> QED
    BY <1>2, <1>3, <1>5, <1>6, <1>7, <1>8, <1>10, <1>11, <1>12, <1>13, <1>14, <1>15, <1>16,
       <1>17, <1>18, <1>19, <1>20 DEF Next, Api, Worker, Surroundings

-----------------------------------------------------------------------------
(* A job is closed over nothing that is pending. *)

LEMMA PassPending ==
    ASSUME NEW D, NEW out, Pass(D, out), NEW c \in Chunks, op'[c] \in Pending
    PROVE  op[c] \in Pending
  BY DEF Pass, OpAfter, Pending

\* One job gets a new status, and nothing becomes pending elsewhere.
LEMMA CleanBy ==
    ASSUME UploadInv, NEW j \in Jobs, NEW s, SetStatus(j, s),
           \A c \in Chunks : Owner[c] # j /\ op'[c] \in Pending => op[c] \in Pending,
           s \in ClosedJob => \A c \in ChunksOf(j) : op'[c] \notin Pending
    PROVE  Clean'
  <1>1. ASSUME NEW c \in Chunks, job'[Owner[c]].status \in ClosedJob
        PROVE  op'[c] \notin Pending
    <2>1. Owner[c] \in Jobs
      BY VerificationUploadsAssumption
    <2>2. job'[Owner[c]].status = IF Owner[c] = j THEN s ELSE job[Owner[c]].status
      BY <2>1 DEF SetStatus, WithStatus, UploadInv, TypeOK
    <2> QED
      BY <1>1, <2>2 DEF UploadInv, Clean, ChunksOf
  <1> QED
    BY <1>1 DEF Clean

\* A job that fails has nothing pending; a deferral leaves the job open.
LEMMA FailJobClean ==
    ASSUME UploadInv, NEW j \in Jobs, NEW canceled, NEW o, NEW n, FailJob(j, canceled, o, n),
           \A c \in Chunks : n[c] \in Pending => op[c] \in Pending /\ o[c] \in Pending
    PROVE  Clean'
  <1> DEFINE open == {c \in ChunksOf(j) : o[c] \in Pending}
             s == IF open = {} THEN "failed"
                  ELSE IF canceled THEN "cancel_requested"
                  ELSE IF \E c \in open : o[c] \in Uploading
                       THEN "reconciliation_required"
                  ELSE "provider_processing"
  <1>1. SetStatus(j, s)
    BY DEF FailJob
  <1>2. \A c \in Chunks : op'[c] \in Pending => op[c] \in Pending /\ o[c] \in Pending
    BY FailJobOp DEF Pending
  <1>3. s \in ClosedJob => open = {}
    BY DEF ClosedJob
  <1>4. s \in ClosedJob => \A c \in ChunksOf(j) : op'[c] \notin Pending
    BY <1>2, <1>3 DEF ChunksOf
  <1> HIDE DEF s
  <1> QED
    BY <1>1, <1>2, <1>4, CleanBy

LEMMA CleanStep ==
    ASSUME UploadInv, Next
    PROVE  Clean'
  <1> USE DEF UploadInv
  <1>1. ASSUME op' = op, job' = job
        PROVE  Clean'
    BY <1>1 DEF Clean
  <1>2. ASSUME NEW j \in Jobs, NEW s, s \notin ClosedJob, SetStatus(j, s), op' = op
        PROVE  Clean'
    BY <1>2, CleanBy
  <1>3. ASSUME NEW j \in Jobs, CreateJob(j) \/ Begin(j)
        PROVE  Clean'
    <2>1. {"queued", "running"} \cap ClosedJob = {}
      BY DEF ClosedJob
    <2> QED
      BY <1>2, <1>3, <2>1 DEF CreateJob, Begin, opVars
  <1>4. ASSUME NEW j \in Jobs, AskCancel(j)
        PROVE  Clean'
    BY <1>1, <1>4 DEF AskCancel, opVars
  <1>5. ASSUME NEW j \in Jobs, WriteCancel(j)
        PROVE  Clean'
    BY <1>5 DEF WriteCancel, opVars, Clean, ClosedJob, TypeOK
  <1>6. CASE Revoke \/ BeginSweep \/ NoWork \/ Plan \/ Credits
    BY <1>1, <1>6 DEF Revoke, BeginSweep, NoWork, Plan, Credits, opVars
  <1>7. CASE EndSweep
    <2>1. PICK out : Pass(todo, out) /\ job' = [j \in Jobs |-> WithStatus(j, SweptStatus(j, out))]
      BY <1>7, EndSweepIsPass
    <2>2. ASSUME NEW c \in Chunks, job'[Owner[c]].status \in ClosedJob
          PROVE  job[Owner[c]].status \in ClosedJob
      <3>1. Owner[c] \in Jobs
        BY VerificationUploadsAssumption
      <3>2. SweptStatus(Owner[c], out) \in ClosedJob
        BY <2>1, <2>2, <3>1 DEF WithStatus
      <3> QED
        BY <3>2 DEF SweptStatus, ClosedJob
    <2> QED
      BY <2>1, <2>2, PassPending DEF Clean
  <1>8. ASSUME NEW j \in Jobs, Refuse(j)
        PROVE  Clean'
    BY <1>8, FailJobClean DEF Refuse
  <1>9. ASSUME NEW j \in Jobs, CancelPass(j)
        PROVE  Clean'
    <2>1. PICK out : Pass(PendingOf(j), out) /\ op' = OpAfter(PendingOf(j), out)
                     /\ SetStatus(j, IF \E c \in PendingOf(j) : After(c, out[c]) \in Pending
                                     THEN "cancel_requested" ELSE "cancelled")
      BY <1>9, CancelPassIsPass
    <2>2. CASE \E c \in PendingOf(j) : After(c, out[c]) \in Pending
      <3>1. SetStatus(j, "cancel_requested") /\ "cancel_requested" \notin ClosedJob
        BY <2>1, <2>2 DEF ClosedJob
      <3> QED
        BY <2>1, <3>1, PassPending, CleanBy
    <2>3. CASE \A c \in PendingOf(j) : After(c, out[c]) \notin Pending
      <3>1. \A c \in ChunksOf(j) : op'[c] \notin Pending
        BY <2>1, <2>3 DEF OpAfter, PendingOf, ChunksOf
      <3>2. SetStatus(j, "cancelled")
        BY <2>1, <2>3
      <3> QED
        BY <2>1, <3>1, <3>2, PassPending, CleanBy
    <2> QED
      BY <2>2, <2>3
  <1>10. CASE NoCredits
    BY <1>10, FailJobClean DEF NoCredits, Cycle, Working
  <1>11. ASSUME Intend \/ Acknowledge \/ UploadUnknown
         PROVE  Clean'
    <2> DEFINE c == Earliest(todo)
    <2>1. cur \in Jobs /\ Owner[c] = cur /\ op[c] # "upload_retry_ready"
      BY <1>11, EarliestIsIn DEF Intend, Acknowledge, UploadUnknown, Cycle, Working, Uploads,
         TypeOK, ChunksOf
    <2>2. \A d \in Chunks : Owner[d] # cur => op'[d] = op[d]
      BY <1>11, <2>1 DEF Intend, Acknowledge, UploadUnknown, TypeOK
    <2>3. \E s \in {"provider_processing", "cancel_requested", "reconciliation_required"} :
            SetStatus(cur, s)
      BY <1>11, <2>1 DEF Intend, Acknowledge, UploadUnknown
    <2>4. PICK s \in {"provider_processing", "cancel_requested", "reconciliation_required"} :
            SetStatus(cur, s)
      BY <2>3
    <2>5. s \notin ClosedJob
      BY DEF ClosedJob
    <2> QED
      BY <2>1, <2>2, <2>4, <2>5, CleanBy
  <1>12. CASE UploadRejected
    <2> DEFINE c == Earliest(todo)
               o == [op EXCEPT ![c] = "failed"]
    <2>1. cur \in Jobs
      BY <1>12 DEF UploadRejected, Cycle, Working
    <2>2. FailJob(cur, job[cur].cancel, o, o)
      BY <1>12 DEF UploadRejected
    <2>3. \A d \in Chunks : o[d] \in Pending => op[d] \in Pending /\ o[d] \in Pending
      BY DEF TypeOK, Pending, Uploading
    <2> HIDE DEF o
    <2> QED
      BY <2>1, <2>2, <2>3, FailJobClean
  <1>13. CASE PollPass
    <2>1. cur \in Jobs
      BY <1>13 DEF PollPass, Cycle, Working
    <2>2. PICK s \in {"running", "provider_processing"} : \E out :
            Pass(PendingOf(cur), out) /\ SetStatus(cur, s)
      BY <1>13, PollPassIsPass
    <2>3. s \notin ClosedJob
      BY DEF ClosedJob
    <2> QED
      BY <2>1, <2>2, <2>3, PassPending, CleanBy
  <1>14. CASE PollFails
    <2>1. cur \in Jobs
      BY <1>14 DEF PollFails, Cycle, Working
    <2>2. PICK D \in SUBSET PendingOf(cur) : \E out : Pass(D, out) /\ PollFailure(D, out)
      BY <1>14, PollFailsIsPass
    <2>3. PICK out : Pass(D, out) /\ PollFailure(D, out)
      BY <2>2
    <2>4. FailJob(cur, FALSE, op, OpAfter(D, out))
      BY <2>3 DEF PollFailure
    <2>5. \A d \in Chunks : OpAfter(D, out)[d] \in Pending => op[d] \in Pending
      BY <2>3 DEF OpAfter, Pass
    <2> QED
      BY <2>1, <2>4, <2>5, FailJobClean
  <1>15. CASE Finalize
    <2>1. cur \in Jobs /\ op' = op
      BY <1>15 DEF Finalize, Cycle, Working, opVars
    <2>2. \A c \in ChunksOf(cur) : op'[c] \notin Pending
      BY <1>15, <2>1 DEF Finalize, PendingOf
    <2>3. SetStatus(cur, "completed") \/ job' = job
      BY <1>15 DEF Finalize
    <2> QED
      BY <1>1, <2>1, <2>2, <2>3, CleanBy
  <1>16. CASE Crash
    BY <1>1, <1>16 DEF Crash, opVars
  <1>17. ASSUME NEW c \in Chunks, Provider(c) \/ Age(c) \/ BackoffElapses(c)
         PROVE  Clean'
    BY <1>1, <1>17 DEF Provider, Age, BackoffElapses, opVars
  <1> QED
    BY <1>3, <1>4, <1>5, <1>6, <1>7, <1>8, <1>9, <1>10, <1>11, <1>12, <1>13, <1>14, <1>15,
       <1>16, <1>17 DEF Next, Api, Worker, Surroundings

-----------------------------------------------------------------------------
(* The worker's place in its cycle. *)

LEMMA RestCycle == ASSUME Rest PROVE Cycle'
  BY DEF Rest, Cycle, Working, Uploads

\* The steps that leave the worker and the operations alone.
LEMMA AsideCycle ==
    ASSUME UploadInv, UNCHANGED <<op, workerVars>>,
           \A j \in Jobs : job[j].status \notin ClosedJob => job'[j].status \notin ClosedJob
    PROVE  Cycle'
  BY DEF UploadInv, Cycle, Working, workerVars, ChunksOf, Earliest

LEMMA CycleStep ==
    ASSUME UploadInv, Next
    PROVE  Cycle'
  <1> USE DEF UploadInv
  <1>1. ASSUME NEW j \in Jobs, CreateJob(j)
        PROVE  Cycle'
    <2>1. \A k \in Jobs : job[k].status \notin ClosedJob => job'[k].status \notin ClosedJob
      BY <1>1 DEF CreateJob, SetStatus, WithStatus, TypeOK, ClosedJob
    <2> QED
      BY <1>1, <2>1, AsideCycle DEF CreateJob, opVars
  <1>2. ASSUME NEW j \in Jobs, WriteCancel(j)
        PROVE  Cycle'
    <2>1. \A k \in Jobs : job[k].status \notin ClosedJob => job'[k].status \notin ClosedJob
      BY <1>2 DEF WriteCancel, TypeOK, ClosedJob
    <2> QED
      BY <1>2, <2>1, AsideCycle DEF WriteCancel, opVars
  <1>3. ASSUME NEW j \in Jobs, AskCancel(j)
        PROVE  Cycle'
    BY <1>3, AsideCycle DEF AskCancel, opVars
  <1>4. CASE Revoke
    BY <1>4, AsideCycle DEF Revoke, opVars
  <1>5. CASE BeginSweep
    <2>1. CASE DueNow = {}
      <3>1. \A c \in Chunks : op[c] # "upload_retry_ready"
        BY <2>1 DEF DueNow, Listings, Uploading
      <3>2. pc' = "dequeue" /\ op' = op
        BY <1>5, <2>1 DEF BeginSweep, opVars
      <3> QED
        BY <3>1, <3>2 DEF Cycle, Working, Uploads
    <2>2. CASE DueNow # {}
      <3>1. pc' = "sweep" /\ todo' = DueNow /\ op' = op
        BY <1>5, <2>2 DEF BeginSweep, opVars
      <3> QED
        BY <3>1 DEF Cycle, Working, Uploads, DueNow
    <2> QED
      BY <2>1, <2>2
  <1>6. CASE EndSweep \/ NoWork \/ UploadUnknown \/ UploadRejected \/ PollPass \/ PollFails
               \/ NoCredits \/ Finalize \/ Crash
    BY <1>6, RestCycle DEF EndSweep, NoWork, UploadUnknown, UploadRejected, PollPass,
       PollFails, NoCredits, Finalize, Crash
  <1>7. ASSUME NEW j \in Jobs, Refuse(j) \/ CancelPass(j)
        PROVE  Cycle'
    BY <1>7, RestCycle DEF Refuse, CancelPass
  <1>8. ASSUME NEW j \in Jobs, Begin(j)
        PROVE  Cycle'
    <2>1. job'[j].status = "running"
      BY <1>8 DEF Begin, SetStatus, WithStatus, TypeOK
    <2>2. pc' = "bulk" /\ cur' = j /\ op' = op
      BY <1>8 DEF Begin, opVars
    <2> QED
      BY <1>8, <2>1, <2>2 DEF Begin, Cycle, Working, Uploads, ClosedJob
  <1>9. CASE Plan
    <2>1. RetryOf(cur) = {} /\ QueuedOf(cur) # {}
      BY <1>9 DEF Plan, Cycle, RetryOf, ChunksOf, Working
    <2>2. pc' = "credits" /\ todo' = QueuedOf(cur) /\ UNCHANGED <<op, job, cur>>
      BY <1>9, <2>1 DEF Plan, opVars
    <2>3. todo' \subseteq ChunksOf(cur) /\ \A c \in todo' : op[c] = "none"
      BY <2>2 DEF QueuedOf, ChunksOf, Fresh
    <2> QED
      BY <1>9, <2>1, <2>2, <2>3 DEF Plan, Cycle, Working, Uploads, ChunksOf
  <1>10. CASE Credits
    BY <1>10 DEF Credits, Cycle, Working, Uploads, opVars, ChunksOf
  <1>11. CASE Intend
    <2> DEFINE c == Earliest(todo)
    <2>1. c \in todo /\ c \in Chunks /\ cur \in Jobs /\ op[c] = "none"
      BY <1>11, EarliestIsIn DEF Intend, Cycle, Working, Uploads, TypeOK
    <2>2. /\ op' = [op EXCEPT ![c] = "upload_intent"]
          /\ SetStatus(cur, "provider_processing")
          /\ pc' = "post" /\ UNCHANGED <<cur, todo>>
      BY <1>11, <2>1 DEF Intend
    <2>3. job'[cur].status \notin ClosedJob
      BY <2>1, <2>2 DEF SetStatus, WithStatus, TypeOK, ClosedJob
    <2>4. Earliest(todo)' = c /\ op'[c] = "upload_intent"
      BY <2>1, <2>2 DEF TypeOK, Earliest
    <2>5. \A d \in Chunks \ {c} : op'[d] = op[d]
      BY <2>2 DEF TypeOK
    <2>6. \A d \in todo : op[d] = "none"
      BY <1>11 DEF Intend, Cycle
    <2>7. \A d \in Chunks : op'[d] # "upload_retry_ready"
      BY <1>11, <2>1, <2>4, <2>5 DEF Intend, Cycle, Working
    <2> HIDE DEF c
    <2> QED
      BY <1>11, <2>1, <2>2, <2>3, <2>4, <2>5, <2>6, <2>7
         DEF Intend, Cycle, Working, Uploads, ChunksOf, TypeOK
  <1>12. CASE Acknowledge
    <2> DEFINE c == Earliest(todo)
    <2>1. c \in todo /\ c \in Chunks /\ cur \in Jobs
      BY <1>12, EarliestIsIn DEF Acknowledge, Cycle, Working, Uploads, TypeOK
    <2>2. CASE Rest
      BY <2>2, RestCycle
    <2>3. CASE ~Rest
      <3>1. /\ op' = [op EXCEPT ![c] = "provider_processing"]
            /\ SetStatus(cur, "provider_processing")
            /\ pc' = "intend" /\ cur' = cur /\ todo' = todo \ {c} /\ todo # {c}
        BY <1>12, <2>3 DEF Acknowledge
      <3>2. job'[cur].status \notin ClosedJob
        BY <2>1, <3>1 DEF SetStatus, WithStatus, TypeOK, ClosedJob
      <3>3. \A d \in Chunks : op'[d] = IF d = c THEN "provider_processing" ELSE op[d]
        BY <3>1 DEF TypeOK
      <3>4. todo' # {} /\ todo' \subseteq ChunksOf(cur)
        BY <1>12, <2>1, <3>1 DEF Acknowledge, Cycle, Uploads
      <3>5. \A d \in todo \ {c} : op[d] = "none"
        BY <1>12 DEF Acknowledge, Cycle
      <3>6. \A d \in Chunks : op'[d] # "upload_retry_ready"
        BY <1>12, <3>3 DEF Acknowledge, Cycle, Working
      <3> HIDE DEF c
      <3> QED
        BY <1>12, <2>1, <3>1, <3>2, <3>3, <3>4, <3>5, <3>6
           DEF Cycle, Working, Uploads, ChunksOf, TypeOK
    <2> QED
      BY <2>2, <2>3
  <1>13. ASSUME NEW c \in Chunks, Provider(c) \/ Age(c) \/ BackoffElapses(c)
         PROVE  Cycle'
    BY <1>13, AsideCycle DEF Provider, Age, BackoffElapses, opVars
  <1> QED
    BY <1>1, <1>2, <1>3, <1>4, <1>5, <1>6, <1>7, <1>8, <1>9, <1>10, <1>11, <1>12, <1>13
       DEF Next, Api, Worker, Surroundings

-----------------------------------------------------------------------------
(* The invariant, and what follows from it. *)

LEMMA UploadInit == Init => UploadInv
  <1> SUFFICES ASSUME Init PROVE UploadInv
    OBVIOUS
  <1> USE VerificationUploadsAssumption DEF Init
  <1>1. TypeOK
    BY DEF TypeOK, JobStatus, OpStatus, ItemStatus, FileStatus
  <1>2. RemoteFileIsTracked /\ Clean /\ Listings /\ Fresh /\ Cycle
    BY DEF RemoteFileIsTracked, Outside, Held, Clean, ClosedJob, Listings, Fresh, Cycle,
       Working, Uploads, Uploading
  <1> QED
    BY <1>1, <1>2 DEF UploadInv

LEMMA UploadNext == UploadInv /\ [Next]_vars => UploadInv'
  <1>1. CASE UNCHANGED vars
    BY <1>1 DEF vars, opVars, workerVars, UploadInv, TypeOK, RemoteFileIsTracked, Outside,
       Clean, Listings, Fresh, Cycle, Earliest, ChunksOf
  <1>2. UploadInv /\ Next => UploadInv'
    BY TypeStep, FilesStep, CleanStep, CycleStep DEF Files, UploadInv
  <1> QED
    BY <1>1, <1>2

\* The inductive invariant holds in every reachable state.
THEOREM UploadInvariance == Spec => []UploadInv
  BY UploadInit, UploadNext, PTL DEF Spec

\* Every variable keeps its type.
THEOREM UploadTypes == Spec => []TypeOK
  <1>1. UploadInv => TypeOK
    BY DEF UploadInv
  <1> QED
    BY <1>1, UploadInvariance, PTL

\* Whatever is lost, late, hidden or killed, an upload that may have reached the
\* provider has a row the worker comes back to.
THEOREM NoOrphanFile == Spec => []RemoteFileIsTracked
  <1>1. UploadInv => RemoteFileIsTracked
    BY DEF UploadInv
  <1> QED
    BY <1>1, UploadInvariance, PTL

LEMMA CleanJobs == UploadInv => ClosedJobIsClean
  BY DEF UploadInv, Clean, RemoteFileIsTracked, ClosedJobIsClean

\* However a job ends, none of its files is at the provider or on the way there.
THEOREM NoJobClosedEarly == Spec => []ClosedJobIsClean
  BY CleanJobs, UploadInvariance, PTL

\* No chunk is uploaded twice.
THEOREM NoSecondUpload == Spec => []UploadedOnce
  <1>1. UploadInv => UploadedOnce
    BY DEF UploadInv, Fresh, UploadedOnce
  <1> QED
    BY <1>1, UploadInvariance, PTL

-----------------------------------------------------------------------------
(* VerificationUploads implements FileCustody. *)

Home(c) == op[c] \notin Pending /\ ~Outside(c)
Closed == {j \in Jobs : job[j].status \in ClosedJob}

LEMMA PassHome ==
    ASSUME NEW D, NEW out, Pass(D, out), NEW c \in Chunks, Home(c)
    PROVE  op'[c] \notin Pending /\ file'[c] = file[c]
  BY PassPending DEF Pass, Settle, Home

LEMMA FailJobHome ==
    ASSUME NEW j, NEW canceled, NEW o, NEW n, FailJob(j, canceled, o, n),
           NEW c \in Chunks, n[c] \notin Pending
    PROVE  op'[c] \notin Pending
  BY FailJobOp DEF Pending

\* Only the intent in front of an upload takes a chunk out of the house.
LEMMA HomeStays ==
    ASSUME UploadInv, Next, ~Intend, NEW c \in Chunks, Home(c)
    PROVE  op'[c] \notin Pending /\ file'[c] = file[c]
  <1> DEFINE Stays == op'[c] \notin Pending /\ file'[c] = file[c]
  <1> USE DEF UploadInv
  <1>1. ASSUME UNCHANGED <<op, file>>
        PROVE  Stays
    BY <1>1 DEF Home
  <1>2. ASSUME NEW j \in Jobs, CreateJob(j) \/ AskCancel(j) \/ WriteCancel(j) \/ Begin(j)
        PROVE  Stays
    BY <1>1, <1>2 DEF CreateJob, AskCancel, WriteCancel, Begin, opVars
  <1>3. CASE Revoke \/ BeginSweep \/ NoWork \/ Plan \/ Credits \/ Finalize
    BY <1>1, <1>3 DEF Revoke, BeginSweep, NoWork, Plan, Credits, Finalize, opVars
  <1>4. CASE EndSweep
    BY <1>4, EndSweepIsPass, PassHome
  <1>5. ASSUME NEW j \in Jobs, CancelPass(j)
        PROVE  Stays
    BY <1>5, CancelPassIsPass, PassHome
  <1>6. CASE PollPass
    BY <1>6, PollPassIsPass, PassHome
  <1>7. CASE PollFails
    BY <1>7, PollFailsIsPass, PassHome
  <1>8. ASSUME NEW j \in Jobs, Refuse(j)
        PROVE  Stays
    BY <1>8, FailJobHome DEF Refuse, Home
  <1>9. CASE NoCredits
    BY <1>9, FailJobHome DEF NoCredits, Home
  <1>10. CASE Acknowledge \/ UploadUnknown
    <2>1. Earliest(todo) \in Chunks /\ op[Earliest(todo)] \in Pending
      BY <1>10, EarliestIsIn DEF Acknowledge, UploadUnknown, Cycle, Uploads, TypeOK, Pending,
         Uploading
    <2> QED
      BY <1>10, <2>1 DEF Acknowledge, UploadUnknown, Home, TypeOK
  <1>11. CASE UploadRejected
    <2> DEFINE d == Earliest(todo)
               o == [op EXCEPT ![d] = "failed"]
    <2>1. d \in Chunks /\ op[d] \in Pending
      BY <1>11, EarliestIsIn DEF UploadRejected, Cycle, Uploads, TypeOK, Pending, Uploading
    <2>2. FailJob(cur, job[cur].cancel, o, o) /\ file' = [file EXCEPT ![d] = "none"]
      BY <1>11 DEF UploadRejected
    <2>3. c # d
      BY <2>1 DEF Home
    <2>4. o[c] \notin Pending /\ file'[c] = file[c]
      BY <2>2, <2>3 DEF TypeOK, Home
    <2> HIDE DEF o
    <2> QED
      BY <2>2, <2>4, FailJobHome
  <1>12. CASE Crash
    BY <1>12 DEF Crash, Deleting, Pending, Uploading, Home, opVars
  <1>13. ASSUME NEW d \in Chunks, Provider(d)
         PROVE  Stays
    <2>1. file'[c] = file[c]
      BY <1>13 DEF Provider, Take, Lose, Advance, Become, Home, Outside, Held, TypeOK
    <2> QED
      BY <1>13, <2>1 DEF Provider, Home, opVars
  <1>14. ASSUME NEW d \in Chunks, Age(d)
         PROVE  Stays
    BY <1>14 DEF Age, Become, Home, Outside, Held, TypeOK
  <1>15. ASSUME NEW d \in Chunks, BackoffElapses(d)
         PROVE  Stays
    BY <1>1, <1>15 DEF BackoffElapses
  <1> QED
    BY <1>2, <1>3, <1>4, <1>5, <1>6, <1>7, <1>8, <1>9, <1>10, <1>11, <1>12, <1>13, <1>14,
       <1>15 DEF Next, Api, Worker, Surroundings

LEMMA CustodyOf ==
    ASSUME NEW c \in Chunks
    PROVE  /\ Custody[c] = IF ~Home(c) THEN "abroad"
                           ELSE IF file[c] = "deleted" THEN "erased" ELSE "home"
           /\ Custody'[c] = IF ~Home(c)' THEN "abroad"
                            ELSE IF file'[c] = "deleted" THEN "erased" ELSE "home"
  BY DEF Custody, Home, Outside

\* A closed job has no chunk abroad.
LEMMA ClosedIsHome ==
    ASSUME UploadInv', NEW c \in Chunks, Owner[c] \in Closed'
    PROVE  Custody'[c] # "abroad"
  <1>1. Home(c)'
    BY DEF UploadInv, Clean, RemoteFileIsTracked, Closed, Home
  <1> QED
    BY <1>1, CustodyOf

LEMMA ReturnStep ==
    ASSUME UploadInv, UploadInv', Next, ~Intend
    PROVE  Contract!Return
  <1>1. Custody' \in [Chunks -> {"home", "abroad", "erased"}]
    BY DEF Custody
  <1>2. \A c \in Chunks : Custody'[c] = Custody[c] \/ Custody[c] = "abroad"
    <2> TAKE c \in Chunks
    <2>1. CASE ~Home(c)
      BY <2>1, CustodyOf
    <2>2. CASE Home(c)
      <3>1. op'[c] \notin Pending /\ file'[c] = file[c]
        BY <2>2, HomeStays
      <3>2. Home(c)'
        BY <2>2, <3>1 DEF Home, Outside
      <3> QED
        BY <2>2, <3>1, <3>2, CustodyOf
    <2> QED
      BY <2>1, <2>2
  <1>3. Closed' \in SUBSET Jobs
    BY DEF Closed
  <1>4. \A c \in Chunks : Owner[c] \in Closed' => Custody'[c] # "abroad"
    BY ClosedIsHome
  <1> QED
    BY <1>1, <1>2, <1>3, <1>4 DEF Contract!Return, Contract!Settled, Contract!Places, Closed

LEMMA HandOutStep ==
    ASSUME UploadInv, Intend
    PROVE  \E c \in Chunks : Contract!HandOut(c)
  <1> USE DEF UploadInv
  <1>1. PICK c \in Chunks :
          c = Earliest(todo) /\ cur \in Jobs /\ op[c] = "none" /\ Owner[c] = cur
    BY EarliestIsIn DEF Intend, Cycle, Working, Uploads, TypeOK, ChunksOf
  <1>2. /\ op' = [op EXCEPT ![c] = "upload_intent"]
        /\ file' = [file EXCEPT ![c] = "wire"]
        /\ SetStatus(cur, "provider_processing")
    BY <1>1 DEF Intend
  <1>3. job[cur].status \notin ClosedJob
    BY DEF Intend, Cycle, Working
  <1>4. Closed' = Closed
    <2>1. \A j \in Jobs : job'[j].status = IF j = cur THEN "provider_processing"
                                          ELSE job[j].status
      BY <1>2 DEF SetStatus, WithStatus, TypeOK
    <2>2. "provider_processing" \notin ClosedJob
      BY DEF ClosedJob
    <2> QED
      BY <1>3, <2>1, <2>2 DEF Closed
  <1>5. Custody[c] = "home" /\ Custody'[c] = "abroad"
    <2>1. Home(c) /\ file[c] = "none"
      BY <1>1 DEF Fresh, Home, Outside, Held, Pending, Uploading
    <2>2. ~Home(c)'
      BY <1>1, <1>2 DEF TypeOK, Home, Pending, Uploading
    <2> QED
      BY <2>1, <2>2, CustodyOf
  <1>6. \A d \in Chunks \ {c} : Custody'[d] = Custody[d]
    <2> TAKE d \in Chunks \ {c}
    <2>1. op'[d] = op[d] /\ file'[d] = file[d]
      BY <1>2 DEF TypeOK
    <2> QED
      BY <2>1 DEF Custody, Outside
  <1>7. Custody' = [Custody EXCEPT ![c] = "abroad"]
    BY <1>1, <1>5, <1>6 DEF Custody
  <1>8. Owner[c] \notin Closed
    BY <1>1, <1>3 DEF Closed
  <1>9. Contract!HandOut(c)
    BY <1>4, <1>5, <1>7, <1>8 DEF Contract!HandOut, Closed
  <1> QED
    BY <1>1, <1>9

\* Uploads, deletions and the closing of jobs keep to the custody contract.
THEOREM CustodyIsKept == Spec => ImplementsCustody
  <1>1. Init => Contract!Init
    <2> SUFFICES ASSUME Init PROVE Contract!Init
      OBVIOUS
    <2>1. Custody = [c \in Chunks |-> "home"]
      BY DEF Init, Custody, Pending, Uploading, Outside, Held
    <2>2. Closed = {}
      BY DEF Init, Closed, ClosedJob
    <2> QED
      BY <2>1, <2>2 DEF Contract!Init, Closed
  <1>2. UploadInv /\ UploadInv' /\ [Next]_vars => [Contract!Next]_<<Custody, Closed>>
    <2>1. CASE UNCHANGED vars
      BY <2>1 DEF vars, opVars, Custody, Outside, Closed
    <2>2. ASSUME UploadInv, UploadInv', Next PROVE Contract!Next
      BY <2>2, ReturnStep, HandOutStep DEF Contract!Next
    <2> QED
      BY <2>1, <2>2
  <1> QED
    BY <1>1, <1>2, UploadInvariance, PTL DEF Spec, ImplementsCustody, Contract!Spec, Closed

-----------------------------------------------------------------------------
(* Without a fault no identifier loses its result. *)

\* Before the first fault nothing is deferred, and a file in work has its items
\* in work and is still there.
Unharmed ==
  faults = 0 =>
    /\ entitled
    /\ \A c \in Chunks :
         /\ item[c] # "failed"
         /\ op[c] # "provider_deleting"
         /\ item[c] = "provider_processing" => op[c] = "provider_processing"
         /\ op[c] = "provider_processing" => file[c] # "deleted"

LEMMA Faultless ==
    ASSUME TypeOK, NEW D \in SUBSET Chunks, NEW out, Settle(D, out), faults' = 0
    PROVE  faults = 0 /\ \A c \in D : out[c] \notin Faulty
  <1> DEFINE F == {c \in D : out[c] \in Faulty}
  <1>1. IsFiniteSet(F)
    BY FS_Subset, VerificationUploadsAssumption
  <1>2. Cardinality(F) \in Nat /\ faults' = faults + Cardinality(F) /\ faults \in Nat
    BY <1>1, FS_CardinalityType, VerificationUploadsAssumption DEF Settle, TypeOK
  <1>3. faults = 0 /\ Cardinality(F) = 0
    BY <1>2
  <1>4. F = {}
    BY <1>1, <1>3, FS_EmptySet
  <1> QED
    BY <1>3, <1>4

\* What a pass leaves alone, and what it makes of the operations it settles.
LEMMA PassUnharmed ==
    ASSUME UploadInv, Unharmed, faults = 0, NEW D \in SUBSET Chunks, NEW out, Pass(D, out),
           op' = OpAfter(D, out), \A c \in D : out[c] \notin Faulty, NEW c \in Chunks
    PROVE  /\ op'[c] # "provider_deleting"
           /\ op'[c] = "provider_processing" => file'[c] # "deleted"
           /\ c \notin D => op'[c] = op[c]
           /\ c \in D => op'[c] = After(c, out[c])
  <1>1. op'[c] = IF c \in D THEN After(c, out[c]) ELSE op[c]
    BY DEF OpAfter
  <1>2. file'[c] = IF c \in D /\ out[c] \in Erased THEN "deleted" ELSE file[c]
    BY DEF Pass, Settle
  <1>3. CASE c \notin D
    BY <1>1, <1>2, <1>3 DEF Unharmed
  <1>4. CASE c \in D
    <2>1. out[c] \in Outcome /\ (out[c] \in Adopted => Listed(c)) /\ out[c] \notin Kept
      BY <1>4 DEF Pass, Sound, Faulty
    <2>2. out[c] \in Erased => After(c, out[c]) = "completed"
      BY DEF After, Erased, Adopted, Absent, Missed, Conflict, Kept, Untouched, Fatal
    <2>3. After(c, out[c]) # "provider_deleting"
      BY <2>1 DEF Unharmed, After
    <2>4. After(c, out[c]) = "provider_processing" => file[c] # "deleted"
      BY <2>1 DEF Unharmed, After, Listed
    <2> QED
      BY <1>1, <1>2, <1>4, <2>2, <2>3, <2>4
  <1> QED
    BY <1>3, <1>4

LEMMA UnharmedStep ==
    ASSUME UploadInv, Unharmed, Next
    PROVE  Unharmed'
  <1> SUFFICES ASSUME faults' = 0
               PROVE  /\ entitled'
                      /\ \A c \in Chunks :
                           /\ item'[c] # "failed"
                           /\ op'[c] # "provider_deleting"
                           /\ item'[c] = "provider_processing" =>
                                op'[c] = "provider_processing"
                           /\ op'[c] = "provider_processing" => file'[c] # "deleted"
    BY DEF Unharmed
  <1> DEFINE Goal == /\ entitled'
                     /\ \A c \in Chunks :
                          /\ item'[c] # "failed"
                          /\ op'[c] # "provider_deleting"
                          /\ item'[c] = "provider_processing" =>
                               op'[c] = "provider_processing"
                          /\ op'[c] = "provider_processing" => file'[c] # "deleted"
  <1> USE DEF UploadInv
  <1>0. ~Fault
    BY VerificationUploadsAssumption DEF Fault, TypeOK
  <1>1. ASSUME UNCHANGED <<entitled, faults, op, item, file>>
        PROVE  Goal
    BY <1>1 DEF Unharmed
  <1>2. ASSUME NEW j \in Jobs, CreateJob(j) \/ AskCancel(j) \/ WriteCancel(j) \/ Begin(j)
        PROVE  Goal
    BY <1>1, <1>2 DEF CreateJob, AskCancel, WriteCancel, Begin, opVars
  <1>3. CASE BeginSweep \/ NoWork \/ Plan \/ Credits
    BY <1>1, <1>3 DEF BeginSweep, NoWork, Plan, Credits, opVars
  <1>4. CASE Revoke \/ NoCredits \/ UploadRejected \/ Crash
    BY <1>0, <1>4 DEF Revoke, NoCredits, UploadRejected, Crash
  <1>5. CASE EndSweep
    <2>1. PICK out : /\ Pass(todo, out)
                     /\ op' = OpAfter(todo, out) /\ item' = ItemAfter(todo, out)
                     /\ \A c \in todo : out[c] \in SweepOutcomes(c)
      BY <1>5, EndSweepIsPass
    <2>2. faults = 0 /\ \A c \in todo : out[c] \notin Faulty
      BY <2>1, Faultless DEF Pass, TypeOK
    <2>3. entitled'
      BY <1>5, <2>2 DEF EndSweep, Unharmed
    <2>4. ASSUME NEW c \in Chunks
          PROVE  item'[c] # "failed" /\ (item'[c] = "provider_processing" =>
                                           op'[c] = "provider_processing")
      <3>1. item'[c] = item[c]
              \/ (c \in todo /\ out[c] \in Adopted /\ item'[c] = "provider_processing")
              \/ item'[c] = "succeeded"
        BY <2>1 DEF ItemAfter
      <3>2. c \in todo /\ out[c] \in Adopted => op'[c] = "provider_processing"
        BY <2>1 DEF OpAfter, After
      <3>3. item[c] = "provider_processing" => c \notin todo
        BY <1>5, <2>2 DEF EndSweep, Cycle, Unharmed, Uploading
      <3>4. c \notin todo => op'[c] = op[c]
        BY <2>1 DEF OpAfter
      <3> QED
        BY <2>2, <3>1, <3>2, <3>3, <3>4 DEF Unharmed
    <2>5. todo \in SUBSET Chunks
      BY DEF TypeOK
    <2> QED
      BY <2>1, <2>2, <2>3, <2>4, <2>5, PassUnharmed
  <1>6. ASSUME NEW j \in Jobs, Refuse(j)
        PROVE  Goal
    BY <1>6 DEF Refuse, Unharmed
  <1>7. ASSUME NEW j \in Jobs, CancelPass(j)
        PROVE  Goal
    <2>1. PICK out : /\ Pass(PendingOf(j), out)
                     /\ op' = OpAfter(PendingOf(j), out)
                     /\ \A c \in PendingOf(j) : out[c] \in CancelOutcomes(c)
      BY <1>7, CancelPassIsPass
    <2>2. PendingOf(j) \in SUBSET Chunks
      BY DEF PendingOf, ChunksOf
    <2>3. faults = 0 /\ \A c \in PendingOf(j) : out[c] \notin Faulty
      BY <2>1, <2>2, Faultless DEF Pass
    <2>4. entitled'
      BY <1>7, <2>3 DEF CancelPass, Unharmed
    <2>5. ASSUME NEW c \in Chunks
          PROVE  item'[c] # "failed" /\ (item'[c] = "provider_processing" =>
                                           op'[c] = "provider_processing")
      <3>1. item'[c] = IF c \in ChunksOf(j) /\ item[c] \notin ClosedItem THEN "cancelled"
                       ELSE item[c]
        BY <1>7 DEF CancelPass
      <3>2. c \in ChunksOf(j) => item'[c] # "provider_processing"
        BY <3>1 DEF ClosedItem
      <3>3. c \notin ChunksOf(j) => op'[c] = op[c]
        BY <2>1 DEF OpAfter, PendingOf
      <3> QED
        BY <2>3, <3>1, <3>2, <3>3 DEF Unharmed
    <2> QED
      BY <2>1, <2>2, <2>3, <2>4, <2>5, PassUnharmed
  <1>8. CASE Intend
    <2>1. PICK c \in Chunks : c = Earliest(todo) /\ op[c] = "none"
      BY <1>8, EarliestIsIn DEF Intend, Cycle, Uploads, TypeOK
    <2>2. /\ op' = [op EXCEPT ![c] = "upload_intent"]
          /\ item' = [item EXCEPT ![c] = "upload_pending"]
          /\ file' = [file EXCEPT ![c] = "wire"]
          /\ UNCHANGED <<entitled, faults>>
      BY <1>8, <2>1 DEF Intend
    <2> QED
      BY <2>1, <2>2 DEF Unharmed, TypeOK
  <1>9. CASE Acknowledge
    <2>1. PICK c \in Chunks : c = Earliest(todo) /\ op[c] = "upload_intent"
      BY <1>9, EarliestIsIn DEF Acknowledge, Cycle, Uploads, TypeOK
    <2>2. /\ op' = [op EXCEPT ![c] = "provider_processing"]
          /\ item' = [item EXCEPT ![c] =
               IF @ = "upload_pending" THEN "provider_processing" ELSE @]
          /\ file[c] \in Held
          /\ UNCHANGED <<entitled, faults, file>>
      BY <1>9, <2>1 DEF Acknowledge
    <2> QED
      BY <2>1, <2>2 DEF Unharmed, TypeOK, Held
  <1>10. CASE UploadUnknown
    <2>1. PICK c \in Chunks : c = Earliest(todo) /\ op[c] = "upload_intent"
      BY <1>10, EarliestIsIn DEF UploadUnknown, Cycle, Uploads, TypeOK
    <2>2. /\ op' = [op EXCEPT ![c] = "upload_reconciling"]
          /\ UNCHANGED <<entitled, faults, file, item>>
      BY <1>0, <1>10, <2>1 DEF UploadUnknown
    <2> QED
      BY <2>1, <2>2 DEF Unharmed, TypeOK
  <1>11. CASE PollPass
    <2>1. PICK s \in {"running", "provider_processing"} : \E out :
             /\ Pass(PendingOf(cur), out) /\ op' = OpAfter(PendingOf(cur), out)
             /\ SetStatus(cur, s)
             /\ \A c \in PendingOf(cur) : out[c] \in PassOutcomes(c)
             /\ item' = [c \in Chunks |->
                  IF (\A d \in PendingOf(cur) : After(d, out[d]) \notin Pending)
                     /\ c \in ChunksOf(cur)
                     /\ ItemAfter(PendingOf(cur), out)[c] = "provider_processing"
                  THEN "failed" ELSE ItemAfter(PendingOf(cur), out)[c]]
      BY <1>11, PollPassIsPass
    <2>2. PICK out :
             /\ Pass(PendingOf(cur), out) /\ op' = OpAfter(PendingOf(cur), out)
             /\ \A c \in PendingOf(cur) : out[c] \in PassOutcomes(c)
             /\ item' = [c \in Chunks |->
                  IF (\A d \in PendingOf(cur) : After(d, out[d]) \notin Pending)
                     /\ c \in ChunksOf(cur)
                     /\ ItemAfter(PendingOf(cur), out)[c] = "provider_processing"
                  THEN "failed" ELSE ItemAfter(PendingOf(cur), out)[c]]
      BY <2>1
    <2>3. PendingOf(cur) \in SUBSET Chunks
      BY DEF PendingOf, ChunksOf
    <2>4. faults = 0 /\ \A c \in PendingOf(cur) : out[c] \notin Faulty
      BY <2>2, <2>3, Faultless DEF Pass
    <2>5. entitled'
      BY <1>11, <2>4 DEF PollPass, Unharmed
    <2>6. ASSUME NEW c \in Chunks
          PROVE  item'[c] # "failed" /\ (item'[c] = "provider_processing" =>
                                           op'[c] = "provider_processing")
      <3> DEFINE n == ItemAfter(PendingOf(cur), out)[c]
      <3>1. n = IF c \notin PendingOf(cur) THEN item[c]
                ELSE IF out[c] \in Adopted /\ item[c] = "upload_pending"
                     THEN "provider_processing"
                ELSE IF out[c] \in Reported /\ item[c] = "provider_processing"
                     THEN "succeeded"
                ELSE item[c]
        BY DEF ItemAfter
      <3>2. op'[c] = IF c \in PendingOf(cur) THEN After(c, out[c]) ELSE op[c]
        BY <2>2 DEF OpAfter
      <3>3. item[c] = "provider_processing" => op[c] = "provider_processing"
        BY <2>4 DEF Unharmed
      <3>4. ASSUME c \in PendingOf(cur), op[c] = "provider_processing"
            PROVE  out[c] \in Reported \/ After(c, out[c]) = "provider_processing"
        <4>1. out[c] \in {"wait", "reported"}
          BY <2>2, <2>4, <3>4 DEF PassOutcomes, PollOutcomes, Faulty, Conflict, Kept,
             Uploading, Unharmed
        <4> QED
          BY <3>4, <4>1 DEF Reported, After, Adopted, Absent, Missed, Conflict, Kept,
             Untouched
      <3>5. ASSUME n = "provider_processing"
            PROVE  /\ op'[c] = "provider_processing"
                   /\ c \in ChunksOf(cur) => c \in PendingOf(cur)
        <4>1. CASE c \notin PendingOf(cur)
          BY <3>1, <3>2, <3>3, <3>5, <4>1 DEF PendingOf, Pending
        <4>2. CASE c \in PendingOf(cur) /\ out[c] \in Adopted
          BY <3>2, <4>2 DEF After
        <4>3. CASE c \in PendingOf(cur) /\ out[c] \notin Adopted
          BY <3>1, <3>2, <3>3, <3>4, <3>5, <4>3
        <4> QED
          BY <4>1, <4>2, <4>3
      <3>6. item[c] # "failed"
        BY <2>4 DEF Unharmed
      <3>7. n # "failed"
        BY <3>1, <3>6
      <3>8. item'[c] = IF (\A d \in PendingOf(cur) : After(d, out[d]) \notin Pending)
                          /\ c \in ChunksOf(cur) /\ n = "provider_processing"
                       THEN "failed" ELSE n
        BY <2>2
      <3>9. "provider_processing" \in Pending
        BY DEF Pending
      <3> HIDE DEF n
      <3> QED
        BY <3>2, <3>5, <3>7, <3>8, <3>9
    <2> QED
      BY <2>2, <2>3, <2>4, <2>5, <2>6, PassUnharmed
  <1>12. CASE PollFails
    <2>1. PICK D \in SUBSET PendingOf(cur) : \E out : Pass(D, out) /\ PollFailure(D, out)
      BY <1>12, PollFailsIsPass
    <2>2. PICK out : Pass(D, out) /\ PollFailure(D, out)
      BY <2>1
    <2>3. D \in SUBSET Chunks
      BY DEF PendingOf, ChunksOf
    <2>4. faults = 0 /\ \A c \in D : out[c] \notin Faulty
      BY <2>2, <2>3, Faultless DEF Pass
    <2>5. PICK c \in D : out[c] \in FatalOutcomes(c)
      BY <2>2 DEF PollFailure
    <2>6. out[c] = "vanished" /\ op[c] = "provider_processing" /\ file[c] = "deleted"
      BY <2>4, <2>5 DEF FatalOutcomes, Faulty
    <2> QED
      BY <2>3, <2>4, <2>6 DEF Unharmed
  <1>13. CASE Finalize
    <2>1. UNCHANGED <<op, file, entitled, faults>>
      BY <1>13 DEF Finalize, opVars
    <2>2. ASSUME NEW c \in Chunks
          PROVE  item'[c] = item[c]
      BY <1>13, <2>1 DEF Finalize, PendingOf, Pending, Unharmed
    <2> QED
      BY <2>1, <2>2 DEF Unharmed
  <1>14. ASSUME NEW c \in Chunks, Provider(c)
         PROVE  Goal
    <2>1. UNCHANGED <<op, item, entitled>>
      BY <1>14 DEF Provider, opVars
    <2>2. faults = 0 /\ \A d \in Chunks : file'[d] = "deleted" => file[d] = "deleted"
      BY <1>0, <1>14 DEF Provider, Take, Lose, Advance, Become, TypeOK
    <2> QED
      BY <2>1, <2>2 DEF Unharmed
  <1>15. ASSUME NEW c \in Chunks, Age(c)
         PROVE  Goal
    <2>1. UNCHANGED <<op, item, entitled, faults>>
      BY <1>15 DEF Age
    <2>2. \A d \in Chunks : file'[d] = "deleted" => file[d] = "deleted"
      BY <1>15 DEF Age, Become, TypeOK
    <2> QED
      BY <2>1, <2>2 DEF Unharmed
  <1>16. ASSUME NEW c \in Chunks, BackoffElapses(c)
         PROVE  Goal
    BY <1>1, <1>16 DEF BackoffElapses
  <1> QED
    BY <1>2, <1>3, <1>4, <1>5, <1>6, <1>7, <1>8, <1>9, <1>10, <1>11, <1>12, <1>13, <1>14,
       <1>15, <1>16 DEF Next, Api, Worker, Surroundings

\* Before the first fault no identifier fails, whatever is canceled and however
\* the passes fall.
THEOREM NothingLostWithoutFault == Spec => []NoLossWithoutFault
  <1>1. Init => Unharmed
    BY DEF Init, Unharmed
  <1>2. UploadInv /\ Unharmed /\ [Next]_vars => Unharmed'
    <2>1. CASE UNCHANGED vars
      BY <2>1 DEF vars, opVars, Unharmed
    <2> QED
      BY <2>1, UnharmedStep
  <1>3. UploadInv /\ Unharmed => NoLossWithoutFault
    BY VerificationUploadsAssumption DEF UploadInv, TypeOK, Unharmed, NoLossWithoutFault
  <1> QED
    BY <1>1, <1>2, <1>3, UploadInvariance, PTL DEF Spec
=============================================================================

---------------------- MODULE AttentionSelectionProofs ----------------------
(***************************************************************************)
(* Proofs about AttentionSelection, for any rows, slots, ranks, deadlines, *)
(* windows and bounds.  The invariant has three layers, each proved on top *)
(* of the one before: what the worker holds at each point of its cycle     *)
(* (Base), how often a row may still be handed over (Handing), and what    *)
(* the selection pass decided about the rows that wait for their turn      *)
(* (Choice).                                                               *)
(***************************************************************************)
EXTENDS AttentionSelection, FiniteSetTheorems, WellFoundedInduction, TLAPS

\* Where the worker is in its cycle determines what it holds.
Shape ==
  /\ pc \in {"idle", "lock"} => left = {}
  /\ pc # "lock" => seeds = {}
  /\ now <= clock
  /\ stale \subseteq left

\* A row that is being submitted is not in the batch and nobody's to select.
Submission ==
  camp # 0 => /\ camp \notin seeds \cup left
              /\ status[camp] \in {"submitting", "dropped"}

\* The provider has the row in hand, and its answer is not committed.
Uncommitted(r) == r = cur /\ pc = "answered"

\* Rows that a worker may still hand to a provider.
Open(r) ==
  /\ status[r] \in Contenders \cup {"absent"} \/ r \in seeds \cup left \/ r = camp
  /\ ~Uncommitted(r)

\* Such rows have been handed over only by processes that have died since; the
\* restart that will end a stopped loop is already counted.
Handing ==
  \A r \in Rows :
    /\ handed[r] <= crashes + 1
    /\ Open(r) => handed[r] <= crashes
    /\ ~LoopFree => handed[r] <= crashes
    /\ ~LoopFree /\ r = cur /\ pc = "call" => handed[r] + 1 <= crashes

\* Rows that wait for their turn are due, and so is every reservation.
Due ==
  /\ \A r \in Rows : status[r] = "campaign_selected" =>
       /\ r \in Campaign
       /\ due[r] <= clock
       /\ pc = "lock" => due[r] <= now
  /\ \A r \in seeds : status[r] # "absent"
  /\ \A r \in seeds \cup left : due[r] <= now
  /\ \A r \in stale : status[r] # "campaign_selected"

\* The row of slot s that the cycle still has to dispatch.
Elect(r) == r \in left /\ r \notin losers /\ expires[r] > now

\* There is one at most, it comes behind the losers, and a reservation of its
\* slot is its own or one that is still to be revoked.
Election ==
  /\ \A p, q \in Rows : Elect(p) /\ Elect(q) /\ SlotOf[p] = SlotOf[q] => p = q
  /\ \A p, q \in Rows :
       Elect(p) /\ q \in left /\ q \in losers /\ SlotOf[p] = SlotOf[q] => p \in winners
  /\ \A p, q \in Rows :
       /\ Elect(p) /\ SlotOf[p] = SlotOf[q]
       /\ status[q] = "campaign_selected" /\ expires[q] > now
       => q \in left

\* What the cycle is about to dispatch is the most urgent row of its slot.
Contender(q, s) ==
  \/ Claims(q, s, now)
  \/ SlotOf[q] = s /\ q \in losers /\ status[q] \in Contenders

Urgency ==
  \A p, q \in Rows :
    Elect(p) /\ Contender(q, SlotOf[p]) => ~MoreUrgent(q, p)

Choice == Due /\ Election /\ Urgency

-----------------------------------------------------------------------------
(* The first layer: types, and what the worker holds. *)

RowTypes ==
  /\ status \in [Rows -> Status]
  /\ due \in [Rows -> 0 .. Never]
  /\ expires \in [Rows -> 0 .. Never]
  /\ handed \in [Rows -> Nat]

BatchTypes ==
  /\ pc \in {"idle", "lock", "turn", "call", "answered"}
  /\ now \in 0 .. MaxTime
  /\ seeds \subseteq Rows /\ left \subseteq Rows
  /\ losers \subseteq Rows /\ winners \subseteq Rows
  /\ next \in [Slots -> 0 .. Never]
  /\ held = {SlotOf[r] : r \in left} /\ slot \in held \cup {0}
  /\ stale \subseteq Rows /\ locked \subseteq Rows
  /\ cur \in left \cup {0} /\ (cur # 0 <=> pc \in {"call", "answered"})

OtherTypes ==
  /\ withdrawn \subseteq Campaign
  /\ paused \in {"no", "hold", "skip"}
  /\ camp \in Campaign \cup {0}
  /\ blocked \in Slots \cup {0}
  /\ clock \in 0 .. MaxTime
  /\ crashes \in Nat /\ calls \in Nat

Base == RowTypes /\ BatchTypes /\ OtherTypes /\ Shape /\ Submission

\* The parts are the type invariant.
LEMMA TypeParts == TypeOK <=> RowTypes /\ BatchTypes /\ OtherTypes
  BY DEF TypeOK, RowTypes, BatchTypes, OtherTypes

\* Rows are positive numbers, so 0 is none of them; slots likewise.
LEMMA Numbers == /\ Rows \subseteq Nat /\ 0 \notin Rows
                 /\ Slots \subseteq Nat /\ 0 \notin Slots
                 /\ Campaign \subseteq Rows
                 /\ MaxTime \in Nat /\ Never \in Nat /\ MaxTime < Never
                 /\ 0 \in 0 .. Never /\ 0 \in 0 .. MaxTime
                 /\ \A t \in 0 .. MaxTime : t \in 0 .. Never
                 /\ \A r \in Rows : SlotOf[r] \in Slots
  BY AttentionAssumption DEF AttentionAssumption, Never

\* Times stay within the clock's bound, or are Never.
LEMMA Times == /\ \A t \in Nat : Cap(t) \in 0 .. Never
               /\ \A t, u \in 0 .. Never : Sooner(t, u) \in 0 .. Never
  BY Numbers DEF Cap, Sooner

\* Giving the batch up leaves nothing held.
LEMMA RestKeeps ==
  ASSUME Rest
  PROVE  BatchTypes' /\ left' = {} /\ seeds' = {} /\ stale' = {} /\ now' = 0
  BY Numbers DEF Rest, BatchTypes, Resting

\* A row's commit takes it out of the batch, and nothing else.
LEMMA HandledKeeps ==
  ASSUME BatchTypes, Shape, NEW r \in left, pc # "idle", pc # "lock", Handled(r)
  PROVE  /\ BatchTypes'
         /\ left' = left \ {r} /\ seeds' = {} /\ stale' = {} /\ cur' = 0
         /\ pc' \in {"idle", "turn"}
         /\ now' \in {0, now}
         /\ left' # {} => now' = now /\ losers' = losers /\ winners' = winners
         /\ pc' = IF left' = {} THEN "idle" ELSE "turn"
<1>1. CASE left = {r}
  <2>1. Rest
    BY <1>1 DEF Handled
  <2> QED
    BY <1>1, <2>1, RestKeeps DEF Rest
<1>2. CASE left # {r}
  <2> DEFINE last == \A q \in left \ {r} : SlotOf[q] # SlotOf[r]
  <2>1. /\ left' = left \ {r}
        /\ held' = IF last THEN held \ {SlotOf[r]} ELSE held
        /\ slot' = IF last THEN 0 ELSE SlotOf[r]
        /\ pc' = "turn"
        /\ stale' = {} /\ locked' = {} /\ cur' = 0
        /\ UNCHANGED <<now, seeds, losers, winners, next>>
    BY <1>2 DEF Handled
  <2>2. seeds = {} /\ left' # {}
    BY <1>2, <2>1 DEF Shape
  <2>3. held' = {SlotOf[q] : q \in left \ {r}}
    BY <2>1 DEF BatchTypes
  <2>4. slot' \in held' \cup {0}
    BY <2>1, <2>3
  <2> HIDE DEF last
  <2> QED
    BY <2>1, <2>2, <2>3, <2>4 DEF BatchTypes
<1> QED
  BY <1>1, <1>2

\* While the worker's batch stays as it is, only rows and the rest can break.
LEMMA BatchStays ==
  ASSUME Base, UNCHANGED workerVars, RowTypes', OtherTypes', Submission',
         clock' \in {clock, clock + 1}
  PROVE  Base'
<1>1. BatchTypes'
  BY DEF Base, BatchTypes, workerVars, batchVars
<1>2. now' <= clock'
  BY Numbers DEF Base, BatchTypes, OtherTypes, Shape, workerVars, batchVars
<1>3. Shape'
  BY <1>2 DEF Base, Shape, workerVars, batchVars
<1> QED
  BY <1>1, <1>3 DEF Base

\* A step of the turn: one row is written and taken out of the batch.
LEMMA TurnKeeps ==
  ASSUME Base, NEW r \in left, pc \in {"turn", "call", "answered"}, Handled(r),
         UNCHANGED Aside, RowTypes',
         \A q \in Rows \ {r} : status'[q] = status[q]
  PROVE  Base'
<1>1. /\ BatchTypes' /\ left' = left \ {r} /\ seeds' = {} /\ stale' = {}
      /\ now' \in {0, now} /\ (left' = {} => pc' = "idle")
      /\ pc' \in {"idle", "turn"} /\ (left' # {} => pc' = "turn")
  BY HandledKeeps DEF Base
<1>2. OtherTypes'
  BY DEF Base, OtherTypes, Aside, boundVars
<1>3. now' <= clock'
  BY <1>1, Numbers DEF Base, BatchTypes, OtherTypes, Shape, Aside, boundVars
<1>4. Shape'
  BY <1>1, <1>3 DEF Shape
<1>5. Submission'
  BY <1>1, Numbers DEF Base, Submission, OtherTypes, Aside
<1> QED
  BY <1>1, <1>2, <1>4, <1>5 DEF Base

\* The worker's own writes to the row it handles.
LEMMA TurnTypes ==
  ASSUME Base, NEW r \in left
  PROVE  /\ r \in Rows /\ SlotOf[r] \in Slots
         /\ Sooner(next[SlotOf[r]], expires[r]) \in 0 .. Never
  BY Numbers, Times DEF Base, BatchTypes, RowTypes

\* One lemma for each action follows.
LEMMA InitBase == Init => Base
<1> SUFFICES ASSUME Init PROVE Base
  OBVIOUS
<1>1. RowTypes /\ OtherTypes
  BY Numbers DEF Init, RowTypes, OtherTypes, Status
<1>2. BatchTypes
  BY Numbers DEF Init, BatchTypes, Resting
<1>3. Shape /\ Submission
  BY Numbers DEF Init, Shape, Submission
<1> QED
  BY <1>1, <1>2, <1>3 DEF Base

LEMMA SeedBase == Base /\ Seed => Base'
<1> SUFFICES ASSUME Base, Seed PROVE Base'
  OBVIOUS
<1>1. PICK S \in SUBSET {r \in Rows : Seedable(r)} : seeds' = S
  BY DEF Seed
<1>2. /\ pc = "idle" /\ pc' = "lock" /\ now' = clock
      /\ UNCHANGED <<rowVars, withdrawn, paused, left, losers, winners, next, held,
                     slot, stale, locked, cur, camp, blocked, boundVars>>
  BY DEF Seed
<1>3. RowTypes' /\ OtherTypes'
  BY <1>2 DEF Base, RowTypes, OtherTypes, rowVars, boundVars
<1>4. BatchTypes'
  BY <1>1, <1>2 DEF Base, BatchTypes, OtherTypes, boundVars
<1>5. Shape'
  BY <1>2, Numbers DEF Base, Shape, OtherTypes, boundVars
<1>6. Submission'
  BY <1>1, <1>2 DEF Base, Submission, Seedable, rowVars, Parked
<1> QED
  BY <1>3, <1>4, <1>5, <1>6 DEF Base

LEMMA ArbitrateBase == Base /\ Arbitrate => Base'
<1> SUFFICES ASSUME Base, Arbitrate PROVE Base'
  OBVIOUS
<1> DEFINE S == {SlotOf[r] : r \in seeds}
           contest == UNION {DueContest(s, now) : s \in S}
           D(s) == Live(RowsOf(s) \cap (seeds \cup contest), now)
           ranked == {s \in S : Contested(D(s))}
           W == UNION {Dispatch(s, D(s), now) : s \in ranked}
<1>1. /\ pc = "lock" /\ pc' = "turn" /\ seeds' = {}
      /\ held' = S
      /\ left' = seeds \cup contest
      /\ locked' = contest \cup UNION {Future(s, now) : s \in ranked}
      /\ stale' = seeds \ contest
      /\ winners' = W
      /\ losers' = (UNION {D(s) : s \in ranked}) \ W
      /\ next' \in [Slots -> 0 .. Never]
      /\ UNCHANGED <<rowVars, withdrawn, paused, now, slot, cur, camp, blocked,
                     boundVars>>
  BY DEF Arbitrate
<1>2. \A r \in contest : r \in Rows /\ SlotOf[r] \in S /\ Contending(r)
  BY DEF DueContest, RowsOf
<1>3. \A s : D(s) \subseteq Rows /\ Future(s, now) \subseteq Rows
  BY DEF Live, RowsOf, Future
<1>4. W \subseteq Rows
  BY <1>3 DEF Dispatch
<1>5. held' = {SlotOf[r] : r \in left'}
  BY <1>1, <1>2
<1>6. slot = 0 /\ cur = 0
  BY <1>1, Numbers DEF Base, BatchTypes, Shape
<1> HIDE DEF S, contest, D, ranked, W
<1>7. BatchTypes'
  BY <1>1, <1>2, <1>3, <1>4, <1>5, <1>6 DEF Base, BatchTypes
<1>8. RowTypes' /\ OtherTypes' /\ Shape'
  BY <1>1 DEF Base, RowTypes, OtherTypes, Shape, rowVars, boundVars
<1>9. Submission'
  BY <1>1, <1>2 DEF Base, Submission, rowVars, Contending, Contenders, Parked
<1> QED
  BY <1>7, <1>8, <1>9 DEF Base

LEMMA SelectionFailsBase == Base /\ SelectionFails => Base'
<1> SUFFICES ASSUME Base, SelectionFails PROVE Base'
  OBVIOUS
<1>1. BatchTypes' /\ left' = {} /\ seeds' = {} /\ stale' = {} /\ now' = 0 /\ pc' = "idle"
  BY RestKeeps DEF SelectionFails, Rest
<1>2. RowTypes' /\ OtherTypes' /\ UNCHANGED <<status, camp>> /\ clock' = clock
  BY DEF SelectionFails, Operates, Base, RowTypes, OtherTypes, rowVars
<1> QED
  BY <1>1, <1>2 DEF Base, Shape, Submission, OtherTypes


\* What a step of the turn has in common: it writes the row it handles, and
\* takes that row out of the batch.
TurnStep(r) ==
  \/ HoldLoser(r) \/ ExpireRow(r) \/ ReserveSlot(r)
  \/ Reschedule(r) \/ Drop(r) \/ PauseGate(r) \/ Answer(r)

Written(r) ==
  /\ r \in left /\ pc \in {"turn", "call", "answered"}
  /\ Handled(r)
  /\ UNCHANGED Aside /\ expires' = expires /\ handed' = handed
  /\ RowTypes'
  /\ \A q \in Rows \ {r} : status'[q] = status[q] /\ due'[q] = due[q]

LEMMA TurnWrites ==
  ASSUME Base, NEW r \in Rows, TurnStep(r)
  PROVE  Written(r)
<1> USE DEF Written
<1>1. CASE HoldLoser(r)
  <2>1. r \in left /\ pc = "turn" /\ Handled(r) /\ UNCHANGED <<expires, handed, Aside>>
    BY <1>1 DEF HoldLoser, Turn
  <2>2. Sooner(next[SlotOf[r]], expires[r]) \in 0 .. Never
    BY <2>1, TurnTypes
  <2> QED
    BY <1>1, <2>1, <2>2 DEF HoldLoser, Base, RowTypes, Status, Contenders, Parked
<1>2. CASE ExpireRow(r)
  BY <1>2 DEF ExpireRow, Turn, Base, RowTypes, Status, Ended
<1>3. CASE ReserveSlot(r)
  BY <1>3 DEF ReserveSlot, Wins, Turn, Base, RowTypes, Status, Contenders
<1>4. CASE Reschedule(r)
  <2>1. PICK t \in (now + 1) .. MaxTime : due' = [due EXCEPT ![r] = t]
    BY <1>4 DEF Reschedule
  <2>2. t \in 0 .. Never
    BY Numbers DEF Base, BatchTypes
  <2> QED
    BY <1>4, <2>1, <2>2 DEF Reschedule, Sends, Wins, Turn, Base, RowTypes
<1>5. CASE Drop(r)
  BY <1>5 DEF Drop, Sends, Wins, Turn, Base, RowTypes, Status, Ended
<1>6. CASE PauseGate(r)
  <2>1. clock \in 0 .. Never
    BY Numbers DEF Base, OtherTypes
  <2> QED
    BY <1>6, <2>1 DEF PauseGate, Sends, Wins, Turn, Base, RowTypes, Status, Ended, Contenders, Parked
<1>7. CASE Answer(r)
  <2>1. r \in left
    BY <1>7, Numbers DEF Answer, Base, BatchTypes
  <2> QED
    BY <1>7, <2>1 DEF Answer, Base, RowTypes, Status, Ended
<1> QED
  BY <1>1, <1>2, <1>3, <1>4, <1>5, <1>6, <1>7 DEF TurnStep

LEMMA TurnBase == Base /\ (\E r \in Rows : TurnStep(r)) => Base'
<1> SUFFICES ASSUME Base, NEW r \in Rows, TurnStep(r) PROVE Base'
  OBVIOUS
<1>1. Written(r)
  BY TurnWrites
<1> QED
  BY <1>1, TurnKeeps DEF Written

LEMMA CallBase == ASSUME Base, NEW r \in Rows, CallProvider(r) PROVE Base'
<1>1. /\ r \in left /\ pc = "turn" /\ pc' = "call" /\ cur' = r /\ slot' = SlotOf[r]
      /\ UNCHANGED <<rowVars, now, seeds, left, losers, winners, next, held, stale,
                     locked, Aside>>
  BY DEF CallProvider, Sends, Wins, Turn
<1>2. BatchTypes'
  BY <1>1, Numbers DEF Base, BatchTypes
<1>3. RowTypes' /\ OtherTypes' /\ Shape' /\ Submission'
  BY <1>1 DEF Base, RowTypes, OtherTypes, Shape, Submission, rowVars, Aside, boundVars
<1> QED
  BY <1>2, <1>3 DEF Base

LEMMA ProviderTakesBase == Base /\ ProviderTakes => Base'
<1> SUFFICES ASSUME Base, ProviderTakes PROVE Base'
  OBVIOUS
<1>1. cur \in Rows
  BY DEF ProviderTakes, Base, BatchTypes
<1>2. BatchTypes'
  BY DEF ProviderTakes, Base, BatchTypes, batchVars
<1>3. RowTypes'
  BY <1>1 DEF ProviderTakes, Base, RowTypes
<1>4. OtherTypes' /\ Shape' /\ Submission'
  BY DEF ProviderTakes, Base, OtherTypes, Shape, Submission, batchVars, Aside, boundVars
<1> QED
  BY <1>2, <1>3, <1>4 DEF Base

\* What the worker's surroundings may do to the rows while it is at work: the
\* batch stays as it is.
Around ==
  \/ \E r \in Rows : \/ CampaignWork(r) \/ CampaignCancels(r) \/ Park(r)
                     \/ CancelRun(r) \/ LoopBlocks(r)
  \/ Pause("hold") \/ Pause("skip") \/ Resume \/ Tick

LEMMA Postpones ==
  ASSUME Base, NEW r \in Rows, Postponed(r)
  PROVE  /\ status' = [status EXCEPT ![r] = "candidate"]
         /\ \E t \in 0 .. Never : t > clock /\ due' = [due EXCEPT ![r] = t]
<1>1. PICK t \in (clock + 1) .. Never : due' = [due EXCEPT ![r] = t]
  BY DEF Postponed
<1>2. t \in 0 .. Never /\ t > clock
  BY Numbers DEF Base, OtherTypes
<1> QED
  BY <1>1, <1>2 DEF Postponed

LEMMA AroundRows ==
  ASSUME Base, Around
  PROVE  /\ RowTypes' /\ OtherTypes' /\ UNCHANGED workerVars
         /\ clock' \in {clock, clock + 1}
<1> USE DEF Base, RowTypes, OtherTypes, Status, Contenders, Parked, Ended, Aside, boundVars
<1>1. ASSUME NEW r \in Rows, CampaignWork(r)
      PROVE  RowTypes' /\ OtherTypes' /\ UNCHANGED workerVars /\ clock' = clock
  <2>1. CASE CampaignExpires(r)
    BY <2>1 DEF CampaignExpires
  <2>2. CASE CampaignSubmits(r)
    BY <2>2 DEF CampaignSubmits, Reserved, Claimed, CampaignTask
  <2>3. CASE CampaignReturns(r)
    <3>1. PICK t \in 0 .. Never : t > clock /\ due' = [due EXCEPT ![r] = t]
      BY <2>3, Postpones DEF CampaignReturns
    <3>2. status' = [status EXCEPT ![r] = "candidate"]
      BY <2>3 DEF CampaignReturns, Postponed
    <3> QED
      BY <2>3, <3>1, <3>2 DEF CampaignReturns
  <2>4. CASE CampaignDrops(r)
    BY <2>4 DEF CampaignDrops
  <2>5. CASE CampaignEnds(r)
    <3>1. /\ UNCHANGED <<expires, workerVars, withdrawn, paused, blocked, boundVars>>
          /\ camp' = 0
      BY <2>5 DEF CampaignEnds
    <3>2. handed' \in [Rows -> Nat]
      BY <2>5 DEF CampaignEnds
    <3>3. status' \in [Rows -> Status] /\ due' \in [Rows -> 0 .. Never]
      <4>1. CASE status' = [status EXCEPT ![r] = "sent"] /\ UNCHANGED due
        BY <4>1
      <4>2. CASE status' = [status EXCEPT ![r] = "dropped"] /\ UNCHANGED due
        BY <4>2
      <4>3. CASE Postponed(r)
        BY <4>3, Postpones
      <4> QED
        BY <2>5, <4>1, <4>2, <4>3 DEF CampaignEnds
    <3> QED
      BY <3>1, <3>2, <3>3
  <2>6. CASE CampaignRecovers(r)
    BY <2>6 DEF CampaignRecovers
  <2> QED
    BY <1>1, <2>1, <2>2, <2>3, <2>4, <2>5, <2>6 DEF CampaignWork
<1>2. ASSUME NEW r \in Rows, CampaignCancels(r)
      PROVE  RowTypes' /\ OtherTypes' /\ UNCHANGED workerVars /\ clock' = clock
  BY <1>2 DEF CampaignCancels
<1>3. ASSUME NEW r \in Rows, Park(r)
      PROVE  RowTypes' /\ OtherTypes' /\ UNCHANGED workerVars /\ clock' = clock
  <2>1. UNCHANGED <<handed, workerVars, Aside>>
    BY <1>3 DEF Park
  <2>2. status' \in [Rows -> Status]
    BY <1>3 DEF Park
  <2>3. due' \in [Rows -> 0 .. Never]
    <3>1. \A t \in (clock + 1) .. MaxTime : t \in 0 .. Never
      BY Numbers
    <3>2. clock \in 0 .. Never
      BY Numbers
    <3>3. CASE due' = [due EXCEPT ![r] = clock]
      BY <3>2, <3>3
    <3>4. CASE \E t \in (clock + 1) .. MaxTime : due' = [due EXCEPT ![r] = t]
      BY <3>1, <3>4
    <3> QED
      BY <1>3, <3>3, <3>4 DEF Park
  <2>4. expires' \in [Rows -> 0 .. Never]
    <3>1. Ttl[r] \in Nat /\ clock + Ttl[r] \in Nat
      BY AttentionAssumption DEF AttentionAssumption
    <3>2. Cap(clock + Ttl[r]) \in 0 .. Never
      BY <3>1, Times
    <3>3. Never \in 0 .. Never
      BY Numbers
    <3> QED
      BY <1>3, <3>2, <3>3 DEF Park
  <2> QED
    BY <2>1, <2>2, <2>3, <2>4
<1>4. ASSUME NEW r \in Rows, CancelRun(r)
      PROVE  RowTypes' /\ OtherTypes' /\ UNCHANGED workerVars /\ clock' = clock
  BY <1>4 DEF CancelRun, Operates
<1>5. ASSUME NEW r \in Rows, LoopBlocks(r)
      PROVE  RowTypes' /\ OtherTypes' /\ UNCHANGED workerVars /\ clock' = clock
  BY <1>5, Numbers DEF LoopBlocks, rowVars
<1>6. ASSUME NEW mode \in {"hold", "skip"}, Pause(mode)
      PROVE  RowTypes' /\ OtherTypes' /\ UNCHANGED workerVars /\ clock' = clock
  BY <1>6 DEF Pause, Operates
<1>7. CASE Resume
  BY <1>7 DEF Resume, rowVars
<1>8. CASE Tick
  BY <1>8, Numbers DEF Tick, rowVars
<1> QED
  BY <1>1, <1>2, <1>3, <1>4, <1>5, <1>6, <1>7, <1>8 DEF Around

LEMMA AroundBase == Base /\ Around => Base'
<1> SUFFICES ASSUME Base, Around PROVE Base'
  OBVIOUS
<1>1. RowTypes' /\ OtherTypes' /\ UNCHANGED workerVars /\ clock' \in {clock, clock + 1}
  BY AroundRows
<1>2. seeds' = seeds /\ left' = left
  BY <1>1 DEF workerVars, batchVars
<1> USE DEF Submission, Aside, boundVars
<1>3. CASE camp' = 0
  BY <1>1, <1>3, BatchStays
<1>4. CASE camp' # 0
  <2> SUFFICES Submission'
    BY <1>1, BatchStays
  <2>1. ASSUME NEW r \in Rows, CampaignWork(r) PROVE Submission'
    <3>1. CampaignSubmits(r)
      BY <1>4, <2>1 DEF CampaignWork, CampaignExpires, CampaignReturns, CampaignDrops,
           CampaignEnds, CampaignRecovers, Reserved, Claimed, CampaignTask
    <3>2. camp' = r /\ status'[r] = "submitting"
      BY <3>1 DEF CampaignSubmits, Base, RowTypes
    <3>3. r \notin seeds /\ r \notin left
      BY <3>1 DEF CampaignSubmits, Reserved, Claimed, CampaignTask, Yielding, Base,
           Shape, BatchTypes
    <3> QED
      BY <1>2, <3>2, <3>3
  <2>2. ASSUME NEW r \in Rows, CampaignCancels(r) PROVE Submission'
    BY <1>4, <2>2 DEF CampaignCancels, CampaignTask
  <2>3. ASSUME NEW r \in Rows, Park(r) PROVE Submission'
    <3>1. camp' = camp /\ camp # r
      BY <1>4, <2>3 DEF Park, Base
    <3>2. status'[camp] = status[camp]
      BY <1>4, <2>3, <3>1, Numbers DEF Park, Base, RowTypes, OtherTypes
    <3> QED
      BY <1>2, <1>4, <3>1, <3>2 DEF Base
  <2>4. ASSUME NEW r \in Rows, CancelRun(r) PROVE Submission'
    <3>1. camp' = camp /\ camp \in Rows
      BY <1>4, <2>4, Numbers DEF CancelRun, Base, OtherTypes
    <3>2. status'[camp] \in {status[camp], "dropped"}
      BY <2>4, <3>1 DEF CancelRun, Base, RowTypes
    <3> QED
      BY <1>2, <1>4, <3>1, <3>2 DEF Base
  <2>5. ASSUME NEW mode \in {"hold", "skip"}, Pause(mode) PROVE Submission'
    <3>1. camp' = camp /\ camp \in Rows
      BY <1>4, <2>5, Numbers DEF Pause, Base, OtherTypes
    <3>2. status'[camp] \in {status[camp], "dropped"}
      BY <2>5, <3>1 DEF Pause
    <3> QED
      BY <1>2, <1>4, <3>1, <3>2 DEF Base
  <2>6. CASE Resume \/ Tick \/ \E r \in Rows : LoopBlocks(r)
    BY <1>2, <2>6 DEF Resume, Tick, LoopBlocks, rowVars, Base
  <2> QED
    BY <2>1, <2>2, <2>3, <2>4, <2>5, <2>6 DEF Around
<1> QED
  BY <1>3, <1>4

LEMMA ReplacedBase == Base /\ (Restart \/ Watchdog) => Base'
<1> SUFFICES ASSUME Base, Restart \/ Watchdog PROVE Base'
  OBVIOUS
<1>1. Rest /\ camp' = 0 /\ blocked' = 0 /\ crashes' \in Nat
      /\ UNCHANGED <<rowVars, withdrawn, paused, clock, calls>>
  BY DEF Restart, Watchdog, Replaced, Base, OtherTypes
<1>2. BatchTypes' /\ left' = {} /\ seeds' = {} /\ stale' = {} /\ now' = 0 /\ pc' = "idle"
  BY <1>1, RestKeeps DEF Rest
<1> QED
  BY <1>1, <1>2, Numbers DEF Base, RowTypes, OtherTypes, Shape, Submission, rowVars

\* Every step is one of these.
LEMMA Steps ==
  ASSUME [Next]_vars
  PROVE  \/ Seed \/ Arbitrate \/ SelectionFails
         \/ \E r \in Rows : TurnStep(r)
         \/ \E r \in Rows : CallProvider(r)
         \/ ProviderTakes \/ Around \/ Restart \/ Watchdog
         \/ UNCHANGED vars
  BY DEF Next, ScheduledSend, Surroundings, TurnStep, Around

LEMMA BaseInvariance == Base /\ [Next]_vars => Base'
<1> SUFFICES ASSUME Base, [Next]_vars PROVE Base'
  OBVIOUS
<1>1. CASE UNCHANGED vars
  BY <1>1 DEF Base, RowTypes, BatchTypes, OtherTypes, Shape, Submission, vars, rowVars,
       workerVars, batchVars, boundVars
<1> QED
  BY <1>1, Steps, SeedBase, ArbitrateBase, SelectionFailsBase, TurnBase, CallBase,
     ProviderTakesBase, AroundBase, ReplacedBase

\* The worker's variables have their types, every row it still has to handle
\* has its slot locked, and no slot stays locked behind its last row.
THEOREM AttentionTypes == Spec => []TypeOK
<1>1. Base => TypeOK
  BY TypeParts DEF Base
<1> QED
  BY <1>1, InitBase, BaseInvariance, PTL DEF Spec

-----------------------------------------------------------------------------
(* The second layer: how often a row is handed over. *)

\* A step that hands nothing over and opens no row keeps the count.
LEMMA HandingStays ==
  ASSUME Base, Handing, UNCHANGED <<handed, crashes, blocked>>,
         \A r \in Rows : Open(r)' => Open(r),
         LoopFree \/ UNCHANGED <<pc, cur>>
  PROVE  Handing'
  BY DEF Handing, LoopFree

LEMMA CurInBatch ==
  ASSUME Base
  PROVE  /\ pc \in {"call", "answered"} => cur \in left /\ cur \in Rows /\ cur # camp
         /\ pc \in {"call", "answered"} => SlotOf[cur] \in held
         /\ \A r \in left : r \in Rows /\ SlotOf[r] \in held /\ r # camp
         /\ camp # 0 => camp \in Rows /\ camp \notin left /\ camp \notin seeds
  BY Numbers DEF Base, BatchTypes, OtherTypes, Shape, Submission

LEMMA CycleHanding ==
  ASSUME Base, Handing,
         Seed \/ Arbitrate \/ SelectionFails \/ \E r \in Rows : CallProvider(r)
  PROVE  Handing'
<1>1. pc \notin {"call", "answered"} /\ pc' # "answered" /\ LoopFree
  BY DEF Seed, Arbitrate, SelectionFails, Rest, CallProvider, Sends, Wins, Turn
<1>2. UNCHANGED <<status, handed, crashes, blocked, camp>>
  BY DEF Seed, Arbitrate, SelectionFails, CallProvider, rowVars, boundVars, Aside
<1>3. ASSUME NEW q \in Rows, q \in (seeds \cup left)'
      PROVE  q \in seeds \cup left \/ status[q] \in Contenders
  <2>1. CASE Seed
    BY <1>3, <2>1 DEF Seed, Seedable, Contenders
  <2>2. CASE Arbitrate
    BY <1>3, <2>2 DEF Arbitrate, DueContest, Contending
  <2>3. CASE SelectionFails
    BY <1>3, <2>3 DEF SelectionFails, Rest
  <2>4. CASE \E r \in Rows : CallProvider(r)
    BY <1>3, <2>4 DEF CallProvider
  <2> QED
    BY <2>1, <2>2, <2>3, <2>4
<1>4. \A q \in Rows : Open(q)' => Open(q)
  BY <1>1, <1>2, <1>3 DEF Open, Uncommitted
<1> QED
  BY <1>1, <1>2, <1>4, HandingStays

LEMMA TurnHanding ==
  ASSUME Base, Handing, NEW r \in Rows, TurnStep(r)
  PROVE  Handing'
<1>1. Written(r) /\ LoopFree
  BY TurnWrites DEF TurnStep, HoldLoser, ExpireRow, ReserveSlot, Reschedule, Drop,
     PauseGate, Sends, Wins, Turn, Answer
<1>2. /\ left' = left \ {r} /\ seeds' = {} /\ pc' \in {"idle", "turn"}
      /\ UNCHANGED <<handed, crashes, blocked, camp>>
  BY <1>1, HandledKeeps DEF Written, Base, Aside, boundVars
<1>3. r # camp /\ r \in left
  BY <1>1, CurInBatch DEF Written
<1>4. ASSUME NEW q \in Rows, Open(q)' PROVE Open(q)
  <2>1. CASE Answer(r)
    <3>1. status'[r] \in {"sent", "dropped"} /\ cur = r
      BY <2>1 DEF Answer, Base, RowTypes
    <3>2. q # r
      BY <1>2, <1>3, <1>4, <3>1 DEF Open, Contenders, Parked
    <3> QED
      BY <1>1, <1>2, <1>4, <3>1, <3>2 DEF Open, Written, Uncommitted
  <2>2. CASE ~Answer(r)
    <3>1. pc = "turn"
      BY <2>2 DEF TurnStep, HoldLoser, ExpireRow, ReserveSlot, Reschedule, Drop,
         PauseGate, Sends, Wins, Turn
    <3> QED
      BY <1>1, <1>2, <1>3, <1>4, <3>1 DEF Open, Written, Uncommitted
  <2> QED
    BY <2>1, <2>2
<1> QED
  BY <1>1, <1>2, <1>4, HandingStays

LEMMA ProviderHanding == ASSUME Base, Handing, ProviderTakes PROVE Handing'
<1>1. /\ pc = "call" /\ pc' = "answered" /\ cur' = cur
      /\ handed' = [handed EXCEPT ![cur] = @ + 1]
      /\ UNCHANGED <<status, seeds, left, camp, blocked, crashes>>
  BY DEF ProviderTakes, batchVars, Aside, boundVars
<1>2. cur \in Rows /\ Open(cur)
  BY <1>1, CurInBatch DEF Open, Uncommitted
<1>3. handed \in [Rows -> Nat] /\ crashes \in Nat
  BY DEF Base, RowTypes, OtherTypes
<1>4. ASSUME NEW q \in Rows, q # cur
      PROVE  handed'[q] = handed[q] /\ (Open(q)' => Open(q))
  BY <1>1, <1>4 DEF Open, Uncommitted
<1>5. ~Open(cur)' /\ handed'[cur] = handed[cur] + 1
  BY <1>1, <1>2, <1>3 DEF Open, Uncommitted
<1>6. handed[cur] <= crashes /\ (~LoopFree => handed[cur] + 1 <= crashes)
  BY <1>1, <1>2 DEF Handing
<1>7. LoopFree' = LoopFree
  BY <1>1 DEF LoopFree
<1> QED
  BY <1>1, <1>2, <1>3, <1>4, <1>5, <1>6, <1>7 DEF Handing

LEMMA ReplacedHanding == ASSUME Base, Handing, Restart \/ Watchdog PROVE Handing'
<1>1. UNCHANGED <<handed>> /\ LoopFree' /\ handed \in [Rows -> Nat] /\ crashes \in Nat
  BY DEF Restart, Watchdog, Replaced, rowVars, LoopFree, Base, RowTypes, OtherTypes
<1>2. \A r \in Rows : handed[r] <= crashes'
  <2>1. CASE Restart
    BY <2>1 DEF Restart, Handing
  <2>2. CASE Watchdog
    BY <2>2 DEF Watchdog, Handing
  <2> QED
    BY <2>1, <2>2
<1>3. crashes' \in Nat
  BY DEF Restart, Watchdog, Base, OtherTypes
<1> QED
  BY <1>1, <1>2, <1>3 DEF Handing

LEMMA AroundHanding == ASSUME Base, Handing, Around PROVE Handing'
<1>1. UNCHANGED workerVars
  BY AroundRows
<1>2. /\ seeds' = seeds /\ left' = left /\ pc' = pc /\ cur' = cur
      /\ status \in [Rows -> Status] /\ handed \in [Rows -> Nat] /\ crashes \in Nat
  BY <1>1 DEF workerVars, batchVars, Base, RowTypes, OtherTypes
<1> USE DEF Aside, boundVars, rowVars, Contenders, Parked, Ended
<1>3. ASSUME NEW r \in Rows, CampaignWork(r) PROVE Handing'
  <2>0. LoopFree /\ UNCHANGED <<blocked, crashes>>
    BY <1>3 DEF CampaignWork, CampaignExpires, CampaignSubmits, CampaignReturns,
       CampaignDrops, CampaignEnds, CampaignRecovers, Reserved, Claimed, CampaignTask,
       Yielding
  <2>1. CASE CampaignEnds(r)
    <3>1. camp = r /\ camp' = 0 /\ r \notin seeds \cup left /\ ~Uncommitted(r)
      BY <2>1, CurInBatch, Numbers DEF CampaignEnds, Uncommitted
    <3>2. Open(r)
      BY <3>1 DEF Open
    <3>3. \A q \in Rows \ {r} : handed'[q] = handed[q] /\ status'[q] = status[q]
      BY <1>2, <2>1 DEF CampaignEnds, Postponed
    <3>4. handed'[r] \in {handed[r], handed[r] + 1}
      BY <1>2, <2>1 DEF CampaignEnds
    <3>5. Open(r)' => handed'[r] = handed[r]
      <4>1. CASE status'[r] \in {"sent", "dropped"}
        BY <1>2, <3>1, <4>1, Numbers DEF Open
      <4>2. CASE UNCHANGED handed
        BY <4>2
      <4> QED
        BY <1>2, <2>1, <4>1, <4>2 DEF CampaignEnds
    <3>6. \A q \in Rows \ {r} : Open(q)' => Open(q)
      BY <1>2, <3>1, <3>3, Numbers DEF Open, Uncommitted
    <3>7. LoopFree'
      BY <2>0 DEF LoopFree
    <3> QED
      BY <1>2, <2>0, <3>2, <3>3, <3>4, <3>5, <3>6, <3>7 DEF Handing
  <2>2. CASE ~CampaignEnds(r)
    <3>1. UNCHANGED handed /\ camp = 0 /\ camp' \in {0, r}
      BY <1>3, <2>2 DEF CampaignWork, CampaignExpires, CampaignSubmits, CampaignReturns,
         CampaignDrops, CampaignRecovers, Reserved, Claimed, CampaignTask
    <3>2. \A q \in Rows \ {r} : status'[q] = status[q]
      BY <1>2, <1>3, <2>2 DEF CampaignWork, CampaignExpires, CampaignSubmits,
         CampaignReturns, CampaignDrops, CampaignRecovers, Postponed
    <3>3. CASE CampaignSubmits(r) \/ CampaignReturns(r)
      <4>1. status[r] \in Contenders /\ SlotOf[r] \notin held
        BY <3>3 DEF CampaignSubmits, CampaignReturns, Reserved, Claimed
      <4>2. ~Uncommitted(r)
        BY <4>1, CurInBatch DEF Uncommitted
      <4>3. Open(r)
        BY <4>1, <4>2 DEF Open
      <4>4. \A q \in Rows : Open(q)' => Open(q)
        BY <1>2, <3>1, <3>2, <4>3, Numbers DEF Open, Uncommitted
      <4> QED
        BY <1>2, <2>0, <3>1, <4>4, HandingStays
    <3>4. CASE CampaignExpires(r) \/ CampaignDrops(r) \/ CampaignRecovers(r)
      <4>1. status'[r] \in Ended /\ camp' = camp
        BY <1>2, <3>4 DEF CampaignExpires, CampaignDrops, CampaignRecovers
      <4>2. \A q \in Rows : Open(q)' => Open(q)
        BY <1>2, <3>2, <4>1 DEF Open, Uncommitted
      <4> QED
        BY <1>2, <2>0, <3>1, <4>2, HandingStays
    <3> QED
      BY <1>3, <2>2, <3>3, <3>4 DEF CampaignWork
  <2> QED
    BY <2>1, <2>2
<1>4. ASSUME NEW r \in Rows, Park(r) PROVE Handing'
  <2>1. /\ status[r] = "absent" /\ SlotOf[r] \notin held
        /\ \A q \in Rows \ {r} : status'[q] = status[q]
        /\ UNCHANGED <<handed, camp, blocked, crashes>>
    BY <1>2, <1>4 DEF Park, SlotOpen
  <2>2. Open(r)
    BY <2>1, CurInBatch DEF Open, Uncommitted
  <2>3. \A q \in Rows : Open(q)' => Open(q)
    BY <1>2, <2>1, <2>2 DEF Open, Uncommitted
  <2> QED
    BY <1>2, <2>1, <2>3, HandingStays
<1>5. ASSUME NEW r \in Rows, CampaignCancels(r) \/ CancelRun(r) PROVE Handing'
  <2>1. /\ \A q \in Rows : status'[q] \in {status[q], "dropped"}
        /\ UNCHANGED <<handed, camp, blocked, crashes>>
    BY <1>2, <1>5 DEF CampaignCancels, CancelRun, Operates
  <2>2. \A q \in Rows : Open(q)' => Open(q)
    BY <1>2, <2>1 DEF Open, Uncommitted
  <2> QED
    BY <1>2, <2>1, <2>2, HandingStays
<1>6. ASSUME NEW mode \in {"hold", "skip"}, Pause(mode) PROVE Handing'
  <2>1. /\ \A q \in Rows : status'[q] \in {status[q], "dropped"}
        /\ UNCHANGED <<handed, camp, blocked, crashes>>
    BY <1>6 DEF Pause, Operates
  <2>2. \A q \in Rows : Open(q)' => Open(q)
    BY <1>2, <2>1 DEF Open, Uncommitted
  <2> QED
    BY <1>2, <2>1, <2>2, HandingStays
<1>7. CASE Resume \/ Tick
  <2>1. UNCHANGED <<status, handed, camp, blocked, crashes>>
    BY <1>7 DEF Resume, Tick
  <2> QED
    BY <1>2, <2>1, HandingStays DEF Open, Uncommitted
<1>8. ASSUME NEW r \in Rows, LoopBlocks(r) PROVE Handing'
  <2>1. /\ crashes' = crashes + 1 /\ LoopFree
        /\ UNCHANGED <<status, handed, camp>>
    BY <1>8 DEF LoopBlocks, Yielding
  <2>2. \A q \in Rows : Open(q)' = Open(q)
    BY <1>2, <2>1 DEF Open, Uncommitted
  <2>3. pc = "call" => cur \in Rows /\ Open(cur)
    BY CurInBatch DEF Open, Uncommitted
  <2> QED
    BY <1>2, <2>1, <2>2, <2>3 DEF Handing
<1> QED
  BY <1>3, <1>4, <1>5, <1>6, <1>7, <1>8 DEF Around

LEMMA InitHanding == Init => Handing
  BY Numbers DEF Init, Handing, LoopFree

LEMMA HandingInvariance == Base /\ Handing /\ [Next]_vars => Handing'
<1> SUFFICES ASSUME Base, Handing, [Next]_vars PROVE Handing'
  OBVIOUS
<1>1. CASE UNCHANGED vars
  BY <1>1, HandingStays DEF vars, rowVars, workerVars, batchVars, boundVars, Open, Uncommitted
<1> QED
  BY <1>1, Steps, CycleHanding, TurnHanding, ProviderHanding, AroundHanding,
     ReplacedHanding

\* A message is handed to a provider once, and once more at most for every
\* restart: neither worker repeats one by itself.
THEOREM AttentionHandedOnce == Spec => []HandedOnce
<1>1. Base /\ Handing => HandedOnce
  BY DEF Base, RowTypes, OtherTypes, Handing, HandedOnce
<1> QED
  BY <1>1, InitBase, BaseInvariance, InitHanding, HandingInvariance, PTL DEF Spec

-----------------------------------------------------------------------------
(* The third layer: what the selection pass decided. *)

\* _sort_key is a strict total order that respects urgency.
LEMMA Ranks ==
  ASSUME RowTypes, NEW p \in Rows, NEW q \in Rows, NEW r \in Rows
  PROVE  /\ Outranks(p, q) => ~Outranks(q, p)
         /\ p # q => Outranks(p, q) \/ Outranks(q, p)
         /\ Outranks(p, q) /\ Outranks(q, r) => Outranks(p, r)
         /\ Outranks(p, q) => ~MoreUrgent(q, p)
         /\ ~MoreUrgent(p, p)
<1>1. /\ \A x \in Rows : Tier[x] \in Nat /\ expires[x] \in Nat /\ due[x] \in Nat
      /\ Rows \subseteq Nat
  BY AttentionAssumption, Numbers DEF AttentionAssumption, RowTypes
<1> QED
  BY <1>1 DEF Outranks, MoreUrgent

\* Of rows that contest a slot one comes first.
LEMMA Foremost ==
  ASSUME RowTypes, NEW X \in SUBSET Rows, X # {}
  PROVE  First(X) # {}
<1> DEFINE Above(p) == {q \in X : Outranks(q, p)}
           T == {Above(p) : p \in X}
           R == StrictSubsetOrdering(X)
<1>1. IsFiniteSet(X)
  BY FS_Subset, AttentionAssumption DEF AttentionAssumption
<1>2. \A p \in X : Above(p) \in FiniteSubsetsOf(X)
  <2> SUFFICES ASSUME NEW p \in X PROVE Above(p) \in FiniteSubsetsOf(X)
    OBVIOUS
  <2>1. Above(p) \in SUBSET X
    OBVIOUS
  <2>2. IsFiniteSet(Above(p))
    BY <1>1, <2>1, FS_Subset
  <2> HIDE DEF Above
  <2> QED
    BY <2>1, <2>2 DEF FiniteSubsetsOf
<1>3. PICK x \in T : \A y \in T : <<y, x>> \notin R
  <2>1. T \subseteq FiniteSubsetsOf(X) /\ T # {}
    BY <1>2
  <2>2. IsWellFoundedOn(R, FiniteSubsetsOf(X))
    BY FS_StrictSubsetOrderingWellFounded
  <2> HIDE DEF T, R
  <2> QED
    BY <2>1, <2>2, WFMin
<1>4. PICK p \in X : x = Above(p)
  BY <1>3
<1>5. ASSUME NEW q \in X, Outranks(q, p) PROVE FALSE
  <2>1. Above(q) \in SUBSET Above(p)
    BY <1>5, Ranks
  <2>2. q \in Above(p) /\ q \notin Above(q)
    BY <1>5, Ranks
  <2>3. Above(q) \in SUBSET X /\ Above(p) \in SUBSET X
    OBVIOUS
  <2>4. Above(q) \in T
    OBVIOUS
  <2> HIDE DEF Above, T
  <2>5. <<Above(q), Above(p)>> \in R
    BY <1>2, <2>1, <2>2, <2>3 DEF StrictSubsetOrdering, FiniteSubsetsOf
  <2> QED
    BY <1>3, <1>4, <2>4, <2>5
<1>6. p \in First(X)
  BY <1>5, Ranks DEF First
<1> QED
  BY <1>6

\* The slots of a cycle, the rows that contest one of them, and the slots whose
\* rows are ranked.
CycleSlots == {SlotOf[r] : r \in seeds}
Contest == UNION {DueContest(s, now) : s \in CycleSlots}
Lane(s) == Live(RowsOf(s) \cap (seeds \cup Contest), now)
Ranked == {s \in CycleSlots : Contested(Lane(s))}

\* What the pass writes down, slot by slot.
LEMMA Verdict ==
  ASSUME Base, Arbitrate
  PROVE  /\ pc = "lock" /\ pc' = "turn" /\ seeds' = {}
         /\ left' = seeds \cup Contest /\ stale' = seeds \ Contest
         /\ \A r \in left' : r \in Rows /\ SlotOf[r] \in CycleSlots
         /\ \A r \in Rows :
              r \in winners' <=> /\ SlotOf[r] \in Ranked
                                 /\ r \in Dispatch(SlotOf[r], Lane(SlotOf[r]), now)
         /\ \A r \in Rows :
              r \in losers' <=> /\ SlotOf[r] \in Ranked
                                /\ r \in Lane(SlotOf[r]) /\ r \notin winners'
         /\ UNCHANGED <<status, due, expires, now, clock>>
<1>1. /\ pc = "lock" /\ pc' = "turn" /\ seeds' = {}
      /\ left' = seeds \cup Contest /\ stale' = seeds \ Contest
      /\ winners' = UNION {Dispatch(s, Lane(s), now) : s \in Ranked}
      /\ losers' = (UNION {Lane(s) : s \in Ranked}) \ winners'
      /\ UNCHANGED <<status, due, expires, now, clock>>
  BY DEF Arbitrate, CycleSlots, Contest, Lane, Ranked, rowVars, boundVars
<1>2. \A s, r : r \in Lane(s) => r \in Rows /\ SlotOf[r] = s
  BY DEF Lane, Live, RowsOf
<1>3. \A s, r : r \in Dispatch(s, Lane(s), now) => r \in Lane(s)
  BY DEF Dispatch
<1>4. \A r \in Contest : r \in Rows /\ SlotOf[r] \in CycleSlots
  BY DEF Contest, DueContest, RowsOf
<1>5. \A r \in seeds : r \in Rows /\ SlotOf[r] \in CycleSlots
  BY DEF CycleSlots, Base, BatchTypes
<1> HIDE DEF Contest, CycleSlots, Lane, Ranked
<1>6. ASSUME NEW r \in Rows
      PROVE  r \in winners' <=> /\ SlotOf[r] \in Ranked
                                /\ r \in Dispatch(SlotOf[r], Lane(SlotOf[r]), now)
  BY <1>1, <1>2, <1>3
<1>7. ASSUME NEW r \in Rows
      PROVE  r \in losers' <=> /\ SlotOf[r] \in Ranked
                               /\ r \in Lane(SlotOf[r]) /\ r \notin winners'
  BY <1>1, <1>2
<1>8. \A r \in left' : r \in Rows /\ SlotOf[r] \in CycleSlots
  BY <1>1, <1>4, <1>5
<1> QED
  BY <1>1, <1>6, <1>7, <1>8

\* Whoever lays claim to a slot of the cycle takes part in its ranking.
LEMMA Claimants ==
  ASSUME Base, NEW q \in Rows, NEW s \in CycleSlots, Claims(q, s, now)
  PROVE  q \in Lane(s) \cup Reservations(s, now)
<1>1. now \in Nat /\ Collision \in Nat /\ due[q] \in Nat /\ expires[q] \in Nat
  BY AttentionAssumption, Numbers DEF AttentionAssumption, Base, BatchTypes, RowTypes
<1>2. CASE due[q] <= now /\ (status[q] = "delayed" => q \notin Campaign)
  <2>1. q \in DueContest(s, now)
    BY <1>2 DEF Claims, DueContest, RowsOf, Contending
  <2> QED
    BY <2>1 DEF Contest, Lane, Live, DueContest, Claims
<1>3. CASE /\ FuturePlan /\ q \in Reserving
           /\ now < due[q] /\ due[q] <= now + Collision /\ due[q] < expires[q]
  BY <1>1, <1>3 DEF Claims, Reservations, Future, RowsOf
<1> QED
  BY <1>2, <1>3 DEF Claims

\* A row that is left to dispatch has won its slot, or has it to itself.
LEMMA Elected ==
  ASSUME Base, Arbitrate, NEW p \in Rows, Elect(p)'
  PROVE  /\ p \in Lane(SlotOf[p]) /\ SlotOf[p] \in CycleSlots
         /\ \/ SlotOf[p] \in Ranked /\ p \in winners'
               /\ p \in First(Lane(SlotOf[p]) \cup Reservations(SlotOf[p], now))
            \/ /\ SlotOf[p] \notin Ranked
               /\ Lane(SlotOf[p]) = {p} /\ Reservations(SlotOf[p], now) = {}
<1> DEFINE s == SlotOf[p]
<1>1. p \in left' /\ p \notin losers' /\ expires[p] > now
  BY Verdict DEF Elect
<1>2. p \in seeds \cup Contest /\ s \in CycleSlots
  BY <1>1, Verdict
<1>3. p \in Lane(s)
  BY <1>1, <1>2 DEF Lane, Live, RowsOf
<1>4. CASE s \in Ranked
  BY <1>1, <1>2, <1>3, <1>4, Verdict DEF Dispatch
<1>5. CASE s \notin Ranked
  <2>1. ~FuturePlan /\ ~(Cardinality(Lane(s)) > 1)
    BY <1>2, <1>3, <1>5 DEF Ranked, Contested
  <2>2. Lane(s) \in SUBSET Rows
    BY DEF Lane, Live, RowsOf
  <2>3. IsFiniteSet(Lane(s)) /\ Cardinality(Lane(s)) \in Nat
    BY <2>2, FS_Subset, FS_CardinalityType, AttentionAssumption DEF AttentionAssumption
  <2>4. Cardinality(Lane(s)) # 0
    BY <1>3, <2>3, FS_EmptySet
  <2>5. Cardinality(Lane(s)) = 1
    BY <2>1, <2>3, <2>4
  <2>6. Lane(s) = {p}
    BY <1>3, <2>3, <2>5, FS_Singleton
  <2>7. Reservations(s, now) = {}
    BY <2>1 DEF Reservations, Future
  <2> QED
    BY <1>2, <1>3, <1>5, <2>6, <2>7
<1> QED
  BY <1>4, <1>5

LEMMA ArbitrateChoice == ASSUME Base, Choice, Arbitrate PROVE Choice'
<1>0. /\ pc = "lock" /\ pc' = "turn" /\ seeds' = {}
      /\ left' = seeds \cup Contest /\ stale' = seeds \ Contest
      /\ UNCHANGED <<status, due, expires, now, clock>>
  BY Verdict
<1>1. ASSUME NEW q \in Rows, status[q] = "campaign_selected", SlotOf[q] \in CycleSlots
      PROVE  q \in Contest
  <2>1. due[q] <= now
    BY <1>0, <1>1 DEF Choice, Due
  <2>2. q \in DueContest(SlotOf[q], now)
    BY <1>1, <2>1 DEF DueContest, RowsOf, Contending, Contenders
  <2> QED
    BY <1>1, <2>2 DEF Contest
<1>2. Due'
  <2>1. \A r \in Contest : due[r] <= now
    BY DEF Contest, DueContest
  <2>2. \A r \in stale' : status[r] # "campaign_selected"
    BY <1>0, <1>1 DEF CycleSlots, Base, BatchTypes
  <2> QED
    BY <1>0, <2>1, <2>2 DEF Choice, Due
<1>3. ASSUME NEW p \in Rows, NEW q \in Rows, Elect(p)', Elect(q)', SlotOf[p] = SlotOf[q]
      PROVE  p = q
  <2> DEFINE X == Lane(SlotOf[p]) \cup Reservations(SlotOf[p], now)
  <2>1. CASE SlotOf[p] \in Ranked
    <3>1. p \in First(X) /\ q \in First(X) /\ p \in X /\ q \in X
      BY <1>3, <2>1, Elected
    <3> HIDE DEF X
    <3> QED
      BY <3>1, Ranks DEF First, Base
  <2>2. CASE SlotOf[p] \notin Ranked
    BY <1>3, <2>2, Elected
  <2> QED
    BY <2>1, <2>2
<1>4. ASSUME NEW p \in Rows, NEW q \in Rows, Elect(p)', q \in losers',
             SlotOf[p] = SlotOf[q]
      PROVE  p \in winners'
  BY <1>4, Elected, Verdict
<1>5. ASSUME NEW p \in Rows, NEW q \in Rows, Elect(p)', SlotOf[p] = SlotOf[q],
             status[q] = "campaign_selected"
      PROVE  q \in left'
  BY <1>0, <1>1, <1>5, Elected
<1>6. Election'
  BY <1>0, <1>3, <1>4, <1>5 DEF Election
<1>7. ASSUME NEW p \in Rows, NEW q \in Rows, Elect(p)', Contender(q, SlotOf[p])'
      PROVE  ~MoreUrgent(q, p)
  <2> DEFINE X == Lane(SlotOf[p]) \cup Reservations(SlotOf[p], now)
  <2>1. q \in X
    <3>1. CASE Claims(q, SlotOf[p], now)
      BY <1>7, <3>1, Elected, Claimants
    <3>2. CASE SlotOf[q] = SlotOf[p] /\ q \in losers'
      BY <3>2, Verdict
    <3> QED
      BY <1>0, <1>7, <3>1, <3>2 DEF Contender, Claims
  <2>2. CASE p \in First(X)
    BY <2>1, <2>2, Ranks DEF First, Base
  <2>3. CASE X = {p}
    BY <2>1, <2>3, Ranks DEF Base
  <2> QED
    BY <1>7, <2>2, <2>3, Elected
<1>8. Urgency'
  BY <1>0, <1>7 DEF Urgency, MoreUrgent
<1> QED
  BY <1>2, <1>6, <1>8 DEF Choice

\* A row is only put off for another one of its slot that is no less urgent and
\* can be sent: it is dispatched in this cycle, or it reserves the slot for a
\* time before its own deadline.
LEMMA PutOff ==
  ASSUME Base, Arbitrate, NEW r \in losers'
  PROVE  \E q \in Rows \ {r} :
           /\ ~MoreUrgent(r, q)
           /\ q \in winners' \/ (due[q] > now /\ due[q] < expires[q])
           /\ Claims(q, SlotOf[r], now) \/ q \in stale'
<1> DEFINE s == SlotOf[r]
           X == Lane(s) \cup Reservations(s, now)
<1>1. r \in Rows /\ s \in Ranked /\ r \in Lane(s) /\ r \notin winners'
  <2>1. r \in Rows
    BY ArbitrateBase DEF Base, BatchTypes
  <2> QED
    BY <2>1, Verdict
<1>2. X \in SUBSET Rows
  BY DEF Lane, Live, RowsOf, Reservations, Future
<1>3. PICK q \in X : q \in First(X)
  <2> HIDE DEF X
  <2>1. r \in X
    BY <1>1 DEF X
  <2> QED
    BY <1>2, <2>1, Foremost DEF Base, First
<1>4. q # r
  BY <1>1, <1>3, Verdict DEF Dispatch
<1>5. ~MoreUrgent(r, q)
  BY <1>1, <1>2, <1>3, <1>4, Ranks DEF First, Base
<1>6. CASE q \in Lane(s)
  <2>1. q \in winners'
    BY <1>1, <1>2, <1>3, <1>6, Verdict DEF Dispatch, Lane, Live, RowsOf
  <2>2. Claims(q, s, now) \/ q \in stale'
    <3>1. q \in Rows /\ SlotOf[q] = s /\ expires[q] > now /\ q \in seeds \cup Contest
      BY <1>6 DEF Lane, Live, RowsOf
    <3>2. CASE q \in Contest
      BY <3>1, <3>2 DEF Contest, DueContest, Contending, Claims
    <3> QED
      BY <3>1, <3>2, Verdict
  <2> QED
    BY <1>2, <1>4, <1>5, <2>1, <2>2
<1>7. CASE q \in Reservations(s, now)
  <2>1. /\ q \in Rows /\ SlotOf[q] = s /\ FuturePlan /\ q \in Reserving
        /\ status[q] \in Contenders /\ now < due[q] /\ due[q] <= now + Collision
        /\ expires[q] > due[q]
    BY <1>7 DEF Reservations, Future, RowsOf
  <2>2. now \in Nat /\ due[q] \in Nat /\ expires[q] \in Nat
    BY <2>1, Numbers DEF Base, BatchTypes, RowTypes
  <2>3. Claims(q, s, now) /\ due[q] > now /\ due[q] < expires[q]
    BY <2>1, <2>2 DEF Claims
  <2> QED
    BY <2>1, <2>3, <1>4, <1>5
<1> QED
  BY <1>3, <1>6, <1>7

\* What may happen to a row while the worker is elsewhere: nothing but its end
\* if its slot is locked or the worker is between its reads and its locks.
Same(q) == status'[q] = status[q] /\ due'[q] = due[q] /\ expires'[q] = expires[q]
Over(q) == status'[q] \in Ended /\ due'[q] = due[q] /\ expires'[q] = expires[q]
Moved(q) ==
  /\ SlotOf[q] \notin held
  /\ status'[q] \in {"submitting", "candidate", "delayed"}
  /\ \/ status[q] = "absent"
     \/ pc # "lock" /\ expires'[q] = expires[q]

LEMMA CampaignTouches ==
  ASSUME Base, NEW r \in Rows, CampaignWork(r), NEW q \in Rows
  PROVE  Same(q) \/ Over(q) \/ Moved(q)
<1> USE DEF Ended
<1>1. status \in [Rows -> Status] /\ due \in [Rows -> 0 .. Never]
  BY DEF Base, RowTypes
<1>2. UNCHANGED expires /\ pc # "lock"
  BY DEF CampaignWork, CampaignExpires, CampaignSubmits, CampaignReturns, CampaignDrops,
     CampaignEnds, CampaignRecovers, Reserved, Claimed, CampaignTask, Yielding
<1>3. CASE CampaignExpires(r) \/ CampaignDrops(r) \/ CampaignRecovers(r)
  BY <1>1, <1>3 DEF CampaignExpires, CampaignDrops, CampaignRecovers, Same, Over
<1>4. CASE CampaignSubmits(r)
  BY <1>1, <1>2, <1>4 DEF CampaignSubmits, Reserved, Claimed, Same, Moved
<1>5. CASE CampaignReturns(r)
  <2>1. SlotOf[r] \notin held /\ Postponed(r)
    BY <1>5 DEF CampaignReturns, Reserved, Claimed
  <2> QED
    BY <1>1, <1>2, <2>1 DEF Postponed, Same, Moved
<1>6. CASE CampaignEnds(r)
  <2>1. CASE status' \in {[status EXCEPT ![r] = "sent"], [status EXCEPT ![r] = "dropped"]}
             /\ UNCHANGED due
    BY <1>1, <1>2, <2>1 DEF Same, Over
  <2>2. CASE SlotOf[r] \notin held /\ Postponed(r)
    BY <1>1, <1>2, <2>2 DEF Postponed, Same, Moved
  <2> QED
    BY <1>6, <2>1, <2>2 DEF CampaignEnds
<1> QED
  BY <1>3, <1>4, <1>5, <1>6 DEF CampaignWork

LEMMA AroundTouches ==
  ASSUME Base, Around, NEW q \in Rows
  PROVE  Same(q) \/ Over(q) \/ Moved(q)
<1> USE DEF Ended
<1>1. status \in [Rows -> Status] /\ due \in [Rows -> 0 .. Never]
      /\ expires \in [Rows -> 0 .. Never]
  BY DEF Base, RowTypes
<1>2. ASSUME NEW r \in Rows, CampaignCancels(r) \/ CancelRun(r)
      PROVE  Same(q) \/ Over(q)
  BY <1>1, <1>2 DEF CampaignCancels, CancelRun, Same, Over
<1>3. ASSUME NEW r \in Rows, Park(r) PROVE Same(q) \/ Moved(q)
  <2>1. CASE q = r
    BY <1>1, <1>3, <2>1 DEF Park, SlotOpen, Moved
  <2>2. CASE q # r
    BY <1>1, <1>3, <2>2 DEF Park, Same
  <2> QED
    BY <2>1, <2>2
<1>4. ASSUME NEW mode \in {"hold", "skip"}, Pause(mode) PROVE Same(q) \/ Over(q)
  BY <1>1, <1>4 DEF Pause, Same, Over
<1>5. CASE Resume \/ Tick \/ \E r \in Rows : LoopBlocks(r)
  BY <1>5 DEF Resume, Tick, LoopBlocks, rowVars, Same
<1> QED
  BY <1>2, <1>3, <1>4, <1>5, CampaignTouches DEF Around

LEMMA AroundChoice == ASSUME Base, Choice, Around PROVE Choice'
<1>1. /\ seeds' = seeds /\ left' = left /\ pc' = pc /\ now' = now
      /\ losers' = losers /\ winners' = winners /\ stale' = stale
      /\ clock' \in {clock, clock + 1}
  BY AroundRows DEF workerVars, batchVars
<1>2. clock \in Nat /\ now \in Nat /\ \A r \in Rows : due[r] \in Nat
  BY Numbers DEF Base, OtherTypes, BatchTypes, RowTypes
<1>3. left \subseteq Rows /\ seeds \subseteq Rows /\ stale \subseteq left
      /\ \A r \in left : SlotOf[r] \in held
  BY DEF Base, BatchTypes, Shape
<1>4. ASSUME NEW q \in Rows, SlotOf[q] \in held PROVE Same(q) \/ Over(q)
  BY <1>4, AroundTouches DEF Moved
<1>5. ASSUME NEW q \in Rows, status'[q] = "campaign_selected" PROVE Same(q)
  BY <1>5, AroundTouches DEF Over, Moved, Ended
<1>6. ASSUME NEW q \in seeds PROVE Same(q) \/ Over(q)
  <2>1. pc = "lock" /\ q \in Rows /\ status[q] # "absent"
    BY <1>3 DEF Base, Shape, Choice, Due
  <2> QED
    BY <2>1, AroundTouches DEF Moved
<1>7. Due'
  <2>1. ASSUME NEW r \in Rows, status'[r] = "campaign_selected"
        PROVE  /\ r \in Campaign /\ due'[r] <= clock' /\ (pc' = "lock" => due'[r] <= now')
    <3>1. Same(r)
      BY <1>5, <2>1
    <3>2. r \in Campaign /\ due[r] <= clock /\ (pc = "lock" => due[r] <= now)
      BY <2>1, <3>1 DEF Same, Choice, Due
    <3> QED
      BY <1>1, <1>2, <3>1, <3>2 DEF Same
  <2>2. \A r \in seeds' : status'[r] # "absent"
    BY <1>1, <1>6 DEF Same, Over, Ended, Choice, Due
  <2>3. \A r \in (seeds \cup left)' : due'[r] <= now'
    BY <1>1, <1>3, <1>4, <1>6 DEF Same, Over, Choice, Due
  <2>4. \A r \in stale' : status'[r] # "campaign_selected"
    BY <1>1, <1>3, <1>4 DEF Same, Over, Ended, Choice, Due
  <2> QED
    BY <2>1, <2>2, <2>3, <2>4 DEF Due
<1>8. ASSUME NEW p \in Rows, Elect(p)' PROVE Elect(p) /\ SlotOf[p] \in held /\ expires'[p] = expires[p]
  BY <1>1, <1>3, <1>4, <1>8 DEF Elect, Same, Over
<1>9. Election'
  <2>1. ASSUME NEW p \in Rows, NEW q \in Rows, Elect(p)', SlotOf[p] = SlotOf[q],
               status'[q] = "campaign_selected", expires'[q] > now'
        PROVE  q \in left'
    BY <1>1, <1>5, <1>8, <2>1 DEF Same, Choice, Election
  <2> QED
    BY <1>1, <1>8, <2>1 DEF Choice, Election
<1>10. ASSUME NEW p \in Rows, NEW q \in Rows, Elect(p)', Contender(q, SlotOf[p])'
       PROVE  ~MoreUrgent(q, p)'
  <2>1. SlotOf[q] = SlotOf[p]
    BY <1>10 DEF Contender, Claims
  <2>2. Same(q)
    BY <1>4, <1>8, <1>10, <2>1 DEF Contender, Claims, Over, Ended, Contenders, Parked
  <2>3. Contender(q, SlotOf[p])
    BY <1>1, <1>10, <2>2 DEF Same, Contender, Claims
  <2>4. ~MoreUrgent(q, p)
    BY <1>8, <1>10, <2>3 DEF Choice, Urgency
  <2> QED
    BY <1>8, <1>10, <2>2, <2>4 DEF Same, MoreUrgent
<1>11. Urgency'
  BY <1>10 DEF Urgency
<1> QED
  BY <1>7, <1>9, <1>11 DEF Choice

LEMMA IdleChoice ==
  ASSUME Base, Choice, UNCHANGED <<rowVars, clock>>,
         left' = {}, stale' = {}, seeds' = {}, pc' = "idle"
  PROVE  Choice'
  BY DEF Choice, Due, Election, Urgency, Elect, rowVars

LEMMA SeedChoice == ASSUME Base, Choice, Seed PROVE Choice'
<1>1. PICK S \in SUBSET {r \in Rows : Seedable(r)} : seeds' = S
  BY DEF Seed
<1>2. /\ pc = "idle" /\ now' = clock /\ UNCHANGED <<rowVars, clock, left, stale>>
  BY DEF Seed, boundVars
<1>3. left = {} /\ stale = {}
  BY <1>2 DEF Base, Shape
<1>4. Due'
  BY <1>1, <1>2, <1>3 DEF Choice, Due, Seedable, Parked, rowVars
<1> QED
  BY <1>2, <1>3, <1>4 DEF Choice, Election, Urgency, Elect

\* The row of the turn leaves; the others keep their reasons.
LEMMA TurnChoice == ASSUME Base, Choice, NEW r \in Rows, TurnStep(r) PROVE Choice'
<1>1. Written(r)
  BY TurnWrites
<1>2. /\ r \in left /\ left' = left \ {r} /\ seeds' = {} /\ stale' = {}
      /\ pc' \in {"idle", "turn"} /\ clock' = clock /\ expires' = expires
      /\ left' # {} => now' = now /\ losers' = losers /\ winners' = winners
      /\ \A q \in Rows \ {r} : status'[q] = status[q] /\ due'[q] = due[q]
  BY <1>1, HandledKeeps DEF Written, Base, Aside, boundVars
<1>3. status'[r] = "campaign_selected" => ReserveSlot(r)
  <2>0. status \in [Rows -> Status]
    BY DEF Base, RowTypes
  <2>1. status[r] = "campaign_selected" => r \in Campaign /\ Known(r) = "campaign_selected"
    BY DEF Choice, Due, Known
  <2> QED
    BY <2>0, <2>1 DEF TurnStep, HoldLoser, ExpireRow, Reschedule, Drop, PauseGate, Answer,
       Sends
<1>4. ReserveSlot(r) => r \in Campaign /\ Elect(r) /\ UNCHANGED due
  BY <1>2 DEF ReserveSlot, Wins, Elect
<1>5. Due'
  <2>1. due[r] <= now /\ now <= clock /\ due[r] \in Nat /\ now \in Nat /\ clock \in Nat
    BY <1>2, Numbers DEF Choice, Due, Base, Shape, RowTypes, BatchTypes, OtherTypes
  <2>2. ASSUME NEW q \in Rows, status'[q] = "campaign_selected"
        PROVE  q \in Campaign /\ due'[q] <= clock'
    BY <1>2, <1>3, <1>4, <2>1, <2>2 DEF Choice, Due
  <2>3. \A q \in left' : due'[q] <= now'
    BY <1>2 DEF Choice, Due, Base, BatchTypes
  <2> QED
    BY <1>2, <2>2, <2>3 DEF Due
<1>6. ASSUME NEW p \in Rows, Elect(p)'
      PROVE  /\ Elect(p) /\ p # r /\ left' # {}
             /\ SlotOf[p] = SlotOf[r] => ~Elect(r)
  <2>1. p # r /\ Elect(p) /\ left' # {}
    BY <1>2, <1>6 DEF Elect
  <2> QED
    BY <2>1 DEF Choice, Election
<1>7. Election'
  <2>1. ASSUME NEW p \in Rows, NEW q \in Rows, Elect(p)', SlotOf[p] = SlotOf[q],
               status'[q] = "campaign_selected", expires'[q] > now'
        PROVE  q \in left'
    <3>1. q # r
      BY <1>3, <1>4, <1>6, <2>1
    <3> QED
      BY <1>2, <1>6, <2>1, <3>1 DEF Choice, Election
  <2>2. ASSUME NEW p \in Rows, NEW q \in Rows, Elect(p)', Elect(q)', SlotOf[p] = SlotOf[q]
        PROVE  p = q
    BY <1>6, <2>2 DEF Choice, Election
  <2>3. ASSUME NEW p \in Rows, NEW q \in Rows, Elect(p)', q \in left', q \in losers',
               SlotOf[p] = SlotOf[q]
        PROVE  p \in winners'
    BY <1>2, <1>6, <2>3 DEF Choice, Election
  <2> QED
    BY <2>1, <2>2, <2>3 DEF Election
<1>8. ASSUME NEW p \in Rows, NEW q \in Rows, Elect(p)', Contender(q, SlotOf[p])'
      PROVE  ~MoreUrgent(q, p)'
  <2>1. now' = now /\ losers' = losers /\ Elect(p) /\ p # r
    BY <1>2, <1>6, <1>8
  <2>2. Contender(q, SlotOf[p])
    <3>1. CASE q # r
      BY <1>2, <1>8, <2>1, <3>1 DEF Contender, Claims
    <3>2. CASE q = r
      <4>1. SlotOf[p] = SlotOf[r] /\ status'[r] \in Contenders
        BY <1>8, <3>2 DEF Contender, Claims
      <4>2. ~Elect(r)
        BY <1>6, <1>8, <4>1
      <4>3. HoldLoser(r)
        <5>1. ~ExpireRow(r)
          BY <4>1 DEF ExpireRow, Base, RowTypes, Contenders, Parked
        <5>2. ~Answer(r)
          BY <4>1 DEF Answer, Base, RowTypes, Contenders, Parked
        <5> QED
          BY <1>2, <4>2, <5>1, <5>2 DEF TurnStep, ReserveSlot, Reschedule, Drop, PauseGate,
             Sends, Wins, Elect
      <4>4. r \in losers /\ status[r] \in Contenders
        BY <4>1, <4>3 DEF HoldLoser, Known, Base, RowTypes, Contenders, Parked
      <4> QED
        BY <3>2, <4>1, <4>4 DEF Contender
    <3> QED
      BY <3>1, <3>2
  <2> QED
    BY <1>2, <1>8, <2>1, <2>2 DEF Choice, Urgency, MoreUrgent
<1>9. Urgency'
  BY <1>8 DEF Urgency
<1> QED
  BY <1>5, <1>7, <1>9 DEF Choice

LEMMA CallChoice ==
  ASSUME Base, Choice, ProviderTakes \/ \E r \in Rows : CallProvider(r)
  PROVE  Choice'
<1>1. /\ UNCHANGED <<status, due, expires, clock, now, seeds, left, losers, winners, stale>>
      /\ pc' # "lock"
  BY DEF ProviderTakes, CallProvider, batchVars, rowVars, Aside, boundVars
<1> QED
  BY <1>1 DEF Choice, Due, Election, Urgency, Elect, Contender, Claims, MoreUrgent

LEMMA InitChoice == Init => Choice
  BY DEF Init, Choice, Due, Election, Urgency, Elect

LEMMA ChoiceInvariance == Base /\ Choice /\ [Next]_vars => Choice'
<1> SUFFICES ASSUME Base, Choice, [Next]_vars PROVE Choice'
  OBVIOUS
<1>1. CASE UNCHANGED vars
  BY <1>1 DEF vars, rowVars, workerVars, batchVars, boundVars, Choice, Due, Election,
     Urgency, Elect, Contender, Claims, MoreUrgent
<1>2. CASE SelectionFails \/ Restart \/ Watchdog
  <2>1. Rest /\ UNCHANGED <<rowVars, clock>>
    BY <1>2 DEF SelectionFails, Restart, Watchdog, Replaced
  <2> QED
    BY <2>1, IdleChoice DEF Rest
<1> QED
  BY <1>1, <1>2, Steps, SeedChoice, ArbitrateChoice, TurnChoice, CallChoice, AroundChoice

-----------------------------------------------------------------------------
(* What follows from the three layers. *)

\* Only the turn of the row that is left to dispatch makes a reservation, and
\* by then every other one of its slot has been revoked.
LEMMA ReservationStep ==
  ASSUME Base, Choice, OneReservation, [Next]_vars
  PROVE  OneReservation'
<1>0. clock \in Nat /\ now \in Nat /\ \A r \in Rows : expires[r] \in Nat
  BY Numbers DEF Base, OtherTypes, BatchTypes, RowTypes
<1>1. SUFFICES ASSUME \A q \in Rows : status'[q] = "campaign_selected" =>
                        status[q] = "campaign_selected" /\ expires'[q] = expires[q],
                      clock' \in {clock, clock + 1}
               PROVE  OneReservation'
  <2>1. CASE UNCHANGED vars
    BY <1>1, <2>1 DEF vars, rowVars, boundVars
  <2>2. CASE \/ Seed \/ Arbitrate \/ SelectionFails \/ ProviderTakes
             \/ \E r \in Rows : CallProvider(r)
    BY <1>1, <2>2 DEF Seed, Arbitrate, SelectionFails, ProviderTakes, CallProvider,
       rowVars, boundVars, Aside
  <2>3. CASE Restart \/ Watchdog
    BY <1>1, <2>3 DEF Restart, Watchdog, Replaced, rowVars
  <2>4. CASE Around
    <3>1. clock' \in {clock, clock + 1}
      BY <2>4, AroundRows
    <3>2. ASSUME NEW q \in Rows, status'[q] = "campaign_selected" PROVE Same(q)
      BY <2>4, <3>2, AroundTouches DEF Over, Moved, Ended
    <3> QED
      BY <1>1, <3>1, <3>2 DEF Same
  <2>5. ASSUME NEW r \in Rows, TurnStep(r) PROVE OneReservation'
    <3>1. Written(r)
      BY <2>5, TurnWrites
    <3>2. clock' = clock /\ expires' = expires
          /\ \A q \in Rows \ {r} : status'[q] = status[q]
      BY <3>1 DEF Written, Aside, boundVars
    <3>3. CASE ~ReserveSlot(r)
      <4>1. status[r] = "campaign_selected" => r \in Campaign /\ Known(r) = "campaign_selected"
        BY DEF Choice, Due, Known
      <4>2. status'[r] # "campaign_selected"
        BY <2>5, <3>3, <4>1 DEF TurnStep, HoldLoser, ExpireRow, Reschedule, Drop,
           PauseGate, Answer, Sends, Base, RowTypes
      <4> QED
        BY <1>1, <3>2, <4>2
    <3>4. CASE ReserveSlot(r)
      <4>1. /\ Elect(r)
            /\ r \in winners => \A q \in left \ {r} : SlotOf[q] # SlotOf[r]
        BY <3>4 DEF ReserveSlot, Wins, Turn, Elect
      <4>2. ASSUME NEW q \in Rows, q # r, SlotOf[q] = SlotOf[r],
                   status[q] = "campaign_selected", expires[q] > clock
            PROVE  FALSE
        <5>1. expires[q] > now
          BY <1>0, <4>2 DEF Base, Shape
        <5>2. q \in left
          BY <4>1, <4>2, <5>1 DEF Choice, Election
        <5>3. q \in losers
          BY <4>1, <4>2, <5>1, <5>2 DEF Choice, Election, Elect
        <5>4. r \in winners
          BY <4>1, <4>2, <5>2, <5>3 DEF Choice, Election
        <5> QED
          BY <4>1, <4>2, <5>2, <5>4
      <4> QED
        BY <3>2, <4>2 DEF OneReservation
    <3> QED
      BY <3>3, <3>4
  <2> QED
    BY <2>1, <2>2, <2>3, <2>4, <2>5, Steps
<1>2. ASSUME NEW q \in Rows, status'[q] = "campaign_selected", expires'[q] > clock'
      PROVE  status[q] = "campaign_selected" /\ expires[q] > clock
  BY <1>0, <1>1, <1>2
<1> QED
  BY <1>2 DEF OneReservation

\* At most one campaign holds a live reservation of a slot.
THEOREM AttentionOneReservation == Spec => []OneReservation
<1>1. Init => OneReservation
  BY DEF Init, OneReservation
<1>2. Base /\ Choice /\ OneReservation /\ [Next]_vars => OneReservation'
  BY ReservationStep
<1> QED
  BY <1>1, <1>2, InitBase, BaseInvariance, InitChoice, ChoiceInvariance, PTL DEF Spec

\* What a step may do: the three action properties.
Dispatches ==
  \A r \in Rows, q \in Rows :
    /\ cur' = r /\ cur # r
    /\ \/ Claims(q, SlotOf[r], now)
       \/ SlotOf[q] = SlotOf[r] /\ q \in losers /\ status[q] \in Contenders
    => ~MoreUrgent(q, r)

Submits ==
  \A r \in Rows, q \in Rows :
    /\ camp' = r /\ camp # r
    /\ Claims(q, SlotOf[r], clock)
    => ~MoreUrgent(q, r)

Holds ==
  \A r \in losers' \ losers : \E q \in Rows \ {r} :
    /\ ~MoreUrgent(r, q)
    /\ q \in winners' \/ (due[q] > now /\ due[q] < expires[q])
    /\ Claims(q, SlotOf[r], now) \/ q \in stale'

LEMMA DispatchStep == ASSUME Base, Choice, [Next]_vars PROVE Dispatches
<1> SUFFICES ASSUME NEW r \in Rows, NEW q \in Rows, cur' = r, cur # r,
                    Contender(q, SlotOf[r])
             PROVE  ~MoreUrgent(q, r)
  BY DEF Dispatches, Contender
<1>1. r # 0
  BY Numbers
<1>2. CASE CallProvider(r)
  <2>1. Elect(r)
    BY <1>2 DEF CallProvider, Sends, Wins, Turn, Elect
  <2> QED
    BY <2>1 DEF Choice, Urgency
<1>3. ASSUME NEW p \in Rows, CallProvider(p) PROVE p = r
  BY <1>3 DEF CallProvider
<1>4. ASSUME NEW p \in Rows, TurnStep(p) PROVE FALSE
  <2>1. Written(p)
    BY <1>4, TurnWrites
  <2> QED
    BY <1>1, <2>1, HandledKeeps DEF Written, Base
<1>5. CASE Around
  BY <1>5, AroundRows DEF workerVars
<1>6. CASE Seed \/ Arbitrate \/ SelectionFails \/ ProviderTakes \/ Restart \/ Watchdog \/ UNCHANGED vars
  BY <1>1, <1>6 DEF Seed, Arbitrate, SelectionFails, ProviderTakes, Restart, Watchdog,
     Replaced, Rest, vars, workerVars
<1> QED
  BY <1>2, <1>3, <1>4, <1>5, <1>6, Steps

LEMMA SubmitStep == ASSUME Base, [Next]_vars PROVE Submits
<1> SUFFICES ASSUME NEW r \in Rows, NEW q \in Rows, camp' = r, camp # r,
                    Claims(q, SlotOf[r], clock)
             PROVE  ~MoreUrgent(q, r)
  BY DEF Submits
<1>1. r # 0
  BY Numbers
<1>2. CampaignSubmits(r)
  <2>1. CASE Around
    BY <1>1, <2>1 DEF Around, CampaignWork, CampaignExpires, CampaignSubmits,
       CampaignReturns, CampaignDrops, CampaignEnds, CampaignRecovers, CampaignCancels,
       Park, CancelRun, LoopBlocks, Pause, Resume, Tick, Aside
  <2>2. ASSUME NEW p \in Rows, TurnStep(p) PROVE FALSE
    BY <2>2, TurnWrites DEF Written, Aside
  <2>3. CASE Restart \/ Watchdog
    BY <1>1, <2>3 DEF Restart, Watchdog, Replaced
  <2> QED
    BY <2>1, <2>2, <2>3, Steps DEF Seed, Arbitrate, SelectionFails, ProviderTakes,
       CallProvider, Aside, vars
<1> DEFINE s == SlotOf[r]
           D == Live(DueContest(s, clock), clock)
<1>3. r \in First(D \cup Reservations(s, clock))
  BY <1>2 DEF CampaignSubmits, StillFirst, Dispatch
<1>4. clock \in Nat /\ Collision \in Nat /\ due[q] \in Nat /\ expires[q] \in Nat
  BY AttentionAssumption, Numbers DEF AttentionAssumption, Base, OtherTypes, RowTypes
<1>5. q \in D \cup Reservations(s, clock)
  <2>1. CASE due[q] <= clock /\ (status[q] = "delayed" => q \notin Campaign)
    BY <2>1 DEF Claims, Live, DueContest, RowsOf, Contending
  <2>2. CASE /\ FuturePlan /\ q \in Reserving
             /\ clock < due[q] /\ due[q] <= clock + Collision /\ due[q] < expires[q]
    BY <1>4, <2>2 DEF Claims, Reservations, Future, RowsOf
  <2> QED
    BY <2>1, <2>2 DEF Claims
<1> HIDE DEF D
<1> QED
  BY <1>3, <1>5, Ranks DEF First, Base

LEMMA HoldStep == ASSUME Base, [Next]_vars PROVE Holds
<1>1. CASE Arbitrate
  BY <1>1, PutOff DEF Holds
<1>2. CASE losers' \in {losers, {}}
  BY <1>2 DEF Holds
<1>3. ASSUME NEW p \in Rows, TurnStep(p) PROVE losers' \in {losers, {}}
  <2>1. Handled(p)
    BY <1>3, TurnWrites DEF Written
  <2> QED
    BY <2>1 DEF Handled, Rest
<1>4. CASE Around
  BY <1>2, <1>4, AroundRows DEF workerVars, batchVars
<1>5. CASE \/ Seed \/ SelectionFails \/ ProviderTakes \/ Restart \/ Watchdog
           \/ (\E r \in Rows : CallProvider(r)) \/ UNCHANGED vars
  BY <1>2, <1>5 DEF Seed, SelectionFails, ProviderTakes, Restart, Watchdog, CallProvider,
     Replaced, Rest, vars, workerVars, batchVars
<1> QED
  BY <1>1, <1>2, <1>3, <1>4, <1>5, Steps

\* When the scheduled-send worker goes to the provider with a row, no row of
\* its slot that laid claim to it when the cycle began is more urgent.
THEOREM AttentionDispatch == Spec => DispatchIsMostUrgent
<1>1. Base /\ Choice /\ [Next]_vars => Dispatches
  BY DispatchStep
<1>2. Spec => [][Dispatches]_vars
  BY <1>1, InitBase, BaseInvariance, InitChoice, ChoiceInvariance, PTL DEF Spec
<1> QED
  BY <1>2 DEF Dispatches, DispatchIsMostUrgent

\* When the campaign worker submits a row, no row that lays claim to the slot
\* is more urgent, whenever it came.
THEOREM AttentionSubmission == Spec => SubmissionIsMostUrgent
<1>1. Base /\ [Next]_vars => Submits
  BY SubmitStep
<1>2. Spec => [][Submits]_vars
  BY <1>1, InitBase, BaseInvariance, PTL DEF Spec
<1> QED
  BY <1>2 DEF Submits, SubmissionIsMostUrgent

\* A row is only put off for another one of its slot, no less urgent, that can
\* be sent.
THEOREM AttentionHolds == Spec => HeldForAnother
<1>1. Base /\ [Next]_vars => Holds
  BY HoldStep
<1>2. Spec => [][Holds]_vars
  BY <1>1, InitBase, BaseInvariance, PTL DEF Spec
<1> QED
  BY <1>2 DEF Holds, HeldForAnother

=============================================================================

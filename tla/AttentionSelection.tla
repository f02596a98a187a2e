------------------------- MODULE AttentionSelection -------------------------
(***************************************************************************)
(* Which message a contact gets next: the scheduled-send worker            *)
(* (app/services/channels/scheduled_send_worker.py) lets the due messages  *)
(* of an attention slot, a contact and a scope, contest it                 *)
(* (app/services/channels/selection.py), holds the losers, sends the       *)
(* winner or, if that is a campaign's, reserves the slot for it; the       *)
(* campaign worker confirms the reservation before it submits.             *)
(*                                                                         *)
(* Both workers are tasks of one event loop (app/main.py) and use the      *)
(* database synchronously: one runs until it awaits the provider, and a    *)
(* wait for a lock stops them all.  Handlers in other processes park,      *)
(* cancel and pause beside them.  Selection is enforced; times are small   *)
(* numbers, and Never stands for every time after MaxTime.                 *)
(***************************************************************************)
EXTENDS Integers, FiniteSets

CONSTANTS
  Rows,         \* send_logs of one contact, numbered by id
  Slots,        \* its attention scopes, numbered
  SlotOf,       \* Rows -> Slots
  Tier,         \* Rows -> intent_tier
  Priority,     \* Rows -> priority
  Ttl,          \* Rows -> time from parking to expires_at, 0 for no deadline
  Campaign,     \* rows of campaigns
  Automated,    \* rows with a source type of AUTOMATION_SOURCE_TYPES
  Retries,      \* retries of such messages, which keep their lane
  Reserving,    \* rows whose policy snapshot has future_reservation
  FuturePlan,   \* future_plan_mode is "enforce"
  BatchSize,    \* rows a cycle is seeded with
  Poll,         \* poll_interval
  Recheck,      \* recheck_minutes
  Collision,    \* collision_window_minutes
  MaxTime,      \* bound on the clock
  MaxFaults     \* bound on restarts, failed passes and calls of operators

ASSUME AttentionAssumption ==
  /\ Rows \subseteq Nat \ {0} /\ IsFiniteSet(Rows)
  /\ Slots \subseteq Nat \ {0}
  /\ SlotOf \in [Rows -> Slots]
  /\ Tier \in [Rows -> Nat]
  /\ Priority \in [Rows -> Nat]
  /\ Ttl \in [Rows -> Nat]
  /\ Campaign \subseteq Automated
  /\ Automated \cup Retries \cup Reserving \subseteq Rows
  /\ FuturePlan \in BOOLEAN
  /\ BatchSize \in Nat \ {0}
  /\ Poll \in Nat \ {0} /\ Recheck \in Nat \ {0} /\ Collision \in Nat
  /\ MaxTime \in Nat /\ MaxFaults \in Nat

VARIABLES
  status,     \* Rows -> SendLog.status, delayed also for deferred
  due,        \* Rows -> scheduled_at
  expires,    \* Rows -> expires_at
  handed,     \* Rows -> how often a provider has taken the message
  withdrawn,  \* campaign rows whose run was canceled
  paused,     \* the contact's automations_pause_mode, "no" unless paused
  pc,         \* where the scheduled-send worker is in its cycle
  now,        \* the time it took at the start of the cycle
  seeds,      \* the rows it read before it took the slots' locks
  left,       \* the rows of the batch still to be handled
  losers,     \* _selection_skip
  winners,    \* _selection_winners
  next,       \* Slots -> when the losers of the slot are due again
  held,       \* slots whose session lock the worker holds
  slot,       \* the slot whose rows it is handling, 0 between two slots
  stale,      \* rows it still knows as they were when the batch was seeded
  locked,     \* rows read FOR UPDATE, until the first commit
  cur,        \* the row at the provider, 0 for none
  camp,       \* the row the campaign worker has submitted, 0 for none
  blocked,    \* the slot a task of the loop waits for, 0 while the loop runs
  clock,
  crashes,    \* restarts, and stops of the loop that one will end
  calls       \* calls of operators, and passes that failed

rowVars == <<status, due, expires, handed>>
batchVars == <<now, seeds, left, losers, winners, next, held, slot, stale, locked>>
workerVars == <<pc, batchVars, cur>>
boundVars == <<clock, crashes, calls>>
vars == <<rowVars, withdrawn, paused, workerVars, camp, blocked, boundVars>>

-----------------------------------------------------------------------------
(* Rows and their rank. *)

Parked == {"delayed", "candidate"}
Contenders == Parked \cup {"campaign_selected"}
Ended == {"sent", "expired", "dropped"}
Status == {"absent", "submitting"} \cup Contenders \cup Ended

Never == MaxTime + 1
Cap(t) == IF t < Never THEN t ELSE Never
Sooner(t, u) == IF t <= u THEN t ELSE u

RowsOf(s) == {r \in Rows : SlotOf[r] = s}
Live(R, t) == {r \in R : expires[r] > t}

\* _sort_key
Outranks(p, q) ==
  \/ Tier[p] > Tier[q]
  \/ /\ Tier[p] = Tier[q]
     /\ \/ expires[p] < expires[q]
        \/ /\ expires[p] = expires[q]
           /\ due[p] < due[q] \/ (due[p] = due[q] /\ p < q)

First(R) == {r \in R : \A q \in R \ {r} : Outranks(r, q)}

\* A deferred campaign row belongs to the campaign worker until it is a
\* candidate again.
Contending(r) ==
  status[r] \in Contenders /\ ~(r \in Campaign /\ status[r] = "delayed")

\* Mutant: the contest is held among the rows of the batch.
DueContest_SeedsOnly(s, t) ==
  {r \in RowsOf(s) \cap seeds : Contending(r) /\ due[r] <= t}

\* due_attention_contest: paused or not.
DueContest(s, t) == {r \in RowsOf(s) : Contending(r) /\ due[r] <= t}

\* future_attention_contest, up to the end of the collision window.
Future(s, t) ==
  IF ~FuturePlan THEN {}
  ELSE {r \in RowsOf(s) :
          status[r] \in Contenders /\ t < due[r] /\ due[r] <= t + Collision}

\* Mutant: a row that expires before its own time reserves the slot as well.
Reservations_Expiring(s, t) == Live(Future(s, t) \cap Reserving, t)

\* As arbitrate_due_attention filters them.
Reservations(s, t) == {r \in Future(s, t) \cap Reserving : expires[r] > due[r]}

\* arbitrate_due_attention for the due rows D of slot s: the row to dispatch,
\* and the time for which a row that is not due yet holds back the others.
Dispatch(s, D, t) == D \cap First(D \cup Reservations(s, t))
HoldUntil(s, D, t) ==
  {Sooner(due[o], Cap(t + Recheck)) :
     o \in First(D \cup Reservations(s, t)) \ D}

\* When the losers of the slot are contested again.
Recontest(s, D, t) ==
  IF HoldUntil(s, D, t) = {} THEN {Cap(t + Poll)} ELSE HoldUntil(s, D, t)

\* A row that has the slot to itself is not ranked.
Contested(D) == D # {} /\ (FuturePlan \/ Cardinality(D) > 1)

Gated(r) == paused # "no" /\ r \in Automated \cup Retries

-----------------------------------------------------------------------------
(* The cycle. *)

Resting == [s \in Slots |-> 0]

Rest ==
  /\ pc' = "idle" /\ now' = 0 /\ seeds' = {} /\ left' = {}
  /\ losers' = {} /\ winners' = {} /\ next' = Resting
  /\ held' = {} /\ slot' = 0 /\ stale' = {} /\ locked' = {} /\ cur' = 0

Init ==
  /\ status = [r \in Rows |-> "absent"]
  /\ due = [r \in Rows |-> 0]
  /\ expires = [r \in Rows |-> Never]
  /\ handed = [r \in Rows |-> 0]
  /\ withdrawn = {}
  /\ paused = "no"
  /\ pc = "idle" /\ now = 0 /\ seeds = {} /\ left = {}
  /\ losers = {} /\ winners = {} /\ next = Resting
  /\ held = {} /\ slot = 0 /\ stale = {} /\ locked = {} /\ cur = 0
  /\ camp = 0 /\ blocked = 0
  /\ clock = 0 /\ crashes = 0 /\ calls = 0

LoopFree == blocked = 0

\* The scheduled-send worker sleeps or awaits the provider.
Yielding == LoopFree /\ pc \in {"idle", "call", "answered"}

\* Mutant: rows past their deadline are no work.
Seedable_Unexpired(r) ==
  /\ status[r] \in Parked /\ Contending(r)
  /\ due[r] <= clock
  /\ expires[r] > clock
  /\ ~(paused # "no" /\ r \in Automated)

Seedable(r) ==
  /\ status[r] \in Parked /\ Contending(r)
  /\ due[r] <= clock
  /\ ~(paused # "no" /\ r \in Automated)

Ahead(p, q) ==
  \/ Priority[p] > Priority[q]
  \/ Priority[p] = Priority[q] /\ due[p] < due[q]

\* The due rows, without locks.
Seed ==
  /\ LoopFree /\ pc = "idle"
  /\ LET R == {r \in Rows : Seedable(r)}
     IN \E S \in SUBSET R :
          /\ S # {}
          /\ Cardinality(S) <= BatchSize
          /\ Cardinality(S) < BatchSize => S = R
          /\ \A p \in S, q \in R \ S : ~Ahead(q, p)
          /\ seeds' = S
  /\ pc' = "lock" /\ now' = clock
  /\ UNCHANGED <<rowVars, withdrawn, paused, left, losers, winners, next, held,
                 slot, stale, locked, cur, camp, blocked, boundVars>>

\* The locks of the seeds' slots, their whole contests under them and the
\* selection pass.  A seed that is no contender any more stays in the batch.
Arbitrate ==
  /\ LoopFree /\ pc = "lock"
  /\ LET S == {SlotOf[r] : r \in seeds}
         contest == UNION {DueContest(s, now) : s \in S}
         D(s) == Live(RowsOf(s) \cap (seeds \cup contest), now)
         ranked == {s \in S : Contested(D(s))}
         W == UNION {Dispatch(s, D(s), now) : s \in ranked}
     IN /\ held' = S
        /\ left' = seeds \cup contest
        /\ locked' = contest \cup UNION {Future(s, now) : s \in ranked}
        /\ stale' = seeds \ contest
        /\ winners' = W
        /\ losers' = (UNION {D(s) : s \in ranked}) \ W
        /\ next' \in {f \in [Slots -> 0 .. Never] :
                       \A s \in Slots : f[s] \in Recontest(s, D(s), now)}
  /\ pc' = "turn" /\ seeds' = {}
  /\ UNCHANGED <<rowVars, withdrawn, paused, now, slot, cur, camp, blocked,
                 boundVars>>

MayFail == crashes + calls < MaxFaults
Operates == MayFail /\ calls' = calls + 1

\* A selection pass that fails closed, before anything is written.
SelectionFails ==
  /\ LoopFree /\ pc = "lock"
  /\ Operates
  /\ Rest
  /\ UNCHANGED <<rowVars, withdrawn, paused, camp, blocked, clock, crashes>>

\* One slot after the other, its winner last.
Turn(r) ==
  /\ LoopFree /\ pc = "turn"
  /\ r \in left
  /\ slot \in {0, SlotOf[r]}
  /\ r \in winners => \A q \in left \ {r} : SlotOf[q] # SlotOf[r]

\* Mutant: the slot is free again after the first of its rows.
Handled_ReleasesEarly(r) ==
  IF left = {r} THEN Rest
  ELSE /\ left' = left \ {r}
       /\ held' = held \ {SlotOf[r]}
       /\ slot' = 0
       /\ pc' = "turn"
       /\ stale' = {} /\ locked' = {} /\ cur' = 0
       /\ UNCHANGED <<now, seeds, losers, winners, next>>

\* The commit of a row and the finally clause behind it.
Handled(r) ==
  IF left = {r} THEN Rest
  ELSE LET last == \A q \in left \ {r} : SlotOf[q] # SlotOf[r]
       IN /\ left' = left \ {r}
          /\ held' = IF last THEN held \ {SlotOf[r]} ELSE held
          /\ slot' = IF last THEN 0 ELSE SlotOf[r]
          /\ pc' = "turn"
          /\ stale' = {} /\ locked' = {} /\ cur' = 0
          /\ UNCHANGED <<now, seeds, losers, winners, next>>

Aside == <<withdrawn, paused, camp, blocked, boundVars>>

\* The status the session knows: a stale campaign row was a candidate.
Known(r) == IF r \in stale THEN "candidate" ELSE status[r]

\* Mutant: a campaign that loses keeps its reservation.
HoldLoser_KeepsReservation(r) ==
  /\ Turn(r)
  /\ r \in losers
  /\ due' = [due EXCEPT ![r] = Sooner(next[SlotOf[r]], expires[r])]
  /\ Handled(r)
  /\ UNCHANGED <<status, expires, handed, Aside>>

HoldLoser(r) ==
  /\ Turn(r)
  /\ r \in losers
  /\ status' = [status EXCEPT ![r] =
       IF r \in Campaign /\ Known(r) = "campaign_selected" THEN "candidate" ELSE @]
  /\ due' = [due EXCEPT ![r] = Sooner(next[SlotOf[r]], expires[r])]
  /\ Handled(r)
  /\ UNCHANGED <<expires, handed, Aside>>

ExpireRow(r) ==
  /\ Turn(r)
  /\ r \notin losers /\ expires[r] <= now
  /\ status' = [status EXCEPT ![r] = "expired"]
  /\ Handled(r)
  /\ UNCHANGED <<due, expires, handed, Aside>>

Wins(r) == Turn(r) /\ r \notin losers /\ expires[r] > now

\* The winner of a campaign is reserved for the campaign worker; one that is
\* reserved already stays so.
ReserveSlot(r) ==
  /\ Wins(r)
  /\ r \in Campaign /\ Known(r) \in {"candidate", "campaign_selected"}
  /\ status' = [status EXCEPT ![r] = "campaign_selected"]
  /\ Handled(r)
  /\ UNCHANGED <<due, expires, handed, Aside>>

\* Everything else is sent here.
Sends(r) ==
  Wins(r) /\ ~(r \in Campaign /\ Known(r) \in {"candidate", "campaign_selected"})

\* The pace of a domain, or a policy that can wait.
Reschedule(r) ==
  /\ Sends(r)
  /\ \E t \in (now + 1) .. MaxTime : due' = [due EXCEPT ![r] = t]
  /\ Handled(r)
  /\ UNCHANGED <<status, expires, handed, Aside>>

\* Revalidation, a policy that cannot wait, content that does not render, a
\* refusal of send() and any exception in front of the provider.
Drop(r) ==
  /\ Sends(r)
  /\ status' = [status EXCEPT ![r] = "dropped"]
  /\ Handled(r)
  /\ UNCHANGED <<due, expires, handed, Aside>>

\* send() for a paused contact.
PauseGate(r) ==
  /\ Sends(r)
  /\ Gated(r)
  /\ status' = [status EXCEPT ![r] =
       IF paused = "hold" THEN "delayed" ELSE "dropped"]
  /\ due' = [due EXCEPT ![r] = IF paused = "hold" THEN clock ELSE @]
  /\ Handled(r)
  /\ UNCHANGED <<expires, handed, Aside>>

CallProvider(r) ==
  /\ Sends(r)
  /\ ~Gated(r)
  /\ pc' = "call" /\ cur' = r /\ slot' = SlotOf[r]
  /\ UNCHANGED <<rowVars, now, seeds, left, losers, winners, next, held, stale,
                 locked, Aside>>

\* External: the provider takes the message.
ProviderTakes ==
  /\ pc = "call"
  /\ handed' = [handed EXCEPT ![cur] = @ + 1]
  /\ pc' = "answered"
  /\ UNCHANGED <<status, due, expires, batchVars, cur, Aside>>

\* Mutant: an answer that is lost leaves the row to the next cycle.
Answer_Requeued(r) ==
  /\ LoopFree /\ pc \in {"call", "answered"} /\ cur = r
  /\ \/ pc = "answered" /\ status' = [status EXCEPT ![r] = "sent"]
     \/ UNCHANGED status
  /\ Handled(r)
  /\ UNCHANGED <<due, expires, handed, Aside>>

\* The outcome: sent, or refused, lost on its way back or raised.
Answer(r) ==
  /\ LoopFree /\ pc \in {"call", "answered"} /\ cur = r
  /\ \/ pc = "answered" /\ status' = [status EXCEPT ![r] = "sent"]
     \/ status' = [status EXCEPT ![r] = "dropped"]
  /\ Handled(r)
  /\ UNCHANGED <<due, expires, handed, Aside>>

-----------------------------------------------------------------------------
(* The campaign worker, a task of the same loop. *)

CampaignTask(r) == Yielding /\ camp = 0 /\ r \in Campaign

\* The claimed recipient of a run that is not canceled, whose slot the campaign
\* worker can lock: it waits for the lock wherever it touches the slot.
Claimed(r) == CampaignTask(r) /\ r \notin withdrawn /\ SlotOf[r] \notin held

\* _dispatch tests the deadline first.
CampaignExpires(r) ==
  /\ Claimed(r)
  /\ status[r] \in Contenders /\ expires[r] <= clock
  /\ status' = [status EXCEPT ![r] = "expired"]
  /\ UNCHANGED <<due, expires, handed, workerVars, Aside>>

Reserved(r) == Claimed(r) /\ status[r] = "campaign_selected" /\ expires[r] > clock

\* Mutant: whoever holds the reservation is still first.
StillFirst_AnyReservation(r) == TRUE

\* _confirm_attention_selection ranks the whole contest again.
StillFirst(r) ==
  LET s == SlotOf[r]
  IN r \in Dispatch(s, Live(DueContest(s, clock), clock), clock)

\* The confirmation and the commit of the intent, under the slot's lock.
CampaignSubmits(r) ==
  /\ Reserved(r)
  /\ StillFirst(r)
  /\ status' = [status EXCEPT ![r] = "submitting"]
  /\ camp' = r
  /\ UNCHANGED <<due, expires, handed, workerVars, withdrawn, paused, blocked,
                 boundVars>>

Postponed(r) ==
  /\ status' = [status EXCEPT ![r] = "candidate"]
  /\ \E t \in (clock + 1) .. Never : due' = [due EXCEPT ![r] = t]

\* Attention lost at the confirmation, or a dispatch that is postponed.
CampaignReturns(r) ==
  /\ Reserved(r) \/ (Claimed(r) /\ status[r] = "delayed" /\ expires[r] > clock)
  /\ Postponed(r)
  /\ UNCHANGED <<expires, handed, workerVars, Aside>>

CampaignDrops(r) ==
  /\ Reserved(r)
  /\ status' = [status EXCEPT ![r] = "dropped"]
  /\ UNCHANGED <<due, expires, handed, workerVars, Aside>>

\* A recipient that was claimed when its run was canceled.
CampaignCancels(r) ==
  /\ CampaignTask(r)
  /\ r \in withdrawn /\ SlotOf[r] \notin held
  /\ status[r] \in Contenders
  /\ status' = [status EXCEPT ![r] = "dropped"]
  /\ UNCHANGED <<due, expires, handed, workerVars, Aside>>

\* The outcome of the submission: sent, refused or unknown; or the gate behind
\* the intent finds the contact or the campaign paused and returns the row.
CampaignEnds(r) ==
  /\ Yielding /\ camp = r
  /\ \/ /\ handed' = [handed EXCEPT ![r] = @ + 1]
        /\ status' = [status EXCEPT ![r] = "sent"]
        /\ UNCHANGED due
     \/ /\ handed' \in {handed, [handed EXCEPT ![r] = @ + 1]}
        /\ status' = [status EXCEPT ![r] = "dropped"]
        /\ UNCHANGED due
     \/ /\ r \notin withdrawn /\ SlotOf[r] \notin held
        /\ Postponed(r)
        /\ UNCHANGED handed
  /\ camp' = 0
  /\ UNCHANGED <<expires, workerVars, withdrawn, paused, blocked, boundVars>>

\* After a restart an intent without an outcome is not submitted again.
CampaignRecovers(r) ==
  /\ CampaignTask(r)
  /\ status[r] = "submitting"
  /\ status' = [status EXCEPT ![r] = "dropped"]
  /\ UNCHANGED <<due, expires, handed, workerVars, Aside>>

-----------------------------------------------------------------------------
(* Parking, operators, restarts and time. *)

SlotOpen(s) == s \notin held

\* send(), create_deferred_send and the retry scheduler park a row under its
\* slot's lock: as a candidate, or deferred to a later time.
Park(r) ==
  /\ status[r] = "absent"
  /\ SlotOpen(SlotOf[r])
  /\ \/ /\ status' = [status EXCEPT ![r] = "candidate"]
        /\ due' = [due EXCEPT ![r] = clock]
     \/ /\ r \notin Campaign
        /\ status' = [status EXCEPT ![r] = "delayed"]
        /\ \E t \in (clock + 1) .. MaxTime : due' = [due EXCEPT ![r] = t]
  /\ expires' = [expires EXCEPT ![r] =
       IF Ttl[r] = 0 THEN Never ELSE Cap(clock + Ttl[r])]
  /\ UNCHANGED <<handed, workerVars, Aside>>

\* A task of the loop asks for the lock of a slot that the worker holds while
\* it awaits the provider, to park a row or on behalf of a campaign: the loop
\* stops, and with it the worker that would release the lock.
WantsSlot(r) ==
  /\ SlotOf[r] \in held
  /\ \/ status[r] = "absent"
     \/ /\ CampaignTask(r)
        /\ \/ status[r] \in {"campaign_selected", "delayed"}
           \/ status[r] = "candidate" /\ (expires[r] <= clock \/ r \in withdrawn)

LoopBlocks(r) ==
  /\ Yielding
  /\ MayFail /\ crashes' = crashes + 1
  /\ WantsSlot(r)
  /\ blocked' = SlotOf[r]
  /\ UNCHANGED <<rowVars, withdrawn, paused, workerVars, camp, clock, calls>>

\* cancel_run: a selected row keeps its reservation.
CancelRun(r) ==
  /\ Operates
  /\ r \in Campaign \ withdrawn
  /\ status[r] \notin {"absent"} \cup Ended
  /\ r \notin locked
  /\ withdrawn' = withdrawn \cup {r}
  /\ status' = [status EXCEPT ![r] =
       IF @ \in Parked \cup {"submitting"} THEN "dropped" ELSE @]
  /\ UNCHANGED <<due, expires, handed, paused, workerVars, camp, blocked, clock,
                 crashes>>

\* pause_contact: skip also drops what is parked.
Pause(mode) ==
  LET swept == {r \in Automated : mode = "skip" /\ status[r] \in Parked}
  IN /\ Operates
     /\ paused = "no"
     /\ swept \cap locked = {}
     /\ paused' = mode
     /\ status' = [r \in Rows |-> IF r \in swept THEN "dropped" ELSE status[r]]
     /\ UNCHANGED <<due, expires, handed, withdrawn, workerVars, camp, blocked,
                    clock, crashes>>

Resume ==
  /\ paused # "no"
  /\ paused' = "no"
  /\ UNCHANGED <<rowVars, withdrawn, workerVars, camp, blocked, boundVars>>

\* Whoever replaces the process begins with what was committed.
Replaced ==
  /\ Rest
  /\ camp' = 0 /\ blocked' = 0
  /\ UNCHANGED <<rowVars, withdrawn, paused, clock, calls>>

\* The process dies.
Restart ==
  /\ LoopFree
  /\ pc # "idle" \/ camp # 0
  /\ MayFail /\ crashes' = crashes + 1
  /\ Replaced

\* External: gunicorn ends a process whose loop has stopped.
Watchdog ==
  /\ ~LoopFree
  /\ Replaced
  /\ UNCHANGED crashes

Tick ==
  /\ clock < MaxTime
  /\ clock' = clock + 1
  /\ UNCHANGED <<rowVars, withdrawn, paused, workerVars, camp, blocked, crashes,
                 calls>>

-----------------------------------------------------------------------------
ScheduledSend ==
  \/ Seed \/ Arbitrate
  \/ \E r \in Rows : \/ HoldLoser(r) \/ ExpireRow(r) \/ ReserveSlot(r)
                     \/ Reschedule(r) \/ Drop(r) \/ PauseGate(r)
                     \/ CallProvider(r) \/ Answer(r)

CampaignWork(r) ==
  \/ CampaignExpires(r) \/ CampaignSubmits(r) \/ CampaignReturns(r)
  \/ CampaignDrops(r) \/ CampaignEnds(r) \/ CampaignRecovers(r)

Surroundings ==
  \/ ProviderTakes \/ SelectionFails \/ Resume \/ Restart
  \/ Watchdog \/ Tick
  \/ Pause("hold") \/ Pause("skip")
  \/ \E r \in Rows : Park(r) \/ CampaignCancels(r) \/ CancelRun(r) \/ LoopBlocks(r)

Next == ScheduledSend \/ (\E r \in Rows : CampaignWork(r)) \/ Surroundings

\* The poll loops keep running, a stopped process is replaced, time goes on.
Fairness ==
  /\ WF_vars(ScheduledSend)
  /\ WF_vars(\E r \in Rows : CampaignWork(r))
  /\ WF_vars(Watchdog)
  /\ WF_vars(Tick)

Spec == Init /\ [][Next]_vars /\ Fairness

-----------------------------------------------------------------------------
(* Properties. *)

\* Types of the variables; every row still to be handled has its slot locked,
\* and no slot stays locked behind its last row (slot_last_index).
TypeOK ==
  /\ status \in [Rows -> Status]
  /\ due \in [Rows -> 0 .. Never]
  /\ expires \in [Rows -> 0 .. Never]
  /\ handed \in [Rows -> Nat]
  /\ withdrawn \subseteq Campaign
  /\ paused \in {"no", "hold", "skip"}
  /\ pc \in {"idle", "lock", "turn", "call", "answered"}
  /\ now \in 0 .. MaxTime
  /\ seeds \subseteq Rows /\ left \subseteq Rows
  /\ losers \subseteq Rows /\ winners \subseteq Rows
  /\ next \in [Slots -> 0 .. Never]
  /\ held = {SlotOf[r] : r \in left} /\ slot \in held \cup {0}
  /\ stale \subseteq Rows /\ locked \subseteq Rows
  /\ cur \in left \cup {0} /\ (cur # 0 <=> pc \in {"call", "answered"})
  /\ camp \in Campaign \cup {0}
  /\ blocked \in Slots \cup {0}
  /\ clock \in 0 .. MaxTime
  /\ crashes \in Nat /\ calls \in Nat

\* Why q rather than r, whatever happened to their times since: a higher tier,
\* or the same tier and less time left.
MoreUrgent(q, r) ==
  Tier[q] > Tier[r] \/ (Tier[q] = Tier[r] /\ expires[q] < expires[r])

\* A row that may lay claim to slot s at time t: waiting and due, or reserving
\* the slot for a time it lives to see.
Claims(q, s, t) ==
  /\ SlotOf[q] = s
  /\ status[q] \in Contenders
  /\ expires[q] > t
  /\ \/ due[q] <= t /\ (status[q] = "delayed" => q \notin Campaign)
     \/ /\ FuturePlan /\ q \in Reserving
        /\ t < due[q] /\ due[q] <= t + Collision /\ due[q] < expires[q]

\* At most one campaign holds a live reservation of a slot: selecting another
\* revokes the first (_process_cycle), although rows are committed one by one,
\* the worker may die between them, and operators cancel and pause meanwhile.
OneReservation ==
  \A p, q \in Rows :
    /\ status[p] = "campaign_selected" /\ status[q] = "campaign_selected"
    /\ SlotOf[p] = SlotOf[q]
    /\ expires[p] > clock /\ expires[q] > clock
    => p = q

\* When the scheduled-send worker goes to the provider with a row, no row of
\* the slot that laid claim to it when the cycle began is more urgent, whether
\* it has been put off since or was outside the LIMIT of the batch.
DispatchIsMostUrgent ==
  [][\A r \in Rows, q \in Rows :
       /\ cur' = r /\ cur # r
       /\ \/ Claims(q, SlotOf[r], now)
          \/ SlotOf[q] = SlotOf[r] /\ q \in losers /\ status[q] \in Contenders
       => ~MoreUrgent(q, r)]_vars

\* When the campaign worker submits a row, its reservation has not been
\* overtaken by a row that came later: none that lays claim to the slot is
\* more urgent (_confirm_attention_selection).
SubmissionIsMostUrgent ==
  [][\A r \in Rows, q \in Rows :
       /\ camp' = r /\ camp # r
       /\ Claims(q, SlotOf[r], clock)
       => ~MoreUrgent(q, r)]_vars

\* A row is only put off for another one, no less urgent, that can be sent: it
\* is dispatched in this cycle, or reserves the slot for a time that comes
\* before its own deadline (arbitrate_due_attention).
HeldForAnother ==
  [][\A r \in losers' \ losers : \E q \in Rows \ {r} :
       /\ ~MoreUrgent(r, q)
       /\ q \in winners' \/ (due[q] > now /\ due[q] < expires[q])
       /\ Claims(q, SlotOf[r], now) \/ q \in stale']_vars

\* A message is handed to a provider once, and once more at most for every
\* restart between the provider's answer and the commit of its outcome: lost
\* answers, exceptions, holds, pauses and revoked reservations never make the
\* scheduled-send worker or the campaign worker repeat one.
HandedOnce == \A r \in Rows : handed[r] <= 1 + crashes

\* A perishable message does not wait forever: it is sent or dropped, or it
\* expires, whoever wins the slot and whatever stops the loop, unless the
\* contact is paused or the run was canceled.
PerishablesEnd ==
  \A r \in {q \in Rows : Ttl[q] > 0} :
    (status[r] \in Contenders /\ expires[r] <= MaxTime)
      ~> (status[r] \in Ended \/ paused # "no" \/ r \in withdrawn)

=============================================================================

-------------------------- MODULE FunnelEnrollment --------------------------
(***************************************************************************)
(* One enrollment of a contact in a funnel                                 *)
(* (app/services/funnel_engine.py).  Its main flow waits, forks into       *)
(* threads, which may fork again, joins them and goes on.  The scheduler   *)
(* (app/services/funnel_scheduler.py), the processing of events and the    *)
(* handler of inbound replies advance it in transactions of their own,     *)
(* with no lock in common but the rows they have written.                  *)
(*                                                                         *)
(* A transaction is READ COMMITTED, does not flush on a query and keeps    *)
(* what it has read until it commits.  The engine's functions are calls    *)
(* on the stack of a transaction, one action each; a row is locked from    *)
(* its write to the commit.                                                *)
(***************************************************************************)
EXTENDS Integers, Sequences, FiniteSets

CONSTANTS
  Scheduler,   \* the session of the scheduler, which an advisory lock makes one
  Handlers,    \* sessions that process events and replies
  Root,        \* the main flow: the enrollment's own status and current step
  Paths,       \* paths of forks, each run by one thread
  Script,      \* Root and paths -> the step types along it
  Branches,    \* Root and paths -> the paths of the fork on it, in order
  MaxFaults    \* bound on goals reached, stops of the funnel, lost sessions

Flows == {Root} \cup Paths
Children(f) == {Branches[f][i] : i \in DOMAIN Branches[f]}
Forks == {f \in Flows : Branches[f] # <<>>}
ForkStep == 2
Types == {"wait", "wait_until", "wait_for_reply", "action", "exit", "fork"}

\* A path has a step and belongs to one fork.  A flow forks at most once, in its
\* second step and behind a wait, so that it is the scheduler that enters a fork.
\* The main flow starts with a wait and does not wait for replies, which
\* advance_enrollment has no branch for.
ASSUME FunnelAssumption ==
  /\ Scheduler \notin Handlers
  /\ Root \notin Paths
  /\ Script \in [Flows -> Seq(Types)]
  /\ Branches \in [Flows -> Seq(Paths)]
  /\ MaxFaults \in Nat
  /\ \A f \in Flows :
       /\ Script[f] # <<>>
       /\ \A i \in DOMAIN Script[f] :
            Script[f][i] = "fork" => f \in Forks /\ i = ForkStep
       /\ f \in Forks => /\ Len(Script[f]) >= ForkStep
                         /\ Script[f][1] = "wait" /\ Script[f][ForkStep] = "fork"
       /\ Len(Branches[f]) # 1
  /\ \A p \in Paths : \E f \in Flows : p \in Children(f)
  /\ \A f, g \in Flows : f # g => Children(f) \cap Children(g) = {}
  /\ Script[Root][1] = "wait"
  /\ \A i \in DOMAIN Script[Root] : Script[Root][i] # "wait_for_reply"

Host == [p \in Paths |-> CHOOSE f \in Flows : p \in Children(f)]

\* A fork lists each of its paths once, and no paths are nested in one another.
ASSUME NestingAssumption ==
  /\ \A f \in Flows : \A i, j \in DOMAIN Branches[f] :
       Branches[f][i] = Branches[f][j] => i = j
  /\ \A P \in (SUBSET Paths) \ {{}} : \E p \in P : Host[p] \notin P

StepsOf(p) == {p} \X DOMAIN Script[p]
Steps == UNION {StepsOf(p) : p \in Flows}
Actions == {x \in Steps : Script[x[1]][x[2]] = "action"}
Sessions == {Scheduler} \cup Handlers

VARIABLES
  row,        \* the committed row of the enrollment, as Root, and of its threads
  joins,      \* forks -> number of their fork_joined log rows
  tx,         \* the sessions' transactions
  stopped,    \* the funnel is not active
  event,      \* the awaited event: not yet stored, stored, handled
  acts,       \* actions -> how often they were executed
  contested,  \* flows that two transactions have gone on with at a time
  causes,     \* what has happened that may keep the enrollment from its end
  faults

dbVars == <<row, joins>>
envVars == <<stopped, event, faults>>
ghostVars == <<acts, contested, causes>>
vars == <<dbVars, tx, envVars, ghostVars>>

-----------------------------------------------------------------------------
(* Transactions. *)

Columns == {"st", "at", "counted", "resolved"}
Blank == [st |-> "none", at |-> 0, counted |-> FALSE, resolved |-> {}]

NoTx ==
  [op |-> "none", list |-> {}, todo |-> {}, calls |-> <<>>, read |-> {},
   mem |-> [p \in Flows |-> Blank], dirty |-> {}, log |-> {}, funnel |-> "unread",
   acted |-> FALSE]

Open(s) == tx[s].op # "none"
AllIdle == \A s \in Sessions : ~Open(s)

\* What t knows of a row: what it wrote, else what it read, else a query.
Known(t, p) ==
  [c \in Columns |->
     IF p \in t.read \/ <<p, c>> \in t.dirty THEN t.mem[p][c] ELSE row[p][c]]

Load(t, P) ==
  [t EXCEPT !.mem = [p \in Flows |-> IF p \in P THEN Known(t, p) ELSE @[p]],
            !.read = @ \cup P]

\* The cached collection is dropped, and with it all that nothing else holds.
Expire(t, keep) ==
  [t EXCEPT !.mem = [p \in Flows |-> IF p \in keep THEN @[p] ELSE
                      [c \in Columns |-> IF <<p, c>> \in t.dirty THEN @[p][c]
                                         ELSE Blank[c]]],
            !.read = @ \cap keep]

Write(t, p, c, v) ==
  [Load(t, {p}) EXCEPT !.mem[p][c] = v, !.dirty = @ \cup {<<p, c>>}]

\* The lock of a row that another transaction has written.
Free(s, p) ==
  \A t \in Sessions \ {s}, c \in Columns : <<p, c>> \notin tx[t].dirty

Merged(t) ==
  [p \in Flows |-> [c \in Columns |->
     IF <<p, c>> \in t.dirty THEN t.mem[p][c] ELSE row[p][c]]]

\* What t knows of the funnel: its status at the first look.
KnowsStopped(t) == IF t.funnel = "unread" THEN stopped ELSE t.funnel = "stopped"
LookAtFunnel(t) ==
  [t EXCEPT !.funnel = IF KnowsStopped(t) THEN "stopped" ELSE "active"]

Logged(t) == [f \in Forks |-> joins[f] + IF f \in t.log THEN 1 ELSE 0]

AtStep == {"advance", "process", "act", "resolve"}
Call(do, p, i) == [do |-> do, flow |-> p, step |-> i]
Running(s, do) == tx[s].calls # <<>> /\ Head(tx[s].calls).do = do
Returns(s, t, calls) ==
  tx' = [tx EXCEPT ![s] = [t EXCEPT !.calls = calls \o Tail(tx[s].calls)]]

Init ==
  /\ row = [p \in Flows |->
       IF p = Root THEN [Blank EXCEPT !.st = "active", !.at = 1] ELSE Blank]
  /\ joins = [f \in Forks |-> 0]
  /\ tx = [s \in Sessions |-> NoTx]
  /\ stopped = FALSE /\ event = "awaited"
  /\ acts = [x \in Actions |-> 0]
  /\ contested = {} /\ causes = {} /\ faults = 0

-----------------------------------------------------------------------------
(* A transaction begins with a list of what it has to advance. *)

\* The type of a step; current_step_id may name none.
TypeAt(p, i) == IF i \in DOMAIN Script[p] THEN Script[p][i] ELSE "none"
Waits(p, k) == row[p].st = "active" /\ row[p].at > 0 /\ TypeAt(p, row[p].at) = k

\* The filter of the scheduler's queries and of an event's.
Listed_NoReplies(k) ==
  IF stopped \/ row[Root].st # "active" \/ k = "wait_for_reply" THEN {}
  ELSE {p \in Flows : Waits(p, k)}
Listed(k) ==
  IF stopped \/ row[Root].st # "active" THEN {} ELSE {p \in Flows : Waits(p, k)}

Timers == {"wait", "wait_until", "wait_for_reply"}

\* An exit runs beside another transaction.
Overlaps(s, op) ==
  \E u \in Sessions \ {s} : Open(u) /\ "goal" \in {op, tx[u].op}

Begin(s, op, t) ==
  /\ ~Open(s)
  /\ tx' = [tx EXCEPT ![s] = [t EXCEPT !.op = op]]
  /\ causes' = IF Overlaps(s, op) THEN causes \cup {"raced"} ELSE causes

List(L) == [Load(NoTx, L) EXCEPT !.list = L, !.todo = L]

\* A pass of the scheduler over the enrollment or its threads takes those
\* whose time is up, which is any of them.
OpenPass(k) ==
  /\ \E L \in (SUBSET Listed(k)) \ {{}} :
       /\ Root \in L => L = {Root}
       /\ Begin(Scheduler, k, List(L))
  /\ UNCHANGED <<dbVars, envVars, acts, contested>>

EventArrives ==
  /\ event = "awaited"
  /\ event' = "stored"
  /\ UNCHANGED <<dbVars, tx, stopped, faults, ghostVars>>

\* check_wait_until_events.
OpenEvent(s) ==
  /\ event = "stored"
  /\ event' = "handled"
  /\ Begin(s, "event", List(Listed("wait_until")))
  /\ UNCHANGED <<dbVars, stopped, faults, acts, contested>>

\* handle_inbound_reply for a thread, which does not ask for the funnel.
OpenReply(s) ==
  /\ row[Root].st = "active"
  /\ \E p \in Paths :
       /\ Waits(p, "wait_for_reply")
       /\ Begin(s, "reply", List({p}))
  /\ UNCHANGED <<dbVars, envVars, acts, contested>>

Faulty == faults < MaxFaults /\ faults' = faults + 1

\* check_goal_event, check_global_exit_rules and the operator's exits.
OpenGoal(s) ==
  /\ row[Root].st = "active"
  /\ Faulty
  /\ Begin(s, "goal",
           [Load(NoTx, {Root}) EXCEPT !.calls = <<Call("exit", Root, 0)>>])
  /\ UNCHANGED <<dbVars, stopped, event, acts, contested>>

\* t is in a step of p, or has moved or ended it.
Handles(t, p) ==
  \/ \E i \in DOMAIN t.calls : t.calls[i].do \in AtStep /\ t.calls[i].flow = p
  \/ \E c \in {"st", "at"} : <<p, c>> \in t.dirty

\* s goes on with p, which it takes to have status st at step i.
GoesOn(s, p, st, i) ==
  contested' = IF \/ \E u \in Sessions \ {s} : Handles(tx[u], p)
                  \/ Merged(tx[s])[p].st # st
                  \/ Merged(tx[s])[p].at # i
               THEN contested \cup {p} ELSE contested

Awaits(op) ==
  CASE op = "event" -> "wait_until" [] op = "reply" -> "wait_for_reply" [] OTHER -> op

\* The next of the list.  A wait is over; a wait_until asks the metadata whether
\* it is still unresolved, and the scheduler whether the enrollment still runs.
\* After a reload the step may be another one.
Take(s) ==
  /\ Open(s) /\ tx[s].calls = <<>>
  /\ \E p \in tx[s].todo :
       LET old == tx[s]
           main == old.op = "wait" /\ p = Root
           t == [Load(IF main THEN LookAtFunnel(old) ELSE old, {Root, p})
                   EXCEPT !.todo = @ \ {p}]
           i == t.mem[p].at
           k == TypeAt(p, i)
           skipped == \/ k # Awaits(old.op)
                      \/ main /\ KnowsStopped(old)
                      \/ /\ k = "wait_until"
                         /\ \/ <<p, i>> \in t.mem[Root].resolved
                            \/ old.op = k /\ p # Root /\ t.mem[Root].st # "active"
           first == Call(IF k = "wait_until" THEN "resolve" ELSE "advance", p, i)
           rest == IF p = Root \/ k = "wait" THEN <<>> ELSE <<Call("recheck", Root, 0)>>
       IN /\ Root \in old.todo => p = Root
          /\ tx' = [tx EXCEPT ![s] = [t EXCEPT
                      !.calls = IF skipped THEN <<>> ELSE <<first>> \o rest]]
          /\ IF skipped THEN contested' = contested ELSE GoesOn(s, p, "active", i)
  /\ UNCHANGED <<dbVars, envVars, acts, causes>>

-----------------------------------------------------------------------------
(* The engine. *)

\* _resolve_wait_until, with an exit branch of no steps of its own.
ResolveWaitUntil(s) ==
  /\ Running(s, "resolve")
  /\ LET c == Head(tx[s].calls)
         done == Known(tx[s], Root).resolved
     IN IF <<c.flow, c.step>> \in done
        THEN Returns(s, Load(tx[s], {Root}), <<>>)
        ELSE /\ Free(s, Root)
             /\ Returns(s, Write(tx[s], Root, "resolved", done \cup {<<c.flow, c.step>>}),
                        <<Call("advance", c.flow, c.step)>>)
  /\ UNCHANGED <<dbVars, envVars, ghostVars>>

\* The flow has a further step.
HasNext_Late(p, i) == i <= Len(Script[p])
HasNext(p, i) == i < Len(Script[p])

\* _advance_to_next and _advance_thread.
Advance(s) ==
  /\ Running(s, "advance")
  /\ LET c == Head(tx[s].calls)
         p == c.flow
     IN IF HasNext(p, c.step)
        THEN /\ Free(s, p)
             /\ Returns(s, Write(tx[s], p, "at", c.step + 1),
                        <<Call("process", p, c.step + 1)>>)
        ELSE IF p = Root
        THEN Returns(s, tx[s], <<Call("complete", Root, 0)>>)
        ELSE /\ Free(s, p)
             /\ Returns(s, Write(tx[s], p, "st", "completed"),
                        <<Call("join", Host[p], 0)>>)
  /\ UNCHANGED <<dbVars, envVars, ghostVars>>

\* The threads of a fork, all of them before the first one runs.
Spawned(t, f) ==
  [Expire(t, t.list \cup {Root}) EXCEPT
     !.mem = [p \in Flows |-> IF p \in Children(f)
                              THEN [Blank EXCEPT !.st = "active", !.at = 1]
                              ELSE @[p]],
     !.dirty = @ \cup Children(f) \X {"st", "at"}]

\* _handle_fork_step and _handle_nested_fork.
Forked(t, f) ==
  Spawned(IF f = Root THEN Write(t, f, "counted", TRUE)
                      ELSE Write(t, f, "st", "forked"), f)

ForkCalls(f) ==
  [i \in DOMAIN Branches[f] |-> Call("process", Branches[f][i], 1)]
    \o <<Call("join", f, 0)>>

\* _process_current_step and _process_thread_step.
ProcessStep(s) ==
  /\ Running(s, "process")
  /\ LET c == Head(tx[s].calls)
         p == c.flow
         k == TypeAt(p, c.step)
         t == LookAtFunnel(tx[s])
         live == t.funnel = "active" /\ (p # Root => Known(t, p).st = "active")
     IN /\ causes' = IF t.funnel = "stopped" THEN causes \cup {"stopped"} ELSE causes
        /\ \/ ~live /\ Returns(s, t, <<>>)
           \/ /\ live /\ k = "action"
              /\ Returns(s, t, <<Call("act", p, c.step)>>)
           \/ /\ live /\ k = "exit" /\ p = Root
              /\ Returns(s, t, <<Call("complete", Root, 0)>>)
           \/ /\ live /\ k = "exit" /\ p # Root
              /\ Free(s, p)
              /\ Returns(s, Write(t, p, "st", "exited"), <<Call("join", Host[p], 0)>>)
           \/ /\ live /\ k = "fork"
              /\ Free(s, p)
              /\ Returns(s, Forked(t, p), ForkCalls(p))
           \/ /\ live /\ k \in {"wait", "wait_for_reply"}
              /\ Returns(s, t, <<>>)
           \/ /\ live /\ k = "wait_until"
              /\ Free(s, Root)
              /\ Returns(s, Write(t, Root, "resolved",
                              Known(t, Root).resolved \ {<<p, c.step>>}),
                         IF event = "awaited" THEN <<>>
                         ELSE <<Call("resolve", p, c.step)>>)
  /\ UNCHANGED <<dbVars, envVars, acts, contested>>

Flushed(t) == [t EXCEPT !.dirty = {}, !.log = {}]
Refreshed(t, u) ==
  [u EXCEPT !.mem[Root] = Merged(t)[Root], !.read = @ \cup {Root},
            !.funnel = "unread", !.acted = TRUE]

\* _execute_action_step: most actions commit the session they run in, and the
\* enrollment is refreshed in any case.
ExecuteAction(s) ==
  /\ Running(s, "act")
  /\ LET c == Head(tx[s].calls)
         t == tx[s]
         next == <<Call("advance", c.flow, c.step)>>
     IN /\ acts' = [acts EXCEPT ![<<c.flow, c.step>>] = @ + 1]
        /\ \/ /\ Returns(s, Refreshed(t, Expire(t, t.list)), next)
              /\ UNCHANGED dbVars
           \/ /\ row' = Merged(t) /\ joins' = Logged(t)
              /\ Returns(s, Refreshed(t, Expire(Flushed(t), {})), next)
  /\ UNCHANGED <<envVars, contested, causes>>

Members(t, f) == {p \in Children(f) : Known(t, p).st # "none"}
StillActive_Any(t, f) ==
  IF \E p \in Members(t, f) : Known(t, p).st # "active" THEN {} ELSE Members(t, f)
StillActive(t, f) == {p \in Members(t, f) : Known(t, p).st = "active"}

\* The fork has its fork_joined row, as far as t can see.
Joined_Never(t, f) == FALSE
Joined(t, f) == joins[f] > 0 \/ f \in t.log

\* Another transaction has changed the status of one of the threads P, or is about to.
MissedBy(s, P) ==
  \E p \in P :
    \/ <<p, "st">> \notin tx[s].dirty /\ row[p].st # Known(tx[s], p).st
    \/ \E u \in Sessions \ {s} : <<p, "st">> \in tx[u].dirty

\* _check_fork_join.
CheckForkJoin(s) ==
  /\ Running(s, "join")
  /\ LET f == Head(tx[s].calls).flow
         t == Load(tx[s], Paths)
     IN IF StillActive(t, f) # {} \/ Members(t, f) = {} \/ Joined(t, f)
        THEN /\ Returns(s, t, <<>>)
             /\ causes' = IF ~Joined(t, f) /\ MissedBy(s, StillActive(t, f))
                          THEN causes \cup {"missed"} ELSE causes
        ELSE /\ Returns(s, [t EXCEPT !.log = @ \cup {f}], <<Call("leave", f, 0)>>)
             /\ causes' = IF \E p \in Members(t, f) : Known(t, p).st = "forked"
                          THEN causes \cup {"overtaken"} ELSE causes
  /\ UNCHANGED <<dbVars, envVars, acts, contested>>

AfterFork_Again == ForkStep
AfterFork == ForkStep + 1

\* Its second half: the thread or the main flow goes on behind the fork.
ContinueAfterFork(s) ==
  /\ Running(s, "leave")
  /\ LET f == Head(tx[s].calls).flow
         t == tx[s]
         main == Write(t, Root, "counted", FALSE)
     IN \/ /\ f # Root /\ Known(t, f).st = "forked"
           /\ Free(s, f)
           /\ GoesOn(s, f, "forked", ForkStep)
           /\ Returns(s, Write(t, f, "st", "active"), <<Call("advance", f, ForkStep)>>)
        \/ /\ f # Root /\ Known(t, f).st # "forked"
           /\ Returns(s, t, <<>>)
           /\ UNCHANGED contested
        \/ /\ f = Root
           /\ Free(s, Root)
           /\ GoesOn(s, Root, "active", ForkStep)
           /\ IF HasNext(Root, ForkStep)
              THEN Returns(s, Write(main, Root, "at", AfterFork),
                           <<Call("process", Root, AfterFork)>>)
              ELSE Returns(s, main, <<Call("complete", Root, 0)>>)
  /\ UNCHANGED <<dbVars, envVars, acts, causes>>

\* The caller's own check after a thread's wait_until or reply.
Recheck(s) ==
  /\ Running(s, "recheck")
  /\ LET t == Load(tx[s], {Root})
     IN Returns(s, t, IF Root \in Forks /\ t.mem[Root].at = ForkStep
                      THEN <<Call("join", Root, 0)>> ELSE <<>>)
  /\ UNCHANGED <<dbVars, envVars, ghostVars>>

\* Threads that keep the enrollment from completing.
Unfinished_Exits(t) == {p \in Paths : t.mem[p].st \notin {"none", "completed"}}
Unfinished(t) == {p \in Paths : t.mem[p].st \in {"active", "forked"}}

\* _complete_enrollment.
CompleteEnrollment(s) ==
  /\ Running(s, "complete")
  /\ LET t == Load(tx[s], Paths \cup {Root})
     IN /\ Returns(s, t, IF Unfinished(t) # {} THEN <<>> ELSE <<Call("finish", Root, 0)>>)
        /\ causes' = IF MissedBy(s, Unfinished(t)) THEN causes \cup {"missed"} ELSE causes
  /\ UNCHANGED <<dbVars, envVars, acts, contested>>

Finish(s) ==
  /\ Running(s, "finish")
  /\ Free(s, Root)
  /\ Returns(s, Write(tx[s], Root, "st", "completed"), <<>>)
  /\ UNCHANGED <<dbVars, envVars, ghostVars>>

\* _exit_enrollment reads the threads if the enrollment counts any ...
ExitEnrollment(s) ==
  /\ Running(s, "exit")
  /\ Returns(s, IF Known(tx[s], Root).counted THEN Load(tx[s], Paths) ELSE tx[s],
             <<Call("kill", Root, 0)>>)
  /\ UNCHANGED <<dbVars, envVars, ghostVars>>

Doomed_None(t) == {}
Doomed(t) == {p \in Paths \cap t.read : t.mem[p].st = "active"}

\* ... and ends the active ones with it.
Kill(s) ==
  /\ Running(s, "kill")
  /\ LET t == tx[s]
         K == Doomed(t)
         dead == [t EXCEPT
                    !.mem = [p \in Flows |-> IF p \in K THEN [@[p] EXCEPT !.st = "exited"]
                                             ELSE @[p]],
                    !.dirty = @ \cup K \X {"st"}]
     IN /\ \A p \in K \cup {Root} : Free(s, p)
        /\ Returns(s, Write(dead, Root, "st", "exited"), <<>>)
  /\ UNCHANGED <<dbVars, envVars, ghostVars>>

\* The end of the pass.
Commit(s) ==
  /\ Open(s) /\ tx[s].calls = <<>> /\ tx[s].todo = {}
  /\ row' = Merged(tx[s]) /\ joins' = Logged(tx[s])
  /\ tx' = [tx EXCEPT ![s] = NoTx]
  /\ UNCHANGED <<envVars, ghostVars>>

-----------------------------------------------------------------------------
(* Faults. *)

Dropped(s) ==
  /\ tx' = [tx EXCEPT ![s] = NoTx]
  /\ causes' = IF tx[s].acted THEN causes \cup {"lost"} ELSE causes

\* The process or the connection is lost.
Abort(s) ==
  /\ Open(s)
  /\ Faulty
  /\ Dropped(s)
  /\ UNCHANGED <<dbVars, stopped, event, acts, contested>>

\* The rows whose lock s waits for.
Wants(s) ==
  LET c == Head(tx[s].calls)
  IN IF tx[s].calls = <<>> THEN {}
     ELSE {p \in Flows : ~Free(s, p)
             /\ \/ c.do \in {"advance", "process", "leave"} /\ c.flow = p
                \/ c.do \in {"resolve", "finish", "kill"} /\ p = Root
                \/ c.do = "process" /\ TypeAt(c.flow, c.step) = "wait_until" /\ p = Root
                \/ c.do = "kill" /\ p \in Doomed(tx[s])}

WaitsFor(s, u) == \E p \in Wants(s), c \in Columns : <<p, c>> \in tx[u].dirty

\* The database rolls back one of two that wait for each other.
Victim(s) ==
  /\ \E u \in Sessions \ {s} : WaitsFor(s, u) /\ WaitsFor(u, s)
  /\ Dropped(s)
  /\ UNCHANGED <<dbVars, envVars, acts, contested>>

Stop ==
  /\ ~stopped /\ Faulty
  /\ stopped' = TRUE
  /\ UNCHANGED <<dbVars, tx, event, ghostVars>>

Resume ==
  /\ stopped
  /\ stopped' = FALSE
  /\ UNCHANGED <<dbVars, tx, event, faults, ghostVars>>

Engine(s) ==
  \/ Take(s) \/ ResolveWaitUntil(s) \/ Advance(s) \/ ProcessStep(s) \/ ExecuteAction(s)
  \/ CheckForkJoin(s) \/ ContinueAfterFork(s) \/ Recheck(s) \/ CompleteEnrollment(s) \/ Finish(s)
  \/ ExitEnrollment(s) \/ Kill(s) \/ Commit(s)

Next ==
  \/ \E k \in Timers : OpenPass(k)
  \/ \E s \in Handlers : OpenEvent(s) \/ OpenReply(s) \/ OpenGoal(s)
  \/ \E s \in Sessions : Engine(s) \/ Abort(s) \/ Victim(s)
  \/ EventArrives \/ Stop \/ Resume

Spec == Init /\ [][Next]_vars

FairSpec ==
  /\ Spec
  /\ WF_vars(\E k \in Timers : OpenPass(k))
  /\ \A s \in Sessions : WF_vars(Engine(s) \/ Victim(s))

-----------------------------------------------------------------------------
(* Properties. *)

Status == {"none", "active", "forked", "completed", "exited"}
Row == [st : Status, at : Nat, counted : BOOLEAN, resolved : SUBSET Steps]
Rows == {m \in [Flows -> Row] : \A p \in Flows : m[p].at <= Len(Script[p])}

AtFork == {"join", "leave"}
Calls ==
  {c \in [do : AtStep \cup AtFork \cup {"recheck", "complete", "finish", "exit", "kill"},
          flow : Flows, step : Nat] :
     /\ c.do \in AtStep => <<c.flow, c.step>> \in Steps
     /\ c.do \in AtFork => c.flow \in Forks}

Transactions ==
  [op : Timers \cup {"none", "event", "reply", "goal"},
   list : SUBSET Flows, todo : SUBSET Flows, calls : Seq(Calls),
   read : SUBSET Flows, mem : Rows, dirty : SUBSET (Flows \X Columns),
   log : SUBSET Forks, funnel : {"unread", "active", "stopped"}, acted : BOOLEAN]

\* Every variable keeps its type; no row of a thread or of the enrollment points
\* behind the last step of its path, whoever advances it.
TypeOK ==
  /\ row \in Rows
  /\ joins \in [Forks -> Nat]
  /\ tx \in [Sessions -> Transactions]
  /\ stopped \in BOOLEAN
  /\ event \in {"awaited", "stored", "handled"}
  /\ acts \in [Actions -> Nat]
  /\ contested \subseteq Flows
  /\ causes \subseteq {"stopped", "missed", "overtaken", "lost", "raced"}
  /\ faults \in 0 .. MaxFaults

Ended == row[Root].st \in {"completed", "exited"}
Waiting == {p \in Flows : \E k \in Timers : Waits(p, k)}
Stuck == AllIdle /\ ~Ended /\ Waiting = {}

\* What can make a fork be joined twice.  The main flow's is also asked for by
\* whoever has advanced any thread.
MayJoinTwice(f) ==
  \/ causes \cap {"overtaken", "raced"} # {}
  \/ contested \cap (IF f = Root THEN Paths ELSE Children(f)) # {}

\* A fork is joined once, although _check_fork_join runs after every thread, after
\* the fork and from its callers, in several transactions, and its test of the
\* fork_joined row locks nothing.  The exceptions: a fork was joined over a nested
\* one; an exit ran beside another transaction; or two transactions went on with
\* one of the threads at the same time.
JoinsOnce == \A f \in Forks : joins[f] > 1 => MayJoinTwice(f)

\* A fork is joined only when each of its threads without a fork of its own has
\* ended, though the joining transaction may know its siblings from an old read,
\* and none of them runs again.
JoinedThreadsAreDone ==
  \A f \in Forks : joins[f] > 0 =>
    \A p \in Children(f) \ Forks : row[p].st # "active"

\* An action is executed once, although the scheduler's timeout, the event and a
\* reply can end the same wait, a fork starts threads that others can already see,
\* and its flow goes on from any of them.  The exceptions: two transactions went on
\* with the flow at the same time, the second on what it had read before (no lock
\* guards the mark that a wait_until is resolved, nor a thread's step), or a
\* transaction was lost behind an action.
EffectsOnce == \A x \in Actions : acts[x] > 1 => x[1] \in contested \/ "lost" \in causes

\* An enrollment that has not ended while nothing of it waits for the scheduler is
\* one that nobody will ever advance.  That takes one of four causes: the funnel was
\* stopped between an advance and the step it led to; a transaction took a thread
\* for active that another one had ended or was ending, when it asked for the join
\* or the completion; a fork was joined over a nested one; a transaction was lost
\* after an action had committed half of it.
StuckIsExplained == Stuck => causes \cap {"stopped", "missed", "overtaken", "lost"} # {}

\* No thread is left active in an ended enrollment, as _transition_to_exited says of
\* forced exits and _complete_enrollment guards against, unless the exit ran
\* beside another transaction, a fork was joined over a nested one, or two
\* transactions went on with that thread: of two that join its fork, the second
\* makes it active again after the first has ended it.
OrphansAreExplained ==
  AllIdle /\ Ended /\ (\E p \in Paths \ contested : row[p].st = "active")
    => causes \cap {"overtaken", "raced"} # {}

\* Every enrollment ends, unless it is stuck or its funnel stays stopped: timers fire
\* without an event or a reply, and two transactions that wait for each
\* other's rows do not wait forever.
EnrollmentEnds == <>(Ended \/ Stuck) \/ <>[]stopped
=============================================================================

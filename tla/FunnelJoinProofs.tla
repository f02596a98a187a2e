-------------------------- MODULE FunnelJoinProofs --------------------------
(***************************************************************************)
(* FunnelEnrollment keeps its types, and a fork of a funnel is joined only *)
(* over threads that have ended, for any paths, scripts, handlers and      *)
(* number of faults.                                                       *)
(*                                                                         *)
(* What a session knows may be old, so the invariant relates it to the     *)
(* committed rows r: a thread it has seen end has ended; a thread it has   *)
(* seen exists; and only the scheduler brings threads into being, all      *)
(* those of a fork at a time and once.                                     *)
(***************************************************************************)
EXTENDS FunnelEnrollment, SequenceTheorems, TLAPS

-----------------------------------------------------------------------------
(* The constants. *)

LEMMA Scripts ==
  /\ \A p \in Flows : DOMAIN Script[p] = 1 .. Len(Script[p]) /\ Len(Script[p]) \in Nat \ {0}
  /\ \A p \in Flows : \A i : TypeAt(p, i) # "none" => <<p, i>> \in Steps /\ i \in Nat
  /\ \A p \in Flows : \A i \in 1 .. Len(Script[p]) : <<p, i>> \in Steps
  /\ \A p \in Flows : <<p, 1>> \in Steps
  /\ \A p \in Flows : Branches[p] \in Seq(Paths) /\ Children(p) \subseteq Paths
  /\ Root \in Flows /\ Paths \subseteq Flows
<1>1. \A p \in Flows : Script[p] \in Seq(Types) /\ Script[p] # <<>> /\ Branches[p] \in Seq(Paths)
  BY FunnelAssumption DEF FunnelAssumption
<1>2. \A p \in Flows :
        DOMAIN Script[p] = 1 .. Len(Script[p]) /\ Len(Script[p]) \in Nat /\ Len(Script[p]) >= 1
  BY <1>1, EmptySeq
<1>3. \A p \in Flows : \A i : TypeAt(p, i) # "none" => <<p, i>> \in Steps /\ i \in Nat
  BY <1>2 DEF TypeAt, Steps, StepsOf
<1>4. \A p \in Flows : Children(p) \subseteq Paths
  BY <1>1 DEF Children
<1> QED BY <1>1, <1>2, <1>3, <1>4 DEF Steps, StepsOf, Flows

\* A path belongs to a fork.
LEMMA Hosts == \A p \in Paths : Host[p] \in Forks /\ p \in Children(Host[p])
<1> SUFFICES ASSUME NEW p \in Paths PROVE Host[p] \in Forks /\ p \in Children(Host[p])
  OBVIOUS
<1>1. \E f \in Flows : p \in Children(f)
  BY FunnelAssumption DEF FunnelAssumption
<1>2. Host[p] \in Flows /\ p \in Children(Host[p])
  BY <1>1 DEF Host
<1>3. Branches[Host[p]] # <<>>
  BY <1>2 DEF Children
<1> QED BY <1>2, <1>3 DEF Forks

LEMMA ForkAt == \A f \in Forks : f \in Flows /\ ForkStep \in 1 .. Len(Script[f])
BY FunnelAssumption, Scripts DEF FunnelAssumption, Forks, ForkStep

LEMMA ForkType == \A p \in Flows : \A i : TypeAt(p, i) = "fork" => p \in Forks /\ i = ForkStep
BY FunnelAssumption DEF FunnelAssumption, TypeAt

-----------------------------------------------------------------------------
(* What a transaction does to what it knows keeps the types. *)

LEMMA RowOf == ASSUME NEW m \in Rows, NEW p \in Flows
               PROVE  m[p] \in Row /\ m[p].at <= Len(Script[p])
BY DEF Rows

LEMMA RowsFrom == ASSUME NEW m, DOMAIN m = Flows, m = [p \in Flows |-> m[p]],
                         \A p \in Flows : m[p] \in Row /\ m[p].at <= Len(Script[p])
                  PROVE  m \in Rows
BY DEF Rows

LEMMA MemOf == ASSUME NEW t \in Transactions PROVE t.mem \in Rows
BY DEF Transactions

LEMMA BlankType == Blank \in Row /\ \A p \in Flows : Blank.at <= Len(Script[p])
BY Scripts DEF Blank, Row, Status

LEMMA KnownType ==
  ASSUME NEW t \in Transactions, row \in Rows, NEW p \in Flows
  PROVE  Known(t, p) \in Row /\ Known(t, p).at <= Len(Script[p])
<1>1. t.mem[p] \in Row /\ row[p] \in Row
      /\ t.mem[p].at <= Len(Script[p]) /\ row[p].at <= Len(Script[p])
  BY MemOf, RowOf
<1> QED BY <1>1 DEF Known, Row, Columns

LEMMA LoadType ==
  ASSUME NEW t \in Transactions, row \in Rows, NEW P \in SUBSET Flows
  PROVE  Load(t, P) \in Transactions
<1> DEFINE m == [p \in Flows |-> IF p \in P THEN Known(t, p) ELSE t.mem[p]]
<1>1. \A p \in Flows : m[p] \in Row /\ m[p].at <= Len(Script[p])
  BY KnownType, MemOf, RowOf
<1>2. m \in Rows
  BY <1>1, RowsFrom
<1>3. Load(t, P) = [t EXCEPT !.mem = m, !.read = @ \cup P]
  BY DEF Load, Transactions
<1> HIDE DEF m
<1> QED BY <1>2, <1>3 DEF Transactions

LEMMA WriteType ==
  ASSUME NEW t \in Transactions, row \in Rows, NEW p \in Flows,
         NEW c \in Columns, NEW v,
         c = "st" => v \in Status,
         c = "at" => v \in 0 .. Len(Script[p]),
         c = "counted" => v \in BOOLEAN,
         c = "resolved" => v \in SUBSET Steps
  PROVE  Write(t, p, c, v) \in Transactions
<1> DEFINE u == Load(t, {p})
           m == [u.mem EXCEPT ![p][c] = v]
<1>1. u \in Transactions
  BY LoadType
<1>2. u.mem \in Rows
  BY <1>1, MemOf
<1>3. u.mem[p] \in Row /\ u.mem[p].at <= Len(Script[p])
  BY <1>2, RowOf
<1>4. /\ \A q \in Flows \ {p} : m[q] = u.mem[q]
      /\ m[p] = [d \in Columns |-> IF d = c THEN v ELSE u.mem[p][d]]
  <2>1. u.mem[p] = [d \in Columns |-> u.mem[p][d]]
    BY <1>3 DEF Row, Columns
  <2>2. m[p] = [u.mem[p] EXCEPT ![c] = v] /\ \A q \in Flows \ {p} : m[q] = u.mem[q]
    BY <1>2 DEF Rows
  <2> HIDE DEF m, u
  <2> QED BY <2>1, <2>2
<1>5. m[p] \in Row /\ m[p].at <= Len(Script[p])
  <2> HIDE DEF m, u
  <2>1. CASE c = "st" BY <1>3, <1>4, <2>1 DEF Row, Columns
  <2>2. CASE c = "at" BY <1>3, <1>4, <2>2, Scripts DEF Row, Columns
  <2>3. CASE c = "counted" BY <1>3, <1>4, <2>3 DEF Row, Columns
  <2>4. CASE c = "resolved" BY <1>3, <1>4, <2>4 DEF Row, Columns
  <2> QED BY <2>1, <2>2, <2>3, <2>4 DEF Columns
<1>6. m \in Rows
  <2>1. DOMAIN m = Flows /\ m = [q \in Flows |-> m[q]]
    BY <1>2 DEF Rows
  <2> HIDE DEF m, u
  <2> QED BY <1>2, <1>4, <1>5, <2>1, RowOf, RowsFrom
<1>7. Write(t, p, c, v) = [u EXCEPT !.mem = m, !.dirty = @ \cup {<<p, c>>}]
  BY <1>1 DEF Write, Transactions
<1> HIDE DEF m, u
<1>8. u.dirty \cup {<<p, c>>} \in SUBSET (Flows \X Columns)
  BY <1>1 DEF Transactions
<1> QED BY <1>1, <1>6, <1>7, <1>8 DEF Transactions

LEMMA ExpireType ==
  ASSUME NEW t \in Transactions, NEW K
  PROVE  Expire(t, K) \in Transactions
<1> DEFINE m == [p \in Flows |-> IF p \in K THEN t.mem[p] ELSE
                   [c \in Columns |-> IF <<p, c>> \in t.dirty THEN t.mem[p][c] ELSE Blank[c]]]
<1>1. \A p \in Flows : m[p] \in Row /\ m[p].at <= Len(Script[p])
  <2> TAKE p \in Flows
  <2>1. t.mem[p] \in Row /\ t.mem[p].at <= Len(Script[p])
    BY MemOf, RowOf
  <2>2. Blank \in Row /\ Blank.at <= Len(Script[p])
    BY BlankType
  <2> QED BY <2>1, <2>2 DEF Row, Columns
<1>2. m \in Rows
  BY <1>1, RowsFrom
<1>3. Expire(t, K) = [t EXCEPT !.mem = m, !.read = @ \cap K]
  BY DEF Expire, Transactions
<1> HIDE DEF m
<1> QED BY <1>2, <1>3 DEF Transactions

LEMMA MergedType ==
  ASSUME NEW t \in Transactions, row \in Rows
  PROVE  Merged(t) \in Rows
<1>1. \A p \in Flows : Merged(t)[p] \in Row /\ Merged(t)[p].at <= Len(Script[p])
  <2> TAKE p \in Flows
  <2>1. t.mem[p] \in Row /\ row[p] \in Row
        /\ t.mem[p].at <= Len(Script[p]) /\ row[p].at <= Len(Script[p])
    BY MemOf, RowOf
  <2> QED BY <2>1 DEF Merged, Row, Columns
<1> QED BY <1>1, RowsFrom DEF Merged

LEMMA NoTxType == NoTx \in Transactions
<1>1. [p \in Flows |-> Blank] \in Rows
  BY BlankType, RowsFrom
<1> QED BY <1>1 DEF NoTx, Transactions

-----------------------------------------------------------------------------
(* The stack of calls. *)

LEMMA CallType ==
  /\ \A do \in AtStep : \A p, i : <<p, i>> \in Steps => Call(do, p, i) \in Calls
  /\ \A do \in AtFork, f \in Forks : Call(do, f, 0) \in Calls
  /\ \A do \in {"recheck", "complete", "finish", "exit", "kill"}, p \in Flows :
       Call(do, p, 0) \in Calls
<1>1. \A p, i : <<p, i>> \in Steps => p \in Flows /\ i \in Nat
  BY Scripts DEF Steps, StepsOf
<1>2. \A f \in Forks : f \in Flows
  BY DEF Forks
<1> QED BY <1>1, <1>2 DEF Call, Calls, AtStep, AtFork

\* The call on top of a stack.
LEMMA TopCall ==
  ASSUME TypeOK, NEW s \in Sessions, NEW do, Running(s, do)
  PROVE  /\ tx[s] \in Transactions
         /\ Head(tx[s].calls) \in Calls /\ Head(tx[s].calls).do = do
         /\ Tail(tx[s].calls) \in Seq(Calls)
BY DEF TypeOK, Transactions, Running

LEMMA ReturnsType ==
  ASSUME TypeOK, NEW s \in Sessions, tx[s].calls # <<>>,
         NEW t \in Transactions, NEW c \in Seq(Calls), Returns(s, t, c)
  PROVE  tx' \in [Sessions -> Transactions]
<1>1. c \o Tail(tx[s].calls) \in Seq(Calls)
  BY DEF TypeOK, Transactions
<1>2. [t EXCEPT !.calls = c \o Tail(tx[s].calls)] \in Transactions
  BY <1>1 DEF Transactions
<1> QED BY <1>2 DEF Returns, TypeOK

LEMMA LookType ==
  ASSUME NEW t \in Transactions PROVE LookAtFunnel(t) \in Transactions
BY DEF LookAtFunnel, Transactions

-----------------------------------------------------------------------------
(* Every action keeps the types. *)

LEMMA BeginType ==
  ASSUME TypeOK, NEW s \in Sessions, NEW op \in Timers \cup {"event", "reply", "goal"},
         NEW t \in Transactions, Begin(s, op, t)
  PROVE  /\ tx' \in [Sessions -> Transactions]
         /\ causes' \subseteq {"stopped", "missed", "overtaken", "lost", "raced"}
<1>1. [t EXCEPT !.op = op] \in Transactions
  BY DEF Transactions
<1> QED BY <1>1 DEF Begin, TypeOK

LEMMA ListType ==
  ASSUME row \in Rows, NEW L \in SUBSET Flows PROVE List(L) \in Transactions
<1>1. Load(NoTx, L) \in Transactions
  BY NoTxType, LoadType
<1> QED BY <1>1 DEF List, Transactions

LEMMA OpenPassType == ASSUME TypeOK, NEW k \in Timers, OpenPass(k) PROVE TypeOK'
<1>1. Listed(k) \subseteq Flows /\ Scheduler \in Sessions
  BY DEF Listed, Sessions
<1>2. PICK L \in SUBSET Listed(k) : Begin(Scheduler, k, List(L))
  BY DEF OpenPass
<1>3. List(L) \in Transactions
  BY <1>1, ListType DEF TypeOK
<1>4. tx' \in [Sessions -> Transactions] /\ causes' \subseteq {"stopped", "missed", "overtaken", "lost", "raced"}
  BY <1>1, <1>2, <1>3, BeginType
<1> QED BY <1>4 DEF OpenPass, TypeOK, dbVars, envVars

LEMMA OpenOtherType ==
  ASSUME TypeOK, NEW s \in Handlers, OpenEvent(s) \/ OpenReply(s) \/ OpenGoal(s)
  PROVE  TypeOK'
<1>1. s \in Sessions
  BY DEF Sessions
<1>2. CASE OpenEvent(s)
  <2>1. List(Listed("wait_until")) \in Transactions
    BY ListType DEF TypeOK, Listed
  <2> QED BY <1>1, <1>2, <2>1, BeginType DEF OpenEvent, TypeOK, dbVars
<1>3. CASE OpenReply(s)
  <2>1. PICK p \in Paths : Begin(s, "reply", List({p}))
    BY <1>3 DEF OpenReply
  <2>2. List({p}) \in Transactions
    BY Scripts, ListType DEF TypeOK
  <2> QED BY <1>1, <1>3, <2>1, <2>2, BeginType DEF OpenReply, TypeOK, dbVars, envVars
<1>4. CASE OpenGoal(s)
  <2> DEFINE u == [Load(NoTx, {Root}) EXCEPT !.calls = <<Call("exit", Root, 0)>>]
  <2>1. Load(NoTx, {Root}) \in Transactions /\ Call("exit", Root, 0) \in Calls
    BY Scripts, LoadType, NoTxType, CallType DEF TypeOK
  <2>2. u \in Transactions
    <3>1. <<Call("exit", Root, 0)>> \in Seq(Calls)
      BY <2>1
    <3> QED BY ZenonT(60), <2>1, <3>1 DEF Transactions
  <2>3. tx' \in [Sessions -> Transactions] /\ causes' \subseteq {"stopped", "missed", "overtaken", "lost", "raced"}
    BY <1>1, <1>4, <2>2, BeginType DEF OpenGoal
  <2>4. MaxFaults \in Nat
    BY FunnelAssumption DEF FunnelAssumption
  <2> QED BY <1>4, <2>3, <2>4 DEF OpenGoal, TypeOK, dbVars, Faulty
<1> QED BY <1>2, <1>3, <1>4


LEMMA TakeType == ASSUME TypeOK, NEW s \in Sessions, Take(s) PROVE TypeOK'
<1> DEFINE old == tx[s]
           Main(p) == old.op = "wait" /\ p = Root
           T(p) == [Load(IF Main(p) THEN LookAtFunnel(old) ELSE old, {Root, p})
                      EXCEPT !.todo = @ \ {p}]
           i(p) == T(p).mem[p].at
           first(p) == Call(IF TypeAt(p, i(p)) = "wait_until" THEN "resolve" ELSE "advance", p, i(p))
           rest(p) == IF p = Root \/ TypeAt(p, i(p)) = "wait" THEN <<>> ELSE <<Call("recheck", Root, 0)>>
           skip(p) == \/ TypeAt(p, i(p)) # Awaits(old.op)
                      \/ Main(p) /\ KnowsStopped(old)
                      \/ /\ TypeAt(p, i(p)) = "wait_until"
                         /\ \/ <<p, i(p)>> \in T(p).mem[Root].resolved
                            \/ old.op = TypeAt(p, i(p)) /\ p # Root /\ T(p).mem[Root].st # "active"
           u(p) == [T(p) EXCEPT !.calls = IF skip(p) THEN <<>> ELSE <<first(p)>> \o rest(p)]
<1>1. PICK p \in tx[s].todo :
        /\ tx' = [tx EXCEPT ![s] = u(p)]
        /\ IF skip(p) THEN contested' = contested ELSE GoesOn(s, p, "active", i(p))
  BY DEF Take
<1>2. old \in Transactions /\ p \in Flows
  BY DEF TypeOK, Transactions
<1>3. T(p) \in Transactions
  <2>1. Load(IF Main(p) THEN LookAtFunnel(old) ELSE old, {Root, p}) \in Transactions
    <3>1. LookAtFunnel(old) \in Transactions
      BY <1>2, LookType
    <3> QED BY <1>2, <3>1, LoadType, Scripts DEF TypeOK
  <2> QED BY <2>1 DEF Transactions
<1>4. ~skip(p) => first(p) \in Calls
  <2> SUFFICES ASSUME ~skip(p) PROVE first(p) \in Calls
    OBVIOUS
  <2>1. TypeAt(p, i(p)) = Awaits(old.op)
    OBVIOUS
  <2>2. tx[s].op # "none" => Awaits(old.op) # "none"
    BY <1>2 DEF Awaits, Transactions
  <2>3. <<p, i(p)>> \in Steps
    <3> HIDE DEF i
    <3> QED BY Zenon, <1>2, <2>1, <2>2, Scripts DEF Take, Open
  <2> HIDE DEF i
  <2>4. first(p) \in {Call("resolve", p, i(p)), Call("advance", p, i(p))}
    OBVIOUS
  <2> HIDE DEF first, skip
  <2> QED BY <2>3, <2>4, CallType DEF AtStep
<1>5. rest(p) \in Seq(Calls)
  BY CallType, Scripts
<1>6. u(p) \in Transactions
  <2> HIDE DEF T, first, rest, skip
  <2>1. ~skip(p) => <<first(p)>> \o rest(p) \in Seq(Calls)
    BY <1>4, <1>5
  <2>2. (IF skip(p) THEN <<>> ELSE <<first(p)>> \o rest(p)) \in Seq(Calls)
    BY <2>1
  <2> QED BY <1>3, <2>2 DEF Transactions
<1>7. contested' \subseteq Flows
  <2> HIDE DEF i, skip
  <2> QED BY <1>1, <1>2 DEF GoesOn, TypeOK
<1> HIDE DEF u, i
<1> QED BY <1>1, <1>2, <1>6, <1>7 DEF Take, TypeOK, dbVars, envVars

LEMMA ResolveType == ASSUME TypeOK, NEW s \in Sessions, ResolveWaitUntil(s) PROVE TypeOK'
<1> DEFINE c == Head(tx[s].calls)
           done == Known(tx[s], Root).resolved
<1>1. tx[s] \in Transactions /\ c \in Calls /\ c.do = "resolve" /\ tx[s].calls # <<>>
  BY TopCall DEF ResolveWaitUntil, Running
<1>2. c.flow \in Flows /\ <<c.flow, c.step>> \in Steps /\ Call("advance", c.flow, c.step) \in Calls
  BY Zenon, <1>1, CallType DEF Calls, AtStep
<1>3. done \in SUBSET Steps /\ Root \in Flows
  BY <1>1, KnownType, Scripts DEF TypeOK, Row
<1>4. Load(tx[s], {Root}) \in Transactions
  BY <1>1, <1>3, LoadType DEF TypeOK
<1>5. Write(tx[s], Root, "resolved", done \cup {<<c.flow, c.step>>}) \in Transactions
  BY <1>1, <1>2, <1>3, WriteType DEF TypeOK, Columns
<1>6. tx' \in [Sessions -> Transactions]
  <2>1. <<>> \in Seq(Calls) /\ <<Call("advance", c.flow, c.step)>> \in Seq(Calls)
    BY <1>2
  <2> QED BY <1>1, <1>4, <1>5, <2>1, ReturnsType DEF ResolveWaitUntil
<1> QED BY <1>6 DEF ResolveWaitUntil, TypeOK, dbVars, envVars, ghostVars

LEMMA AdvanceType == ASSUME TypeOK, NEW s \in Sessions, Advance(s) PROVE TypeOK'
<1> SUFFICES tx' \in [Sessions -> Transactions]
  BY DEF Advance, TypeOK, dbVars, envVars, ghostVars
<1> DEFINE c == Head(tx[s].calls)
           p == c.flow
<1>1. tx[s] \in Transactions /\ c \in Calls /\ c.do = "advance" /\ tx[s].calls # <<>>
  BY TopCall DEF Advance, Running
<1>2. p \in Flows /\ c.step \in Nat
  BY <1>1 DEF Calls
<1>3. CASE HasNext(p, c.step)
  <2>1. c.step + 1 \in 1 .. Len(Script[p])
    BY <1>2, <1>3, Scripts DEF HasNext
  <2>2. Write(tx[s], p, "at", c.step + 1) \in Transactions
    BY <1>1, <1>2, <2>1, WriteType DEF TypeOK, Columns
  <2>3. <<Call("process", p, c.step + 1)>> \in Seq(Calls)
    <3>1. <<p, c.step + 1>> \in Steps
      BY <1>2, <2>1, Scripts
    <3>2. Call("process", p, c.step + 1) \in Calls
      BY <3>1, CallType DEF AtStep
    <3> QED BY <3>2
  <2>4. Returns(s, Write(tx[s], p, "at", c.step + 1), <<Call("process", p, c.step + 1)>>)
    BY <1>3 DEF Advance
  <2> QED BY <1>1, <2>2, <2>3, <2>4, ReturnsType
<1>4. CASE ~HasNext(p, c.step) /\ p = Root
  <2>1. <<Call("complete", Root, 0)>> \in Seq(Calls)
    BY Scripts, CallType
  <2>2. Returns(s, tx[s], <<Call("complete", Root, 0)>>)
    BY <1>4 DEF Advance
  <2> QED BY <1>1, <2>1, <2>2, ReturnsType
<1>5. CASE ~HasNext(p, c.step) /\ p # Root
  <2>1. Host[p] \in Forks
    BY <1>2, <1>5, Hosts DEF Flows
  <2>2. <<Call("join", Host[p], 0)>> \in Seq(Calls)
    BY <2>1, CallType DEF AtFork
  <2>3. Write(tx[s], p, "st", "completed") \in Transactions
    BY <1>1, <1>2, WriteType DEF TypeOK, Columns, Status
  <2>4. Returns(s, Write(tx[s], p, "st", "completed"), <<Call("join", Host[p], 0)>>)
    BY <1>5 DEF Advance
  <2> QED BY <1>1, <2>2, <2>3, <2>4, ReturnsType
<1> QED BY <1>3, <1>4, <1>5


LEMMA ForkCallsType == ASSUME NEW f \in Forks PROVE ForkCalls(f) \in Seq(Calls)
<1> DEFINE each == [i \in DOMAIN Branches[f] |-> Call("process", Branches[f][i], 1)]
<1>1. Branches[f] \in Seq(Paths) /\ f \in Flows
  BY Scripts DEF Forks
<1>2. \A i \in DOMAIN Branches[f] : Call("process", Branches[f][i], 1) \in Calls
  <2> TAKE i \in DOMAIN Branches[f]
  <2>1. Branches[f][i] \in Flows
    BY <1>1, Scripts
  <2>2. <<Branches[f][i], 1>> \in Steps
    BY <2>1, Scripts
  <2> QED BY <2>2, CallType DEF AtStep
<1>3. each \in Seq(Calls)
  BY <1>1, <1>2
<1>4. <<Call("join", f, 0)>> \in Seq(Calls)
  BY CallType DEF AtFork
<1> HIDE DEF each
<1>5. each \o <<Call("join", f, 0)>> \in Seq(Calls)
  BY <1>3, <1>4
<1> QED BY <1>5 DEF ForkCalls, each

LEMMA ForkedType ==
  ASSUME NEW t \in Transactions, row \in Rows, NEW f \in Forks
  PROVE  Forked(t, f) \in Transactions
<1> DEFINE u == IF f = Root THEN Write(t, f, "counted", TRUE) ELSE Write(t, f, "st", "forked")
           e == Expire(u, u.list \cup {Root})
           m == [p \in Flows |-> IF p \in Children(f)
                                 THEN [Blank EXCEPT !.st = "active", !.at = 1] ELSE e.mem[p]]
           d == e.dirty \cup Children(f) \X {"st", "at"}
<1>1. f \in Flows
  BY DEF Forks
<1>2. u \in Transactions
  BY <1>1, WriteType DEF Columns, Status
<1>3. e \in Transactions
  BY <1>2, ExpireType
<1>4. \A p \in Flows : m[p] \in Row /\ m[p].at <= Len(Script[p])
  <2> TAKE p \in Flows
  <2>1. e.mem[p] \in Row /\ e.mem[p].at <= Len(Script[p])
    BY <1>3, MemOf, RowOf
  <2>2. 1 <= Len(Script[p]) /\ Len(Script[p]) \in Nat
    BY Scripts
  <2> HIDE DEF e
  <2> QED BY <2>1, <2>2 DEF Row, Blank, Status
<1>5. m \in Rows
  BY <1>4, RowsFrom
<1>6. d \in SUBSET (Flows \X Columns)
  <2>1. Children(f) \subseteq Flows
    BY <1>1, Scripts
  <2>2. e.dirty \in SUBSET (Flows \X Columns)
    BY <1>3 DEF Transactions
  <2> HIDE DEF e
  <2> QED BY <2>1, <2>2 DEF Columns
<1>7. Forked(t, f) = [e EXCEPT !.mem = m, !.dirty = d]
  <2>1. DOMAIN e = {"op", "list", "todo", "calls", "read", "mem", "dirty", "log", "funnel", "acted"}
    BY <1>3 DEF Transactions
  <2> QED BY <2>1 DEF Forked, Spawned
<1> HIDE DEF m, d, e
<1> QED BY <1>3, <1>5, <1>6, <1>7 DEF Transactions

LEMMA ProcessType == ASSUME TypeOK, NEW s \in Sessions, ProcessStep(s) PROVE TypeOK'
<1> DEFINE c == Head(tx[s].calls)
           p == c.flow
           k == TypeAt(p, c.step)
           t == LookAtFunnel(tx[s])
<1>1. tx[s] \in Transactions /\ c \in Calls /\ c.do = "process" /\ tx[s].calls # <<>>
  BY TopCall DEF ProcessStep, Running
<1>2. p \in Flows /\ <<p, c.step>> \in Steps
  BY <1>1 DEF Calls, AtStep
<1>3. t \in Transactions /\ row \in Rows
  BY <1>1, LookType DEF TypeOK
<1>4. causes' \subseteq {"stopped", "missed", "overtaken", "lost", "raced"}
  BY DEF ProcessStep, TypeOK
<1> SUFFICES tx' \in [Sessions -> Transactions]
  BY <1>4 DEF ProcessStep, TypeOK, dbVars, envVars
<1>5. ASSUME NEW u \in Transactions, NEW calls \in Seq(Calls), Returns(s, u, calls)
      PROVE  tx' \in [Sessions -> Transactions]
  BY <1>1, <1>5, ReturnsType
<1>6. <<>> \in Seq(Calls)
  OBVIOUS
<1>7. CASE Returns(s, t, <<>>)
  BY <1>3, <1>5, <1>6, <1>7
<1>8. CASE Returns(s, t, <<Call("act", p, c.step)>>)
  <2>1. <<Call("act", p, c.step)>> \in Seq(Calls)
    BY <1>2, CallType DEF AtStep
  <2> QED BY <1>3, <1>5, <1>8, <2>1
<1>9. CASE Returns(s, t, <<Call("complete", Root, 0)>>)
  <2>1. <<Call("complete", Root, 0)>> \in Seq(Calls)
    BY CallType, Scripts
  <2> QED BY <1>3, <1>5, <1>9, <2>1
<1>10. CASE p # Root /\ Returns(s, Write(t, p, "st", "exited"), <<Call("join", Host[p], 0)>>)
  <2>1. <<Call("join", Host[p], 0)>> \in Seq(Calls)
    BY <1>2, <1>10, Hosts, CallType DEF AtFork, Flows
  <2>2. Write(t, p, "st", "exited") \in Transactions
    BY <1>2, <1>3, WriteType DEF Columns, Status
  <2> QED BY <1>5, <1>10, <2>1, <2>2
<1>11. CASE k = "fork" /\ Returns(s, Forked(t, p), ForkCalls(p))
  <2>1. p \in Forks
    BY <1>2, <1>11, ForkType
  <2> QED BY <1>3, <1>5, <1>11, <2>1, ForkedType, ForkCallsType
<1>12. CASE \E calls \in {<<>>, <<Call("resolve", p, c.step)>>} :
              Returns(s, Write(t, Root, "resolved", Known(t, Root).resolved \ {<<p, c.step>>}), calls)
  <2>1. <<Call("resolve", p, c.step)>> \in Seq(Calls)
    BY <1>2, CallType DEF AtStep
  <2>2. Known(t, Root).resolved \in SUBSET Steps /\ Root \in Flows
    BY <1>3, KnownType, Scripts DEF Row
  <2>3. Write(t, Root, "resolved", Known(t, Root).resolved \ {<<p, c.step>>}) \in Transactions
    BY <1>3, <2>2, WriteType DEF Columns
  <2> QED BY <1>5, <1>6, <1>12, <2>1, <2>3
<1> HIDE DEF t
<1> QED BY Zenon, <1>7, <1>8, <1>9, <1>10, <1>11, <1>12 DEF ProcessStep, t


LEMMA RefreshedType ==
  ASSUME NEW t \in Transactions, NEW u \in Transactions, row \in Rows
  PROVE  Refreshed(t, u) \in Transactions
<1> DEFINE m == [u.mem EXCEPT ![Root] = Merged(t)[Root]]
<1>1. Merged(t) \in Rows /\ u.mem \in Rows /\ Root \in Flows
  BY MergedType, MemOf, Scripts
<1>2. m \in Rows
  BY <1>1 DEF Rows
<1>3. Refreshed(t, u) = [u EXCEPT !.mem = m, !.read = @ \cup {Root}, !.funnel = "unread", !.acted = TRUE]
  BY DEF Refreshed, Transactions
<1>4. u.read \cup {Root} \in SUBSET Flows
  BY <1>1 DEF Transactions
<1> HIDE DEF m
<1> QED BY <1>2, <1>3, <1>4 DEF Transactions

LEMMA LoggedType ==
  ASSUME NEW t \in Transactions, joins \in [Forks -> Nat] PROVE Logged(t) \in [Forks -> Nat]
BY DEF Logged

LEMMA ExecuteType == ASSUME TypeOK, NEW s \in Sessions, ExecuteAction(s) PROVE TypeOK'
<1> DEFINE c == Head(tx[s].calls)
           t == tx[s]
           next == <<Call("advance", c.flow, c.step)>>
<1>1. t \in Transactions /\ c \in Calls /\ c.do = "act" /\ tx[s].calls # <<>> /\ row \in Rows
  BY TopCall DEF ExecuteAction, Running, TypeOK
<1>2. next \in Seq(Calls)
  BY <1>1, CallType DEF Calls, AtStep
<1>3. /\ Refreshed(t, Expire(t, t.list)) \in Transactions
      /\ Refreshed(t, Expire(Flushed(t), {})) \in Transactions
  <2>1. Flushed(t) \in Transactions
    BY <1>1 DEF Flushed, Transactions
  <2> QED BY <1>1, <2>1, ExpireType, RefreshedType
<1>4. tx' \in [Sessions -> Transactions]
  BY <1>1, <1>2, <1>3, ReturnsType DEF ExecuteAction
<1>5. row' \in Rows /\ joins' \in [Forks -> Nat]
  BY <1>1, MergedType, LoggedType DEF ExecuteAction, TypeOK, dbVars
<1>6. acts' \in [Actions -> Nat]
  <2>1. acts' = [acts EXCEPT ![<<c.flow, c.step>>] = @ + 1]
    BY DEF ExecuteAction
  <2>2. acts \in [Actions -> Nat]
    BY DEF TypeOK
  <2>3. PICK x : acts' = [acts EXCEPT ![x] = acts[x] + 1]
    BY <2>1
  <2>4. acts' = [y \in Actions |-> IF y = x THEN acts[y] + 1 ELSE acts[y]]
    BY <2>2, <2>3
  <2>5. \A y \in Actions : acts'[y] \in Nat
    BY <2>2, <2>4
  <2> QED BY <2>4, <2>5
<1> QED BY <1>4, <1>5, <1>6 DEF ExecuteAction, TypeOK, envVars

LEMMA JoinType == ASSUME TypeOK, NEW s \in Sessions, CheckForkJoin(s) PROVE TypeOK'
<1> DEFINE f == Head(tx[s].calls).flow
           t == Load(tx[s], Paths)
<1>1. tx[s] \in Transactions /\ f \in Forks /\ tx[s].calls # <<>>
  BY TopCall DEF CheckForkJoin, Running, Calls, AtFork
<1>2. t \in Transactions
  BY <1>1, LoadType, Scripts DEF TypeOK
<1>3. [t EXCEPT !.log = @ \cup {f}] \in Transactions
  <2> HIDE DEF t, f
  <2> QED BY <1>1, <1>2 DEF Transactions
<1>4. <<>> \in Seq(Calls) /\ <<Call("leave", f, 0)>> \in Seq(Calls)
  BY <1>1, CallType DEF AtFork
<1>5. \/ Returns(s, t, <<>>)
      \/ Returns(s, [t EXCEPT !.log = @ \cup {f}], <<Call("leave", f, 0)>>)
  BY DEF CheckForkJoin
<1>6. tx' \in [Sessions -> Transactions]
  <2> HIDE DEF t, f
  <2> QED BY <1>1, <1>2, <1>3, <1>4, <1>5, ReturnsType
<1>7. causes' \subseteq {"stopped", "missed", "overtaken", "lost", "raced"}
  BY DEF CheckForkJoin, TypeOK
<1> QED BY <1>6, <1>7 DEF CheckForkJoin, TypeOK, dbVars, envVars

LEMMA LeaveType == ASSUME TypeOK, NEW s \in Sessions, ContinueAfterFork(s) PROVE TypeOK'
<1> DEFINE f == Head(tx[s].calls).flow
           t == tx[s]
           main == Write(t, Root, "counted", FALSE)
<1>1. t \in Transactions /\ f \in Forks /\ f \in Flows /\ tx[s].calls # <<>> /\ row \in Rows
  BY TopCall DEF ContinueAfterFork, Running, Calls, AtFork, TypeOK, Forks
<1> SUFFICES tx' \in [Sessions -> Transactions]
  <2>1. contested' \subseteq Flows
    BY <1>1 DEF ContinueAfterFork, GoesOn, TypeOK
  <2> QED BY <2>1 DEF ContinueAfterFork, TypeOK, dbVars, envVars
<1>2. ASSUME NEW u \in Transactions, NEW calls \in Seq(Calls), Returns(s, u, calls)
      PROVE  tx' \in [Sessions -> Transactions]
  BY <1>1, <1>2, ReturnsType
<1>3. CASE Returns(s, t, <<>>)
  <2>1. <<>> \in Seq(Calls)
    OBVIOUS
  <2> QED BY <1>1, <1>2, <1>3, <2>1
<1>4. CASE Returns(s, Write(t, f, "st", "active"), <<Call("advance", f, ForkStep)>>)
  <2>1. <<f, ForkStep>> \in Steps
    BY <1>1, ForkAt, Scripts
  <2>2. <<Call("advance", f, ForkStep)>> \in Seq(Calls)
    BY <2>1, CallType DEF AtStep
  <2>3. Write(t, f, "st", "active") \in Transactions
    BY <1>1, WriteType DEF Columns, Status
  <2> QED BY <1>2, <1>4, <2>2, <2>3
<1>5. main \in Transactions
  BY <1>1, WriteType, Scripts DEF Columns
<1>6. CASE /\ HasNext(Root, ForkStep)
           /\ Returns(s, Write(main, Root, "at", AfterFork), <<Call("process", Root, AfterFork)>>)
  <2>1. AfterFork \in 1 .. Len(Script[Root])
    BY <1>6, Scripts DEF HasNext, AfterFork, ForkStep
  <2>2. <<Root, AfterFork>> \in Steps
    BY <2>1, Scripts
  <2>3. <<Call("process", Root, AfterFork)>> \in Seq(Calls)
    BY <2>2, CallType DEF AtStep
  <2>4. Write(main, Root, "at", AfterFork) \in Transactions
    <3> HIDE DEF main
    <3> QED BY <1>1, <1>5, <2>1, WriteType, Scripts DEF Columns
  <2> QED BY <1>2, <1>6, <2>3, <2>4
<1>7. CASE Returns(s, main, <<Call("complete", Root, 0)>>)
  <2>1. <<Call("complete", Root, 0)>> \in Seq(Calls)
    BY CallType, Scripts
  <2> QED BY <1>2, <1>5, <1>7, <2>1
<1> QED BY <1>3, <1>4, <1>6, <1>7 DEF ContinueAfterFork

LEMMA EndingType ==
  ASSUME TypeOK, NEW s \in Sessions, Recheck(s) \/ CompleteEnrollment(s) \/ Finish(s)
  PROVE  TypeOK'
<1>1. tx[s] \in Transactions /\ tx[s].calls # <<>> /\ row \in Rows
  BY DEF Recheck, CompleteEnrollment, Finish, Running, TypeOK
<1>8. causes' \subseteq {"stopped", "missed", "overtaken", "lost", "raced"}
  BY DEF Recheck, CompleteEnrollment, Finish, TypeOK, ghostVars
<1> SUFFICES tx' \in [Sessions -> Transactions]
  BY <1>8 DEF Recheck, CompleteEnrollment, Finish, TypeOK, dbVars, envVars, ghostVars
<1>2. Root \in Flows /\ {Root} \in SUBSET Flows /\ Paths \cup {Root} \in SUBSET Flows
  BY Scripts
<1>3. /\ Load(tx[s], {Root}) \in Transactions
      /\ Load(tx[s], Paths \cup {Root}) \in Transactions
      /\ Write(tx[s], Root, "st", "completed") \in Transactions
  BY <1>1, <1>2, LoadType, WriteType DEF Columns, Status
<1>4. <<>> \in Seq(Calls) /\ <<Call("finish", Root, 0)>> \in Seq(Calls)
  BY <1>2, CallType
<1>5. CASE Recheck(s)
  <2>1. Root \in Forks => <<Call("join", Root, 0)>> \in Seq(Calls)
    BY CallType DEF AtFork
  <2>2. \/ Returns(s, Load(tx[s], {Root}), <<>>)
        \/ Root \in Forks /\ Returns(s, Load(tx[s], {Root}), <<Call("join", Root, 0)>>)
    BY <1>5 DEF Recheck
  <2> QED BY <1>1, <1>3, <1>4, <2>1, <2>2, ReturnsType
<1>6. CASE CompleteEnrollment(s)
  <2>1. \/ Returns(s, Load(tx[s], Paths \cup {Root}), <<>>)
        \/ Returns(s, Load(tx[s], Paths \cup {Root}), <<Call("finish", Root, 0)>>)
    BY <1>6 DEF CompleteEnrollment
  <2> QED BY <1>1, <1>3, <1>4, <2>1, ReturnsType
<1>7. CASE Finish(s)
  BY <1>1, <1>3, <1>4, <1>7, ReturnsType DEF Finish
<1> QED BY <1>5, <1>6, <1>7

LEMMA ExitType == ASSUME TypeOK, NEW s \in Sessions, ExitEnrollment(s) PROVE TypeOK'
<1>1. tx[s] \in Transactions /\ tx[s].calls # <<>> /\ row \in Rows
  BY DEF ExitEnrollment, Running, TypeOK
<1>2. Load(tx[s], Paths) \in Transactions
  BY <1>1, LoadType, Scripts
<1>3. <<Call("kill", Root, 0)>> \in Seq(Calls)
  BY CallType, Scripts
<1>4. tx' \in [Sessions -> Transactions]
  BY <1>1, <1>2, <1>3, ReturnsType DEF ExitEnrollment
<1> QED BY <1>4 DEF ExitEnrollment, TypeOK, dbVars, envVars, ghostVars

LEMMA KillType == ASSUME TypeOK, NEW s \in Sessions, Kill(s) PROVE TypeOK'
<1> DEFINE t == tx[s]
           K == Doomed(t)
           m == [p \in Flows |-> IF p \in K THEN [t.mem[p] EXCEPT !.st = "exited"] ELSE t.mem[p]]
           dead == [t EXCEPT !.mem = m, !.dirty = @ \cup K \X {"st"}]
<1>1. t \in Transactions /\ tx[s].calls # <<>> /\ row \in Rows
  BY DEF Kill, Running, TypeOK
<1>2. m \in Rows
  <2>1. \A p \in Flows : m[p] \in Row /\ m[p].at <= Len(Script[p])
    <3> TAKE p \in Flows
    <3>1. t.mem[p] \in Row /\ t.mem[p].at <= Len(Script[p])
      BY <1>1, MemOf, RowOf
    <3> HIDE DEF t, K
    <3> QED BY <3>1 DEF Row, Status
  <2> HIDE DEF t, K
  <2> QED BY <2>1, RowsFrom
<1>3. K \X {"st"} \in SUBSET (Flows \X Columns)
  BY Scripts DEF Doomed, Columns
<1>4. dead \in Transactions
  <2> HIDE DEF t, m, K
  <2> QED BY <1>1, <1>2, <1>3 DEF Transactions
<1>5. Write(dead, Root, "st", "exited") \in Transactions
  <2> HIDE DEF dead
  <2> QED BY <1>1, <1>4, WriteType, Scripts DEF Columns, Status
<1>6. Returns(s, Write(dead, Root, "st", "exited"), <<>>)
  <2>1. dead = [t EXCEPT !.mem = [p \in Flows |-> IF p \in K THEN [@[p] EXCEPT !.st = "exited"] ELSE @[p]],
                         !.dirty = @ \cup K \X {"st"}]
    BY <1>1 DEF Transactions
  <2> QED BY <2>1 DEF Kill
<1>7. tx' \in [Sessions -> Transactions]
  <2>1. <<>> \in Seq(Calls)
    OBVIOUS
  <2> HIDE DEF dead, t
  <2> QED BY <1>1, <1>5, <1>6, <2>1, ReturnsType
<1> QED BY <1>7 DEF Kill, TypeOK, dbVars, envVars, ghostVars

LEMMA CommitType == ASSUME TypeOK, NEW s \in Sessions, Commit(s) PROVE TypeOK'
<1>1. tx[s] \in Transactions /\ row \in Rows /\ joins \in [Forks -> Nat]
  BY DEF TypeOK
<1>2. row' \in Rows /\ joins' \in [Forks -> Nat]
  BY <1>1, MergedType, LoggedType DEF Commit
<1>3. tx' \in [Sessions -> Transactions]
  BY NoTxType DEF Commit, TypeOK
<1> QED BY <1>2, <1>3 DEF Commit, TypeOK, envVars, ghostVars

LEMMA DroppedType ==
  ASSUME TypeOK, NEW s \in Sessions, Abort(s) \/ Victim(s) PROVE TypeOK'
<1>1. MaxFaults \in Nat
  BY FunnelAssumption DEF FunnelAssumption
<1>2. tx' \in [Sessions -> Transactions]
  BY NoTxType DEF Abort, Victim, Dropped, TypeOK
<1>3. causes' \subseteq {"stopped", "missed", "overtaken", "lost", "raced"}
  BY DEF Abort, Victim, Dropped, TypeOK
<1> QED BY <1>1, <1>2, <1>3 DEF Abort, Victim, Faulty, TypeOK, dbVars, envVars

\* Every variable keeps its type: no transaction, whatever it has read and whenever
\* its pass is cut off, leaves the enrollment or a thread behind the end of its path.
THEOREM FunnelTypes == Spec => []TypeOK
<1>1. Init => TypeOK
  <2> SUFFICES ASSUME Init PROVE TypeOK
    OBVIOUS
  <2>1. row \in Rows
    <3>1. row = [p \in Flows |-> IF p = Root THEN [Blank EXCEPT !.st = "active", !.at = 1] ELSE Blank]
      BY DEF Init
    <3>2. [Blank EXCEPT !.st = "active", !.at = 1] \in Row
      BY DEF Row, Blank, Status
    <3>3. [Blank EXCEPT !.st = "active", !.at = 1].at <= Len(Script[Root])
      BY Scripts DEF Blank
    <3> QED BY <3>1, <3>2, <3>3, BlankType, RowsFrom
  <2>2. tx \in [Sessions -> Transactions]
    BY NoTxType DEF Init
  <2>3. faults \in 0 .. MaxFaults
    BY FunnelAssumption DEF FunnelAssumption, Init
  <2>4. joins \in [Forks -> Nat] /\ acts \in [Actions -> Nat]
    BY DEF Init
  <2>5. /\ stopped \in BOOLEAN /\ event \in {"awaited", "stored", "handled"}
        /\ contested \subseteq Flows
        /\ causes \subseteq {"stopped", "missed", "overtaken", "lost", "raced"}
    BY DEF Init
  <2> QED BY <2>1, <2>2, <2>3, <2>4, <2>5 DEF TypeOK
<1>2. TypeOK /\ [Next]_vars => TypeOK'
  <2> SUFFICES ASSUME TypeOK, [Next]_vars PROVE TypeOK'
    OBVIOUS
  <2>1. CASE \E k \in Timers : OpenPass(k)
    BY <2>1, OpenPassType
  <2>2. CASE \E s \in Handlers : OpenEvent(s) \/ OpenReply(s) \/ OpenGoal(s)
    BY <2>2, OpenOtherType
  <2>3. CASE \E s \in Sessions : Engine(s)
    BY <2>3, TakeType, ResolveType, AdvanceType, ProcessType, ExecuteType, JoinType,
       LeaveType, EndingType, ExitType, KillType, CommitType DEF Engine
  <2>4. CASE \E s \in Sessions : Abort(s) \/ Victim(s)
    BY <2>4, DroppedType
  <2>5. CASE EventArrives \/ Stop \/ Resume
    <3>1. MaxFaults \in Nat
      BY FunnelAssumption DEF FunnelAssumption
    <3>2. stopped' \in BOOLEAN /\ event' \in {"awaited", "stored", "handled"}
      BY <2>5 DEF EventArrives, Stop, Resume, TypeOK
    <3>3. faults' \in 0 .. MaxFaults
      BY <2>5, <3>1 DEF EventArrives, Stop, Resume, Faulty, TypeOK
    <3>4. UNCHANGED <<row, joins, tx, acts, contested, causes>>
      BY <2>5 DEF EventArrives, Stop, Resume, dbVars, ghostVars
    <3> QED BY <3>2, <3>3, <3>4 DEF TypeOK
  <2>6. CASE UNCHANGED vars
    BY <2>6 DEF vars, dbVars, envVars, ghostVars, TypeOK
  <2> QED BY <2>1, <2>2, <2>3, <2>4, <2>5, <2>6 DEF Next
<1> QED BY <1>1, <1>2, PTL DEF Spec

-----------------------------------------------------------------------------
(* What the sessions know of the rows. *)

Leaf == Paths \ Forks
Over == {"completed", "exited"}

\* What a commit of t would make of the columns st and at of a row.
St(t, r, p) == IF <<p, "st">> \in t.dirty THEN t.mem[p].st ELSE r[p].st
At(t, r, p) == IF <<p, "at">> \in t.dirty THEN t.mem[p].at ELSE r[p].at

KnownSt(t, r, p) ==
  IF p \in t.read \/ <<p, "st">> \in t.dirty THEN t.mem[p].st ELSE r[p].st
KnownAt(t, r, p) ==
  IF p \in t.read \/ <<p, "at">> \in t.dirty THEN t.mem[p].at ELSE r[p].at

Spawns(t, r, p) == <<p, "st">> \in t.dirty /\ r[p].st = "none"
Unborn(t, r, p) == <<p, "st">> \notin t.dirty /\ r[p].st = "none"

\* The threads of a fork come together, once the fork's flow is at the fork.
RowsGood(r, j) ==
  /\ r[Root].st # "none"
  /\ \A p \in Leaf : r[p].st # "forked"
  /\ \A f \in Forks : r[f].at >= ForkStep => r[f].st # "none"
  /\ \A f \in Forks : \A p \in Children(f) : r[p].st # "none" => r[f].at >= ForkStep
  /\ \A f \in Forks : \A p, q \in Children(f) : r[p].st = "none" => r[q].st = "none"
  /\ \A f \in Forks : j[f] > 0 => \A p \in Children(f) \ Forks : r[p].st \in Over

\* What t has read may be old, but not of a thread that has ended since.
Seen(t, r) ==
  /\ \A p \in Paths \cap t.read : t.mem[p].st # "none" => St(t, r, p) # "none"
  /\ \A f \in Forks : \A p, q \in Children(f) :
       p \in t.read /\ t.mem[p].st = "none" => q \in t.read /\ t.mem[q].st = "none"
  /\ \A p \in Leaf : t.mem[p].st # "forked"
  /\ \A p \in Leaf \cap t.read : t.mem[p].st \in Over => St(t, r, p) \in Over

\* What t writes takes no thread back.
Written(s, t, r) ==
  /\ \A p \in Flows : <<p, "st">> \in t.dirty => t.mem[p].st # "none"
  /\ \A p \in Leaf : <<p, "st">> \in t.dirty /\ t.mem[p].st = "active" => r[p].st = "none"
  /\ \A p \in Paths : Spawns(t, r, p) =>
       /\ s = Scheduler
       /\ \A q \in Children(Host[p]) : <<q, "st">> \in t.dirty
       /\ At(t, r, Host[p]) >= ForkStep
  /\ \A f \in Forks : <<f, "at">> \in t.dirty => St(t, r, f) # "none"
  /\ \A f \in Forks : <<f, "at">> \in t.dirty /\ t.mem[f].at < ForkStep => Spawns(t, r, f)
  /\ \A f \in t.log : \A p \in Children(f) \ Forks : St(t, r, p) \in Over

\* A handler has to do with forks that are entered, and only the scheduler, which
\* nobody overtakes there, with those that are not.
Passing(s, t, r) ==
  /\ t.todo \subseteq t.list
  /\ \A p \in Paths \cap t.list : r[p].st # "none" /\ KnownSt(t, r, p) # "none"
  /\ s # Scheduler => t.op \notin Timers
  /\ s # Scheduler => \A f \in Forks \cap t.list : r[f].at >= ForkStep
  /\ s # Scheduler => \A f \in Forks : <<f, "at">> \in t.dirty => r[f].at >= ForkStep
  /\ s = Scheduler => \A f \in Forks \cap t.read :
       t.mem[f].at < ForkStep => At(t, r, f) < ForkStep

Good(s, t, r) == Seen(t, r) /\ Written(s, t, r) /\ Passing(s, t, r)

\* The calls that lead a flow into its fork.
Entering(c) ==
  \/ c.do = "advance" /\ c.flow \in Forks /\ c.step < ForkStep
  \/ c.do = "process" /\ c.flow \in Forks /\ c.step = ForkStep

CallGood(s, t, r, c) ==
  /\ c.do \in {"advance", "act", "resolve"} /\ c.flow \in Paths => KnownSt(t, r, c.flow) # "none"
  /\ c.do = "act" => TypeAt(c.flow, c.step) = "action"
  /\ c.do = "resolve" => TypeAt(c.flow, c.step) = "wait_until"
  /\ s # Scheduler /\ c.do \in AtStep \cup {"leave"} /\ c.flow \in Forks => r[c.flow].at >= ForkStep

EnterGood(s, t, r, c) ==
  /\ s = Scheduler
  /\ \A q \in Children(c.flow) : Unborn(t, r, q)
  /\ c.do = "process" => At(t, r, c.flow) >= ForkStep

CallsGood(s, t, r) ==
  \A i \in DOMAIN t.calls :
    /\ CallGood(s, t, r, t.calls[i])
    /\ Entering(t.calls[i]) => i = 1 /\ EnterGood(s, t, r, t.calls[i])

\* A status is written by one session at a time.
Locked ==
  \A s, u \in Sessions : s # u =>
    \A p \in Flows : <<p, "st">> \in tx[s].dirty => <<p, "st">> \notin tx[u].dirty

JoinInv ==
  /\ RowsGood(row, joins)
  /\ \A s \in Sessions : Good(s, tx[s], row) /\ CallsGood(s, tx[s], row)
  /\ Locked

-----------------------------------------------------------------------------
(* What the operations on a transaction do, column by column. *)

LEMMA Sorts ==
  /\ Leaf \subseteq Paths /\ Paths \subseteq Flows /\ Forks \subseteq Flows
  /\ Root \in Flows /\ Root \notin Paths /\ Flows = {Root} \cup Paths
  /\ ForkStep = 2
  /\ \A f \in Forks : Children(f) \subseteq Paths
  /\ \A f \in Forks : \A p \in Children(f) : Host[p] = f
  /\ \A p \in Paths : Host[p] \in Forks /\ p \in Children(Host[p])
<1>1. \A f \in Forks : \A p \in Children(f) : p \in Paths /\ Host[p] = f
  <2> TAKE f \in Forks
  <2> TAKE p \in Children(f)
  <2>1. f \in Flows /\ p \in Paths
    BY Scripts DEF Forks
  <2>2. Host[p] \in Flows /\ p \in Children(Host[p])
    BY <2>1, Hosts DEF Forks
  <2> QED BY <2>1, <2>2, FunnelAssumption DEF FunnelAssumption
<1> QED BY <1>1, Hosts, Scripts, FunnelAssumption DEF FunnelAssumption, Leaf, Forks, Flows, ForkStep

LEMMA LoadIs ==
  ASSUME NEW t \in Transactions, row \in Rows, NEW P \in SUBSET Flows,
         NEW u, u = Load(t, P)
  PROVE  /\ u \in Transactions
         /\ u.dirty = t.dirty /\ u.log = t.log /\ u.list = t.list /\ u.todo = t.todo
         /\ u.op = t.op /\ u.read = t.read \cup P
         /\ \A p \in Flows :
              /\ u.mem[p].st = IF p \in P THEN KnownSt(t, row, p) ELSE t.mem[p].st
              /\ u.mem[p].at = IF p \in P THEN KnownAt(t, row, p) ELSE t.mem[p].at
<1>1. u \in Transactions
  BY LoadType
<1>2. \A p \in Flows : Known(t, p).st = KnownSt(t, row, p) /\ Known(t, p).at = KnownAt(t, row, p)
  BY DEF Known, Columns, KnownSt, KnownAt
<1> QED BY <1>1, <1>2 DEF Load, Transactions

LEMMA WriteIs ==
  ASSUME NEW t \in Transactions, row \in Rows, NEW p \in Flows, NEW c \in Columns, NEW v,
         NEW u, u = Write(t, p, c, v)
  PROVE  /\ u.dirty = t.dirty \cup {<<p, c>>}
         /\ u.log = t.log /\ u.list = t.list /\ u.todo = t.todo
         /\ u.op = t.op /\ u.read = t.read \cup {p}
         /\ \A q \in Flows \ {p} : u.mem[q] = t.mem[q]
         /\ u.mem[p].st = IF c = "st" THEN v ELSE KnownSt(t, row, p)
         /\ u.mem[p].at = IF c = "at" THEN v ELSE KnownAt(t, row, p)
<1> DEFINE w == Load(t, {p})
           m == [w.mem EXCEPT ![p][c] = v]
<1>1. /\ w \in Transactions
      /\ w.dirty = t.dirty /\ w.log = t.log /\ w.list = t.list /\ w.todo = t.todo
      /\ w.op = t.op /\ w.read = t.read \cup {p}
      /\ w.mem[p].st = KnownSt(t, row, p) /\ w.mem[p].at = KnownAt(t, row, p)
  BY LoadIs
<1>2. \A q \in Flows \ {p} : w.mem[q] = t.mem[q]
  BY DEF Load, Transactions
<1>3. w.mem \in Rows /\ w.mem[p] \in Row
  BY <1>1, MemOf, RowOf
<1>4. w.mem[p] = [d \in Columns |-> w.mem[p][d]]
  BY <1>3 DEF Row, Columns
<1>5. m[p] = [w.mem[p] EXCEPT ![c] = v] /\ \A q \in Flows \ {p} : m[q] = w.mem[q]
  BY <1>3 DEF Rows
<1>6. m[p] = [d \in Columns |-> IF d = c THEN v ELSE w.mem[p][d]]
  <2> HIDE DEF m, w
  <2> QED BY <1>4, <1>5
<1>7. u = [w EXCEPT !.mem = m, !.dirty = @ \cup {<<p, c>>}]
  BY <1>1 DEF Write, Transactions
<1> HIDE DEF m, w
<1>8. /\ u.dirty = w.dirty \cup {<<p, c>>} /\ u.log = w.log /\ u.list = w.list
      /\ u.todo = w.todo /\ u.op = w.op /\ u.read = w.read /\ u.mem = m
  BY <1>1, <1>7 DEF Transactions
<1>9. m[p].st = (IF c = "st" THEN v ELSE w.mem[p].st) /\ m[p].at = (IF c = "at" THEN v ELSE w.mem[p].at)
  BY <1>6 DEF Columns
<1> QED BY <1>1, <1>2, <1>5, <1>8, <1>9

LEMMA ExpireIs ==
  ASSUME NEW t \in Transactions, NEW K, NEW u, u = Expire(t, K)
  PROVE  /\ u \in Transactions
         /\ u.dirty = t.dirty /\ u.log = t.log /\ u.list = t.list /\ u.todo = t.todo
         /\ u.op = t.op /\ u.read = t.read \cap K
         /\ \A p \in Flows :
              /\ u.mem[p].st = IF p \in K \/ <<p, "st">> \in t.dirty THEN t.mem[p].st ELSE "none"
              /\ u.mem[p].at = IF p \in K \/ <<p, "at">> \in t.dirty THEN t.mem[p].at ELSE 0
<1>1. u \in Transactions
  BY ExpireType
<1> QED BY <1>1 DEF Expire, Transactions, Columns, Blank

-----------------------------------------------------------------------------
(* The operations keep what holds of a transaction. *)

\* Nothing t knows to exist is unknown to u.
Keeps(t, u) == \A p \in Paths : KnownSt(t, row, p) # "none" => KnownSt(u, row, p) # "none"

LEMMA LoadGood ==
  ASSUME row \in Rows, RowsGood(row, joins), NEW s, NEW t \in Transactions, Good(s, t, row),
         NEW P \in SUBSET Flows,
         Paths \subseteq P \/ \A p \in P \cap Paths : KnownSt(t, row, p) # "none",
         NEW u, u = Load(t, P)
  PROVE  Good(s, u, row) /\ Keeps(t, u)
<1>1. /\ u.dirty = t.dirty /\ u.log = t.log /\ u.list = t.list /\ u.todo = t.todo
      /\ u.op = t.op /\ u.read = t.read \cup P
      /\ \A p \in Flows :
           /\ u.mem[p].st = IF p \in P THEN KnownSt(t, row, p) ELSE t.mem[p].st
           /\ u.mem[p].at = IF p \in P THEN KnownAt(t, row, p) ELSE t.mem[p].at
  BY LoadIs
<1>2. \A p \in Flows : /\ KnownSt(u, row, p) = KnownSt(t, row, p)
                       /\ St(u, row, p) = St(t, row, p) /\ At(u, row, p) = At(t, row, p)
                       /\ Spawns(u, row, p) <=> Spawns(t, row, p)
  BY <1>1 DEF KnownSt, KnownAt, St, At, Spawns
<1>3. Seen(u, row)
  <2>1. \A p \in Paths \cap u.read : u.mem[p].st # "none" => St(u, row, p) # "none"
    BY <1>1, <1>2, Sorts DEF Good, Seen, KnownSt, St
  <2>2. \A f \in Forks : \A p, q \in Children(f) :
          p \in u.read /\ u.mem[p].st = "none" => q \in u.read /\ u.mem[q].st = "none"
    <3> SUFFICES ASSUME NEW f \in Forks, NEW p \in Children(f), NEW q \in Children(f),
                        p \in u.read, u.mem[p].st = "none"
                 PROVE  q \in u.read /\ u.mem[q].st = "none"
      OBVIOUS
    <3>1. p \in Paths /\ q \in Paths /\ Host[p] = f /\ Host[q] = f /\ p \in Flows /\ q \in Flows
      BY Sorts
    <3>2. CASE p \in t.read
      <4>1. t.mem[p].st = "none"
        BY <1>1, <3>1, <3>2 DEF KnownSt
      <4>2. q \in t.read /\ t.mem[q].st = "none"
        BY <3>2, <4>1 DEF Good, Seen
      <4> QED BY <1>1, <3>1, <4>2 DEF KnownSt
    <3>3. CASE p \notin t.read
      <4>1. p \in P /\ KnownSt(t, row, p) = "none"
        BY <1>1, <3>1, <3>3
      <4>2. Paths \subseteq P
        BY <3>1, <4>1
      <4>3. <<p, "st">> \notin t.dirty /\ row[p].st = "none"
        BY <3>1, <3>3, <4>1 DEF KnownSt, Good, Written
      <4>4. row[q].st = "none"
        BY <4>3 DEF RowsGood
      <4>5. <<q, "st">> \notin t.dirty
        BY <3>1, <4>3, <4>4 DEF Good, Written, Spawns
      <4>6. q \in t.read => t.mem[q].st = "none"
        BY <3>1, <4>4, <4>5 DEF Good, Seen, St
      <4> QED BY <1>1, <3>1, <4>2, <4>4, <4>5, <4>6 DEF KnownSt
    <3> QED BY <3>2, <3>3
  <2>3. \A p \in Leaf : u.mem[p].st # "forked"
    <3> SUFFICES ASSUME NEW p \in Leaf PROVE u.mem[p].st # "forked"
      OBVIOUS
    <3>1. t.mem[p].st # "forked" /\ row[p].st # "forked" /\ p \in Flows
      BY Sorts DEF Good, Seen, RowsGood
    <3> QED BY <1>1, <3>1 DEF KnownSt
  <2>4. \A p \in Leaf \cap u.read : u.mem[p].st \in Over => St(u, row, p) \in Over
    BY <1>1, <1>2, Sorts DEF Good, Seen, KnownSt, St
  <2> QED BY <2>1, <2>2, <2>3, <2>4 DEF Seen
<1>4. \A p \in Flows : /\ <<p, "st">> \in u.dirty => u.mem[p].st = t.mem[p].st
                       /\ <<p, "at">> \in u.dirty => u.mem[p].at = t.mem[p].at
  BY <1>1 DEF KnownSt, KnownAt
<1>5. Written(s, u, row)
  <2>1. \A p \in Flows : <<p, "st">> \in u.dirty => u.mem[p].st # "none"
    BY <1>1, <1>4 DEF Good, Written
  <2>2. \A p \in Leaf : <<p, "st">> \in u.dirty /\ u.mem[p].st = "active" => row[p].st = "none"
    BY <1>1, <1>4, Sorts DEF Good, Written
  <2>3. \A p \in Paths : Spawns(u, row, p) =>
          /\ s = Scheduler
          /\ \A q \in Children(Host[p]) : <<q, "st">> \in u.dirty
          /\ At(u, row, Host[p]) >= ForkStep
    BY <1>1, <1>2, Sorts DEF Good, Written
  <2>4. \A f \in Forks : <<f, "at">> \in u.dirty => St(u, row, f) # "none"
    BY <1>1, <1>2, Sorts DEF Good, Written
  <2>5. \A f \in Forks : <<f, "at">> \in u.dirty /\ u.mem[f].at < ForkStep => Spawns(u, row, f)
    BY <1>1, <1>2, <1>4, Sorts DEF Good, Written
  <2>6. \A f \in u.log : \A p \in Children(f) \ Forks : St(u, row, p) \in Over
    <3> SUFFICES ASSUME NEW f \in t.log, NEW p \in Children(f) \ Forks PROVE St(u, row, p) \in Over
      BY <1>1
    <3>1. f \in Forks
      BY DEF Transactions
    <3> QED BY <1>2, <3>1, Sorts DEF Good, Written
  <2> QED BY <2>1, <2>2, <2>3, <2>4, <2>5, <2>6 DEF Written
<1>6. Passing(s, u, row)
  <2>1. s = Scheduler => \A f \in Forks \cap u.read :
          u.mem[f].at < ForkStep => At(u, row, f) < ForkStep
    BY <1>1, <1>2, Sorts DEF Good, Passing, KnownAt, At
  <2> QED BY <1>1, <1>2, <2>1, Sorts DEF Good, Passing
<1> QED BY <1>2, <1>3, <1>5, <1>6, Sorts DEF Good, Keeps

\* A status: of the enrollment, of a fork's thread, or the end of another one.
LEMMA StatusGood ==
  ASSUME row \in Rows, RowsGood(row, joins), NEW s, NEW t \in Transactions, Good(s, t, row),
         NEW p \in Flows, p \in Paths => KnownSt(t, row, p) # "none",
         NEW v, v # "none", p \in Leaf => v \in Over,
         NEW u, u = Write(t, p, "st", v)
  PROVE  Good(s, u, row) /\ Keeps(t, u)
<1> DEFINE w == Load(t, {p})
<1>1. Good(s, w, row) /\ w \in Transactions /\ Keeps(t, w)
  BY LoadGood, LoadIs
<1>2. /\ u.dirty = t.dirty \cup {<<p, "st">>}
      /\ u.log = t.log /\ u.list = t.list /\ u.todo = t.todo
      /\ u.op = t.op /\ u.read = t.read \cup {p}
      /\ \A q \in Flows \ {p} : u.mem[q] = t.mem[q]
      /\ u.mem[p].st = v /\ u.mem[p].at = KnownAt(t, row, p)
  BY WriteIs DEF Columns
<1>3. \A q \in Flows \ {p} :
        /\ KnownSt(u, row, q) = KnownSt(t, row, q) /\ St(u, row, q) = St(t, row, q)
  BY <1>2 DEF KnownSt, St
<1>4. KnownSt(u, row, p) = v /\ St(u, row, p) = v
  BY <1>2 DEF KnownSt, St
<1>5. \A q \in Flows : At(u, row, q) = At(t, row, q)
  BY <1>2 DEF At, KnownAt
<1>6. p \in Paths => (Spawns(u, row, p) => Spawns(t, row, p))
  BY <1>2, Sorts DEF KnownSt, Good, Seen, Spawns, St
<1>7. \A q \in Flows \ {p} : Spawns(u, row, q) <=> Spawns(t, row, q)
  BY <1>2 DEF Spawns
<1>8. Seen(u, row)
  <2>1. \A q \in Paths \cap u.read : u.mem[q].st # "none" => St(u, row, q) # "none"
    BY <1>2, <1>3, <1>4, Sorts DEF Good, Seen
  <2>2. \A f \in Forks : \A q, r \in Children(f) :
          q \in u.read /\ u.mem[q].st = "none" => r \in u.read /\ u.mem[r].st = "none"
    <3> SUFFICES ASSUME NEW f \in Forks, NEW q \in Children(f), NEW r \in Children(f),
                        q \in u.read, u.mem[q].st = "none"
                 PROVE  r \in u.read /\ u.mem[r].st = "none"
      OBVIOUS
    <3>1. q # p /\ q \in Paths /\ r \in Paths /\ q \in Flows /\ r \in Flows
      BY <1>2, Sorts
    <3>2. q \in t.read /\ t.mem[q].st = "none"
      BY <1>2, <3>1
    <3>3. r \in t.read /\ t.mem[r].st = "none"
      BY <3>2 DEF Good, Seen
    <3>4. r # p
      BY <3>1, <3>3 DEF KnownSt
    <3> QED BY <1>2, <3>1, <3>3, <3>4
  <2>3. \A q \in Leaf : u.mem[q].st # "forked"
    BY <1>2, Sorts DEF Good, Seen, Over
  <2>4. \A q \in Leaf \cap u.read : u.mem[q].st \in Over => St(u, row, q) \in Over
    BY <1>2, <1>3, <1>4, Sorts DEF Good, Seen
  <2> QED BY <2>1, <2>2, <2>3, <2>4 DEF Seen
<1>9. Written(s, u, row)
  <2>1. \A q \in Flows : <<q, "st">> \in u.dirty => u.mem[q].st # "none"
    BY <1>2 DEF Good, Written
  <2>2. \A q \in Leaf : <<q, "st">> \in u.dirty /\ u.mem[q].st = "active" => row[q].st = "none"
    BY <1>2, Sorts DEF Good, Written, Over
  <2>3. \A q \in Paths : Spawns(u, row, q) =>
          /\ s = Scheduler
          /\ \A r \in Children(Host[q]) : <<r, "st">> \in u.dirty
          /\ At(u, row, Host[q]) >= ForkStep
    BY <1>2, <1>5, <1>6, <1>7, Sorts DEF Good, Written
  <2>4. \A f \in Forks : <<f, "at">> \in u.dirty => St(u, row, f) # "none"
    BY <1>2, <1>3, <1>4, Sorts DEF Good, Written
  <2>5. \A f \in Forks : <<f, "at">> \in u.dirty /\ u.mem[f].at < ForkStep => Spawns(u, row, f)
    BY <1>2, Sorts DEF Good, Written, Spawns, KnownAt
  <2>6. \A f \in u.log : \A q \in Children(f) \ Forks : St(u, row, q) \in Over
    <3> SUFFICES ASSUME NEW f \in t.log, NEW q \in Children(f) \ Forks PROVE St(u, row, q) \in Over
      BY <1>2
    <3>1. f \in Forks
      BY DEF Transactions
    <3>2. q \in Leaf /\ q \in Flows
      BY <3>1, Sorts DEF Leaf
    <3> QED BY <1>3, <1>4, <3>2 DEF Good, Written
  <2> QED BY <2>1, <2>2, <2>3, <2>4, <2>5, <2>6 DEF Written
<1>10. Passing(s, u, row)
  <2>1. s = Scheduler => \A f \in Forks \cap u.read :
          u.mem[f].at < ForkStep => At(u, row, f) < ForkStep
    BY <1>2, <1>5, Sorts DEF Good, Passing, KnownAt, At
  <2> QED BY <1>2, <1>3, <1>4, <1>5, <2>1, Sorts DEF Good, Passing
<1> QED BY <1>3, <1>4, <1>8, <1>9, <1>10, Sorts DEF Good, Keeps

\* Nothing else than these columns matters.
LEMMA AlikeGood ==
  ASSUME NEW s, NEW t \in Transactions, NEW u, NEW r, Good(s, t, r),
         \A p \in Flows : u.mem[p].st = t.mem[p].st /\ u.mem[p].at = t.mem[p].at,
         \A p \in Flows, c \in {"st", "at"} : <<p, c>> \in u.dirty <=> <<p, c>> \in t.dirty,
         u.read = t.read, u.list = t.list, u.todo \subseteq t.todo, u.op = t.op, u.log = t.log
  PROVE  /\ Good(s, u, r)
         /\ \A p \in Flows : KnownSt(u, r, p) = KnownSt(t, r, p) /\ St(u, r, p) = St(t, r, p)
                             /\ At(u, r, p) = At(t, r, p)
<1>1. \A p \in Flows : /\ KnownSt(u, r, p) = KnownSt(t, r, p)
                       /\ St(u, r, p) = St(t, r, p) /\ At(u, r, p) = At(t, r, p)
                       /\ Spawns(u, r, p) <=> Spawns(t, r, p)
  BY DEF KnownSt, St, At, Spawns
<1>2. Seen(u, r)
  <2>1. \A f \in Forks : \A p \in Children(f) : p \in Flows
    BY Sorts
  <2> QED BY <1>1, <2>1, Sorts DEF Good, Seen
<1>3. Written(s, u, r)
  <2>1. \A f \in u.log : \A p \in Children(f) \ Forks : p \in Flows
    BY Sorts DEF Transactions
  <2>2. \A p \in Paths : Host[p] \in Flows /\ Children(Host[p]) \subseteq Flows
    BY Sorts
  <2>3. \A p \in Paths : Spawns(u, r, p) =>
          /\ s = Scheduler
          /\ \A q \in Children(Host[p]) : <<q, "st">> \in u.dirty
          /\ At(u, r, Host[p]) >= ForkStep
    BY <1>1, <2>2, Sorts DEF Good, Written
  <2>4. \A f \in u.log : \A p \in Children(f) \ Forks : St(u, r, p) \in Over
    BY <1>1, <2>1 DEF Good, Written
  <2>5. /\ \A p \in Flows : <<p, "st">> \in u.dirty => u.mem[p].st # "none"
        /\ \A p \in Leaf : <<p, "st">> \in u.dirty /\ u.mem[p].st = "active" => r[p].st = "none"
        /\ \A f \in Forks : <<f, "at">> \in u.dirty => St(u, r, f) # "none"
        /\ \A f \in Forks : <<f, "at">> \in u.dirty /\ u.mem[f].at < ForkStep => Spawns(u, r, f)
    BY <1>1, Sorts DEF Good, Written
  <2> QED BY <2>3, <2>4, <2>5 DEF Written
<1>4. Passing(s, u, r)
  BY <1>1, Sorts DEF Good, Passing
<1> QED BY <1>1, <1>2, <1>3, <1>4 DEF Good

\* A step of a flow that is there: of a fork's flow, at the fork or behind it.
LEMMA AtGood ==
  ASSUME row \in Rows, RowsGood(row, joins), NEW s, NEW t \in Transactions, Good(s, t, row),
         NEW p \in Flows, p \in Paths => KnownSt(t, row, p) # "none",
         NEW v \in Nat, p \in Forks => v >= ForkStep,
         s # Scheduler /\ p \in Forks => row[p].at >= ForkStep,
         NEW u, u = Write(t, p, "at", v)
  PROVE  Good(s, u, row) /\ Keeps(t, u)
<1> DEFINE w == Load(t, {p})
<1>1. Good(s, w, row) /\ w \in Transactions /\ Keeps(t, w)
  BY LoadGood, LoadIs
<1>2. /\ w.dirty = t.dirty /\ w.log = t.log /\ w.list = t.list /\ w.todo = t.todo
      /\ w.op = t.op /\ w.read = t.read \cup {p}
      /\ \A q \in Flows :
           /\ w.mem[q].st = IF q = p THEN KnownSt(t, row, q) ELSE t.mem[q].st
           /\ w.mem[q].at = IF q = p THEN KnownAt(t, row, q) ELSE t.mem[q].at
  BY LoadIs
<1>3. /\ u.dirty = t.dirty \cup {<<p, "at">>}
      /\ u.log = t.log /\ u.list = t.list /\ u.todo = t.todo
      /\ u.op = t.op /\ u.read = t.read \cup {p}
      /\ \A q \in Flows \ {p} : u.mem[q] = t.mem[q]
      /\ u.mem[p].st = KnownSt(t, row, p) /\ u.mem[p].at = v
  BY WriteIs DEF Columns
<1> HIDE DEF w
<1>4. \A q \in Flows : /\ u.mem[q].st = w.mem[q].st
                       /\ KnownSt(u, row, q) = KnownSt(w, row, q)
                       /\ St(u, row, q) = St(w, row, q)
                       /\ Spawns(u, row, q) <=> Spawns(w, row, q)
  BY <1>2, <1>3 DEF KnownSt, St, Spawns
<1>5. \A q \in Flows \ {p} : u.mem[q].at = w.mem[q].at /\ At(u, row, q) = At(w, row, q)
  BY <1>2, <1>3 DEF At
<1>6. At(u, row, p) = v
  BY <1>3 DEF At
<1>7. Seen(u, row)
  <2>1. \A f \in Forks : \A q \in Children(f) : q \in Flows
    BY Sorts
  <2> QED BY <1>1, <1>2, <1>3, <1>4, <2>1, Sorts DEF Good, Seen
<1>8. St(u, row, p) # "none"
  <2>1. p = Root \/ p \in Paths
    BY Sorts
  <2>2. CASE p = Root
    BY <1>3, <2>2 DEF Good, Written, St, RowsGood, KnownSt
  <2>3. CASE p \in Paths
    BY <1>3, <1>7, <2>3 DEF Seen
  <2> QED BY <2>1, <2>2, <2>3
<1>9. Written(s, u, row)
  <2>1. \A q \in Paths : Spawns(u, row, q) =>
          /\ s = Scheduler
          /\ \A r \in Children(Host[q]) : <<r, "st">> \in u.dirty
          /\ At(u, row, Host[q]) >= ForkStep
    <3> SUFFICES ASSUME NEW q \in Paths, Spawns(u, row, q)
                 PROVE  /\ s = Scheduler
                        /\ \A r \in Children(Host[q]) : <<r, "st">> \in u.dirty
                        /\ At(u, row, Host[q]) >= ForkStep
      OBVIOUS
    <3>1. Host[q] \in Forks /\ Host[q] \in Flows /\ q \in Flows
      BY Sorts
    <3>2. /\ s = Scheduler
          /\ \A r \in Children(Host[q]) : <<r, "st">> \in w.dirty
          /\ At(w, row, Host[q]) >= ForkStep
      BY <1>1, <1>4, <3>1 DEF Good, Written
    <3> QED BY <1>2, <1>3, <1>5, <1>6, <3>1, <3>2
  <2>2. \A f \in u.log : \A q \in Children(f) \ Forks : St(u, row, q) \in Over
    <3>1. \A f \in t.log : f \in Forks /\ Children(f) \subseteq Flows
      BY Sorts DEF Transactions
    <3> QED BY <1>1, <1>2, <1>3, <1>4, <3>1 DEF Good, Written
  <2>3. \A f \in Forks : <<f, "at">> \in u.dirty => St(u, row, f) # "none"
    BY <1>1, <1>2, <1>3, <1>4, <1>8, Sorts DEF Good, Written
  <2>4. \A f \in Forks : <<f, "at">> \in u.dirty /\ u.mem[f].at < ForkStep => Spawns(u, row, f)
    BY <1>1, <1>2, <1>3, <1>4, <1>5, Sorts DEF Good, Written
  <2>5. /\ \A q \in Flows : <<q, "st">> \in u.dirty => u.mem[q].st # "none"
        /\ \A q \in Leaf : <<q, "st">> \in u.dirty /\ u.mem[q].st = "active" => row[q].st = "none"
    BY <1>1, <1>2, <1>3, <1>4, Sorts DEF Good, Written
  <2> QED BY <2>1, <2>2, <2>3, <2>4, <2>5 DEF Written
<1>10. Passing(s, u, row)
  <2>1. s = Scheduler => \A f \in Forks \cap u.read :
          u.mem[f].at < ForkStep => At(u, row, f) < ForkStep
    BY <1>1, <1>2, <1>3, <1>5, Sorts DEF Good, Passing
  <2>2. s # Scheduler => \A f \in Forks : <<f, "at">> \in u.dirty => row[f].at >= ForkStep
    BY <1>3 DEF Good, Passing
  <2> QED BY <1>1, <1>2, <1>3, <1>4, <2>1, <2>2, Sorts DEF Good, Passing
<1> QED BY <1>1, <1>4, <1>7, <1>9, <1>10, Sorts DEF Good, Keeps

\* A column of the enrollment that no fork depends on.
LEMMA OtherGood ==
  ASSUME row \in Rows, RowsGood(row, joins), NEW s, NEW t \in Transactions, Good(s, t, row),
         NEW c \in {"counted", "resolved"}, NEW v, NEW u, u = Write(t, Root, c, v)
  PROVE  /\ Good(s, u, row) /\ Keeps(t, u)
         /\ \A p \in Flows : KnownSt(u, row, p) = KnownSt(t, row, p) /\ At(u, row, p) = At(t, row, p)
         /\ \A p \in Flows : <<p, "st">> \in u.dirty <=> <<p, "st">> \in t.dirty
<1> DEFINE w == Load(t, {Root})
<1>1. Good(s, w, row) /\ w \in Transactions /\ Keeps(t, w)
  BY LoadGood, LoadIs, Sorts
<1>2. /\ w.dirty = t.dirty /\ w.log = t.log /\ w.list = t.list /\ w.todo = t.todo
      /\ w.op = t.op /\ w.read = t.read \cup {Root}
      /\ \A q \in Flows :
           /\ w.mem[q].st = IF q = Root THEN KnownSt(t, row, q) ELSE t.mem[q].st
           /\ w.mem[q].at = IF q = Root THEN KnownAt(t, row, q) ELSE t.mem[q].at
  BY LoadIs, Sorts
<1>3. /\ u.dirty = t.dirty \cup {<<Root, c>>}
      /\ u.log = t.log /\ u.list = t.list /\ u.todo = t.todo
      /\ u.op = t.op /\ u.read = t.read \cup {Root}
      /\ \A q \in Flows \ {Root} : u.mem[q] = t.mem[q]
      /\ u.mem[Root].st = KnownSt(t, row, Root) /\ u.mem[Root].at = KnownAt(t, row, Root)
  BY WriteIs, Sorts DEF Columns
<1> HIDE DEF w
<1>4. Good(s, u, row)
  <2>1. \A p \in Flows : u.mem[p].st = w.mem[p].st /\ u.mem[p].at = w.mem[p].at
    BY <1>2, <1>3
  <2>2. \A p \in Flows, d \in {"st", "at"} : <<p, d>> \in u.dirty <=> <<p, d>> \in w.dirty
    BY <1>2, <1>3
  <2> QED BY ZenonT(60), <1>1, <1>2, <1>3, <2>1, <2>2, AlikeGood
<1>5. \A p \in Flows : KnownSt(u, row, p) = KnownSt(t, row, p) /\ At(u, row, p) = At(t, row, p)
  BY <1>3 DEF KnownSt, KnownAt, At
<1> QED BY <1>3, <1>4, <1>5, Sorts DEF Keeps

LEMMA ExpireGood ==
  ASSUME row \in Rows, RowsGood(row, joins), NEW s, NEW t \in Transactions, Good(s, t, row),
         NEW K, K \cap Paths \subseteq t.list, NEW u, u = Expire(t, K)
  PROVE  Good(s, u, row) /\ Keeps(t, u)
<1>1. /\ u.dirty = t.dirty /\ u.log = t.log /\ u.list = t.list /\ u.todo = t.todo
      /\ u.op = t.op /\ u.read = t.read \cap K
      /\ \A p \in Flows :
           /\ u.mem[p].st = IF p \in K \/ <<p, "st">> \in t.dirty THEN t.mem[p].st ELSE "none"
           /\ u.mem[p].at = IF p \in K \/ <<p, "at">> \in t.dirty THEN t.mem[p].at ELSE 0
  BY ExpireIs
<1>2. \A p \in Flows : /\ St(u, row, p) = St(t, row, p) /\ At(u, row, p) = At(t, row, p)
                       /\ Spawns(u, row, p) <=> Spawns(t, row, p)
  BY <1>1 DEF St, At, Spawns
<1>3. Seen(u, row)
  <2>1. \A p \in Paths \cap u.read : u.mem[p].st = t.mem[p].st /\ t.mem[p].st # "none"
    BY <1>1, Sorts DEF Good, Passing, KnownSt
  <2>2. \A f \in Forks : \A p, q \in Children(f) :
          p \in u.read /\ u.mem[p].st = "none" => q \in u.read /\ u.mem[q].st = "none"
    BY <2>1, Sorts
  <2>3. \A p \in Leaf : u.mem[p].st # "forked"
    BY ZenonT(60), <1>1, Sorts DEF Good, Seen
  <2> QED BY <1>1, <1>2, <2>1, <2>2, <2>3, Sorts DEF Good, Seen
<1>4. Written(s, u, row)
  <2>1. \A f \in u.log : \A p \in Children(f) \ Forks : St(u, row, p) \in Over
    <3>1. \A f \in t.log : f \in Forks /\ Children(f) \subseteq Flows
      BY Sorts DEF Transactions
    <3> QED BY <1>1, <1>2, <3>1 DEF Good, Written
  <2>2. \A p \in Paths : Spawns(u, row, p) =>
          /\ s = Scheduler
          /\ \A q \in Children(Host[p]) : <<q, "st">> \in u.dirty
          /\ At(u, row, Host[p]) >= ForkStep
    BY <1>1, <1>2, Sorts DEF Good, Written
  <2>3. /\ \A p \in Flows : <<p, "st">> \in u.dirty => u.mem[p].st # "none"
        /\ \A p \in Leaf : <<p, "st">> \in u.dirty /\ u.mem[p].st = "active" => row[p].st = "none"
        /\ \A f \in Forks : <<f, "at">> \in u.dirty => St(u, row, f) # "none"
        /\ \A f \in Forks : <<f, "at">> \in u.dirty /\ u.mem[f].at < ForkStep => Spawns(u, row, f)
    BY ZenonT(60), <1>1, <1>2, Sorts DEF Good, Written
  <2> QED BY <2>1, <2>2, <2>3 DEF Written
<1>5. \A p \in Paths : KnownSt(t, row, p) # "none" => KnownSt(u, row, p) # "none"
  <2> SUFFICES ASSUME NEW p \in Paths, KnownSt(t, row, p) # "none"
               PROVE  KnownSt(u, row, p) # "none"
    OBVIOUS
  <2>1. p \in Flows /\ St(t, row, p) # "none"
    BY Sorts DEF Good, Seen, KnownSt, St
  <2> QED BY <1>1, <2>1 DEF KnownSt, St
<1>6. Passing(s, u, row)
  <2>1. s = Scheduler => \A f \in Forks \cap u.read :
          u.mem[f].at < ForkStep => At(u, row, f) < ForkStep
    BY <1>1, <1>2, Sorts DEF Good, Passing
  <2> QED BY <1>1, <1>5, <2>1 DEF Good, Passing
<1> QED BY <1>3, <1>4, <1>5, <1>6 DEF Good, Keeps

\* A fork whose flow is not there yet has no threads, not even written ones.
LEMMA NotYet ==
  ASSUME row \in Rows, RowsGood(row, joins), NEW s, NEW t \in Transactions, Good(s, t, row),
         NEW f \in Forks, At(t, row, f) < ForkStep
  PROVE  \A q \in Children(f) : Unborn(t, row, q)
<1> SUFFICES ASSUME NEW q \in Children(f) PROVE Unborn(t, row, q)
  OBVIOUS
<1>1. f \in Flows /\ q \in Paths /\ Host[q] = f /\ row[f].at \in Nat /\ t.mem[f].at \in Nat
  BY Sorts, MemOf, RowOf DEF Row
<1>2. row[q].st = "none"
  <2> SUFFICES ASSUME row[q].st # "none" PROVE FALSE
    OBVIOUS
  <2>1. row[f].at >= ForkStep /\ row[f].st # "none"
    BY DEF RowsGood
  <2>2. <<f, "at">> \in t.dirty /\ t.mem[f].at < ForkStep
    BY <1>1, <2>1, Sorts DEF At
  <2>3. Spawns(t, row, f)
    BY <2>2 DEF Good, Written
  <2> QED BY <2>1, <2>3 DEF Spawns
<1>3. <<q, "st">> \notin t.dirty
  <2> SUFFICES ASSUME <<q, "st">> \in t.dirty PROVE FALSE
    OBVIOUS
  <2>1. At(t, row, f) >= ForkStep
    BY <1>1, <1>2 DEF Good, Written, Spawns
  <2> QED BY <1>1, <2>1, Sorts DEF At
<1> QED BY <1>2, <1>3 DEF Unborn

\* A flow at its fork is there.
LEMMA AtIsThere ==
  ASSUME RowsGood(row, joins), NEW s, NEW t, Good(s, t, row),
         NEW f \in Forks, At(t, row, f) >= ForkStep
  PROVE  St(t, row, f) # "none"
BY Sorts DEF RowsGood, Good, Written, At, St

LEMMA SpawnGood ==
  ASSUME row \in Rows, RowsGood(row, joins), NEW t \in Transactions, Good(Scheduler, t, row),
         NEW f \in Forks, At(t, row, f) >= ForkStep,
         \A q \in Children(f) : Unborn(t, row, q),
         NEW u, u = Spawned(t, f)
  PROVE  /\ Good(Scheduler, u, row) /\ Keeps(t, u)
         /\ u.dirty = t.dirty \cup Children(f) \X {"st", "at"}
<1> DEFINE K == t.list \cup {Root}
           e == Expire(t, K)
           one == [Blank EXCEPT !.st = "active", !.at = 1]
           m == [p \in Flows |-> IF p \in Children(f) THEN one ELSE e.mem[p]]
<1>1. /\ e.dirty = t.dirty /\ e.log = t.log /\ e.list = t.list /\ e.todo = t.todo
      /\ e.op = t.op /\ e.read = t.read \cap K /\ e \in Transactions
      /\ \A p \in Flows : <<p, "at">> \in t.dirty => e.mem[p].at = t.mem[p].at
  <2> HIDE DEF K
  <2>1. ASSUME NEW x, x = Expire(t, K)
        PROVE  /\ x.dirty = t.dirty /\ x.log = t.log /\ x.list = t.list /\ x.todo = t.todo
               /\ x.op = t.op /\ x.read = t.read \cap K /\ x \in Transactions
               /\ \A p \in Flows : <<p, "at">> \in t.dirty => x.mem[p].at = t.mem[p].at
    <3>1. /\ x.dirty = t.dirty /\ x.log = t.log /\ x.list = t.list /\ x.todo = t.todo
          /\ x.op = t.op /\ x.read = t.read \cap K /\ x \in Transactions
          /\ \A p \in Flows :
               /\ x.mem[p].st = IF p \in K \/ <<p, "st">> \in t.dirty THEN t.mem[p].st ELSE "none"
               /\ x.mem[p].at = IF p \in K \/ <<p, "at">> \in t.dirty THEN t.mem[p].at ELSE 0
      BY <2>1, ExpireIs
    <3> QED BY <3>1
  <2> QED BY <2>1
<1>2. Good(Scheduler, e, row) /\ Keeps(t, e)
  <2>1. K \cap Paths \subseteq t.list
    BY Sorts
  <2> QED BY <2>1, ExpireGood
<1>3. u = [e EXCEPT !.mem = m, !.dirty = @ \cup Children(f) \X {"st", "at"}]
  BY <1>1 DEF Spawned, Transactions
<1> HIDE DEF e, m
<1>4. At(e, row, f) = At(t, row, f)
  <2>1. f \in Flows
    BY Sorts
  <2> QED BY <1>1, <2>1 DEF At
<1>5. /\ u.dirty = e.dirty \cup Children(f) \X {"st", "at"}
      /\ u.log = e.log /\ u.list = e.list /\ u.todo = e.todo
      /\ u.op = e.op /\ u.read = e.read
      /\ \A q \in Flows \ Children(f) : u.mem[q] = e.mem[q]
      /\ \A q \in Children(f) : u.mem[q].st = "active" /\ u.mem[q].at = 1
  <2>1. \A q \in Children(f) : q \in Flows
    BY Sorts
  <2>2. one.st = "active" /\ one.at = 1
    BY DEF Blank
  <2> QED BY <1>1, <1>3, <2>1, <2>2 DEF m, Transactions
<1>6. \A q \in Children(f) : q \in Paths /\ q \in Flows /\ Host[q] = f
                            /\ <<q, "st">> \notin e.dirty /\ row[q].st = "none"
  BY <1>1, Sorts DEF Unborn
<1>7. \A q \in Flows \ Children(f) :
        /\ KnownSt(u, row, q) = KnownSt(e, row, q) /\ St(u, row, q) = St(e, row, q)
        /\ At(u, row, q) = At(e, row, q)
        /\ Spawns(u, row, q) <=> Spawns(e, row, q)
        /\ <<q, "st">> \in u.dirty <=> <<q, "st">> \in e.dirty
        /\ <<q, "at">> \in u.dirty <=> <<q, "at">> \in e.dirty
  BY <1>5 DEF KnownSt, St, At, Spawns
<1>8. \A q \in Children(f) :
        /\ KnownSt(u, row, q) = "active" /\ St(u, row, q) = "active" /\ At(u, row, q) = 1
        /\ Spawns(u, row, q)
  BY <1>5, <1>6 DEF KnownSt, St, At, Spawns
<1>9. \A g \in Forks : At(e, row, g) >= ForkStep => g \notin Children(f)
  <2> SUFFICES ASSUME NEW g \in Forks, At(e, row, g) >= ForkStep, g \in Children(f) PROVE FALSE
    OBVIOUS
  <2>1. St(e, row, g) # "none"
    BY <1>2, AtIsThere
  <2> QED BY <1>6, <2>1 DEF St
<1>10. Seen(u, row)
  <2>1. \A p \in Paths \cap u.read : u.mem[p].st # "none" => St(u, row, p) # "none"
    <3> SUFFICES ASSUME NEW p \in Paths \cap u.read, u.mem[p].st # "none", p \notin Children(f)
                 PROVE  St(u, row, p) # "none"
      BY <1>8
    <3>1. p \in Flows \ Children(f) /\ p \in Paths \cap e.read
      BY <1>5, Sorts
    <3>2. e.mem[p].st # "none"
      BY <1>5, <3>1
    <3>3. St(e, row, p) # "none"
      BY <1>2, <3>1, <3>2 DEF Good, Seen
    <3> QED BY <1>7, <3>1, <3>3
  <2>2. \A g \in Forks : \A p, q \in Children(g) :
          p \in u.read /\ u.mem[p].st = "none" => q \in u.read /\ u.mem[q].st = "none"
    <3> SUFFICES ASSUME NEW g \in Forks, NEW p \in Children(g), NEW q \in Children(g),
                        p \in u.read, u.mem[p].st = "none"
                 PROVE  q \in u.read /\ u.mem[q].st = "none"
      OBVIOUS
    <3>1. p \in Flows /\ q \in Flows /\ Host[p] = g /\ Host[q] = g /\ p \notin Children(f)
      BY <1>5, Sorts
    <3>2. q \notin Children(f)
      BY <1>6, <3>1
    <3> QED BY <1>2, <1>5, <3>1, <3>2 DEF Good, Seen
  <2>3. \A p \in Leaf : u.mem[p].st # "forked"
    <3> SUFFICES ASSUME NEW p \in Leaf, p \notin Children(f) PROVE u.mem[p].st # "forked"
      BY <1>5
    <3>1. p \in Flows \ Children(f)
      BY Sorts
    <3> QED BY <1>2, <1>5, <3>1 DEF Good, Seen
  <2>4. \A p \in Leaf \cap u.read : u.mem[p].st \in Over => St(u, row, p) \in Over
    <3> SUFFICES ASSUME NEW p \in Leaf \cap u.read, u.mem[p].st \in Over, p \notin Children(f)
                 PROVE  St(u, row, p) \in Over
      BY <1>5 DEF Over
    <3>1. p \in Flows \ Children(f) /\ p \in e.read
      BY <1>5, Sorts
    <3> QED BY <1>2, <1>5, <1>7, <3>1 DEF Good, Seen
  <2> QED BY <2>1, <2>2, <2>3, <2>4 DEF Seen
<1>11. Written(Scheduler, u, row)
  <2>1. \A p \in Flows : <<p, "st">> \in u.dirty => u.mem[p].st # "none"
    BY <1>2, <1>5, <1>7 DEF Good, Written
  <2>2. \A p \in Leaf : <<p, "st">> \in u.dirty /\ u.mem[p].st = "active" => row[p].st = "none"
    BY <1>2, <1>5, <1>6, <1>7, Sorts DEF Good, Written
  <2>3. \A p \in Paths : Spawns(u, row, p) =>
          /\ \A q \in Children(Host[p]) : <<q, "st">> \in u.dirty
          /\ At(u, row, Host[p]) >= ForkStep
    <3> SUFFICES ASSUME NEW p \in Paths, Spawns(u, row, p)
                 PROVE  /\ \A q \in Children(Host[p]) : <<q, "st">> \in u.dirty
                        /\ At(u, row, Host[p]) >= ForkStep
      OBVIOUS
    <3>1. p \in Flows /\ Host[p] \in Forks /\ Host[p] \in Flows
      BY Sorts
    <3>2. CASE p \in Children(f)
      <4>1. Host[p] = f /\ f \notin Children(f)
        BY <1>4, <1>6, <1>9, <3>2
      <4> QED BY <1>4, <1>5, <1>7, <3>1, <4>1
    <3>3. CASE p \notin Children(f)
      <4>1. /\ \A q \in Children(Host[p]) : <<q, "st">> \in e.dirty
            /\ At(e, row, Host[p]) >= ForkStep
        BY <1>2, <1>7, <3>1, <3>3 DEF Good, Written
      <4> QED BY <1>5, <1>7, <1>9, <3>1, <4>1
    <3> QED BY <3>2, <3>3
  <2>4. \A g \in Forks : <<g, "at">> \in u.dirty => St(u, row, g) # "none"
    BY <1>2, <1>7, <1>8, Sorts DEF Good, Written
  <2>5. \A g \in Forks : <<g, "at">> \in u.dirty /\ u.mem[g].at < ForkStep => Spawns(u, row, g)
    BY ZenonT(60), <1>2, <1>5, <1>7, <1>8, Sorts DEF Good, Written
  <2>6. \A g \in u.log : \A p \in Children(g) \ Forks : St(u, row, p) \in Over
    <3> SUFFICES ASSUME NEW g \in e.log, NEW p \in Children(g) \ Forks PROVE St(u, row, p) \in Over
      BY <1>5
    <3>1. g \in Forks /\ p \in Flows
      BY <1>1, Sorts DEF Transactions
    <3>2. St(e, row, p) \in Over
      BY <1>2 DEF Good, Written
    <3>3. p \notin Children(f)
      BY <1>6, <3>2 DEF St, Over
    <3> QED BY <1>7, <3>1, <3>2, <3>3
  <2> QED BY <2>1, <2>2, <2>3, <2>4, <2>5, <2>6 DEF Written
<1>12. Passing(Scheduler, u, row)
  <2>1. \A g \in Forks \cap u.read : u.mem[g].at < ForkStep => At(u, row, g) < ForkStep
    <3> SUFFICES ASSUME NEW g \in Forks \cap u.read, u.mem[g].at < ForkStep
                 PROVE  At(u, row, g) < ForkStep
      OBVIOUS
    <3>1. g \in Flows /\ ForkStep = 2
      BY Sorts
    <3>2. CASE g \in Children(f)
      BY <1>8, <3>1, <3>2
    <3>3. CASE g \notin Children(f)
      <4>1. g \in Forks \cap e.read /\ e.mem[g].at < ForkStep
        BY <1>5, <3>1, <3>3
      <4> QED BY <1>2, <1>7, <3>1, <3>3, <4>1 DEF Good, Passing
    <3> QED BY <3>2, <3>3
  <2>2. \A p \in Paths \cap u.list : row[p].st # "none" /\ KnownSt(u, row, p) # "none"
    BY <1>2, <1>5, <1>7, <1>8, Sorts DEF Good, Passing
  <2> QED BY <1>2, <1>5, <2>1, <2>2 DEF Good, Passing
<1>13. Keeps(t, u)
  BY <1>2, <1>7, <1>8, Sorts DEF Keeps
<1> QED BY <1>1, <1>5, <1>10, <1>11, <1>12, <1>13 DEF Good

\* _check_fork_join, which has read all threads and found none of the fork active.
LEMMA LogGood ==
  ASSUME NEW s, NEW t \in Transactions, Good(s, t, row), Paths \subseteq t.read,
         NEW f \in Forks, Members(t, f) # {}, StillActive(t, f) = {},
         NEW u, u = [t EXCEPT !.log = @ \cup {f}]
  PROVE  Good(s, u, row) /\ Keeps(t, u)
<1>1. /\ u.dirty = t.dirty /\ u.log = t.log \cup {f} /\ u.list = t.list /\ u.todo = t.todo
      /\ u.op = t.op /\ u.read = t.read /\ u.mem = t.mem
  BY DEF Transactions
<1>2. \A p \in Children(f) : p \in Paths /\ p \in t.read /\ Known(t, p).st = t.mem[p].st
  BY Sorts DEF Known, Columns
<1>3. \A p \in Children(f) : t.mem[p].st # "none" /\ t.mem[p].st # "active"
  <2>1. PICK q \in Children(f) : t.mem[q].st # "none"
    BY <1>2 DEF Members
  <2> QED BY <1>2, <2>1 DEF Good, Seen, StillActive, Members
<1>4. \A p \in Children(f) \ Forks : St(t, row, p) \in Over
  <2> SUFFICES ASSUME NEW p \in Children(f) \ Forks PROVE St(t, row, p) \in Over
    OBVIOUS
  <2>1. p \in Leaf \cap t.read /\ p \in Flows
    BY <1>2, Sorts DEF Leaf
  <2>2. t.mem[p].st \in Status /\ t.mem[p].st # "forked"
    BY <2>1, MemOf, RowOf DEF Good, Seen, Row
  <2>3. t.mem[p].st \in Over
    BY <1>3, <2>2 DEF Over, Status
  <2> QED BY <2>1, <2>3 DEF Good, Seen
<1>5. \A p : /\ KnownSt(u, row, p) = KnownSt(t, row, p)
             /\ St(u, row, p) = St(t, row, p) /\ At(u, row, p) = At(t, row, p)
             /\ Spawns(u, row, p) <=> Spawns(t, row, p)
  BY <1>1 DEF KnownSt, St, At, Spawns
<1>6. Seen(u, row) /\ Passing(s, u, row)
  <2>1. Seen(u, row)
    <3>1. Seen(t, row)
      BY DEF Good
    <3>2. \A p : St(u, row, p) = St(t, row, p)
      BY <1>5
    <3>3. u.mem = t.mem /\ u.read = t.read
      BY <1>1
    <3>4. \A p \in Paths \cap u.read : u.mem[p].st # "none" => St(u, row, p) # "none"
      BY <3>1, <3>2, <3>3 DEF Seen
    <3>5. \A p \in Leaf \cap u.read : u.mem[p].st \in Over => St(u, row, p) \in Over
      BY <3>1, <3>2, <3>3 DEF Seen
    <3>6. /\ \A p \in Leaf : u.mem[p].st # "forked"
          /\ \A g \in Forks : \A p, q \in Children(g) :
               p \in u.read /\ u.mem[p].st = "none" => q \in u.read /\ u.mem[q].st = "none"
      BY <3>1, <3>3 DEF Seen
    <3> QED BY <3>4, <3>5, <3>6 DEF Seen
  <2>2. Passing(s, u, row)
    BY <1>1, <1>5 DEF Good, Passing
  <2> QED BY <2>1, <2>2
<1>7. Written(s, u, row)
  BY <1>1, <1>4, <1>5 DEF Good, Written
<1> QED BY <1>5, <1>6, <1>7 DEF Good, Keeps

\* The end of the threads that an exit has read as active.
LEMMA DoomGood ==
  ASSUME row \in Rows, RowsGood(row, joins), NEW s, NEW t \in Transactions, Good(s, t, row),
         NEW u, u = [t EXCEPT
                      !.mem = [p \in Flows |-> IF p \in Doomed(t) THEN [@[p] EXCEPT !.st = "exited"]
                                               ELSE @[p]],
                      !.dirty = @ \cup Doomed(t) \X {"st"}]
  PROVE  Good(s, u, row) /\ Keeps(t, u) /\ u.dirty = t.dirty \cup Doomed(t) \X {"st"}
<1> DEFINE K == Doomed(t)
           m == [p \in Flows |-> IF p \in K THEN [t.mem[p] EXCEPT !.st = "exited"] ELSE t.mem[p]]
<1>1. \A p \in K : p \in Paths /\ p \in Flows /\ p \in t.read /\ t.mem[p].st = "active"
                   /\ St(t, row, p) # "none"
  BY Sorts DEF Doomed, Good, Seen
<1>2. u = [t EXCEPT !.mem = m, !.dirty = @ \cup K \X {"st"}]
  BY DEF Transactions
<1>3. \A p \in Flows : /\ m[p].st = IF p \in K THEN "exited" ELSE t.mem[p].st
                       /\ m[p].at = t.mem[p].at
  <2> TAKE p \in Flows
  <2>1. t.mem[p] \in Row
    BY MemOf, RowOf
  <2> HIDE DEF K
  <2> QED BY <2>1 DEF Row
<1> HIDE DEF m, K
<1>4. /\ u.dirty = t.dirty \cup K \X {"st"}
      /\ u.log = t.log /\ u.list = t.list /\ u.todo = t.todo
      /\ u.op = t.op /\ u.read = t.read /\ u.mem = m
  BY <1>2 DEF Transactions
<1>5. \A p \in Flows :
        /\ At(u, row, p) = At(t, row, p)
        /\ <<p, "at">> \in u.dirty <=> <<p, "at">> \in t.dirty
        /\ Spawns(u, row, p) <=> Spawns(t, row, p)
  BY <1>1, <1>3, <1>4 DEF At, Spawns, St
<1>6. \A p \in Flows \ K :
        /\ KnownSt(u, row, p) = KnownSt(t, row, p) /\ St(u, row, p) = St(t, row, p)
        /\ <<p, "st">> \in u.dirty <=> <<p, "st">> \in t.dirty
        /\ u.mem[p].st = t.mem[p].st
  BY <1>3, <1>4 DEF KnownSt, St
<1>7. \A p \in K : /\ KnownSt(u, row, p) = "exited" /\ St(u, row, p) = "exited"
                   /\ u.mem[p].st = "exited"
  BY <1>1, <1>3, <1>4 DEF KnownSt, St
<1>8. Seen(u, row)
  <2>1. \A p \in Paths \cap u.read : u.mem[p].st # "none" => St(u, row, p) # "none"
    <3> SUFFICES ASSUME NEW p \in Paths \cap t.read, u.mem[p].st # "none", p \notin K
                 PROVE  St(u, row, p) # "none"
      BY <1>4, <1>7
    <3>1. p \in Flows \ K /\ t.mem[p].st # "none"
      BY <1>6, Sorts
    <3>2. St(t, row, p) # "none"
      BY <3>1 DEF Good, Seen
    <3> QED BY ZenonT(60), <1>6, <3>1, <3>2
  <2>2. \A f \in Forks : \A p, q \in Children(f) :
          p \in u.read /\ u.mem[p].st = "none" => q \in u.read /\ u.mem[q].st = "none"
    <3> SUFFICES ASSUME NEW f \in Forks, NEW p \in Children(f), NEW q \in Children(f),
                        p \in u.read, u.mem[p].st = "none"
                 PROVE  q \in u.read /\ u.mem[q].st = "none"
      OBVIOUS
    <3>1. p \in Flows /\ q \in Flows /\ p \notin K
      BY <1>7, Sorts
    <3>2. p \in t.read /\ t.mem[p].st = "none"
      BY <1>4, <1>6, <3>1
    <3>3. q \in t.read /\ t.mem[q].st = "none"
      BY <3>2 DEF Good, Seen
    <3> QED BY <1>1, <1>4, <1>6, <3>1, <3>3
  <2>3. \A p \in Leaf : u.mem[p].st # "forked"
    BY <1>3, <1>4, Sorts DEF Good, Seen
  <2>4. \A p \in Leaf \cap u.read : u.mem[p].st \in Over => St(u, row, p) \in Over
    BY <1>4, <1>6, <1>7, Sorts DEF Good, Seen, Over
  <2> QED BY <2>1, <2>2, <2>3, <2>4 DEF Seen
<1>9. Written(s, u, row)
  <2>1. \A p \in Flows : <<p, "st">> \in u.dirty => u.mem[p].st # "none"
    BY <1>6, <1>7 DEF Good, Written
  <2>2. \A p \in Leaf : <<p, "st">> \in u.dirty /\ u.mem[p].st = "active" => row[p].st = "none"
    BY <1>6, <1>7, Sorts DEF Good, Written
  <2>3. \A p \in Paths : Spawns(u, row, p) =>
          /\ s = Scheduler
          /\ \A q \in Children(Host[p]) : <<q, "st">> \in u.dirty
          /\ At(u, row, Host[p]) >= ForkStep
    BY <1>4, <1>5, Sorts DEF Good, Written
  <2>4. \A f \in Forks : <<f, "at">> \in u.dirty => St(u, row, f) # "none"
    BY ZenonT(60), <1>5, <1>6, <1>7, Sorts DEF Good, Written
  <2>5. \A f \in Forks : <<f, "at">> \in u.dirty /\ u.mem[f].at < ForkStep => Spawns(u, row, f)
    BY <1>3, <1>4, <1>5, Sorts DEF Good, Written
  <2>6. \A f \in u.log : \A p \in Children(f) \ Forks : St(u, row, p) \in Over
    <3> SUFFICES ASSUME NEW f \in t.log, NEW p \in Children(f) \ Forks PROVE St(u, row, p) \in Over
      BY <1>4
    <3>1. f \in Forks /\ p \in Flows
      BY Sorts DEF Transactions
    <3>2. St(t, row, p) \in Over
      BY DEF Good, Written
    <3> QED BY <1>6, <1>7, <3>1, <3>2 DEF Over
  <2> QED BY <2>1, <2>2, <2>3, <2>4, <2>5, <2>6 DEF Written
<1>10. Passing(s, u, row)
  <2>1. s = Scheduler => \A f \in Forks \cap u.read :
          u.mem[f].at < ForkStep => At(u, row, f) < ForkStep
    BY <1>3, <1>4, <1>5, Sorts DEF Good, Passing
  <2>2. \A p \in Paths \cap u.list : row[p].st # "none" /\ KnownSt(u, row, p) # "none"
    <3> SUFFICES ASSUME NEW p \in Paths \cap t.list
                 PROVE  row[p].st # "none" /\ KnownSt(u, row, p) # "none"
      BY <1>4
    <3>1. p \in Flows /\ row[p].st # "none" /\ KnownSt(t, row, p) # "none"
      BY Sorts DEF Good, Passing
    <3> QED BY <1>6, <1>7, <3>1
  <2>3. s # Scheduler => \A f \in Forks : <<f, "at">> \in u.dirty => row[f].at >= ForkStep
    BY <1>5, Sorts DEF Good, Passing
  <2> QED BY <1>4, <2>1, <2>2, <2>3 DEF Good, Passing
<1>11. Keeps(t, u)
  BY <1>6, <1>7, Sorts DEF Keeps
<1> QED BY <1>4, <1>8, <1>9, <1>10, <1>11 DEF Good, K

\* An action that commits nothing: the enrollment is read again.
LEMMA RefreshGood ==
  ASSUME row \in Rows, RowsGood(row, joins), NEW s, NEW t \in Transactions, Good(s, t, row),
         NEW u, u = Refreshed(t, Expire(t, t.list))
  PROVE  Good(s, u, row) /\ Keeps(t, u) /\ u.dirty = t.dirty
<1> DEFINE e == Expire(t, t.list)
           m == [e.mem EXCEPT ![Root] = Merged(t)[Root]]
<1>1. Good(s, e, row) /\ Keeps(t, e) /\ e \in Transactions
  BY ExpireGood, ExpireIs
<1>2. e.dirty = t.dirty
  BY DEF Expire, Transactions
<1>3. \A p \in Flows : /\ <<p, "st">> \in t.dirty => e.mem[p].st = t.mem[p].st
                       /\ <<p, "at">> \in t.dirty => e.mem[p].at = t.mem[p].at
  <2> HIDE DEF e
  <2>1. PICK x : x = Expire(t, t.list)
    OBVIOUS
  <2>2. /\ x \in Transactions
        /\ x.dirty = t.dirty /\ x.log = t.log /\ x.list = t.list /\ x.todo = t.todo
        /\ x.op = t.op /\ x.read = t.read \cap t.list
        /\ \A p \in Flows :
         /\ x.mem[p].st = IF p \in t.list \/ <<p, "st">> \in t.dirty THEN t.mem[p].st ELSE "none"
         /\ x.mem[p].at = IF p \in t.list \/ <<p, "at">> \in t.dirty THEN t.mem[p].at ELSE 0
    BY <2>1, ExpireIs
  <2>3. e = x
    BY <2>1 DEF e
  <2> QED BY <2>2, <2>3
<1> HIDE DEF e
<1>4. \A p \in Flows : St(e, row, p) = St(t, row, p) /\ At(e, row, p) = At(t, row, p)
  BY <1>2, <1>3 DEF St, At
<1>5. m[Root].st = St(e, row, Root) /\ m[Root].at = At(e, row, Root)
      /\ \A p \in Paths : m[p] = e.mem[p]
  <2>1. m[Root] = Merged(t)[Root] /\ \A p \in Paths : m[p] = e.mem[p]
    BY <1>1, MemOf, Sorts DEF Rows
  <2>2. Merged(t)[Root].st = St(t, row, Root) /\ Merged(t)[Root].at = At(t, row, Root)
    BY Sorts DEF Merged, Columns, St, At
  <2> HIDE DEF m
  <2> QED BY <1>4, <2>1, <2>2, Sorts
<1>6. u = [e EXCEPT !.mem = m, !.read = @ \cup {Root}, !.funnel = "unread", !.acted = TRUE]
  BY <1>1 DEF Refreshed, Transactions, e
<1> HIDE DEF m
<1>7. /\ u.dirty = e.dirty /\ u.log = e.log /\ u.list = e.list /\ u.todo = e.todo
      /\ u.op = e.op /\ u.read = e.read \cup {Root} /\ u.mem = m
  BY <1>1, <1>6 DEF Transactions
<1>8. \A p \in Paths : KnownSt(u, row, p) = KnownSt(e, row, p) /\ u.mem[p] = e.mem[p]
  BY <1>5, <1>7, Sorts DEF KnownSt
<1>9. \A p \in Flows : /\ St(u, row, p) = St(e, row, p) /\ At(u, row, p) = At(e, row, p)
                       /\ Spawns(u, row, p) <=> Spawns(e, row, p)
                       /\ <<p, "st">> \in u.dirty => u.mem[p].st = e.mem[p].st
                       /\ <<p, "at">> \in u.dirty => u.mem[p].at = e.mem[p].at
  BY <1>5, <1>7, Sorts DEF St, At, Spawns
<1>10. Seen(u, row)
  <2>1. \A p \in Paths : p \in Flows /\ (p \in u.read <=> p \in e.read)
    BY <1>7, Sorts
  <2>2. \A p \in Paths \cap u.read : u.mem[p].st # "none" => St(u, row, p) # "none"
    BY <1>1, <1>8, <1>9, <2>1 DEF Good, Seen
  <2>3. \A f \in Forks : \A p, q \in Children(f) :
          p \in u.read /\ u.mem[p].st = "none" => q \in u.read /\ u.mem[q].st = "none"
    BY <1>1, <1>8, <2>1, Sorts DEF Good, Seen
  <2>4. \A p \in Leaf : u.mem[p].st # "forked"
    BY <1>1, <1>8, Sorts DEF Good, Seen
  <2>5. \A p \in Leaf \cap u.read : u.mem[p].st \in Over => St(u, row, p) \in Over
    BY <1>1, <1>8, <1>9, <2>1, Sorts DEF Good, Seen
  <2> QED BY <2>2, <2>3, <2>4, <2>5 DEF Seen
<1>11. Written(s, u, row)
  <2>1. \A f \in u.log : \A p \in Children(f) \ Forks : St(u, row, p) \in Over
    <3>1. \A f \in e.log : f \in Forks /\ Children(f) \subseteq Flows
      BY <1>1, Sorts DEF Transactions
    <3> QED BY <1>1, <1>7, <1>9, <3>1 DEF Good, Written
  <2>2. \A p \in Paths : Spawns(u, row, p) =>
          /\ s = Scheduler
          /\ \A q \in Children(Host[p]) : <<q, "st">> \in u.dirty
          /\ At(u, row, Host[p]) >= ForkStep
    BY <1>1, <1>7, <1>9, Sorts DEF Good, Written
  <2>3. /\ \A p \in Flows : <<p, "st">> \in u.dirty => u.mem[p].st # "none"
        /\ \A p \in Leaf : <<p, "st">> \in u.dirty /\ u.mem[p].st = "active" => row[p].st = "none"
        /\ \A f \in Forks : <<f, "at">> \in u.dirty => St(u, row, f) # "none"
        /\ \A f \in Forks : <<f, "at">> \in u.dirty /\ u.mem[f].at < ForkStep => Spawns(u, row, f)
    BY ZenonT(60), <1>1, <1>7, <1>9, Sorts DEF Good, Written
  <2> QED BY <2>1, <2>2, <2>3 DEF Written
<1>12. Passing(s, u, row)
  <2>1. s = Scheduler => \A f \in Forks \cap u.read :
          u.mem[f].at < ForkStep => At(u, row, f) < ForkStep
    <3> SUFFICES ASSUME s = Scheduler, NEW f \in Forks \cap u.read, u.mem[f].at < ForkStep
                 PROVE  At(u, row, f) < ForkStep
      OBVIOUS
    <3>1. CASE f = Root
      BY <1>5, <1>7, <1>9, <3>1, Sorts
    <3>2. CASE f \in Paths
      <4>1. f \in Forks \cap e.read /\ e.mem[f].at < ForkStep
        BY <1>7, <1>8, <3>2, Sorts
      <4> QED BY <1>1, <1>9, <4>1, Sorts DEF Good, Passing
    <3> QED BY <3>1, <3>2, Sorts
  <2> QED BY <1>1, <1>7, <1>8, <2>1 DEF Good, Passing
<1> QED BY <1>1, <1>2, <1>7, <1>8, <1>10, <1>11, <1>12 DEF Good, Keeps

-----------------------------------------------------------------------------
(* What a commit makes of the rows. *)

\* What another session can rely on.
After(s, t, r) ==
  /\ \A p \in Flows : row[p].st # "none" => r[p].st # "none"
  /\ \A p \in Leaf : row[p].st \in Over => r[p].st \in Over
  /\ \A f \in Forks : row[f].at >= ForkStep => r[f].at >= ForkStep
  /\ \A p \in Flows : <<p, "st">> \notin t.dirty => r[p].st = row[p].st
  /\ s # Scheduler => \A p \in Paths : row[p].st = "none" => r[p].st = "none"
  /\ s # Scheduler => \A f \in Forks : row[f].at < ForkStep => r[f].at = row[f].at

LEMMA CommitRows ==
  ASSUME row \in Rows, joins \in [Forks -> Nat], RowsGood(row, joins),
         NEW s, NEW t \in Transactions, Good(s, t, row)
  PROVE  RowsGood(Merged(t), Logged(t)) /\ After(s, t, Merged(t))
<1> DEFINE r == Merged(t)
<1>1. \A p \in Flows : r[p].st = St(t, row, p) /\ r[p].at = At(t, row, p)
  BY DEF Merged, Columns, St, At
<1>2. \A p \in Flows : row[p].at \in Nat /\ t.mem[p].at \in Nat /\ t.mem[p].st \in Status
  BY MemOf, RowOf DEF Row
<1>3. \A f \in Forks : Logged(t)[f] > 0 => joins[f] > 0 \/ f \in t.log
  BY DEF Logged
<1> HIDE DEF r
<1>4. \A p \in Flows : row[p].st # "none" => r[p].st # "none"
  BY <1>1 DEF St, Good, Written
<1>5. \A p \in Leaf : row[p].st \in Over => r[p].st \in Over
  <2> SUFFICES ASSUME NEW p \in Leaf, row[p].st \in Over, <<p, "st">> \in t.dirty
               PROVE  t.mem[p].st \in Over
    BY <1>1, Sorts DEF St
  <2>1. p \in Flows
    BY Sorts
  <2>2. t.mem[p].st # "none" /\ t.mem[p].st # "active" /\ t.mem[p].st # "forked"
    BY <2>1 DEF Good, Written, Seen, Over
  <2> QED BY <1>2, <2>1, <2>2 DEF Status, Over
<1>6. \A f \in Forks : row[f].at >= ForkStep => r[f].at >= ForkStep
  <2> SUFFICES ASSUME NEW f \in Forks, row[f].at >= ForkStep PROVE r[f].at >= ForkStep
    OBVIOUS
  <2>1. f \in Flows /\ ForkStep = 2
    BY Sorts
  <2>2. <<f, "at">> \in t.dirty => t.mem[f].at >= ForkStep
    <3>1. ~ Spawns(t, row, f)
      BY DEF RowsGood, Spawns
    <3>2. <<f, "at">> \in t.dirty => ~ (t.mem[f].at < ForkStep)
      BY <3>1 DEF Good, Written
    <3> QED BY <1>2, <2>1, <3>2
  <2> QED BY <1>1, <2>1, <2>2 DEF At
<1>7. \A p \in Flows : <<p, "st">> \notin t.dirty => r[p].st = row[p].st
  BY <1>1 DEF St
<1>8. s # Scheduler => \A p \in Paths : row[p].st = "none" => r[p].st = "none"
  BY <1>7, Sorts DEF Good, Written, Spawns
<1>9. s # Scheduler => \A f \in Forks : row[f].at < ForkStep => r[f].at = row[f].at
  <2> SUFFICES ASSUME s # Scheduler, NEW f \in Forks, row[f].at < ForkStep
               PROVE  r[f].at = row[f].at
    OBVIOUS
  <2>1. f \in Flows /\ ForkStep \in Nat
    BY Sorts
  <2>2. <<f, "at">> \notin t.dirty
    BY <1>2, <2>1 DEF Good, Passing
  <2> QED BY <1>1, <2>1, <2>2 DEF At
<1>10. After(s, t, r)
  BY <1>4, <1>5, <1>6, <1>7, <1>8, <1>9 DEF After
<1>11. RowsGood(r, Logged(t))
  <2>1. r[Root].st # "none"
    BY <1>4, Sorts DEF RowsGood
  <2>2. \A p \in Leaf : r[p].st # "forked"
    BY <1>1, Sorts DEF St, RowsGood, Good, Seen
  <2>3. \A f \in Forks : r[f].at >= ForkStep => r[f].st # "none"
    BY <1>1, AtIsThere, Sorts
  <2>4. \A f \in Forks : \A p \in Children(f) : r[p].st # "none" => r[f].at >= ForkStep
    <3> SUFFICES ASSUME NEW f \in Forks, NEW p \in Children(f), r[p].st # "none",
                        row[p].st = "none"
                 PROVE  r[f].at >= ForkStep
      BY <1>6 DEF RowsGood
    <3>1. f \in Flows /\ p \in Flows /\ p \in Paths /\ Host[p] = f
      BY Sorts
    <3>2. Spawns(t, row, p)
      BY <1>7, <3>1 DEF Spawns
    <3> QED BY <1>1, <3>1, <3>2 DEF Good, Written
  <2>5. \A f \in Forks : \A p, q \in Children(f) : r[p].st = "none" => r[q].st = "none"
    <3> SUFFICES ASSUME NEW f \in Forks, NEW p \in Children(f), NEW q \in Children(f),
                        r[p].st = "none"
                 PROVE  r[q].st = "none"
      OBVIOUS
    <3>1. p \in Flows /\ q \in Flows /\ q \in Paths /\ Host[q] = f
      BY Sorts
    <3>2. row[p].st = "none" /\ row[q].st = "none"
      <4>1. row[p].st = "none"
        BY <1>4, <3>1
      <4> QED BY <4>1 DEF RowsGood
    <3>3. <<q, "st">> \in t.dirty => <<p, "st">> \in t.dirty
      BY <3>1, <3>2 DEF Good, Written, Spawns
    <3>4. <<p, "st">> \notin t.dirty
      BY <1>1, <3>1 DEF St, Good, Written
    <3> QED BY <1>7, <3>1, <3>2, <3>3, <3>4
  <2>6. \A f \in Forks : Logged(t)[f] > 0 => \A p \in Children(f) \ Forks : r[p].st \in Over
    <3> SUFFICES ASSUME NEW f \in Forks, Logged(t)[f] > 0, NEW p \in Children(f) \ Forks
                 PROVE  r[p].st \in Over
      OBVIOUS
    <3>1. p \in Leaf /\ p \in Flows
      BY Sorts DEF Leaf
    <3>2. CASE joins[f] > 0
      BY <1>5, <3>1, <3>2 DEF RowsGood
    <3>3. CASE f \in t.log
      BY <1>1, <3>1, <3>3 DEF Good, Written
    <3> QED BY <1>3, <3>2, <3>3
  <2> QED BY <2>1, <2>2, <2>3, <2>4, <2>5, <2>6 DEF RowsGood
<1> QED BY <1>10, <1>11 DEF r

\* What another session knows stays true.
LEMMA CarryGood ==
  ASSUME row \in Rows, NEW s, NEW t, NEW r \in Rows, After(s, t, r),
         NEW x, x # s, NEW w \in Transactions, Good(x, w, row), CallsGood(x, w, row),
         \A p \in Flows : <<p, "st">> \in w.dirty => <<p, "st">> \notin t.dirty
  PROVE  Good(x, w, r) /\ CallsGood(x, w, r)
<1>1. \A p \in Flows :
        /\ row[p].at \in Nat /\ r[p].at \in Nat /\ w.mem[p].at \in Nat
        /\ row[p].st # "none" => r[p].st # "none"
        /\ <<p, "st">> \in w.dirty => r[p].st = row[p].st
  BY MemOf, RowOf DEF After, Row
<1>2. \A p \in Flows :
        /\ St(w, row, p) # "none" => St(w, r, p) # "none"
        /\ KnownSt(w, row, p) # "none" => KnownSt(w, r, p) # "none"
        /\ Spawns(w, r, p) <=> Spawns(w, row, p)
  BY <1>1 DEF St, KnownSt, Spawns
<1>3. \A p \in Leaf : St(w, row, p) \in Over => St(w, r, p) \in Over
  BY DEF St, After
<1>4. \A f \in Forks : At(w, row, f) >= ForkStep => At(w, r, f) >= ForkStep
  BY DEF At, After
<1>5. Seen(w, r)
  <2>1. \A p \in Paths \cap w.read : w.mem[p].st # "none" => St(w, r, p) # "none"
    BY <1>2, Sorts DEF Good, Seen
  <2>2. \A p \in Leaf \cap w.read : w.mem[p].st \in Over => St(w, r, p) \in Over
    BY <1>3 DEF Good, Seen
  <2> QED BY <2>1, <2>2 DEF Good, Seen
<1>6. Written(x, w, r)
  <2>1. \A p \in Leaf : <<p, "st">> \in w.dirty /\ w.mem[p].st = "active" => r[p].st = "none"
    BY <1>1, Sorts DEF Good, Written
  <2>2. \A p \in Paths : Spawns(w, r, p) =>
          /\ x = Scheduler
          /\ \A q \in Children(Host[p]) : <<q, "st">> \in w.dirty
          /\ At(w, r, Host[p]) >= ForkStep
    BY <1>2, <1>4, Sorts DEF Good, Written
  <2>3. \A f \in Forks : <<f, "at">> \in w.dirty => St(w, r, f) # "none"
    BY <1>2, Sorts DEF Good, Written
  <2>4. \A f \in Forks : <<f, "at">> \in w.dirty /\ w.mem[f].at < ForkStep => Spawns(w, r, f)
    BY <1>2, Sorts DEF Good, Written
  <2>5. \A f \in w.log : \A p \in Children(f) \ Forks : St(w, r, p) \in Over
    <3> SUFFICES ASSUME NEW f \in w.log, NEW p \in Children(f) \ Forks PROVE St(w, r, p) \in Over
      OBVIOUS
    <3>1. p \in Leaf
      BY Sorts DEF Leaf, Transactions
    <3> QED BY <1>3, <3>1 DEF Good, Written
  <2> QED BY <2>1, <2>2, <2>3, <2>4, <2>5 DEF Good, Written
<1>7. Passing(x, w, r)
  <2>1. \A p \in Paths \cap w.list : r[p].st # "none" /\ KnownSt(w, r, p) # "none"
    BY <1>1, <1>2, Sorts DEF Good, Passing
  <2>2. x = Scheduler => \A f \in Forks \cap w.read :
          w.mem[f].at < ForkStep => At(w, r, f) < ForkStep
    <3> SUFFICES ASSUME x = Scheduler, NEW f \in Forks \cap w.read, w.mem[f].at < ForkStep
                 PROVE  At(w, r, f) < ForkStep
      OBVIOUS
    <3>1. At(w, row, f) < ForkStep
      BY DEF Good, Passing
    <3> QED BY <3>1 DEF At, After
  <2>3. /\ x # Scheduler => \A f \in Forks \cap w.list : r[f].at >= ForkStep
        /\ x # Scheduler => \A f \in Forks : <<f, "at">> \in w.dirty => r[f].at >= ForkStep
    BY DEF Good, Passing, After
  <2> QED BY <2>1, <2>2, <2>3 DEF Good, Passing
<1>8. CallsGood(x, w, r)
  <2> SUFFICES ASSUME NEW i \in DOMAIN w.calls
               PROVE  /\ CallGood(x, w, r, w.calls[i])
                      /\ Entering(w.calls[i]) => i = 1 /\ EnterGood(x, w, r, w.calls[i])
    BY DEF CallsGood
  <2> DEFINE c == w.calls[i]
  <2>1. /\ CallGood(x, w, row, c)
        /\ Entering(c) => i = 1 /\ EnterGood(x, w, row, c)
    BY DEF CallsGood
  <2> HIDE DEF c
  <2>2. CallGood(x, w, r, c)
    BY <1>2, <2>1, Sorts DEF CallGood, After
  <2>3. ASSUME Entering(c) PROVE EnterGood(x, w, r, c)
    <3>1. c.flow \in Forks /\ EnterGood(x, w, row, c)
      BY <2>1, <2>3 DEF Entering
    <3>2. s # Scheduler
      BY <3>1 DEF EnterGood
    <3>3. \A q \in Children(c.flow) : Unborn(w, r, q)
      BY <3>1, <3>2, Sorts DEF EnterGood, Unborn, After
    <3> QED BY <1>4, <3>1, <3>3 DEF EnterGood
  <2> QED BY <2>1, <2>2, <2>3 DEF c
<1> QED BY <1>5, <1>6, <1>7, <1>8 DEF Good

-----------------------------------------------------------------------------
(* What a step has to show. *)

\* The calls that a step puts on the stack.
NewCalls(s, t, r, c) ==
  \A i \in DOMAIN c :
    /\ CallGood(s, t, r, c[i])
    /\ Entering(c[i]) => i = 1 /\ EnterGood(s, t, r, c[i])

\* What w knows, and its rows, is there for t, whose rows are r.
Carries(w, t, r) ==
  /\ \A p \in Paths : KnownSt(w, row, p) # "none" => KnownSt(t, r, p) # "none"
  /\ \A f \in Forks : row[f].at >= ForkStep => r[f].at >= ForkStep

Stacked(w, t, c) == [t EXCEPT !.calls = c \o Tail(w.calls)]

\* The calls below come after them; none of those leads into a fork.
LEMMA StackGood ==
  ASSUME NEW s, NEW w \in Transactions, w.calls # <<>>, NEW r, CallsGood(s, w, row),
         NEW t \in Transactions, NEW c \in Seq(Calls), NewCalls(s, t, r, c), Carries(w, t, r),
         NEW u, u = Stacked(w, t, c), Good(s, t, r)
  PROVE  Good(s, u, r) /\ CallsGood(s, u, r)
<1> DEFINE below == Tail(w.calls)
<1>1. w.calls \in Seq(Calls) /\ below \in Seq(Calls)
  BY DEF Transactions
<1>2. /\ u.dirty = t.dirty /\ u.log = t.log /\ u.list = t.list /\ u.todo = t.todo
      /\ u.op = t.op /\ u.read = t.read /\ u.mem = t.mem /\ u.calls = c \o below
  BY DEF Stacked, Transactions
<1>3. \A i \in DOMAIN below : i + 1 \in DOMAIN w.calls /\ i + 1 # 1 /\ below[i] = w.calls[i + 1]
  BY <1>1
<1>4. \A i \in DOMAIN below : CallGood(s, t, r, below[i]) /\ ~Entering(below[i])
  <2> SUFFICES ASSUME NEW i \in DOMAIN below
               PROVE  CallGood(s, t, r, below[i]) /\ ~Entering(below[i])
    OBVIOUS
  <2> DEFINE d == below[i]
  <2>1. CallGood(s, w, row, d) /\ ~Entering(d)
    BY <1>3 DEF CallsGood
  <2> HIDE DEF d
  <2>2. CallGood(s, t, r, d)
    BY <2>1 DEF CallGood, Carries
  <2> QED BY <2>1, <2>2 DEF d
<1> HIDE DEF below
<1>5. Good(s, u, r)
  <2>1. Seen(u, r)
    BY <1>2 DEF Good, Seen, St
  <2>2. Written(s, u, r)
    BY <1>2 DEF Good, Written, Spawns, St, At
  <2>3. Passing(s, u, r)
    BY <1>2 DEF Good, Passing, KnownSt, At
  <2> QED BY <2>1, <2>2, <2>3 DEF Good
<1>6. \A d : /\ CallGood(s, u, r, d) <=> CallGood(s, t, r, d)
             /\ EnterGood(s, u, r, d) <=> EnterGood(s, t, r, d)
  BY <1>2 DEF CallGood, EnterGood, KnownSt, Unborn, At
<1>7. CallsGood(s, u, r)
  <2> SUFFICES ASSUME NEW i \in DOMAIN u.calls
               PROVE  /\ CallGood(s, u, r, u.calls[i])
                      /\ Entering(u.calls[i]) => i = 1 /\ EnterGood(s, u, r, u.calls[i])
    BY DEF CallsGood
  <2>1. CASE i \in DOMAIN c
    <3>1. u.calls[i] = c[i]
      BY <1>1, <1>2, <2>1
    <3> QED BY <1>6, <2>1, <3>1 DEF NewCalls
  <2>2. CASE i \notin DOMAIN c
    <3>1. PICK j \in DOMAIN below : u.calls[i] = below[j]
      <4>1. /\ DOMAIN u.calls = 1 .. Len(c) + Len(below) /\ DOMAIN c = 1 .. Len(c)
            /\ DOMAIN below = 1 .. Len(below) /\ Len(c) \in Nat /\ Len(below) \in Nat
        <5>1. u.calls = c \o below /\ below \in Seq(Calls)
          BY <1>1, <1>2
        <5>2. Len(c \o below) = Len(c) + Len(below) /\ c \o below \in Seq(Calls)
          BY <5>1
        <5> QED BY <5>1, <5>2
      <4>2. i - Len(c) \in DOMAIN below
        BY <2>2, <4>1
      <4>3. u.calls[i] = below[i - Len(c)]
        <5>1. below \in Seq(Calls) /\ u.calls = c \o below /\ i \in Nat /\ i > Len(c)
          BY <1>1, <1>2, <2>2, <4>1
        <5> QED BY <4>1, <5>1
      <4> QED BY <4>2, <4>3
    <3> QED BY <1>4, <1>6, <3>1
  <2> QED BY <2>1, <2>2
<1> QED BY <1>5, <1>7

\* A step that commits nothing, whose new locks nobody holds.
LEMMA SessionStep ==
  ASSUME JoinInv, TypeOK, NEW s \in Sessions, NEW u, tx' = [tx EXCEPT ![s] = u],
         UNCHANGED dbVars, Good(s, u, row), CallsGood(s, u, row),
         \A p \in Flows : <<p, "st">> \in u.dirty =>
           <<p, "st">> \in tx[s].dirty \/ \A x \in Sessions \ {s} : <<p, "st">> \notin tx[x].dirty
  PROVE  JoinInv'
<1>1. row' = row /\ joins' = joins
  BY DEF dbVars
<1>2. \A x \in Sessions : tx'[x] = IF x = s THEN u ELSE tx[x]
  BY DEF TypeOK
<1>3. \A x \in Sessions : Good(x, tx'[x], row) /\ CallsGood(x, tx'[x], row)
  BY <1>2 DEF JoinInv
<1>4. \A x, y \in Sessions : x # y =>
        \A p \in Flows : <<p, "st">> \in tx'[x].dirty => <<p, "st">> \notin tx'[y].dirty
  <2>1. \A x, y \in Sessions : x # y =>
          \A p \in Flows : <<p, "st">> \in tx[x].dirty => <<p, "st">> \notin tx[y].dirty
    BY DEF JoinInv, Locked
  <2>2. \A y \in Sessions \ {s}, p \in Flows : <<p, "st">> \in tx[y].dirty => <<p, "st">> \notin u.dirty
    BY <2>1
  <2> SUFFICES ASSUME NEW x \in Sessions, NEW y \in Sessions, x # y, NEW p \in Flows,
                      <<p, "st">> \in tx'[x].dirty
               PROVE  <<p, "st">> \notin tx'[y].dirty
    OBVIOUS
  <2>3. CASE x # s /\ y # s
    BY <1>2, <2>1, <2>3
  <2>4. CASE x = s
    BY <1>2, <2>2, <2>4
  <2>5. CASE y = s
    BY <1>2, <2>2, <2>5
  <2> QED BY <2>3, <2>4, <2>5
<1>5. RowsGood(row', joins')
  BY <1>1 DEF JoinInv
<1>6. \A x \in Sessions : Good(x, tx'[x], row') /\ CallsGood(x, tx'[x], row')
  BY <1>1, <1>3
<1>7. Locked'
  BY <1>4 DEF Locked
<1> QED BY <1>5, <1>6, <1>7 DEF JoinInv

\* A step that commits.
LEMMA CommitStep ==
  ASSUME JoinInv, TypeOK, NEW s \in Sessions, NEW u, tx' = [tx EXCEPT ![s] = u],
         row' = Merged(tx[s]), joins' = Logged(tx[s]), u.dirty = {},
         Good(s, u, Merged(tx[s])), CallsGood(s, u, Merged(tx[s]))
  PROVE  JoinInv'
<1> DEFINE r == Merged(tx[s])
<1>1. tx[s] \in Transactions /\ row \in Rows /\ joins \in [Forks -> Nat] /\ r \in Rows
  BY MergedType DEF TypeOK
<1>2. RowsGood(r, Logged(tx[s])) /\ After(s, tx[s], r)
  BY <1>1, CommitRows DEF JoinInv
<1> HIDE DEF r
<1>3. \A x \in Sessions : tx'[x] = IF x = s THEN u ELSE tx[x]
  BY DEF TypeOK
<1>4. \A x \in Sessions : Good(x, tx'[x], r) /\ CallsGood(x, tx'[x], r)
  <2> SUFFICES ASSUME NEW x \in Sessions, x # s
               PROVE  Good(x, tx[x], r) /\ CallsGood(x, tx[x], r)
    BY <1>3 DEF r
  <2>1. tx[x] \in Transactions
    BY DEF TypeOK
  <2>2. \A p \in Flows : <<p, "st">> \in tx[x].dirty => <<p, "st">> \notin tx[s].dirty
    BY DEF JoinInv, Locked
  <2> QED BY <1>1, <1>2, <2>1, <2>2, CarryGood DEF JoinInv
<1>5. Locked'
  <2>1. \A x, y \in Sessions : x # y =>
          \A p \in Flows : <<p, "st">> \in tx'[x].dirty => <<p, "st">> \notin tx'[y].dirty
    BY <1>3 DEF JoinInv, Locked
  <2> QED BY <2>1 DEF Locked
<1>6. row' = r
  BY DEF r
<1>7. \A x \in Sessions : Good(x, tx'[x], row') /\ CallsGood(x, tx'[x], row')
  BY <1>4, <1>6
<1>8. RowsGood(row', joins')
  BY <1>2, <1>6
<1> QED BY <1>5, <1>7, <1>8 DEF JoinInv

\* A call returns: t is what it makes of the transaction.
LEMMA CallStep ==
  ASSUME JoinInv, TypeOK, NEW s \in Sessions, tx[s].calls # <<>>,
         NEW t \in Transactions, NEW c \in Seq(Calls), Returns(s, t, c), UNCHANGED dbVars,
         Good(s, t, row), Keeps(tx[s], t), NewCalls(s, t, row, c),
         \A p \in Flows : <<p, "st">> \in t.dirty =>
           <<p, "st">> \in tx[s].dirty \/ \A x \in Sessions \ {s} : <<p, "st">> \notin tx[x].dirty
  PROVE  JoinInv'
<1>1. tx[s] \in Transactions /\ CallsGood(s, tx[s], row)
  BY DEF TypeOK, JoinInv
<1>2. PICK u : u = Stacked(tx[s], t, c)
  OBVIOUS
<1>3. Carries(tx[s], t, row)
  BY DEF Keeps, Carries
<1>4. Good(s, u, row) /\ CallsGood(s, u, row)
  BY <1>1, <1>2, <1>3, StackGood
<1>5. tx' = [tx EXCEPT ![s] = u] /\ u.dirty = t.dirty
  BY <1>2 DEF Returns, Stacked, Transactions
<1>6. \A p \in Flows : <<p, "st">> \in u.dirty =>
        <<p, "st">> \in tx[s].dirty \/ \A x \in Sessions \ {s} : <<p, "st">> \notin tx[x].dirty
  BY <1>5
<1> QED BY <1>4, <1>5, <1>6, SessionStep

\* With at most one new call.
LEMMA OneCall ==
  ASSUME NEW s, NEW t, NEW r, NEW d, CallGood(s, t, r, d), Entering(d) => EnterGood(s, t, r, d)
  PROVE  NewCalls(s, t, r, <<d>>)
BY DEF NewCalls

LEMMA NoCall == ASSUME NEW s, NEW t, NEW r PROVE NewCalls(s, t, r, <<>>)
BY DEF NewCalls

\* A call that touches nothing of the kind.
LEMMA PlainCall ==
  ASSUME NEW s, NEW t, NEW r, NEW do \in {"join", "recheck", "complete", "finish", "exit", "kill"},
         NEW p, NEW i
  PROVE  NewCalls(s, t, r, <<Call(do, p, i)>>)
<1> DEFINE d == Call(do, p, i)
<1>1. d.do \notin {"advance", "act", "resolve", "process", "leave"}
  BY DEF Call
<1> HIDE DEF d
<1>2. CallGood(s, t, r, d) /\ ~Entering(d)
  BY <1>1 DEF CallGood, Entering, AtStep
<1> QED BY <1>2, OneCall DEF d

-----------------------------------------------------------------------------
(* The calls. *)

LEMMA FreeLock ==
  ASSUME NEW s, NEW p, Free(s, p) PROVE \A x \in Sessions \ {s} : <<p, "st">> \notin tx[x].dirty
BY DEF Free, Columns

LEMMA KeepsAll ==
  /\ \A t : Keeps(t, t)
  /\ \A t, u, w : Keeps(t, u) /\ Keeps(u, w) => Keeps(t, w)
BY DEF Keeps

LEMMA PastFork ==
  \A f \in Forks : \A i : TypeAt(f, i) \notin {"none", "wait"} => i \in Nat /\ i >= ForkStep
<1> SUFFICES ASSUME NEW f \in Forks, NEW i, TypeAt(f, i) \notin {"none", "wait"}
             PROVE  i \in Nat /\ i >= ForkStep
  OBVIOUS
<1>1. f \in Flows
  BY Sorts
<1>2. i \in 1 .. Len(Script[f]) /\ Len(Script[f]) \in Nat
  BY <1>1, Scripts DEF TypeAt
<1>3. i # 1
  BY <1>1, FunnelAssumption DEF FunnelAssumption, TypeAt
<1> QED BY <1>2, <1>3, Sorts

LEMMA StepOf ==
  ASSUME NEW c \in Calls, c.do \in AtStep
  PROVE  c.flow \in Flows /\ c.step \in Nat /\ c.step >= 1 /\ <<c.flow, c.step>> \in Steps
<1>1. c.flow \in Flows /\ c.step \in Nat /\ <<c.flow, c.step>> \in Steps
  BY DEF Calls
<1>2. c.step \in 1 .. Len(Script[c.flow]) /\ Len(Script[c.flow]) \in Nat
  BY <1>1, Scripts DEF Steps, StepsOf
<1> QED BY <1>1, <1>2

\* The call on top.
LEMMA TopGood ==
  ASSUME JoinInv, TypeOK, NEW s \in Sessions, NEW do, Running(s, do), NEW c, c = Head(tx[s].calls)
  PROVE  /\ tx[s] \in Transactions /\ row \in Rows /\ RowsGood(row, joins)
         /\ Good(s, tx[s], row) /\ tx[s].calls # <<>>
         /\ c \in Calls /\ c.do = do
         /\ CallGood(s, tx[s], row, c)
         /\ Entering(c) => EnterGood(s, tx[s], row, c)
<1>1. tx[s] \in Transactions /\ c \in Calls /\ c.do = do
  BY TopCall
<1>2. 1 \in DOMAIN tx[s].calls /\ tx[s].calls[1] = c
  BY <1>1 DEF Running, Transactions
<1> QED BY <1>1, <1>2 DEF JoinInv, CallsGood, Running, TypeOK

LEMMA ResolveJoin == ASSUME JoinInv, TypeOK, NEW s \in Sessions, ResolveWaitUntil(s) PROVE JoinInv'
<1>1. PICK c : c = Head(tx[s].calls)
  OBVIOUS
<1>2. /\ tx[s] \in Transactions /\ row \in Rows /\ RowsGood(row, joins)
      /\ Good(s, tx[s], row) /\ tx[s].calls # <<>>
      /\ c \in Calls /\ c.do = "resolve" /\ CallGood(s, tx[s], row, c)
  BY <1>1, TopGood DEF ResolveWaitUntil
<1>3. UNCHANGED dbVars
  BY DEF ResolveWaitUntil
<1>4. CASE Returns(s, Load(tx[s], {Root}), <<>>)
  <2>1. PICK t : t = Load(tx[s], {Root})
    OBVIOUS
  <2>2. t \in Transactions /\ t.dirty = tx[s].dirty
    BY <1>2, <2>1, LoadIs, Sorts
  <2>3. Good(s, t, row) /\ Keeps(tx[s], t)
    BY <1>2, <2>1, LoadGood, Sorts
  <2>4. NewCalls(s, t, row, <<>>) /\ <<>> \in Seq(Calls)
    BY NoCall
  <2>5. \A p \in Flows : <<p, "st">> \in t.dirty => <<p, "st">> \in tx[s].dirty
    BY <2>2
  <2> QED BY ZenonT(60), <1>2, <1>3, <1>4, <2>1, <2>2, <2>3, <2>4, <2>5, CallStep
<1>5. CASE Returns(s, Write(tx[s], Root, "resolved",
                            Known(tx[s], Root).resolved \cup {<<c.flow, c.step>>}),
                   <<Call("advance", c.flow, c.step)>>)
  <2>1. PICK v : v = Known(tx[s], Root).resolved \cup {<<c.flow, c.step>>}
    OBVIOUS
  <2>2. PICK t : t = Write(tx[s], Root, "resolved", v)
    OBVIOUS
  <2>3. c.flow \in Flows /\ <<c.flow, c.step>> \in Steps
    BY <1>2, StepOf DEF AtStep
  <2>4. t \in Transactions
    <3>1. v \in SUBSET Steps
      BY <1>2, <2>1, <2>3, KnownType, Sorts DEF Row
    <3> QED BY <1>2, <2>2, <3>1, WriteType, Sorts DEF Columns
  <2>5. /\ Good(s, t, row) /\ Keeps(tx[s], t)
        /\ \A p \in Flows : <<p, "st">> \in t.dirty <=> <<p, "st">> \in tx[s].dirty
    BY <1>2, <2>2, OtherGood
  <2>6. PICK d : d = Call("advance", c.flow, c.step)
    OBVIOUS
  <2>7. d.do = "advance" /\ d.flow = c.flow /\ d.step = c.step /\ d \in Calls
    BY <2>3, <2>6, CallType DEF Call, AtStep
  <2>8. CallGood(s, t, row, d)
    BY <1>2, <2>5, <2>7 DEF CallGood, Keeps, AtStep
  <2>9. ~Entering(d)
    <3>1. TypeAt(c.flow, c.step) = "wait_until"
      BY <1>2 DEF CallGood
    <3> QED BY <2>7, <3>1, PastFork, Sorts DEF Entering
  <2>10. NewCalls(s, t, row, <<d>>) /\ <<d>> \in Seq(Calls)
    BY <2>7, <2>8, <2>9, OneCall
  <2>11. Returns(s, t, <<d>>)
    BY <1>5, <2>1, <2>2, <2>6
  <2> QED BY <1>2, <1>3, <2>4, <2>5, <2>10, <2>11, CallStep
<1> QED BY <1>1, <1>4, <1>5 DEF ResolveWaitUntil

LEMMA AdvanceJoin == ASSUME JoinInv, TypeOK, NEW s \in Sessions, Advance(s) PROVE JoinInv'
<1>1. PICK c : c = Head(tx[s].calls)
  OBVIOUS
<1>2. /\ tx[s] \in Transactions /\ row \in Rows /\ RowsGood(row, joins)
      /\ Good(s, tx[s], row) /\ tx[s].calls # <<>>
      /\ c \in Calls /\ c.do = "advance" /\ CallGood(s, tx[s], row, c)
      /\ Entering(c) => EnterGood(s, tx[s], row, c)
  BY <1>1, TopGood DEF Advance
<1>3. UNCHANGED dbVars
  BY DEF Advance
<1>4. PICK p : p = c.flow
  OBVIOUS
<1>5. p \in Flows /\ c.step \in Nat /\ c.step >= 1 /\ (p \in Paths => KnownSt(tx[s], row, p) # "none")
  BY <1>2, <1>4, StepOf DEF AtStep, CallGood
<1>6. CASE /\ HasNext(p, c.step) /\ Free(s, p)
           /\ Returns(s, Write(tx[s], p, "at", c.step + 1), <<Call("process", p, c.step + 1)>>)
  <2>1. PICK t : t = Write(tx[s], p, "at", c.step + 1)
    OBVIOUS
  <2>2. c.step + 1 \in 1 .. Len(Script[p]) /\ c.step + 1 \in Nat /\ c.step + 1 >= ForkStep
    BY <1>5, <1>6, Scripts, Sorts DEF HasNext
  <2>3. t \in Transactions
    BY <1>2, <1>5, <2>1, <2>2, WriteType DEF Columns
  <2>4. s # Scheduler /\ p \in Forks => row[p].at >= ForkStep
    BY <1>2, <1>4 DEF CallGood, AtStep
  <2>5. Good(s, t, row) /\ Keeps(tx[s], t)
    BY <1>2, <1>5, <2>1, <2>2, <2>4, AtGood
  <2>6. /\ t.dirty = tx[s].dirty \cup {<<p, "at">>} /\ t.mem[p].at = c.step + 1
    BY <1>2, <1>5, <2>1, WriteIs DEF Columns
  <2>7. PICK d : d = Call("process", p, c.step + 1)
    OBVIOUS
  <2>8. d.do = "process" /\ d.flow = p /\ d.step = c.step + 1 /\ d \in Calls
    BY <1>5, <2>2, <2>7, CallType, Scripts DEF Call, AtStep
  <2>9. CallGood(s, t, row, d)
    BY <2>4, <2>8 DEF CallGood
  <2>10. ASSUME Entering(d) PROVE EnterGood(s, t, row, d)
    <3>1. p \in Forks /\ c.step < ForkStep
      BY <1>5, <2>8, <2>10, Sorts DEF Entering
    <3>2. EnterGood(s, tx[s], row, c)
      BY <1>2, <1>4, <3>1 DEF Entering
    <3>3. s = Scheduler /\ \A q \in Children(p) : Unborn(t, row, q)
      BY <1>4, <2>6, <3>2 DEF EnterGood, Unborn
    <3>4. At(t, row, p) >= ForkStep
      BY <2>2, <2>6 DEF At
    <3> QED BY <2>8, <3>3, <3>4 DEF EnterGood
  <2>11. NewCalls(s, t, row, <<d>>) /\ <<d>> \in Seq(Calls)
    BY <2>8, <2>9, <2>10, OneCall
  <2>12. Returns(s, t, <<d>>)
    BY <1>6, <2>1, <2>7
  <2>13. \A q \in Flows : <<q, "st">> \in t.dirty => <<q, "st">> \in tx[s].dirty
    BY <2>6
  <2> QED BY <1>2, <1>3, <2>3, <2>5, <2>11, <2>12, <2>13, CallStep
<1>7. CASE Returns(s, tx[s], <<Call("complete", Root, 0)>>)
  <2>1. NewCalls(s, tx[s], row, <<Call("complete", Root, 0)>>)
    BY PlainCall
  <2>2. <<Call("complete", Root, 0)>> \in Seq(Calls)
    BY CallType, Sorts
  <2> QED BY <1>2, <1>3, <1>7, <2>1, <2>2, CallStep, KeepsAll
<1>8. CASE /\ p # Root /\ Free(s, p)
           /\ Returns(s, Write(tx[s], p, "st", "completed"), <<Call("join", Host[p], 0)>>)
  <2>1. PICK t : t = Write(tx[s], p, "st", "completed")
    OBVIOUS
  <2>2. t \in Transactions
    BY <1>2, <1>5, <2>1, WriteType DEF Columns, Status
  <2>3. Good(s, t, row) /\ Keeps(tx[s], t)
    BY <1>2, <1>5, <2>1, StatusGood DEF Over
  <2>4. t.dirty = tx[s].dirty \cup {<<p, "st">>}
    BY <1>2, <1>5, <2>1, WriteIs DEF Columns
  <2>5. NewCalls(s, t, row, <<Call("join", Host[p], 0)>>)
    BY PlainCall
  <2>6. <<Call("join", Host[p], 0)>> \in Seq(Calls)
    BY <1>5, <1>8, CallType, Sorts DEF AtFork
  <2>7. \A q \in Flows : <<q, "st">> \in t.dirty =>
          <<q, "st">> \in tx[s].dirty \/ \A x \in Sessions \ {s} : <<q, "st">> \notin tx[x].dirty
    BY <1>8, <2>4, FreeLock
  <2> QED BY <1>2, <1>3, <1>8, <2>1, <2>2, <2>3, <2>5, <2>6, <2>7, CallStep
<1> QED BY <1>1, <1>4, <1>6, <1>7, <1>8 DEF Advance

\* _process_current_step and _process_thread_step.
LEMMA ForkedGood ==
  ASSUME row \in Rows, RowsGood(row, joins), NEW t \in Transactions, Good(Scheduler, t, row),
         NEW f \in Forks, f \in Paths => KnownSt(t, row, f) # "none",
         At(t, row, f) >= ForkStep, \A q \in Children(f) : Unborn(t, row, q),
         NEW u, u = Forked(t, f)
  PROVE  /\ u \in Transactions /\ Good(Scheduler, u, row) /\ Keeps(t, u)
         /\ \A p \in Flows : <<p, "st">> \in u.dirty =>
              <<p, "st">> \in t.dirty \/ p = f \/ p \in Children(f)
<1>1. PICK w : w = IF f = Root THEN Write(t, f, "counted", TRUE) ELSE Write(t, f, "st", "forked")
  OBVIOUS
<1>2. f \in Flows /\ (f # Root => f \in Paths) /\ f \notin Leaf
  BY Sorts DEF Leaf
<1>3. u = Spawned(w, f) /\ u \in Transactions
  BY <1>1, ForkedType DEF Forked
<1>4. w \in Transactions
  BY <1>1, <1>2, WriteType DEF Columns, Status
<1>5. Good(Scheduler, w, row) /\ Keeps(t, w)
  <2>1. CASE f = Root
    BY <1>1, <2>1, OtherGood
  <2>2. CASE f # Root
    <3>1. w = Write(t, f, "st", "forked")
      BY <1>1, <2>2
    <3> QED BY <1>2, <2>2, <3>1, StatusGood
  <2> QED BY <2>1, <2>2
<1>6. PICK c \in {"counted", "st"} : w.dirty = t.dirty \cup {<<f, c>>} /\ w.mem[f].at = KnownAt(t, row, f)
  <2>1. PICK d : d = IF f = Root THEN "counted" ELSE "st"
    OBVIOUS
  <2>2. PICK v : w = Write(t, f, d, v)
    BY <1>1, <2>1
  <2>3. d \in {"counted", "st"} /\ d \in Columns
    BY <2>1 DEF Columns
  <2>4. w.dirty = t.dirty \cup {<<f, d>>} /\ w.mem[f].at = KnownAt(t, row, f)
    BY <1>2, <2>2, <2>3, WriteIs
  <2> QED BY <2>3, <2>4
<1>7. At(w, row, f) >= ForkStep
  BY <1>6 DEF At, KnownAt
<1>8. \A q \in Children(f) : Unborn(w, row, q)
  <2>1. St(t, row, f) # "none"
    BY AtIsThere
  <2>2. f \notin Children(f)
    BY <2>1 DEF Unborn, St
  <2> QED BY <1>6, <2>2 DEF Unborn
<1>9. Good(Scheduler, u, row) /\ Keeps(w, u) /\ u.dirty = w.dirty \cup Children(f) \X {"st", "at"}
  BY <1>3, <1>4, <1>5, <1>7, <1>8, SpawnGood
<1>10. Keeps(t, u)
  BY <1>5, <1>9, KeepsAll
<1>11. \A p \in Flows : <<p, "st">> \in u.dirty =>
         <<p, "st">> \in t.dirty \/ p = f \/ p \in Children(f)
  BY <1>6, <1>9
<1> QED BY <1>3, <1>9, <1>10, <1>11

LEMMA ForkCallsGood ==
  ASSUME NEW t, NEW f \in Forks PROVE NewCalls(Scheduler, t, row, ForkCalls(f))
<1>1. f \in Flows /\ Branches[f] \in Seq(Paths)
  BY Sorts, Scripts
<1> SUFFICES ASSUME NEW i \in DOMAIN ForkCalls(f)
             PROVE  CallGood(Scheduler, t, row, ForkCalls(f)[i]) /\ ~Entering(ForkCalls(f)[i])
  BY DEF NewCalls
<1> DEFINE each == [j \in DOMAIN Branches[f] |-> Call("process", Branches[f][j], 1)]
           last == Call("join", f, 0)
           d == ForkCalls(f)[i]
<1>2. each \in Seq(Calls) /\ <<last>> \in Seq(Calls)
  <2>1. \A j \in DOMAIN Branches[f] : Call("process", Branches[f][j], 1) \in Calls
    <3> TAKE j \in DOMAIN Branches[f]
    <3>1. Branches[f][j] \in Flows
      BY <1>1, Scripts
    <3>2. <<Branches[f][j], 1>> \in Steps
      BY <3>1, Scripts
    <3> QED BY <3>2, CallType DEF AtStep
  <2> QED BY <1>1, <2>1, CallType DEF AtFork
<1>3. d = last \/ \E j \in DOMAIN each : d = each[j]
  <2>1. ForkCalls(f) = each \o <<last>>
    BY DEF ForkCalls
  <2> HIDE DEF each, last
  <2>2. Len(each) \in Nat /\ DOMAIN each = 1 .. Len(each) /\ DOMAIN ForkCalls(f) = 1 .. Len(each) + 1
    BY <1>2, <2>1
  <2>3. CASE i \in DOMAIN each
    <3>1. ForkCalls(f)[i] = each[i]
      BY <1>2, <2>1, <2>2, <2>3
    <3> QED BY <2>3, <3>1
  <2>4. CASE i = Len(each) + 1
    <3>1. ForkCalls(f)[i] = last
      BY <1>2, <2>1, <2>2, <2>4
    <3> QED BY <3>1
  <2> QED BY <2>2, <2>3, <2>4
<1>4. d.do = "join" \/ (d.do = "process" /\ d.step = 1)
  <2>1. last.do = "join" /\ \A j \in DOMAIN each : each[j].do = "process" /\ each[j].step = 1
    BY DEF Call
  <2> HIDE DEF d, last, each
  <2> QED BY <1>3, <2>1
<1> HIDE DEF d
<1>5. CallGood(Scheduler, t, row, d) /\ ~Entering(d)
  BY <1>4, Sorts DEF CallGood, Entering
<1> QED BY <1>5 DEF d

LEMMA ProcessJoin == ASSUME JoinInv, TypeOK, NEW s \in Sessions, ProcessStep(s) PROVE JoinInv'
<1>1. PICK c : c = Head(tx[s].calls)
  OBVIOUS
<1>2. /\ tx[s] \in Transactions /\ row \in Rows /\ RowsGood(row, joins)
      /\ Good(s, tx[s], row) /\ tx[s].calls # <<>>
      /\ c \in Calls /\ c.do = "process" /\ CallGood(s, tx[s], row, c)
      /\ Entering(c) => EnterGood(s, tx[s], row, c)
  BY Zenon, <1>1, TopGood DEF ProcessStep
<1>3. UNCHANGED dbVars
  BY Zenon DEF ProcessStep
<1>4. PICK p, i : p = c.flow /\ i = c.step
  OBVIOUS
<1>5. p \in Flows /\ i \in Nat /\ <<p, i>> \in Steps
      /\ (s # Scheduler /\ p \in Forks => row[p].at >= ForkStep)
  BY <1>2, <1>4, StepOf DEF AtStep, CallGood
<1>6. PICK t : t = LookAtFunnel(tx[s])
  OBVIOUS
<1>7. /\ t \in Transactions /\ t.dirty = tx[s].dirty /\ t.read = tx[s].read
      /\ t.mem = tx[s].mem /\ t.list = tx[s].list /\ t.todo = tx[s].todo
      /\ t.op = tx[s].op /\ t.log = tx[s].log
  <2>1. t \in Transactions
    BY <1>2, <1>6, LookType
  <2>2. PICK v : t = [tx[s] EXCEPT !.funnel = v]
    BY <1>6 DEF LookAtFunnel
  <2> QED BY <1>2, <2>1, <2>2 DEF Transactions
<1>8. Good(s, t, row)
  BY <1>2, <1>7, AlikeGood
<1>9. Keeps(tx[s], t)
  BY <1>7 DEF Keeps, KnownSt
<1>10. \A q \in Flows : Known(t, q).st = KnownSt(t, row, q)
  BY DEF Known, KnownSt, Columns
<1> DEFINE live == p # Root => Known(t, p).st = "active"
<1>11. live => (p \in Paths => KnownSt(t, row, p) # "none")
  BY <1>5, <1>10, Sorts
<1>12. ASSUME NEW u \in Transactions, NEW d \in Seq(Calls), Returns(s, u, d),
              Good(s, u, row), Keeps(t, u), NewCalls(s, u, row, d),
              \A q \in Flows : <<q, "st">> \in u.dirty =>
                <<q, "st">> \in t.dirty \/ \A x \in Sessions \ {s} : <<q, "st">> \notin tx[x].dirty
       PROVE  JoinInv'
  <2>1. Keeps(tx[s], u)
    BY <1>9, <1>12, KeepsAll
  <2>2. \A q \in Flows : <<q, "st">> \in u.dirty =>
          <<q, "st">> \in tx[s].dirty \/ \A x \in Sessions \ {s} : <<q, "st">> \notin tx[x].dirty
    BY <1>7, <1>12
  <2> QED BY <1>2, <1>3, <1>12, <2>1, <2>2, CallStep
<1>13. <<>> \in Seq(Calls) /\ \A x : NewCalls(s, x, row, <<>>)
  BY NoCall
<1>14. CASE Returns(s, t, <<>>)
  BY <1>7, <1>8, <1>12, <1>13, <1>14, KeepsAll
<1>15. CASE live /\ TypeAt(p, i) = "action" /\ Returns(s, t, <<Call("act", p, i)>>)
  <2>1. PICK d : d = Call("act", p, i)
    OBVIOUS
  <2>2. d.do = "act" /\ d.flow = p /\ d.step = i /\ d \in Calls
    BY <1>5, <2>1, CallType DEF Call, AtStep
  <2>3. CallGood(s, t, row, d) /\ ~Entering(d)
    BY <1>5, <1>11, <1>15, <2>2 DEF CallGood, Entering
  <2>4. NewCalls(s, t, row, <<d>>) /\ <<d>> \in Seq(Calls)
    BY <2>2, <2>3, OneCall
  <2> QED BY <1>7, <1>8, <1>12, <1>15, <2>1, <2>4, KeepsAll
<1>16. CASE Returns(s, t, <<Call("complete", Root, 0)>>)
  <2>1. NewCalls(s, t, row, <<Call("complete", Root, 0)>>)
    BY PlainCall
  <2>2. <<Call("complete", Root, 0)>> \in Seq(Calls)
    BY CallType, Sorts
  <2> QED BY <1>7, <1>8, <1>12, <1>16, <2>1, <2>2, KeepsAll
<1>17. CASE /\ live /\ p # Root /\ Free(s, p)
            /\ Returns(s, Write(t, p, "st", "exited"), <<Call("join", Host[p], 0)>>)
  <2>1. PICK u : u = Write(t, p, "st", "exited")
    OBVIOUS
  <2>2. u \in Transactions
    BY <1>2, <1>5, <1>7, <2>1, WriteType DEF Columns, Status
  <2>3. Good(s, u, row) /\ Keeps(t, u)
    BY <1>2, <1>5, <1>7, <1>8, <1>11, <1>17, <2>1, StatusGood DEF Over
  <2>4. u.dirty = t.dirty \cup {<<p, "st">>}
    BY <1>2, <1>5, <1>7, <2>1, WriteIs DEF Columns
  <2>5. NewCalls(s, u, row, <<Call("join", Host[p], 0)>>)
    BY PlainCall
  <2>6. <<Call("join", Host[p], 0)>> \in Seq(Calls)
    BY <1>5, <1>17, CallType, Sorts DEF AtFork
  <2>7. \A q \in Flows : <<q, "st">> \in u.dirty =>
          <<q, "st">> \in t.dirty \/ \A x \in Sessions \ {s} : <<q, "st">> \notin tx[x].dirty
    BY <1>17, <2>4, FreeLock
  <2> QED BY <1>12, <1>17, <2>1, <2>2, <2>3, <2>5, <2>6, <2>7
<1>18. CASE /\ live /\ TypeAt(p, i) = "fork" /\ Free(s, p)
            /\ Returns(s, Forked(t, p), ForkCalls(p))
  <2>1. p \in Forks /\ i = ForkStep
    BY <1>5, <1>18, ForkType
  <2>2. EnterGood(s, tx[s], row, c)
    BY <1>2, <1>4, <2>1 DEF Entering
  <2>3. s = Scheduler /\ At(t, row, p) >= ForkStep /\ \A q \in Children(p) : Unborn(t, row, q)
    BY <1>2, <1>4, <1>7, <2>2 DEF EnterGood, Unborn, At
  <2>4. PICK u : u = Forked(t, p)
    OBVIOUS
  <2>5. /\ u \in Transactions /\ Good(s, u, row) /\ Keeps(t, u)
        /\ \A q \in Flows : <<q, "st">> \in u.dirty =>
             <<q, "st">> \in t.dirty \/ q = p \/ q \in Children(p)
    BY <1>2, <1>7, <1>8, <1>11, <1>18, <2>1, <2>3, <2>4, ForkedGood
  <2>6. NewCalls(s, u, row, ForkCalls(p)) /\ ForkCalls(p) \in Seq(Calls)
    BY <2>1, <2>3, ForkCallsGood, ForkCallsType
  <2>7. \A q \in Children(p) : \A x \in Sessions \ {s} : <<q, "st">> \notin tx[x].dirty
    <3> SUFFICES ASSUME NEW q \in Children(p), NEW x \in Sessions \ {s}, <<q, "st">> \in tx[x].dirty
                 PROVE  FALSE
      OBVIOUS
    <3>1. q \in Paths /\ row[q].st = "none"
      BY <2>1, <2>3, Sorts DEF Unborn
    <3>2. Good(x, tx[x], row)
      BY DEF JoinInv
    <3>3. x = Scheduler
      BY <3>1, <3>2 DEF Good, Written, Spawns
    <3> QED BY <2>3, <3>3
  <2>8. \A q \in Flows : <<q, "st">> \in u.dirty =>
          <<q, "st">> \in t.dirty \/ \A x \in Sessions \ {s} : <<q, "st">> \notin tx[x].dirty
    BY <1>18, <2>5, <2>7, FreeLock
  <2> QED BY <1>12, <1>18, <2>4, <2>5, <2>6, <2>8
<1>19. CASE /\ live /\ TypeAt(p, i) = "wait_until"
            /\ \E d \in {<<>>, <<Call("resolve", p, i)>>} :
                 Returns(s, Write(t, Root, "resolved", Known(t, Root).resolved \ {<<p, i>>}), d)
  <2>1. PICK v : v = Known(t, Root).resolved \ {<<p, i>>}
    OBVIOUS
  <2>2. PICK u : u = Write(t, Root, "resolved", v)
    OBVIOUS
  <2>3. u \in Transactions
    <3>1. v \in SUBSET Steps
      BY <1>2, <1>7, <2>1, KnownType, Sorts DEF Row
    <3> QED BY <1>2, <1>7, <2>2, <3>1, WriteType, Sorts DEF Columns
  <2>4. /\ Good(s, u, row) /\ Keeps(t, u)
        /\ \A q \in Flows : <<q, "st">> \in u.dirty => <<q, "st">> \in t.dirty
    BY <1>2, <1>7, <1>8, <2>2, OtherGood
  <2>5. PICK d : d = Call("resolve", p, i)
    OBVIOUS
  <2>6. d.do = "resolve" /\ d.flow = p /\ d.step = i /\ d \in Calls
    BY <1>5, <2>5, CallType DEF Call, AtStep
  <2>7. CallGood(s, u, row, d) /\ ~Entering(d)
    BY <1>5, <1>11, <1>19, <2>4, <2>6 DEF CallGood, Entering, Keeps
  <2>8. NewCalls(s, u, row, <<d>>) /\ <<d>> \in Seq(Calls)
    BY <2>6, <2>7, OneCall
  <2>9. Returns(s, u, <<>>) \/ Returns(s, u, <<d>>)
    BY <1>19, <2>1, <2>2, <2>5
  <2> QED BY <1>12, <1>13, <2>3, <2>4, <2>8, <2>9
<1>20. \/ Returns(s, t, <<>>)
       \/ live /\ TypeAt(p, i) = "action" /\ Returns(s, t, <<Call("act", p, i)>>)
       \/ Returns(s, t, <<Call("complete", Root, 0)>>)
       \/ /\ live /\ p # Root /\ Free(s, p)
          /\ Returns(s, Write(t, p, "st", "exited"), <<Call("join", Host[p], 0)>>)
       \/ /\ live /\ TypeAt(p, i) = "fork" /\ Free(s, p)
          /\ Returns(s, Forked(t, p), ForkCalls(p))
       \/ /\ live /\ TypeAt(p, i) = "wait_until"
          /\ \E d \in {<<>>, <<Call("resolve", p, i)>>} :
               Returns(s, Write(t, Root, "resolved", Known(t, Root).resolved \ {<<p, i>>}), d)
  BY Zenon, <1>1, <1>4, <1>6 DEF ProcessStep
<1> HIDE DEF live
<1> QED BY <1>14, <1>15, <1>16, <1>17, <1>18, <1>19, <1>20

LEMMA OwnCommit ==
  ASSUME JoinInv, TypeOK, NEW s \in Sessions, NEW r, r = Merged(tx[s]),
         NEW t, t = Refreshed(tx[s], Expire(Flushed(tx[s]), {}))
  PROVE  /\ t \in Transactions /\ t.dirty = {} /\ Good(s, t, r) /\ Carries(tx[s], t, r)
<1>1. PICK w : w = tx[s]
  OBVIOUS
<1>2. w \in Transactions /\ row \in Rows /\ joins \in [Forks -> Nat] /\ r \in Rows
  BY <1>1, MergedType DEF TypeOK
<1>3. Good(s, w, row) /\ After(s, w, r) /\ RowsGood(r, Logged(w))
  BY <1>1, <1>2, CommitRows DEF JoinInv
<1>4. PICK h : h = Flushed(w)
  OBVIOUS
<1>5. /\ h \in Transactions /\ h.dirty = {} /\ h.log = {} /\ h.list = w.list /\ h.todo = w.todo
      /\ h.op = w.op
  BY <1>2, <1>4 DEF Flushed, Transactions
<1>6. PICK e : e = Expire(h, {})
  OBVIOUS
<1>7. /\ e \in Transactions
      /\ e.dirty = {} /\ e.log = {} /\ e.list = w.list /\ e.todo = w.todo
      /\ e.op = w.op /\ e.read = {}
      /\ \A p \in Flows : e.mem[p].st = "none"
  <2>1. e \in Transactions
    BY <1>5, <1>6, ExpireType
  <2>2. e.dirty = h.dirty /\ e.log = h.log /\ e.list = h.list /\ e.todo = h.todo
        /\ e.op = h.op /\ e.read = {}
    BY <1>5, <1>6 DEF Expire, Transactions
  <2>3. \A p \in Flows : e.mem[p].st = "none"
    BY <1>5, <1>6 DEF Expire, Transactions, Columns, Blank
  <2> QED BY <1>5, <2>1, <2>2, <2>3
<1>8. PICK m : m = [e.mem EXCEPT ![Root] = r[Root]]
  OBVIOUS
<1>9. m[Root] = r[Root] /\ \A p \in Paths : m[p].st = "none"
  <2>1. m[Root] = r[Root] /\ \A p \in Paths : m[p] = e.mem[p]
    BY <1>7, <1>8, MemOf, Sorts DEF Rows
  <2>2. \A p \in Paths : e.mem[p].st = "none"
    BY <1>5, <1>7, Sorts
  <2> QED BY <2>1, <2>2
<1>10. t = [e EXCEPT !.mem = m, !.read = @ \cup {Root}, !.funnel = "unread", !.acted = TRUE]
  BY <1>1, <1>4, <1>6, <1>7, <1>8 DEF Refreshed, Transactions
<1>11. /\ t.dirty = {} /\ t.log = {} /\ t.list = w.list /\ t.todo = w.todo
       /\ t.op = w.op /\ t.read = {Root} /\ t.mem = m
  BY <1>5, <1>7, <1>10 DEF Transactions
<1>12. t \in Transactions
  BY <1>1, <1>2, <1>4, <1>5, <1>6, <1>7, RefreshedType
<1>13. Seen(t, r)
  BY <1>9, <1>11, Sorts DEF Seen
<1>14. Written(s, t, r)
  BY <1>11 DEF Written, Spawns
<1>15. \A p \in Paths : KnownSt(t, r, p) = r[p].st
  BY <1>11, Sorts DEF KnownSt
<1>16. Passing(s, t, r)
  <2>1. \A p \in Paths \cap t.list : r[p].st # "none"
    BY <1>3, <1>11, Sorts DEF Good, Passing, After
  <2>2. \A f \in Forks \cap t.read : t.mem[f].at = At(t, r, f)
    BY <1>9, <1>11 DEF At
  <2>3. s # Scheduler => \A f \in Forks \cap t.list : r[f].at >= ForkStep
    BY <1>3, <1>11 DEF Good, Passing, After
  <2>4. t.todo \subseteq t.list /\ (s # Scheduler => t.op \notin Timers)
    BY <1>3, <1>11 DEF Good, Passing
  <2> QED BY <1>11, <1>15, <2>1, <2>2, <2>3, <2>4 DEF Passing
<1>17. Carries(w, t, r)
  <2>1. \A p \in Paths : KnownSt(w, row, p) # "none" => r[p].st # "none"
    <3> SUFFICES ASSUME NEW p \in Paths, KnownSt(w, row, p) # "none" PROVE r[p].st # "none"
      OBVIOUS
    <3>1. St(w, row, p) # "none"
      BY <1>3 DEF Good, Seen, KnownSt, St
    <3>2. p \in Flows /\ r[p].st = St(w, row, p)
      BY <1>1, Sorts DEF Merged, Columns, St
    <3> QED BY <3>1, <3>2
  <2> QED BY <1>3, <1>15, <2>1 DEF Carries, After
<1> QED BY <1>1, <1>11, <1>12, <1>13, <1>14, <1>16, <1>17 DEF Good

LEMMA ExecuteJoin == ASSUME JoinInv, TypeOK, NEW s \in Sessions, ExecuteAction(s) PROVE JoinInv'
<1>1. PICK c : c = Head(tx[s].calls)
  OBVIOUS
<1>2. /\ tx[s] \in Transactions /\ row \in Rows /\ RowsGood(row, joins)
      /\ Good(s, tx[s], row) /\ tx[s].calls # <<>>
      /\ c \in Calls /\ c.do = "act" /\ CallGood(s, tx[s], row, c)
  BY <1>1, TopGood DEF ExecuteAction
<1>3. c.flow \in Flows /\ <<c.flow, c.step>> \in Steps
  BY <1>2, StepOf DEF AtStep
<1>4. PICK d : d = Call("advance", c.flow, c.step)
  OBVIOUS
<1>5. d.do = "advance" /\ d.flow = c.flow /\ d.step = c.step /\ d \in Calls /\ <<d>> \in Seq(Calls)
  BY <1>3, <1>4, CallType DEF Call, AtStep
<1>6. ~Entering(d)
  <2>1. TypeAt(c.flow, c.step) = "action"
    BY <1>2 DEF CallGood
  <2> QED BY <1>5, <2>1, PastFork, Sorts DEF Entering
<1>7. \A t, r : Carries(tx[s], t, r) => NewCalls(s, t, r, <<d>>)
  <2> SUFFICES ASSUME NEW t, NEW r, Carries(tx[s], t, r) PROVE NewCalls(s, t, r, <<d>>)
    OBVIOUS
  <2>1. CallGood(s, t, r, d)
    BY <1>2, <1>5 DEF CallGood, Carries, AtStep
  <2> QED BY <1>6, <2>1, OneCall
<1>8. CASE Returns(s, Refreshed(tx[s], Expire(tx[s], tx[s].list)), <<d>>) /\ UNCHANGED dbVars
  <2>1. PICK t : t = Refreshed(tx[s], Expire(tx[s], tx[s].list))
    OBVIOUS
  <2>2. t \in Transactions
    BY <1>2, <2>1, ExpireType, RefreshedType
  <2>3. Good(s, t, row) /\ Keeps(tx[s], t) /\ t.dirty = tx[s].dirty
    BY <1>2, <2>1, RefreshGood
  <2>4. Carries(tx[s], t, row)
    BY <2>3 DEF Carries, Keeps
  <2>5. NewCalls(s, t, row, <<d>>)
    BY <1>7, <2>4
  <2>6. \A p \in Flows : <<p, "st">> \in t.dirty => <<p, "st">> \in tx[s].dirty
    BY <2>3
  <2> QED BY ZenonT(60), <1>2, <1>5, <1>8, <2>1, <2>2, <2>3, <2>5, <2>6, CallStep
<1>9. CASE /\ row' = Merged(tx[s]) /\ joins' = Logged(tx[s])
           /\ Returns(s, Refreshed(tx[s], Expire(Flushed(tx[s]), {})), <<d>>)
  <2>1. PICK t : t = Refreshed(tx[s], Expire(Flushed(tx[s]), {}))
    OBVIOUS
  <2>2. PICK r : r = Merged(tx[s])
    OBVIOUS
  <2>3. t \in Transactions /\ t.dirty = {} /\ Good(s, t, r) /\ Carries(tx[s], t, r)
    BY <2>1, <2>2, OwnCommit
  <2>4. NewCalls(s, t, r, <<d>>)
    BY <1>7, <2>3
  <2>5. PICK u : u = Stacked(tx[s], t, <<d>>)
    OBVIOUS
  <2>6. CallsGood(s, tx[s], row)
    BY DEF JoinInv
  <2>7. Good(s, u, r) /\ CallsGood(s, u, r)
    <3>1. PICK w : w = tx[s]
      OBVIOUS
    <3>2. w \in Transactions /\ w.calls # <<>> /\ CallsGood(s, w, row) /\ Carries(w, t, r)
          /\ u = Stacked(w, t, <<d>>)
      BY <1>2, <2>3, <2>5, <2>6, <3>1
    <3>3. t \in Transactions /\ <<d>> \in Seq(Calls) /\ NewCalls(s, t, r, <<d>>) /\ Good(s, t, r)
      BY <1>5, <2>3, <2>4
    <3> QED BY <3>2, <3>3, StackGood
  <2>8. tx' = [tx EXCEPT ![s] = u] /\ u.dirty = {}
    BY <1>9, <2>1, <2>3, <2>5 DEF Returns, Stacked, Transactions
  <2> QED BY <1>9, <2>2, <2>7, <2>8, CommitStep
<1> QED BY <1>1, <1>4, <1>8, <1>9 DEF ExecuteAction

LEMMA CheckJoin == ASSUME JoinInv, TypeOK, NEW s \in Sessions, CheckForkJoin(s) PROVE JoinInv'
<1>1. PICK c : c = Head(tx[s].calls)
  OBVIOUS
<1>2. /\ tx[s] \in Transactions /\ row \in Rows /\ RowsGood(row, joins)
      /\ Good(s, tx[s], row) /\ tx[s].calls # <<>>
      /\ c \in Calls /\ c.do = "join"
  BY <1>1, TopGood DEF CheckForkJoin
<1>3. UNCHANGED dbVars
  BY DEF CheckForkJoin
<1>4. PICK f : f = c.flow
  OBVIOUS
<1>5. f \in Forks /\ f \in Flows
  BY <1>2, <1>4, Sorts DEF Calls, AtFork
<1>6. PICK t : t = Load(tx[s], Paths)
  OBVIOUS
<1>7. t \in Transactions /\ t.dirty = tx[s].dirty /\ Paths \subseteq t.read
  BY <1>2, <1>6, LoadIs, Sorts
<1>8. Good(s, t, row) /\ Keeps(tx[s], t)
  BY <1>2, <1>6, LoadGood, Sorts
<1>9. \A p \in Flows : <<p, "st">> \in t.dirty => <<p, "st">> \in tx[s].dirty
  BY <1>7
<1>10. CASE Returns(s, t, <<>>)
  <2>1. NewCalls(s, t, row, <<>>) /\ <<>> \in Seq(Calls)
    BY NoCall
  <2> QED BY <1>2, <1>3, <1>7, <1>8, <1>9, <1>10, <2>1, CallStep
<1>11. CASE /\ StillActive(t, f) = {} /\ Members(t, f) # {}
            /\ Returns(s, [t EXCEPT !.log = @ \cup {f}], <<Call("leave", f, 0)>>)
  <2>1. PICK u : u = [t EXCEPT !.log = @ \cup {f}]
    OBVIOUS
  <2>2. u \in Transactions /\ u.dirty = t.dirty
    BY <1>5, <1>7, <2>1 DEF Transactions
  <2>3. Good(s, u, row) /\ Keeps(t, u)
    BY <1>5, <1>7, <1>8, <1>11, <2>1, LogGood
  <2>4. Keeps(tx[s], u)
    BY <1>8, <2>3, KeepsAll
  <2>5. s # Scheduler => row[f].at >= ForkStep
    <3> SUFFICES ASSUME s # Scheduler PROVE row[f].at >= ForkStep
      OBVIOUS
    <3>1. PICK p \in Children(f) : Known(t, p).st # "none"
      BY <1>11 DEF Members
    <3>2. p \in Paths /\ p \in Flows
      BY <1>5, Sorts
    <3>3. St(t, row, p) # "none"
      BY <1>7, <1>8, <3>1, <3>2 DEF Known, Columns, Good, Seen
    <3>4. ~ Spawns(t, row, p)
      BY <1>8, <3>2 DEF Good, Written
    <3>5. row[p].st # "none"
      BY <3>3, <3>4 DEF St, Spawns
    <3> QED BY <1>2, <1>5, <3>5 DEF RowsGood
  <2>6. PICK d : d = Call("leave", f, 0)
    OBVIOUS
  <2>7. d.do = "leave" /\ d.flow = f /\ d \in Calls
    BY <1>5, <2>6, CallType DEF Call, AtFork
  <2>8. CallGood(s, u, row, d) /\ ~Entering(d)
    BY <2>5, <2>7 DEF CallGood, Entering
  <2>9. NewCalls(s, u, row, <<d>>) /\ <<d>> \in Seq(Calls)
    BY <2>7, <2>8, OneCall
  <2>10. \A p \in Flows : <<p, "st">> \in u.dirty => <<p, "st">> \in tx[s].dirty
    BY <1>9, <2>2
  <2>11. Returns(s, u, <<d>>)
    BY <1>11, <2>1, <2>6
  <2> QED BY <1>2, <1>3, <2>2, <2>3, <2>4, <2>9, <2>10, <2>11, CallStep
<1> QED BY <1>1, <1>4, <1>6, <1>10, <1>11 DEF CheckForkJoin

\* _check_fork_join's second half.
LEMMA LeaveJoin == ASSUME JoinInv, TypeOK, NEW s \in Sessions, ContinueAfterFork(s) PROVE JoinInv'
<1>1. PICK c : c = Head(tx[s].calls)
  OBVIOUS
<1>2. /\ tx[s] \in Transactions /\ row \in Rows /\ RowsGood(row, joins)
      /\ Good(s, tx[s], row) /\ tx[s].calls # <<>>
      /\ c \in Calls /\ c.do = "leave" /\ CallGood(s, tx[s], row, c)
  BY <1>1, TopGood DEF ContinueAfterFork
<1>3. UNCHANGED dbVars
  BY DEF ContinueAfterFork
<1>4. PICK f, t : f = c.flow /\ t = tx[s]
  OBVIOUS
<1>5. f \in Forks /\ f \in Flows /\ f \notin Leaf
      /\ (s # Scheduler => row[f].at >= ForkStep)
  BY <1>2, <1>4, Sorts DEF Calls, AtFork, CallGood, Leaf
<1>6. CASE Returns(s, tx[s], <<>>)
  <2>1. PICK d : d = <<>>
    OBVIOUS
  <2>2. NewCalls(s, tx[s], row, d) /\ d \in Seq(Calls)
    BY <2>1, NoCall
  <2>3. Returns(s, tx[s], d)
    BY <1>6, <2>1
  <2> QED BY <1>2, <1>3, <2>2, <2>3, CallStep, KeepsAll
<1>7. CASE /\ f # Root /\ Known(t, f).st = "forked" /\ Free(s, f)
           /\ Returns(s, Write(t, f, "st", "active"), <<Call("advance", f, ForkStep)>>)
  <2>1. PICK u : u = Write(t, f, "st", "active")
    OBVIOUS
  <2>2. u \in Transactions
    BY <1>2, <1>4, <1>5, <2>1, WriteType DEF Columns, Status
  <2>3. KnownSt(t, row, f) # "none" /\ f \in Paths
    BY <1>5, <1>7, Sorts DEF Known, KnownSt, Columns
  <2>4. Good(s, u, row) /\ Keeps(t, u)
    BY <1>2, <1>4, <1>5, <2>1, <2>3, StatusGood
  <2>5. u.dirty = t.dirty \cup {<<f, "st">>}
    BY <1>2, <1>4, <1>5, <2>1, WriteIs DEF Columns
  <2>6. \A q \in Flows : <<q, "st">> \in u.dirty =>
          <<q, "st">> \in tx[s].dirty \/ \A x \in Sessions \ {s} : <<q, "st">> \notin tx[x].dirty
    BY <1>4, <1>7, <2>5, FreeLock
  <2>7. PICK d : d = Call("advance", f, ForkStep)
    OBVIOUS
  <2>8. d.do = "advance" /\ d.flow = f /\ d.step = ForkStep /\ d \in Calls
    <3>1. <<f, ForkStep>> \in Steps
      BY <1>5, ForkAt, Scripts
    <3> QED BY <2>7, <3>1, CallType DEF Call, AtStep
  <2>9. CallGood(s, u, row, d) /\ ~Entering(d)
    BY <1>5, <2>3, <2>4, <2>8, Sorts DEF CallGood, Entering, Keeps
  <2>10. NewCalls(s, u, row, <<d>>) /\ <<d>> \in Seq(Calls)
    BY <2>8, <2>9, OneCall
  <2>11. Returns(s, u, <<d>>) /\ Keeps(tx[s], u)
    BY <1>4, <1>7, <2>1, <2>4, <2>7
  <2> QED BY <1>2, <1>3, <2>2, <2>4, <2>6, <2>10, <2>11, CallStep
<1>8. ASSUME NEW m, m = Write(t, Root, "counted", FALSE), f = Root
      PROVE  /\ m \in Transactions /\ Good(s, m, row) /\ Keeps(tx[s], m)
             /\ \A q \in Flows : <<q, "st">> \in m.dirty => <<q, "st">> \in tx[s].dirty
  <2>1. m \in Transactions
    BY <1>2, <1>4, <1>8, WriteType, Sorts DEF Columns
  <2>2. PICK v : m = Write(tx[s], Root, "counted", v)
    BY <1>4, <1>8
  <2>3. /\ Good(s, m, row) /\ Keeps(tx[s], m)
        /\ \A q \in Flows : <<q, "st">> \in m.dirty <=> <<q, "st">> \in tx[s].dirty
    BY <1>2, <2>2, OtherGood
  <2> QED BY <2>1, <2>3
<1>9. CASE /\ f = Root /\ HasNext(Root, ForkStep)
           /\ Returns(s, Write(Write(t, Root, "counted", FALSE), Root, "at", AfterFork),
                      <<Call("process", Root, AfterFork)>>)
  <2>1. PICK m : m = Write(t, Root, "counted", FALSE)
    OBVIOUS
  <2>2. PICK u : u = Write(m, Root, "at", AfterFork)
    OBVIOUS
  <2>3. /\ m \in Transactions /\ Good(s, m, row) /\ Keeps(tx[s], m)
        /\ \A q \in Flows : <<q, "st">> \in m.dirty => <<q, "st">> \in tx[s].dirty
    BY <1>8, <1>9, <2>1
  <2>4. /\ AfterFork \in 1 .. Len(Script[Root]) /\ AfterFork \in Nat /\ AfterFork >= ForkStep
        /\ AfterFork # ForkStep
    BY <1>9, Scripts, Sorts DEF HasNext, AfterFork
  <2>5. u \in Transactions
    BY <1>2, <2>2, <2>3, <2>4, WriteType, Sorts DEF Columns
  <2>6. Good(s, u, row) /\ Keeps(m, u)
    BY <1>2, <1>5, <1>9, <2>2, <2>3, <2>4, AtGood, Sorts
  <2>7. u.dirty = m.dirty \cup {<<Root, "at">>}
    BY <1>2, <2>2, <2>3, WriteIs, Sorts DEF Columns
  <2>8. Keeps(tx[s], u)
    BY <2>3, <2>6, KeepsAll
  <2>9. PICK d : d = Call("process", Root, AfterFork)
    OBVIOUS
  <2>10. d.do = "process" /\ d.flow = Root /\ d.step = AfterFork /\ d \in Calls
    <3>1. <<Root, AfterFork>> \in Steps
      BY <2>4, Scripts
    <3> QED BY <2>9, <3>1, CallType DEF Call, AtStep
  <2>11. CallGood(s, u, row, d) /\ ~Entering(d)
    BY <1>5, <1>9, <2>4, <2>10 DEF CallGood, Entering
  <2>12. NewCalls(s, u, row, <<d>>) /\ <<d>> \in Seq(Calls)
    BY <2>10, <2>11, OneCall
  <2>13. Returns(s, u, <<d>>)
    BY <1>9, <2>1, <2>2, <2>9
  <2>14. \A q \in Flows : <<q, "st">> \in u.dirty => <<q, "st">> \in tx[s].dirty
    BY <2>3, <2>7
  <2> QED BY <1>2, <1>3, <2>5, <2>6, <2>8, <2>12, <2>13, <2>14, CallStep
<1>10. CASE /\ f = Root
            /\ Returns(s, Write(t, Root, "counted", FALSE), <<Call("complete", Root, 0)>>)
  <2>1. PICK m : m = Write(t, Root, "counted", FALSE)
    OBVIOUS
  <2>2. /\ m \in Transactions /\ Good(s, m, row) /\ Keeps(tx[s], m)
        /\ \A q \in Flows : <<q, "st">> \in m.dirty => <<q, "st">> \in tx[s].dirty
    BY <1>8, <1>10, <2>1
  <2>3. PICK d : d = <<Call("complete", Root, 0)>>
    OBVIOUS
  <2>4. NewCalls(s, m, row, d)
    BY <2>3, PlainCall
  <2>5. d \in Seq(Calls)
    BY <2>3, CallType, Sorts
  <2>6. Returns(s, m, d)
    BY <1>10, <2>1, <2>3
  <2> QED BY <1>2, <1>3, <2>2, <2>4, <2>5, <2>6, CallStep
<1> QED BY <1>1, <1>4, <1>6, <1>7, <1>9, <1>10 DEF ContinueAfterFork

\* A call that only reads.
LEMMA ReadStep ==
  ASSUME JoinInv, TypeOK, NEW s \in Sessions, tx[s].calls # <<>>, UNCHANGED dbVars,
         NEW P \in {{Root}, Paths, Paths \cup {Root}}, NEW t, t = tx[s] \/ t = Load(tx[s], P),
         NEW c \in Seq(Calls), NewCalls(s, t, row, c), Returns(s, t, c)
  PROVE  JoinInv'
<1>1. tx[s] \in Transactions /\ row \in Rows /\ RowsGood(row, joins) /\ Good(s, tx[s], row)
  BY DEF JoinInv, TypeOK
<1>2. CASE t = tx[s]
  <2>1. Keeps(tx[s], t)
    BY <1>2, KeepsAll
  <2> QED BY <1>1, <1>2, <2>1, CallStep
<1>3. CASE t = Load(tx[s], P)
  <2>1. P \in SUBSET Flows /\ (Paths \subseteq P \/ P \cap Paths = {})
    BY Sorts
  <2>2. t \in Transactions /\ t.dirty = tx[s].dirty
    BY <1>1, <1>3, <2>1, LoadIs
  <2>3. Good(s, t, row) /\ Keeps(tx[s], t)
    BY <1>1, <1>3, <2>1, LoadGood
  <2>4. \A p \in Flows : <<p, "st">> \in t.dirty => <<p, "st">> \in tx[s].dirty
    BY <2>2
  <2> QED BY <1>1, <2>2, <2>3, <2>4, CallStep
<1> QED BY <1>2, <1>3

LEMMA EndingJoin ==
  ASSUME JoinInv, TypeOK, NEW s \in Sessions,
         Recheck(s) \/ CompleteEnrollment(s) \/ Finish(s) \/ ExitEnrollment(s)
  PROVE  JoinInv'
<1>1. UNCHANGED dbVars /\ tx[s].calls # <<>>
  BY DEF Recheck, CompleteEnrollment, Finish, ExitEnrollment, Running
<1>2. <<>> \in Seq(Calls) /\ \A t : NewCalls(s, t, row, <<>>)
  BY NoCall
<1>3. CASE Recheck(s)
  <2>1. PICK t : t = Load(tx[s], {Root})
    OBVIOUS
  <2>2. Root \in Forks => <<Call("join", Root, 0)>> \in Seq(Calls)
    BY CallType DEF AtFork
  <2>3. NewCalls(s, t, row, <<Call("join", Root, 0)>>)
    BY PlainCall
  <2>4. Returns(s, t, <<>>) \/ (Root \in Forks /\ Returns(s, t, <<Call("join", Root, 0)>>))
    BY <1>3, <2>1 DEF Recheck
  <2> QED BY <1>1, <1>2, <2>1, <2>2, <2>3, <2>4, ReadStep
<1>4. CASE CompleteEnrollment(s)
  <2>1. PICK t : t = Load(tx[s], Paths \cup {Root})
    OBVIOUS
  <2>2. <<Call("finish", Root, 0)>> \in Seq(Calls)
    BY CallType, Sorts
  <2>3. NewCalls(s, t, row, <<Call("finish", Root, 0)>>)
    BY PlainCall
  <2>4. Returns(s, t, <<>>) \/ Returns(s, t, <<Call("finish", Root, 0)>>)
    BY <1>4, <2>1 DEF CompleteEnrollment
  <2> QED BY <1>1, <1>2, <2>1, <2>2, <2>3, <2>4, ReadStep
<1>5. CASE ExitEnrollment(s)
  <2>1. PICK t : t = IF Known(tx[s], Root).counted THEN Load(tx[s], Paths) ELSE tx[s]
    OBVIOUS
  <2>2. <<Call("kill", Root, 0)>> \in Seq(Calls)
    BY CallType, Sorts
  <2>3. NewCalls(s, t, row, <<Call("kill", Root, 0)>>)
    BY PlainCall
  <2>4. Returns(s, t, <<Call("kill", Root, 0)>>)
    BY <1>5, <2>1 DEF ExitEnrollment
  <2> QED BY <1>1, <2>1, <2>2, <2>3, <2>4, ReadStep
<1>6. CASE Finish(s)
  <2>1. PICK t : t = Write(tx[s], Root, "st", "completed")
    OBVIOUS
  <2>2. tx[s] \in Transactions /\ row \in Rows /\ RowsGood(row, joins) /\ Good(s, tx[s], row)
    BY DEF JoinInv, TypeOK
  <2>3. t \in Transactions
    BY <2>1, <2>2, WriteType, Sorts DEF Columns, Status
  <2>4. Good(s, t, row) /\ Keeps(tx[s], t)
    <3>1. Root \in Flows /\ Root \notin Paths /\ Root \notin Leaf
      BY Sorts
    <3> QED BY <2>1, <2>2, <3>1, StatusGood
  <2>5. t.dirty = tx[s].dirty \cup {<<Root, "st">>}
    BY <2>1, <2>2, WriteIs, Sorts DEF Columns
  <2>6. \A q \in Flows : <<q, "st">> \in t.dirty =>
          <<q, "st">> \in tx[s].dirty \/ \A x \in Sessions \ {s} : <<q, "st">> \notin tx[x].dirty
    BY <1>6, <2>5, FreeLock DEF Finish
  <2>7. Returns(s, t, <<>>)
    BY <1>6, <2>1 DEF Finish
  <2> QED BY <1>1, <1>2, <2>3, <2>4, <2>6, <2>7, CallStep
<1> QED BY <1>3, <1>4, <1>5, <1>6

LEMMA DoomType ==
  ASSUME NEW t \in Transactions,
         NEW u, u = [t EXCEPT
                      !.mem = [p \in Flows |-> IF p \in Doomed(t) THEN [@[p] EXCEPT !.st = "exited"]
                                               ELSE @[p]],
                      !.dirty = @ \cup Doomed(t) \X {"st"}]
  PROVE  u \in Transactions
<1> DEFINE K == Doomed(t)
           m == [p \in Flows |-> IF p \in K THEN [t.mem[p] EXCEPT !.st = "exited"] ELSE t.mem[p]]
<1>1. m \in Rows
  <2>1. \A p \in Flows : m[p] \in Row /\ m[p].at <= Len(Script[p])
    <3> TAKE p \in Flows
    <3>1. t.mem[p] \in Row /\ t.mem[p].at <= Len(Script[p])
      BY MemOf, RowOf
    <3> HIDE DEF K
    <3> QED BY <3>1 DEF Row, Status
  <2> HIDE DEF K
  <2> QED BY <2>1, RowsFrom
<1>2. K \X {"st"} \in SUBSET (Flows \X Columns)
  BY Sorts DEF Doomed, Columns
<1>3. u = [t EXCEPT !.mem = m, !.dirty = @ \cup K \X {"st"}]
  BY DEF Transactions
<1>4. \A n \in Rows, D \in SUBSET (Flows \X Columns) :
        [t EXCEPT !.mem = n, !.dirty = @ \cup D] \in Transactions
  BY DEF Transactions
<1> HIDE DEF m, K
<1>5. PICK D \in SUBSET (Flows \X Columns) : D = K \X {"st"}
  BY <1>2
<1>6. PICK n \in Rows : n = m
  BY <1>1
<1>7. u = [t EXCEPT !.mem = n, !.dirty = @ \cup D]
  BY <1>3, <1>5, <1>6
<1>8. [t EXCEPT !.mem = n, !.dirty = @ \cup D] \in Transactions
  BY <1>4
<1> QED BY <1>7, <1>8

LEMMA KillJoin == ASSUME JoinInv, TypeOK, NEW s \in Sessions, Kill(s) PROVE JoinInv'
<1>1. PICK t : t = tx[s]
  OBVIOUS
<1>2. t \in Transactions /\ row \in Rows /\ RowsGood(row, joins) /\ Good(s, t, row)
      /\ UNCHANGED dbVars /\ tx[s].calls # <<>>
  BY <1>1 DEF JoinInv, TypeOK, Kill, Running
<1>3. PICK d : d = [t EXCEPT
                      !.mem = [p \in Flows |-> IF p \in Doomed(t) THEN [@[p] EXCEPT !.st = "exited"]
                                               ELSE @[p]],
                      !.dirty = @ \cup Doomed(t) \X {"st"}]
  OBVIOUS
<1>4. PICK u : u = Write(d, Root, "st", "exited")
  OBVIOUS
<1>5. /\ \A p \in Doomed(t) \cup {Root} : Free(s, p)
      /\ Returns(s, u, <<>>)
  BY <1>1, <1>3, <1>4 DEF Kill
<1>6. Good(s, d, row) /\ Keeps(t, d) /\ d.dirty = t.dirty \cup Doomed(t) \X {"st"}
  BY <1>2, <1>3, DoomGood
<1>7. d \in Transactions
  BY <1>2, <1>3, DoomType
<1>8. u \in Transactions
  BY <1>2, <1>4, <1>7, WriteType, Sorts DEF Columns, Status
<1>9. Good(s, u, row) /\ Keeps(d, u)
  <2>1. Root \in Flows /\ Root \notin Paths /\ Root \notin Leaf
    BY Sorts
  <2> QED BY <1>2, <1>4, <1>6, <1>7, <2>1, StatusGood
<1>10. u.dirty = d.dirty \cup {<<Root, "st">>}
  BY <1>2, <1>4, <1>7, WriteIs, Sorts DEF Columns
<1>11. \A q \in Flows : <<q, "st">> \in u.dirty =>
         <<q, "st">> \in tx[s].dirty \/ \A x \in Sessions \ {s} : <<q, "st">> \notin tx[x].dirty
  BY <1>1, <1>5, <1>6, <1>10, FreeLock
<1>12. Keeps(tx[s], u)
  BY <1>1, <1>6, <1>9, KeepsAll
<1>13. <<>> \in Seq(Calls) /\ NewCalls(s, u, row, <<>>)
  BY NoCall
<1> QED BY <1>2, <1>5, <1>8, <1>9, <1>11, <1>12, <1>13, CallStep

-----------------------------------------------------------------------------
(* The beginning, the list and the end of a transaction. *)

LEMMA NoTxGood ==
  ASSUME NEW s, NEW r PROVE Good(s, NoTx, r) /\ CallsGood(s, NoTx, r)
<1>1. /\ NoTx.dirty = {} /\ NoTx.log = {} /\ NoTx.list = {} /\ NoTx.todo = {} /\ NoTx.read = {}
      /\ NoTx.op = "none" /\ NoTx.calls = <<>>
      /\ \A p \in Flows : NoTx.mem[p].st = "none"
  BY DEF NoTx, Blank
<1>2. \A p \in Leaf : NoTx.mem[p].st # "forked"
  BY <1>1, Sorts
<1>3. Seen(NoTx, r)
  BY <1>1, <1>2 DEF Seen
<1>4. Written(s, NoTx, r)
  BY <1>1 DEF Written, Spawns
<1>5. Passing(s, NoTx, r)
  BY <1>1 DEF Passing, Timers
<1>6. CallsGood(s, NoTx, r)
  BY <1>1 DEF CallsGood
<1> QED BY <1>3, <1>4, <1>5, <1>6 DEF Good

LEMMA CommitJoin == ASSUME JoinInv, TypeOK, NEW s \in Sessions, Commit(s) PROVE JoinInv'
<1>1. row' = Merged(tx[s]) /\ joins' = Logged(tx[s]) /\ tx' = [tx EXCEPT ![s] = NoTx]
  BY DEF Commit
<1>2. NoTx.dirty = {}
  BY DEF NoTx
<1>3. PICK u : u = NoTx
  OBVIOUS
<1>4. u.dirty = {} /\ tx' = [tx EXCEPT ![s] = u]
      /\ Good(s, u, Merged(tx[s])) /\ CallsGood(s, u, Merged(tx[s]))
  BY <1>1, <1>2, <1>3, NoTxGood
<1> QED BY <1>1, <1>4, CommitStep

LEMMA DroppedJoin ==
  ASSUME JoinInv, TypeOK, NEW s \in Sessions, Dropped(s), UNCHANGED dbVars PROVE JoinInv'
<1>1. NoTx.dirty = {}
  BY DEF NoTx
<1>2. PICK u : u = NoTx
  OBVIOUS
<1>3. u.dirty = {} /\ tx' = [tx EXCEPT ![s] = u] /\ Good(s, u, row) /\ CallsGood(s, u, row)
  BY <1>1, <1>2, NoTxGood DEF Dropped
<1> QED BY <1>3, SessionStep

\* What a session takes from its list.
LEMMA TakeGood ==
  ASSUME JoinInv, TypeOK, NEW s \in Sessions, NEW old, old = tx[s], NEW p, p \in old.todo,
         NEW l, l = old \/ l = LookAtFunnel(old),
         NEW t, t = Load(l, {Root, p})
  PROVE  /\ t \in Transactions /\ Good(s, t, row) /\ t.dirty = old.dirty /\ t.op = old.op
         /\ p \in Flows /\ p \in t.list /\ p \in t.read
<1>1. old \in Transactions /\ row \in Rows /\ RowsGood(row, joins) /\ Good(s, old, row)
  BY DEF JoinInv, TypeOK
<1>2. p \in old.list /\ p \in Flows
  BY <1>1 DEF Good, Passing, Transactions
<1>3. /\ l \in Transactions
      /\ l.dirty = old.dirty /\ l.log = old.log /\ l.list = old.list /\ l.todo = old.todo
      /\ l.op = old.op /\ l.read = old.read /\ l.mem = old.mem
  <2>1. CASE l = old
    BY <1>1, <2>1
  <2>2. CASE l = LookAtFunnel(old)
    BY <1>1, <2>2 DEF LookAtFunnel, Transactions
  <2> QED BY <2>1, <2>2
<1>4. Good(s, l, row) /\ \A q \in Flows : KnownSt(l, row, q) = KnownSt(old, row, q)
  BY <1>1, <1>3, AlikeGood
<1>5. /\ t \in Transactions /\ t.dirty = l.dirty /\ t.list = l.list
      /\ t.op = l.op /\ t.read = l.read \cup {Root, p}
  BY <1>1, <1>2, <1>3, LoadIs, Sorts
<1>6. Good(s, t, row)
  <2>1. \A q \in {Root, p} \cap Paths : KnownSt(l, row, q) # "none"
    BY <1>1, <1>2, <1>4, Sorts DEF Good, Passing
  <2> QED BY <1>1, <1>2, <1>3, <1>4, <2>1, LoadGood, Sorts
<1> QED BY <1>2, <1>3, <1>5, <1>6

\* Its first call.  Only a timer leads into a fork, and only where nobody was before.
LEMMA FirstCall ==
  ASSUME JoinInv, TypeOK, NEW s, NEW t \in Transactions, Good(s, t, row), t.op # "none",
         NEW p \in Flows, p \in t.list, p \in t.read,
         NEW i, i = t.mem[p].at, TypeAt(p, i) = Awaits(t.op),
         NEW d, d = Call(IF TypeAt(p, i) = "wait_until" THEN "resolve" ELSE "advance", p, i)
  PROVE  CallGood(s, t, row, d) /\ (Entering(d) => EnterGood(s, t, row, d))
<1>1. d.flow = p /\ d.step = i /\ d.do = IF TypeAt(p, i) = "wait_until" THEN "resolve" ELSE "advance"
  BY DEF Call
<1>2. CallGood(s, t, row, d)
  BY <1>1 DEF CallGood, Good, Passing
<1>3. ASSUME Entering(d) PROVE EnterGood(s, t, row, d)
  <2>1. p \in Forks /\ i < ForkStep /\ d.do = "advance"
    BY <1>1, <1>3 DEF Entering
  <2>2. TypeAt(p, i) \in {"none", "wait"}
    BY <2>1, PastFork, Sorts
  <2>3. t.op = "wait"
    BY <2>2 DEF Awaits, Transactions
  <2>4. s = Scheduler
    BY <2>3 DEF Good, Passing, Timers
  <2>5. At(t, row, p) < ForkStep
    BY <2>1, <2>4 DEF Good, Passing
  <2>6. \A q \in Children(p) : Unborn(t, row, q)
    BY <2>1, <2>5, NotYet DEF JoinInv, TypeOK
  <2> QED BY <1>1, <2>1, <2>4, <2>6 DEF EnterGood
<1> QED BY <1>2, <1>3

LEMMA TakeJoin == ASSUME JoinInv, TypeOK, NEW s \in Sessions, Take(s) PROVE JoinInv'
<1> DEFINE old == tx[s]
           Main(p) == old.op = "wait" /\ p = Root
           L(p) == IF Main(p) THEN LookAtFunnel(old) ELSE old
           T(p) == [Load(L(p), {Root, p}) EXCEPT !.todo = @ \ {p}]
           I(p) == T(p).mem[p].at
           D(p) == Call(IF TypeAt(p, I(p)) = "wait_until" THEN "resolve" ELSE "advance", p, I(p))
           R(p) == IF p = Root \/ TypeAt(p, I(p)) = "wait" THEN <<>> ELSE <<Call("recheck", Root, 0)>>
           Skipped(p) == \/ TypeAt(p, I(p)) # Awaits(old.op)
                         \/ Main(p) /\ KnowsStopped(old)
                         \/ /\ TypeAt(p, I(p)) = "wait_until"
                            /\ \/ <<p, I(p)>> \in T(p).mem[Root].resolved
                               \/ old.op = TypeAt(p, I(p)) /\ p # Root /\ T(p).mem[Root].st # "active"
           C(p) == IF Skipped(p) THEN <<>> ELSE <<D(p)>> \o R(p)
<1>1. PICK p \in tx[s].todo : tx' = [tx EXCEPT ![s] = [T(p) EXCEPT !.calls = C(p)]]
  BY DEF Take
<1>2. UNCHANGED dbVars /\ old.op # "none"
  BY DEF Take, Open
<1>3. L(p) = tx[s] \/ L(p) = LookAtFunnel(tx[s])
  OBVIOUS
<1> HIDE DEF L, I, D, R, Skipped, C
<1>4. PICK t : t = T(p)
  OBVIOUS
<1>5. /\ t \in Transactions /\ Good(s, t, row) /\ t.dirty = tx[s].dirty /\ t.op = tx[s].op
      /\ p \in Flows /\ p \in t.list /\ p \in t.read
  <2>1. PICK l : l = L(p)
    OBVIOUS
  <2>2. PICK v : v = Load(l, {Root, p})
    OBVIOUS
  <2>3. PICK w : w = tx[s]
    OBVIOUS
  <2>4. (l = w \/ l = LookAtFunnel(w)) /\ p \in w.todo
    BY <1>3, <2>1, <2>3
  <2>5. /\ v \in Transactions /\ Good(s, v, row) /\ v.dirty = w.dirty /\ v.op = w.op
        /\ p \in Flows /\ p \in v.list /\ p \in v.read
    BY <2>2, <2>3, <2>4, TakeGood
  <2>6. t = [v EXCEPT !.todo = @ \ {p}]
    BY <1>4, <2>1, <2>2
  <2>7. /\ t \in Transactions /\ t.dirty = v.dirty /\ t.log = v.log /\ t.list = v.list
        /\ t.todo \subseteq v.todo /\ t.op = v.op /\ t.read = v.read /\ t.mem = v.mem
    BY <2>5, <2>6 DEF Transactions
  <2>8. Good(s, t, row)
    BY <2>5, <2>7, AlikeGood
  <2> QED BY <2>3, <2>5, <2>7, <2>8
<1>6. PICK i, d : i = I(p) /\ d = D(p)
  OBVIOUS
<1>7. PICK rest : rest = R(p)
  OBVIOUS
<1>8. PICK c : c = C(p)
  OBVIOUS
<1>9. PICK e : e = Call("recheck", Root, 0)
  OBVIOUS
<1>10. rest = <<>> \/ rest = <<e>>
  BY <1>7, <1>9 DEF R
<1>11. c = <<>> \/ (TypeAt(p, i) = Awaits(t.op) /\ c = <<d>> \o rest)
  <2>1. Skipped(p) \/ TypeAt(p, I(p)) = Awaits(old.op)
    BY DEF Skipped
  <2>2. I(p) = i /\ D(p) = d /\ R(p) = rest /\ t.op = old.op
    BY <1>5, <1>6, <1>7
  <2>3. C(p) = <<>> \/ (~Skipped(p) /\ C(p) = <<D(p)>> \o R(p))
    BY DEF C
  <2> QED BY <1>8, <2>1, <2>2, <2>3
<1>12. /\ i = t.mem[p].at
       /\ d = Call(IF TypeAt(p, i) = "wait_until" THEN "resolve" ELSE "advance", p, i)
  BY <1>4, <1>6 DEF I, D
<1>13. PICK u : u = [t EXCEPT !.calls = c]
  OBVIOUS
<1>14. tx' = [tx EXCEPT ![s] = u]
  BY <1>1, <1>4, <1>8, <1>13
<1> HIDE DEF old, T
<1>15. TypeAt(p, i) = Awaits(t.op) => CallGood(s, t, row, d) /\ (Entering(d) => EnterGood(s, t, row, d))
  BY <1>2, <1>5, <1>12, FirstCall DEF old
<1>16. CallGood(s, t, row, e) /\ ~Entering(e)
  <2>1. e.do = "recheck"
    BY <1>9 DEF Call
  <2> QED BY <2>1 DEF CallGood, Entering, AtStep
<1>17. \A j \in DOMAIN (<<d>> \o rest) :
         (j = 1 /\ (<<d>> \o rest)[j] = d) \/ (<<d>> \o rest)[j] = e
  <2>1. PICK S : d \in S /\ e \in S
    <3>1. d \in {d, e} /\ e \in {d, e}
      OBVIOUS
    <3> QED BY <3>1
  <2>5. <<d>> \in Seq(S) /\ rest \in Seq(S)
    <3>1. <<d>> \in Seq(S) /\ <<e>> \in Seq(S)
      BY <2>1
    <3>2. <<>> \in Seq(S)
      OBVIOUS
    <3> QED BY <1>10, <3>1, <3>2
  <2>6. Len(<<d>>) = 1 /\ <<d>>[1] = d
    OBVIOUS
  <2>2. Len(rest) \in Nat /\ \A j \in 1 .. Len(rest) : rest[j] = e
    BY <1>10
  <2>3. \A j \in 1 .. 1 + Len(rest) : (<<d>> \o rest)[j] = IF j <= 1 THEN <<d>>[j] ELSE rest[j - 1]
    BY <2>5, <2>6, ConcatProperties
  <2>4. DOMAIN (<<d>> \o rest) = 1 .. 1 + Len(rest)
    <3>1. <<d>> \o rest \in Seq(S) /\ Len(<<d>> \o rest) = 1 + Len(rest)
      BY <2>5, <2>6, ConcatProperties
    <3> QED BY <3>1
  <2> QED BY <2>2, <2>3, <2>4, <2>6
<1>18. NewCalls(s, t, row, c)
  <2>1. CASE c = <<>>
    BY <2>1, NoCall
  <2>2. CASE TypeAt(p, i) = Awaits(t.op) /\ c = <<d>> \o rest
    BY <1>15, <1>16, <1>17, <2>2 DEF NewCalls
  <2> QED BY <1>11, <2>1, <2>2
<1>19. /\ u.calls = c /\ u.dirty = t.dirty /\ u.log = t.log /\ u.list = t.list /\ u.todo = t.todo
       /\ u.op = t.op /\ u.read = t.read /\ u.mem = t.mem
  BY <1>5, <1>13 DEF Transactions
<1>20. Good(s, u, row)
  BY <1>5, <1>19, AlikeGood
<1>21. CallsGood(s, u, row)
  <2>1. \A x : /\ CallGood(s, u, row, x) <=> CallGood(s, t, row, x)
               /\ EnterGood(s, u, row, x) <=> EnterGood(s, t, row, x)
    BY <1>19 DEF CallGood, EnterGood, KnownSt, Unborn, At
  <2> QED BY <1>18, <1>19, <2>1 DEF CallsGood, NewCalls
<1>22. u.dirty = tx[s].dirty
  BY <1>5, <1>19
<1> QED BY <1>2, <1>14, <1>20, <1>21, <1>22, SessionStep

\* What a session lists, or reads to begin with, is as it is.
LEMMA OpenStep ==
  ASSUME JoinInv, TypeOK, NEW s \in Sessions, NEW u, tx' = [tx EXCEPT ![s] = u], UNCHANGED dbVars,
         u.dirty = {}, u.log = {}, u.todo \subseteq u.list, u.list \subseteq u.read,
         u.read \subseteq Flows,
         \A p \in u.read : u.mem[p].st = row[p].st /\ u.mem[p].at = row[p].at,
         \A p \in Flows \ u.read : u.mem[p].st = "none",
         \A p \in Paths \cap u.read : row[p].st # "none",
         s # Scheduler => u.op \notin Timers,
         s # Scheduler => \A f \in Forks \cap u.list : row[f].at >= ForkStep,
         CallsGood(s, u, row)
  PROVE  JoinInv'
<1>1. RowsGood(row, joins)
  BY DEF JoinInv
<1>2. Seen(u, row)
  <2>1. \A p \in Leaf : u.mem[p].st # "forked"
    BY <1>1, Sorts DEF RowsGood
  <2>2. \A f \in Forks : \A p, q \in Children(f) :
          p \in u.read /\ u.mem[p].st = "none" => q \in u.read /\ u.mem[q].st = "none"
    BY Sorts
  <2>3. \A p \in Paths \cap u.read : St(u, row, p) = u.mem[p].st /\ u.mem[p].st # "none"
    BY Sorts DEF St
  <2> QED BY <2>1, <2>2, <2>3, Sorts DEF Seen
<1>3. Written(s, u, row)
  BY DEF Written, Spawns
<1>4. Passing(s, u, row)
  <2>1. \A p \in Paths \cap u.list : row[p].st # "none" /\ KnownSt(u, row, p) # "none"
    BY DEF KnownSt
  <2>2. \A f \in u.read : At(u, row, f) = u.mem[f].at
    BY DEF At
  <2> QED BY <2>1, <2>2 DEF Passing
<1>5. Good(s, u, row)
  BY <1>2, <1>3, <1>4 DEF Good
<1> QED BY <1>5, SessionStep

LEMMA FirstLoad ==
  ASSUME TypeOK, NEW P \in SUBSET Flows, NEW u, u = Load(NoTx, P)
  PROVE  /\ u \in Transactions /\ u.dirty = {} /\ u.log = {} /\ u.list = {} /\ u.todo = {}
         /\ u.calls = <<>> /\ u.op = "none" /\ u.read = P
         /\ \A p \in P : u.mem[p].st = row[p].st /\ u.mem[p].at = row[p].at
         /\ \A p \in Flows \ P : u.mem[p].st = "none"
<1>1. /\ NoTx \in Transactions /\ NoTx.dirty = {} /\ NoTx.log = {} /\ NoTx.list = {}
      /\ NoTx.todo = {} /\ NoTx.read = {} /\ NoTx.op = "none" /\ NoTx.calls = <<>>
      /\ \A p \in Flows : NoTx.mem[p].st = "none"
  BY NoTxType DEF NoTx, Blank
<1>2. /\ u \in Transactions /\ u.dirty = {} /\ u.log = {} /\ u.list = {} /\ u.todo = {}
      /\ u.op = "none" /\ u.read = P
      /\ \A p \in Flows :
           /\ u.mem[p].st = IF p \in P THEN KnownSt(NoTx, row, p) ELSE NoTx.mem[p].st
           /\ u.mem[p].at = IF p \in P THEN KnownAt(NoTx, row, p) ELSE NoTx.mem[p].at
  <2>1. row \in Rows
    BY DEF TypeOK
  <2>2. PICK t : t = NoTx
    OBVIOUS
  <2>3. /\ u \in Transactions
        /\ u.dirty = t.dirty /\ u.log = t.log /\ u.list = t.list /\ u.todo = t.todo
        /\ u.op = t.op /\ u.read = t.read \cup P
        /\ \A p \in Flows :
             /\ u.mem[p].st = IF p \in P THEN KnownSt(t, row, p) ELSE t.mem[p].st
             /\ u.mem[p].at = IF p \in P THEN KnownAt(t, row, p) ELSE t.mem[p].at
    BY <1>1, <2>1, <2>2, LoadIs
  <2> QED BY <1>1, <2>2, <2>3
<1>3. u.calls = <<>>
  BY <1>1 DEF Load, Transactions
<1>4. \A p \in Flows : KnownSt(NoTx, row, p) = row[p].st /\ KnownAt(NoTx, row, p) = row[p].at
  BY <1>1 DEF KnownSt, KnownAt
<1> QED BY <1>1, <1>2, <1>3, <1>4

LEMMA ListJoin ==
  ASSUME JoinInv, TypeOK, NEW s \in Sessions, NEW op, NEW L \in SUBSET Flows,
         Begin(s, op, List(L)), UNCHANGED dbVars,
         \A p \in L : row[p].st = "active",
         s # Scheduler => op \notin Timers,
         s # Scheduler => \A f \in Forks \cap L : row[f].at >= ForkStep
  PROVE  JoinInv'
<1>1. PICK v : v = Load(NoTx, L)
  OBVIOUS
<1>2. /\ v \in Transactions /\ v.dirty = {} /\ v.log = {} /\ v.calls = <<>> /\ v.read = L
      /\ \A p \in L : v.mem[p].st = row[p].st /\ v.mem[p].at = row[p].at
      /\ \A p \in Flows \ L : v.mem[p].st = "none"
  BY <1>1, FirstLoad
<1>3. PICK t : t = List(L)
  OBVIOUS
<1>4. t = [v EXCEPT !.list = L, !.todo = L]
  BY <1>1, <1>3 DEF List
<1>5. t \in Transactions /\ t.dirty = {} /\ t.log = {} /\ t.calls = <<>> /\ t.read = L
      /\ t.list = L /\ t.todo = L /\ t.mem = v.mem
  BY <1>2, <1>4 DEF Transactions
<1>6. PICK u : u = [t EXCEPT !.op = op]
  OBVIOUS
<1>7. u.dirty = {} /\ u.log = {} /\ u.calls = <<>> /\ u.read = L
      /\ u.list = L /\ u.todo = L /\ u.mem = v.mem /\ u.op = op
  BY <1>5, <1>6 DEF Transactions
<1>8. tx' = [tx EXCEPT ![s] = u]
  BY <1>3, <1>6 DEF Begin
<1>9. CallsGood(s, u, row)
  BY <1>7 DEF CallsGood
<1>10. /\ \A p \in u.read : u.mem[p].st = row[p].st /\ u.mem[p].at = row[p].at
       /\ \A p \in Flows \ u.read : u.mem[p].st = "none"
       /\ \A p \in Paths \cap u.read : row[p].st # "none"
       /\ s # Scheduler => u.op \notin Timers
       /\ s # Scheduler => \A f \in Forks \cap u.list : row[f].at >= ForkStep
  BY <1>2, <1>7
<1> QED BY <1>7, <1>8, <1>9, <1>10, OpenStep

LEMMA OpenPassJoin == ASSUME JoinInv, TypeOK, NEW k \in Timers, OpenPass(k) PROVE JoinInv'
<1>1. PICK L \in SUBSET Listed(k) : Begin(Scheduler, k, List(L))
  BY DEF OpenPass
<1>2. L \in SUBSET Flows /\ \A p \in L : row[p].st = "active"
  BY DEF Listed, Waits
<1>3. Scheduler \in Sessions /\ UNCHANGED dbVars
  BY DEF Sessions, OpenPass
<1> QED BY <1>1, <1>2, <1>3, ListJoin

LEMMA OpenOtherJoin ==
  ASSUME JoinInv, TypeOK, NEW s \in Handlers, OpenEvent(s) \/ OpenReply(s) \/ OpenGoal(s)
  PROVE  JoinInv'
<1>1. s \in Sessions /\ s # Scheduler
  BY FunnelAssumption DEF FunnelAssumption, Sessions
<1>2. \A p \in Flows, k \in {"wait_until", "wait_for_reply"} :
        Waits(p, k) => row[p].st = "active" /\ (p \in Forks => row[p].at >= ForkStep)
  BY PastFork DEF Waits
<1>3. CASE OpenEvent(s)
  <2>1. PICK L : L = Listed("wait_until")
    OBVIOUS
  <2>2. L \in SUBSET Flows /\ \A p \in L : Waits(p, "wait_until")
    BY <2>1 DEF Listed
  <2>3. Begin(s, "event", List(L)) /\ UNCHANGED dbVars
    BY <1>3, <2>1 DEF OpenEvent
  <2>4. "event" \notin Timers
    BY DEF Timers
  <2>5. /\ \A p \in L : row[p].st = "active"
        /\ \A f \in Forks \cap L : row[f].at >= ForkStep
    BY <1>2, <2>2
  <2> QED BY <1>1, <2>2, <2>3, <2>4, <2>5, ListJoin
<1>4. CASE OpenReply(s)
  <2>1. PICK p \in Paths : Waits(p, "wait_for_reply") /\ Begin(s, "reply", List({p}))
    BY <1>4 DEF OpenReply
  <2>2. PICK L : L = {p}
    OBVIOUS
  <2>3. L \in SUBSET Flows /\ \A q \in L : Waits(q, "wait_for_reply")
    BY <2>1, <2>2, Sorts
  <2>4. Begin(s, "reply", List(L)) /\ UNCHANGED dbVars
    BY <1>4, <2>1, <2>2 DEF OpenReply
  <2>5. "reply" \notin Timers
    BY DEF Timers
  <2>6. /\ \A q \in L : row[q].st = "active"
        /\ \A f \in Forks \cap L : row[f].at >= ForkStep
    BY <1>2, <2>3
  <2> QED BY <1>1, <2>3, <2>4, <2>5, <2>6, ListJoin
<1>5. CASE OpenGoal(s)
  <2>1. PICK v, c : v = Load(NoTx, {Root}) /\ c = <<Call("exit", Root, 0)>>
    OBVIOUS
  <2>2. /\ v \in Transactions /\ v.dirty = {} /\ v.log = {} /\ v.list = {} /\ v.todo = {}
        /\ v.read = {Root}
        /\ \A p \in {Root} : v.mem[p].st = row[p].st /\ v.mem[p].at = row[p].at
        /\ \A p \in Flows \ {Root} : v.mem[p].st = "none"
    BY <2>1, FirstLoad, Sorts
  <2>3. PICK t : t = [v EXCEPT !.calls = c]
    OBVIOUS
  <2>4. PICK u : u = [t EXCEPT !.op = "goal"]
    OBVIOUS
  <2>5. u.dirty = {} /\ u.log = {} /\ u.calls = c /\ u.read = {Root}
        /\ u.list = {} /\ u.todo = {} /\ u.mem = v.mem /\ u.op = "goal"
    <3>1. t.dirty = {} /\ t.log = {} /\ t.calls = c /\ t.read = {Root} /\ t.list = {} /\ t.todo = {}
          /\ t.mem = v.mem /\ t = [t EXCEPT !.calls = c]
      BY <2>2, <2>3 DEF Transactions
    <3>2. u = [v EXCEPT !.calls = c, !.op = "goal"]
      BY <2>3, <2>4
    <3> QED BY <2>2, <3>2 DEF Transactions
  <2>6. tx' = [tx EXCEPT ![s] = u] /\ UNCHANGED dbVars
    BY <1>5, <2>1, <2>3, <2>4 DEF OpenGoal, Begin
  <2>7. CallsGood(s, u, row)
    <3>1. NewCalls(s, u, row, c)
      BY <2>1, PlainCall
    <3> QED BY <2>5, <3>1 DEF NewCalls, CallsGood
  <2>8. /\ u.read \subseteq Flows /\ Paths \cap u.read = {} /\ u.op \notin Timers
        /\ \A p \in u.read : u.mem[p].st = row[p].st /\ u.mem[p].at = row[p].at
        /\ \A p \in Flows \ u.read : u.mem[p].st = "none"
    BY <2>2, <2>5, Sorts DEF Timers
  <2>9. u.todo \subseteq u.list /\ u.list \subseteq u.read /\ u.list = {}
    BY <2>5
  <2> QED BY <1>1, <2>5, <2>6, <2>7, <2>8, <2>9, OpenStep
<1> QED BY <1>3, <1>4, <1>5

-----------------------------------------------------------------------------
(* The invariant. *)

LEMMA EngineJoin == ASSUME JoinInv, TypeOK, NEW s \in Sessions, Engine(s) PROVE JoinInv'
BY TakeJoin, ResolveJoin, AdvanceJoin, ProcessJoin, ExecuteJoin, CheckJoin, LeaveJoin, EndingJoin,
   KillJoin, CommitJoin DEF Engine

LEMMA JoinStart == Init => JoinInv
<1> SUFFICES ASSUME Init PROVE JoinInv
  OBVIOUS
<1>1. /\ row[Root].st = "active" /\ row[Root].at = 1
      /\ \A p \in Paths : row[p].st = "none" /\ row[p].at = 0
  BY Sorts DEF Init, Blank
<1>2. \A f \in Forks : joins[f] = 0 /\ row[f].at < ForkStep
  BY <1>1, Sorts DEF Init
<1>3. RowsGood(row, joins)
  <2>1. \A f \in Forks : ~(row[f].at >= ForkStep) /\ ~(joins[f] > 0)
    BY <1>1, <1>2, Sorts
  <2>2. \A f \in Forks : \A p \in Children(f) : row[p].st = "none"
    BY <1>1, Sorts
  <2> QED BY <1>1, <2>1, <2>2, Sorts DEF RowsGood
<1>4. \A s \in Sessions : tx[s] = NoTx /\ tx[s].dirty = {}
  BY DEF Init, NoTx
<1>5. \A s \in Sessions : Good(s, tx[s], row) /\ CallsGood(s, tx[s], row)
  BY <1>4, NoTxGood
<1>6. Locked
  BY <1>4 DEF Locked
<1> QED BY <1>3, <1>5, <1>6 DEF JoinInv

LEMMA JoinStay == ASSUME JoinInv, UNCHANGED <<dbVars, tx>> PROVE JoinInv'
<1>1. row' = row /\ joins' = joins /\ tx' = tx
  BY DEF dbVars
<1>2. RowsGood(row', joins') /\ Locked'
  BY <1>1 DEF JoinInv, Locked
<1>3. \A s \in Sessions : Good(s, tx'[s], row') /\ CallsGood(s, tx'[s], row')
  BY <1>1 DEF JoinInv
<1> QED BY <1>2, <1>3 DEF JoinInv

LEMMA JoinKept == ASSUME JoinInv, TypeOK, [Next]_vars PROVE JoinInv'
<1>1. CASE UNCHANGED vars
  BY <1>1, JoinStay DEF vars
<1>2. CASE \E k \in Timers : OpenPass(k)
  BY <1>2, OpenPassJoin
<1>3. CASE \E s \in Handlers : OpenEvent(s) \/ OpenReply(s) \/ OpenGoal(s)
  BY <1>3, OpenOtherJoin
<1>4. CASE \E s \in Sessions : Engine(s) \/ Abort(s) \/ Victim(s)
  <2>1. PICK s \in Sessions : Engine(s) \/ Abort(s) \/ Victim(s)
    BY <1>4
  <2>2. Abort(s) \/ Victim(s) => Dropped(s) /\ UNCHANGED dbVars
    BY DEF Abort, Victim
  <2> QED BY <2>1, <2>2, EngineJoin, DroppedJoin
<1>5. CASE EventArrives \/ Stop \/ Resume
  BY <1>5, JoinStay DEF EventArrives, Stop, Resume
<1> QED BY <1>1, <1>2, <1>3, <1>4, <1>5 DEF Next

\* A fork whose fork_joined row is committed has only threads that have ended, but
\* for those with a fork of their own: however old what the session knew that
\* joined it, and whatever the others do later, none of them is active
\* (_check_fork_join).
THEOREM JoinedThreads == Spec => []JoinedThreadsAreDone
<1>1. Init => JoinInv
  BY JoinStart
<1>2. JoinInv /\ TypeOK /\ [Next]_vars => JoinInv'
  BY JoinKept
<1>3. JoinInv => JoinedThreadsAreDone
  BY DEF JoinInv, RowsGood, JoinedThreadsAreDone, Over
<1> QED BY <1>1, <1>2, <1>3, FunnelTypes, PTL DEF Spec
=============================================================================

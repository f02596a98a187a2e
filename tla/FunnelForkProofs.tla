-------------------------- MODULE FunnelForkProofs --------------------------
(***************************************************************************)
(* A fork of a funnel is joined once, for any paths, scripts, handlers and *)
(* number of faults, unless one of the exceptions of JoinsOnce has         *)
(* happened.                                                               *)
(*                                                                         *)
(* Of two sessions that join a fork at a time, each would have to know the *)
(* threads as ended that the other one has ended and not yet committed.    *)
(* So the invariant says that who joins a fork has itself written a thread *)
(* of it that the rows have as running; for the main flow, whose join is   *)
(* also asked for by others, a thread at any depth, and then the threads   *)
(* above it still run as well.                                             *)
(***************************************************************************)
EXTENDS FunnelOnceProofs

Alive == {"active", "forked"}

\* Paths of which no two transactions went on at a time, and nothing else has
\* happened that can make a fork be joined twice.
Tame ==
  {p \in Paths \ contested : causes \cap {"overtaken", "raced"} = {}}

Dirty(t, p) == <<p, "st">> \in t.dirty

\* Rows that are over are not written, and one is advanced that is active and that
\* nobody else moves; what a session knows as over is over.
Sound(s) ==
  \A p \in Tame :
    /\ Dirty(tx[s], p) => row[p].st \notin Over
    /\ On(tx[s].calls, p) # {} =>
         /\ St(tx[s], row, p) = "active"
         /\ \A w \in Sessions \ {s} : ~Moves(tx[w], p)
    /\ KnownSt(tx[s], row, p) \in Over => St(tx[s], row, p) \in Over
    /\ Spawns(tx[s], row, p) =>
         /\ tx[s].op = "wait"
         /\ Host[p] # Root => Dirty(tx[s], Host[p])

\* An exit runs alone and knows what is.
Exits(s) ==
  /\ \A i \in DOMAIN tx[s].calls : tx[s].calls[i].do \in {"exit", "kill"} <=> tx[s].op = "goal"
  /\ tx[s].op = "goal" /\ causes \cap {"overtaken", "raced"} = {} =>
       /\ \A w \in Sessions \ {s} : ~Open(w)
       /\ \A p \in Paths : KnownSt(tx[s], row, p) = St(tx[s], row, p)

\* What is called below another call, and who calls for a fork.
Ordered(s) ==
  /\ \A i \in DOMAIN tx[s].calls : i > 1 =>
       tx[s].calls[i].do \in (IF tx[s].op = "wait" THEN {"process", "join"} ELSE {"recheck"})
  /\ \A i \in DOMAIN tx[s].calls :
       /\ tx[s].calls[i].do = "recheck" => tx[s].op # "wait"
       /\ Entering(tx[s].calls[i]) => tx[s].op = "wait"
       /\ tx[s].calls[i].do = "leave" => tx[s].calls[i].flow \in tx[s].log

\* Who joins a fork has ended one of its threads.
Ending(t, f) == \E p \in Children(f) : Dirty(t, p)
Joining(s) ==
  tx[s].op # "wait" =>
    /\ \A f \in tx[s].log \ {Root} : Ending(tx[s], f)
    /\ \A i \in DOMAIN tx[s].calls :
         tx[s].calls[i].do = "join" /\ tx[s].calls[i].flow # Root => Ending(tx[s], tx[s].calls[i].flow)

\* The threads of a joined fork are over.
Settled(s) ==
  /\ \A f \in tx[s].log : \A p \in Children(f) \cap Tame : St(tx[s], row, p) \in Over
  /\ \A f \in Forks : joins[f] > 0 => \A p \in Children(f) \cap Tame : row[p].st \in Over

\* A fork is joined by one session, once.
OneJoin(f) ==
  /\ joins[f] <= 1
  /\ \A s \in Sessions : f \in tx[s].log =>
       joins[f] = 0 /\ \A w \in Sessions \ {s} : f \notin tx[w].log
OneJoins ==
  \A f \in Forks : Children(f) \subseteq Tame /\ (f = Root => Paths \subseteq Tame) => OneJoin(f)

\* A running thread below another one has it forked.
Hosted(v) ==
  \A p \in Paths : Host[p] # Root /\ v[p] \in Alive => v[Host[p]] = "forked"
View(t) == [p \in Flows |-> St(t, row, p)]

\* Who asks for the join of the main flow is advancing a thread, or has.
Working(t) == \E p \in Paths : (On(t.calls, p) # {} \/ Moves(t, p)) /\ row[p].st \in Alive
Worked(t) == \E p \in Paths : Moves(t, p) /\ row[p].st \in Alive
AsksRoot(t, c) == c.do = "recheck" \/ (c.do = "join" /\ c.flow = Root /\ t.op # "wait")
Asks(t) == \E i \in DOMAIN t.calls : AsksRoot(t, t.calls[i])
JoinedMain(t) == Root \in t.log \/ (Root \in Forks /\ joins[Root] > 0)

Main(s) ==
  /\ Asks(tx[s]) /\ ~JoinedMain(tx[s]) => Working(tx[s])
  /\ Root \in tx[s].log /\ tx[s].op # "wait" => Worked(tx[s])
  /\ Asks(tx[s]) /\ On(tx[s].calls, Root) # {} => JoinedMain(tx[s])

\* A wait_until that is resolved was not; a step is entered with its row written.
Fresh(s) ==
  \A i \in DOMAIN tx[s].calls :
    LET c == tx[s].calls[i]
    IN /\ c.do = "resolve" =>
            Root \in tx[s].read /\ <<c.flow, c.step>> \notin tx[s].mem[Root].resolved
       /\ c.do = "process" /\ c.flow \in Paths /\ tx[s].op # "wait" => <<c.flow, "at">> \in tx[s].dirty

ForkInv ==
  /\ \A s \in Sessions : Sound(s) /\ Exits(s) /\ Ordered(s) /\ Joining(s) /\ Settled(s) /\ Fresh(s)
  /\ OneJoins
  /\ Paths \subseteq Tame =>
       /\ Hosted([p \in Flows |-> row[p].st])
       /\ \A s \in Sessions : Hosted(View(tx[s])) /\ Main(s)

-----------------------------------------------------------------------------
(* A step of one session that commits nothing. *)

\* What a step of s makes of the status of p.
Turns(s, u, p) ==
  \/ St(u, row, p) = St(tx[s], row, p) /\ (Dirty(u, p) <=> Dirty(tx[s], p))
  \/ /\ Dirty(u, p)
     /\ \A w \in Sessions \ {s} : On(tx[w].calls, p) = {}
     /\ \/ /\ St(tx[s], row, p) = "none" /\ St(u, row, p) = "active"
           /\ u.op = "wait"
           /\ Host[p] # Root => Dirty(u, Host[p]) /\ St(u, row, Host[p]) = "forked"
        \/ /\ St(tx[s], row, p) = "active" /\ St(u, row, p) \in Over \cup {"forked"}
           /\ On(u.calls, p) = {}
        \/ /\ St(tx[s], row, p) = "forked" /\ St(u, row, p) = "active"
           /\ p \in tx[s].log

\* It writes, reads and forgets.
Local(s, u) ==
  /\ tx' = [tx EXCEPT ![s] = u] /\ UNCHANGED dbVars
  /\ contested \subseteq contested' /\ causes \subseteq causes'
  /\ u.op = tx[s].op /\ u.op # "none"
  /\ tx[s].dirty \subseteq u.dirty /\ tx[s].log \subseteq u.log
  /\ \A p \in Tame' :
       /\ Turns(s, u, p)
       /\ KnownSt(u, row, p) \in {KnownSt(tx[s], row, p), row[p].st, St(u, row, p)}
  /\ u.op = "goal" /\ Exits(s) /\ causes \cap {"overtaken", "raced"} = {} =>
       \A p \in Paths : KnownSt(u, row, p) = St(u, row, p)

\* A fork that it joins.
Logs(s, u) ==
  \A f \in u.log \ tx[s].log :
    /\ f \in Forks /\ joins[f] = 0
    /\ \A p \in Children(f) \cap Tame' : KnownSt(tx[s], row, p) \in Over /\ Turns(s, u, p)
    /\ u.dirty = tx[s].dirty
    /\ tx[s].op # "wait" =>
         /\ f # Root => Ending(tx[s], f)
         /\ f = Root => Asks(tx[s])
         /\ \A p : On(tx[s].calls, p) = {}

\* The calls c that it puts on the stack.
Puts(s, u, c) ==
  /\ \A i \in DOMAIN c :
       /\ i > 1 => c[i].do \in (IF u.op = "wait" THEN {"process", "join"} ELSE {"recheck"})
       /\ c[i].do = "recheck" => u.op # "wait"
       /\ Entering(c[i]) => u.op = "wait"
       /\ c[i].do = "leave" => c[i].flow \in u.log
       /\ c[i].do = "join" /\ c[i].flow # Root /\ u.op # "wait" => Ending(u, c[i].flow)
       /\ c[i].do \in {"exit", "kill"} <=> u.op = "goal"
       /\ c[i].do = "resolve" =>
            Root \in u.read /\ <<c[i].flow, c[i].step>> \notin u.mem[Root].resolved
       /\ c[i].do = "process" /\ c[i].flow \in Paths /\ u.op # "wait" => <<c[i].flow, "at">> \in u.dirty
       /\ c[i].do \in AtStep /\ c[i].flow \in Tame' =>
            /\ St(u, row, c[i].flow) = "active"
            /\ \A w \in Sessions \ {s} : ~Moves(tx[w], c[i].flow)
  /\ u.op # "wait" =>
       /\ \A p \in Tame' : On(tx[s].calls, p) # {} => On(c, p) # {} \/ Moves(u, p)
       /\ \A i \in DOMAIN c : AsksRoot(u, c[i]) =>
            Asks(tx[s]) \/ \E p \in Paths : On(c, p) # {} \/ Dirty(u, p)
       /\ On(c, Root) # {} =>
            /\ Len(c) = 1
            /\ On(tx[s].calls, Root) # {} \/ JoinedMain(u) \/ tx[s].calls = <<>>

LEMMA TameLess ==
  ASSUME contested \subseteq contested', causes \subseteq causes'
  PROVE  /\ Tame' \subseteq Tame /\ Tame \subseteq Paths
         /\ \A p \in Tame' : p \in Paths /\ p \in Flows /\ p \notin contested'
BY Sorts DEF Tame

\* The other sessions.
LEMMA OthersSound ==
  ASSUME ForkInv, OnceInv', JoinInv', NEW s \in Sessions, NEW u, Local(s, u),
         tx \in [Sessions -> Transactions],
         NEW w \in Sessions, w # s
  PROVE  Sound(w)'
<1>1. tx'[w] = tx[w] /\ tx'[s] = u /\ row' = row
  BY DEF Local, dbVars
<1>2. Sound(w)
  BY DEF ForkInv
<1>3. ASSUME NEW p \in Tame', On(tx[w].calls, p) # {}, NEW x \in Sessions \ {w}
      PROVE  ~Moves(tx'[x], p)
  <2>1. p \in Tame /\ p \in Flows /\ p \notin contested'
    BY <1>3, TameLess DEF Local
  <2>2. ~Moves(tx[x], p)
    BY <1>2, <1>3, <2>1 DEF Sound
  <2>3. CASE x # s
    BY <2>2, <2>3 DEF Local
  <2>4. CASE x = s
    <3>1. <<p, "st">> \notin u.dirty
      BY <1>3, <2>2, <2>4 DEF Local, Turns, Dirty, Moves
    <3>2. <<p, "at">> \notin u.dirty
      <4>1. Single(row', tx', p)
        BY <2>1 DEF OnceInv, OnceFor
      <4>2. PICK i : i \in On(tx[w].calls, p)
        BY <1>3
      <4> QED BY <1>1, <1>3, <2>4, <4>1, <4>2 DEF Single
    <3> QED BY <1>1, <2>4, <3>1, <3>2 DEF Moves
  <2> QED BY <2>3, <2>4
<1>4. Tame' \subseteq Tame
  BY TameLess DEF Local
<1> QED BY <1>1, <1>2, <1>3, <1>4 DEF Sound, Spawns

\* The session itself.
LEMMA SelfSound ==
  ASSUME ForkInv, TypeOK, NEW s \in Sessions, NEW u \in Transactions, Local(s, u),
         NEW c \in Seq(Calls), u.calls = Onto(tx[s].calls, c), Puts(s, u, c)
  PROVE  Sound(s)'
<1>1. tx'[s] = u /\ row' = row /\ \A w \in Sessions \ {s} : tx'[w] = tx[w]
  BY DEF Local, dbVars, TypeOK
<1>2. Sound(s) /\ tx[s].calls \in Seq(Calls)
  BY DEF ForkInv, TypeOK, Transactions
<1>3. SUFFICES ASSUME NEW p \in Tame'
               PROVE  /\ Dirty(u, p) => row[p].st \notin Over
                      /\ On(u.calls, p) # {} =>
                           /\ St(u, row, p) = "active"
                           /\ \A w \in Sessions \ {s} : ~Moves(tx[w], p)
                      /\ KnownSt(u, row, p) \in Over => St(u, row, p) \in Over
                      /\ Spawns(u, row, p) => /\ u.op = "wait"
                                              /\ Host[p] # Root => Dirty(u, Host[p])
  BY <1>1 DEF Sound
<1>4. p \in Tame /\ p \in Paths /\ p \in Flows
  BY TameLess DEF Local
<1>5. Turns(s, u, p) /\ KnownSt(u, row, p) \in {KnownSt(tx[s], row, p), row[p].st, St(u, row, p)}
  BY DEF Local
<1>6. Dirty(u, p) => row[p].st \notin Over
  BY <1>2, <1>4, <1>5 DEF Turns, Sound, St, Dirty, Over
<1>7. ASSUME On(u.calls, p) # {}
      PROVE  St(u, row, p) = "active" /\ \A w \in Sessions \ {s} : ~Moves(tx[w], p)
  <2>1. CASE On(c, p) # {}
    <3>1. PICK i \in DOMAIN c : c[i].do \in AtStep /\ c[i].flow = p
      BY <2>1 DEF On
    <3> QED BY <3>1 DEF Puts
  <2>2. CASE On(tx[s].calls, p) # {}
    <3>1. St(tx[s], row, p) = "active" /\ \A w \in Sessions \ {s} : ~Moves(tx[w], p)
      BY <1>2, <1>4, <2>2 DEF Sound
    <3> QED BY <1>5, <1>7, <3>1 DEF Turns
  <2> QED BY <1>2, <1>7, <2>1, <2>2, OnAfter
<1>8. KnownSt(u, row, p) \in Over => St(u, row, p) \in Over
  <2>1. KnownSt(tx[s], row, p) \in Over => St(tx[s], row, p) \in Over
    BY <1>2, <1>4 DEF Sound
  <2>2. St(tx[s], row, p) \in Over => St(u, row, p) \in Over
    BY <1>5 DEF Turns, Over
  <2>3. row[p].st \in Over => St(u, row, p) \in Over
    BY <1>6 DEF St, Dirty
  <2> QED BY <1>5, <2>1, <2>2, <2>3
<1>9. ASSUME Spawns(u, row, p) PROVE u.op = "wait" /\ (Host[p] # Root => Dirty(u, Host[p]))
  <2>1. Dirty(u, p) /\ row[p].st = "none"
    BY <1>9 DEF Spawns, Dirty
  <2>2. CASE Dirty(tx[s], p)
    BY <1>2, <1>4, <2>1, <2>2 DEF Sound, Spawns, Dirty, Local
  <2>3. CASE ~Dirty(tx[s], p)
    BY <1>5, <2>1, <2>3 DEF Turns, St, Dirty
  <2> QED BY <2>2, <2>3
<1> QED BY <1>6, <1>7, <1>8, <1>9

\* Exits.
LEMMA LocalExits ==
  ASSUME ForkInv, OnceInv, TypeOK, NEW s \in Sessions, NEW u \in Transactions, Local(s, u),
         NEW c \in Seq(Calls), u.calls = Onto(tx[s].calls, c), Puts(s, u, c),
         tx[s].op # "none"
  PROVE  \A w \in Sessions : Exits(w)'
<1>1. tx'[s] = u /\ row' = row /\ \A w \in Sessions \ {s} : tx'[w] = tx[w]
  BY DEF Local, dbVars, TypeOK
<1>2. tx[s].calls \in Seq(Calls) /\ \A w \in Sessions : Exits(w)
  BY DEF ForkInv, TypeOK, Transactions
<1>3. causes' \cap {"overtaken", "raced"} = {} => causes \cap {"overtaken", "raced"} = {}
  BY DEF Local
<1>4. \A w \in Sessions : Open(w)' => Open(w)
  BY <1>1 DEF Open, Local
<1>5. ASSUME NEW w \in Sessions \ {s} PROVE Exits(w)'
  <2>1. Open(s)
    BY DEF Open
  <2>2. tx[w].op = "goal" => causes \cap {"overtaken", "raced"} # {}
    BY <1>2, <2>1 DEF Exits
  <2> QED BY <1>1, <1>2, <1>3, <1>5, <2>2 DEF Exits
<1>6. Exits(s)'
  <2>1. ASSUME NEW i \in DOMAIN u.calls PROVE u.calls[i].do \in {"exit", "kill"} <=> u.op = "goal"
    <3>1. CASE i \in DOMAIN c
      <4>1. u.calls[i] = c[i]
        BY <1>2, <3>1, StackOn
      <4> QED BY <3>1, <4>1 DEF Puts
    <3>2. CASE i \notin DOMAIN c
      <4>1. PICK j \in DOMAIN tx[s].calls : u.calls[i] = tx[s].calls[j]
        BY <1>2, <2>1, <3>2, StackOn
      <4> QED BY <1>2, <4>1 DEF Exits, Local
    <3> QED BY <3>1, <3>2
  <2>2. ASSUME u.op = "goal", causes' \cap {"overtaken", "raced"} = {}
        PROVE  /\ \A w \in Sessions \ {s} : ~Open(w)'
               /\ \A p \in Paths : KnownSt(u, row, p) = St(u, row, p)
    <3>1. tx[s].op = "goal" /\ Exits(s)
      BY <1>2, <2>2 DEF Local
    <3>2. \A w \in Sessions \ {s} : ~Open(w)
      BY <1>3, <2>2, <3>1 DEF Exits
    <3> QED BY <1>3, <1>4, <2>2, <3>1, <3>2 DEF Local
  <2> QED BY <1>1, <2>1, <2>2 DEF Exits
<1> QED BY <1>5, <1>6

\* A call is one of the new ones or one below the top, of the kinds that are there.
LEMMA LocalCalls ==
  ASSUME ForkInv, TypeOK, NEW s \in Sessions, NEW u \in Transactions, Local(s, u),
         NEW c \in Seq(Calls), u.calls = Onto(tx[s].calls, c), NEW i \in DOMAIN u.calls
  PROVE  \/ i \in DOMAIN c /\ u.calls[i] = c[i]
         \/ /\ u.calls[i].do \in (IF u.op = "wait" THEN {"process", "join"} ELSE {"recheck"})
            /\ \E j \in DOMAIN tx[s].calls : j > 1 /\ u.calls[i] = tx[s].calls[j]
<1>1. tx[s].calls \in Seq(Calls) /\ Ordered(s)
  BY DEF ForkInv, TypeOK, Transactions
<1>2. CASE i \in DOMAIN c
  BY <1>1, <1>2, StackOn
<1>3. CASE i \notin DOMAIN c
  <2>1. PICK j \in DOMAIN tx[s].calls : j > 1 /\ u.calls[i] = tx[s].calls[j]
    <3>1. /\ i - Len(c) + 1 \in DOMAIN tx[s].calls /\ i - Len(c) + 1 > 1
          /\ u.calls[i] = tx[s].calls[i - Len(c) + 1]
      BY <1>1, <1>3, StackOn
    <3> QED BY <3>1
  <2> QED BY <1>1, <2>1 DEF Ordered, Local
<1> QED BY <1>2, <1>3

LEMMA LocalOrdered ==
  ASSUME ForkInv, TypeOK, NEW s \in Sessions, NEW u \in Transactions, Local(s, u), Logs(s, u),
         NEW c \in Seq(Calls), u.calls = Onto(tx[s].calls, c), Puts(s, u, c)
  PROVE  \A w \in Sessions : Ordered(w)' /\ Joining(w)' /\ Fresh(w)'
<1>1. tx'[s] = u /\ \A w \in Sessions \ {s} : tx'[w] = tx[w]
  BY DEF Local, TypeOK
<1>2. \A w \in Sessions : Ordered(w) /\ Joining(w) /\ Fresh(w)
  BY DEF ForkInv
<1>3. ASSUME NEW w \in Sessions \ {s} PROVE Ordered(w)' /\ Joining(w)' /\ Fresh(w)'
  <2>1. tx'[w] = tx[w] /\ Ordered(w) /\ Joining(w) /\ Fresh(w)
    BY <1>1, <1>2
  <2>2. Ordered(w)'
    BY <2>1 DEF Ordered, Entering
  <2>3. Joining(w)'
    BY <2>1 DEF Joining, Ending, Dirty
  <2>4. Fresh(w)'
    BY <2>1 DEF Fresh
  <2> QED BY <2>2, <2>3, <2>4
<1>4. Ordered(s)'
  <2>1. ASSUME NEW i \in DOMAIN u.calls
        PROVE  /\ i > 1 => u.calls[i].do \in (IF u.op = "wait" THEN {"process", "join"} ELSE {"recheck"})
               /\ u.calls[i].do = "recheck" => u.op # "wait"
               /\ Entering(u.calls[i]) => u.op = "wait"
               /\ u.calls[i].do = "leave" => u.calls[i].flow \in u.log
    <3>1. CASE i \in DOMAIN c /\ u.calls[i] = c[i]
      BY <3>1 DEF Puts
    <3>2. CASE /\ u.calls[i].do \in (IF u.op = "wait" THEN {"process", "join"} ELSE {"recheck"})
               /\ \E j \in DOMAIN tx[s].calls : j > 1 /\ u.calls[i] = tx[s].calls[j]
      BY <1>2, <3>2 DEF Ordered, Local, Entering
    <3> QED BY <3>1, <3>2, LocalCalls
  <2> QED BY <1>1, <2>1 DEF Ordered
<1>5. ASSUME NEW f, Ending(tx[s], f) PROVE Ending(u, f)
  BY <1>5 DEF Ending, Dirty, Local
<1>6. Joining(s)'
  <2>1. SUFFICES ASSUME u.op # "wait"
                 PROVE  /\ \A f \in u.log \ {Root} : Ending(u, f)
                        /\ \A i \in DOMAIN u.calls :
                             u.calls[i].do = "join" /\ u.calls[i].flow # Root
                               => Ending(u, u.calls[i].flow)
    BY <1>1 DEF Joining, Ending, Dirty
  <2>2. tx[s].op # "wait"
    BY <2>1 DEF Local
  <2>3. ASSUME NEW f \in u.log \ {Root} PROVE Ending(u, f)
    BY <1>2, <1>5, <2>2, <2>3 DEF Joining, Logs
  <2>4. ASSUME NEW i \in DOMAIN u.calls, u.calls[i].do = "join", u.calls[i].flow # Root
        PROVE  Ending(u, u.calls[i].flow)
    <3>1. i \in DOMAIN c /\ u.calls[i] = c[i]
      BY <2>1, <2>4, LocalCalls
    <3> QED BY <2>1, <2>4, <3>1 DEF Puts
  <2> QED BY <2>3, <2>4
<1>7. Fresh(s)'
  <2>1. ASSUME NEW i \in DOMAIN u.calls, NEW d, d = u.calls[i]
        PROVE  /\ d.do = "resolve" =>
                    Root \in u.read /\ <<d.flow, d.step>> \notin u.mem[Root].resolved
               /\ d.do = "process" /\ d.flow \in Paths /\ u.op # "wait" => <<d.flow, "at">> \in u.dirty
    <3>1. CASE i \in DOMAIN c /\ u.calls[i] = c[i]
      BY <2>1, <3>1 DEF Puts
    <3>2. CASE u.calls[i].do \in (IF u.op = "wait" THEN {"process", "join"} ELSE {"recheck"})
      BY <2>1, <3>2
    <3> QED BY <3>1, <3>2, LocalCalls
  <2> QED BY <1>1, <2>1 DEF Fresh
<1> QED BY <1>3, <1>4, <1>6, <1>7

LEMMA LocalSettled ==
  ASSUME ForkInv, TypeOK, NEW s \in Sessions, NEW u \in Transactions, Local(s, u), Logs(s, u)
  PROVE  \A w \in Sessions : Settled(w)'
<1>1. tx'[s] = u /\ row' = row /\ joins' = joins /\ \A w \in Sessions \ {s} : tx'[w] = tx[w]
  BY DEF Local, TypeOK, dbVars
<1>2. \A w \in Sessions : Settled(w)
  BY DEF ForkInv
<1>3. Tame' \subseteq Tame /\ Sound(s)
  BY TameLess DEF Local, ForkInv
<1>4. ASSUME NEW w \in Sessions \ {s} PROVE Settled(w)'
  BY <1>1, <1>2, <1>3 DEF Settled
<1>5. ASSUME NEW f \in u.log, NEW p \in Children(f) \cap Tame' PROVE St(u, row, p) \in Over
  <2>1. St(tx[s], row, p) \in Over
    <3>1. CASE f \in tx[s].log
      BY <1>2, <1>3, <3>1, <1>5 DEF Settled
    <3>2. CASE f \notin tx[s].log
      <4>1. KnownSt(tx[s], row, p) \in Over
        BY <3>2, <1>5 DEF Logs
      <4> QED BY <1>3, <4>1, <1>5 DEF Sound
    <3> QED BY <3>1, <3>2
  <2>2. Turns(s, u, p)
    BY <1>5 DEF Local
  <2> QED BY <2>1, <2>2 DEF Turns, Over
<1>6. Settled(s)'
  BY <1>1, <1>2, <1>3, <1>5 DEF Settled
<1> QED BY <1>4, <1>6

\* Nothing runs below threads that are over.
LEMMA NoneAlive ==
  ASSUME NEW v, Hosted(v), \A p \in Children(Root) : v[p] \notin Alive
  PROVE  \A p \in Paths : v[p] \notin Alive
<1> SUFFICES ASSUME {p \in Paths : v[p] \in Alive} # {} PROVE FALSE
  OBVIOUS
<1>1. PICK P : P = {p \in Paths : v[p] \in Alive}
  OBVIOUS
<1>2. PICK p \in P : Host[p] \notin P
  BY <1>1, NestingAssumption
<1>3. p \in Paths /\ v[p] \in Alive
  BY <1>1
<1>4. Host[p] # Root
  BY <1>3, Sorts
<1>5. v[Host[p]] = "forked" /\ Host[p] \in Paths
  BY <1>3, <1>4, Sorts DEF Hosted
<1> QED BY <1>1, <1>2, <1>5 DEF Alive

\* Who joins a fork joins it alone.
LEMMA JoinsAlone ==
  ASSUME ForkInv, OnceInv, JoinInv, TypeOK, NEW s \in Sessions, NEW u, Local(s, u), Logs(s, u),
         NEW f \in u.log \ tx[s].log, Children(f) \subseteq Tame', f = Root => Paths \subseteq Tame',
         NEW w \in Sessions, w # s, f \in tx[w].log
  PROVE  FALSE
<1>1. Tame' \subseteq Tame /\ Sound(s) /\ Sound(w) /\ Settled(w) /\ Joining(w)
  BY TameLess DEF Local, ForkInv
<1>2. f \in Forks /\ Children(f) \subseteq Paths
  BY Sorts DEF Logs
<1>3. \A p \in Children(f) : St(tx[s], row, p) \in Over /\ St(tx[w], row, p) \in Over
  <2>1. \A p \in Children(f) : p \in Tame /\ KnownSt(tx[s], row, p) \in Over
    BY <1>1 DEF Logs
  <2> QED BY <1>1, <2>1 DEF Sound, Settled
<1>4. \A p \in Flows : Moves(tx[s], p) => ~Moves(tx[w], p)
  BY DEF OnceInv, OnceFor, Alone
<1>5. \A p \in Children(f) : ~(Dirty(tx[s], p) /\ Dirty(tx[w], p))
  BY <1>2, <1>4, Sorts DEF Moves, Dirty
<1>6. tx[s].op = "wait" => tx[w].op # "wait"
  BY DEF JoinInv, Good, Passing, Timers
<1>7. CASE f # Root
  <2>1. \E p \in Children(f) : Dirty(tx[s], p) \/ Dirty(tx[w], p)
    BY <1>1, <1>6, <1>7 DEF Joining, Logs, Ending
  <2>2. PICK p \in Children(f) : Dirty(tx[s], p) \/ Dirty(tx[w], p)
    BY <2>1
  <2>3. p \in Tame /\ row[p].st \notin Over
    BY <1>1, <2>2 DEF Sound
  <2> QED BY <1>3, <1>5, <2>2, <2>3 DEF St, Dirty
<1>8. CASE f = Root
  <2>1. Paths \subseteq Tame
    BY <1>1, <1>8
  <2>2. Hosted(View(tx[s])) /\ Hosted(View(tx[w])) /\ Main(s) /\ Main(w)
    BY <2>1 DEF ForkInv
  <2>3. ASSUME NEW t \in {tx[s], tx[w]}, NEW p \in Paths PROVE St(t, row, p) \notin Alive
    <3>1. \A q \in Paths : View(t)[q] = St(t, row, q)
      BY Sorts DEF View
    <3>2. \A q \in Children(Root) : View(t)[q] \notin Alive
      BY <1>2, <1>3, <1>8, <3>1 DEF Alive, Over
    <3> QED BY <2>2, <3>1, <3>2, NoneAlive
  <2>4. \E p \in Paths : (Moves(tx[s], p) \/ Moves(tx[w], p)) /\ row[p].st \in Alive
    <3>1. CASE tx[w].op # "wait"
      BY <1>8, <2>2, <3>1 DEF Main, Worked
    <3>2. CASE tx[s].op # "wait"
      <4>1. Asks(tx[s]) /\ ~JoinedMain(tx[s]) /\ \A p : On(tx[s].calls, p) = {}
        BY <1>8, <3>2 DEF Logs, JoinedMain
      <4> QED BY <2>2, <4>1 DEF Main, Working
    <3> QED BY <1>6, <3>1, <3>2
  <2>5. PICK p \in Paths : (Moves(tx[s], p) \/ Moves(tx[w], p)) /\ row[p].st \in Alive
    BY <2>4
  <2>6. ~Moves(tx[s], p) \/ ~Moves(tx[w], p)
    BY <1>4, Sorts
  <2>7. St(tx[s], row, p) = row[p].st \/ St(tx[w], row, p) = row[p].st
    BY <2>6 DEF Moves, St
  <2> QED BY <2>3, <2>5, <2>7
<1> QED BY <1>7, <1>8

LEMMA LocalOneJoin ==
  ASSUME ForkInv, OnceInv, JoinInv, TypeOK, NEW s \in Sessions, NEW u \in Transactions,
         Local(s, u), Logs(s, u)
  PROVE  OneJoins'
<1>1. tx'[s] = u /\ joins' = joins /\ \A w \in Sessions \ {s} : tx'[w] = tx[w]
  BY DEF Local, TypeOK, dbVars
<1>2. Tame' \subseteq Tame
  BY TameLess DEF Local
<1>3. ASSUME NEW f \in Forks, Children(f) \subseteq Tame', f = Root => Paths \subseteq Tame'
      PROVE  OneJoin(f)'
  <2>1. OneJoin(f)
    BY <1>2, <1>3 DEF ForkInv, OneJoins
  <2>2. CASE f \in u.log \ tx[s].log
    <3>1. \A w \in Sessions \ {s} : f \notin tx[w].log
      BY <1>3, <2>2, JoinsAlone
    <3>2. joins[f] = 0
      BY <2>2 DEF Logs
    <3> QED BY <1>1, <3>1, <3>2 DEF OneJoin
  <2>3. CASE f \notin u.log \ tx[s].log
    <3>1. f \in u.log => f \in tx[s].log
      BY <2>3
    <3> QED BY <1>1, <2>1, <3>1 DEF OneJoin
  <2> QED BY <2>2, <2>3
<1> QED BY <1>3 DEF OneJoins

LEMMA LocalHosted ==
  ASSUME ForkInv, TypeOK, NEW s \in Sessions, NEW u \in Transactions, Local(s, u),
         Paths \subseteq Tame'
  PROVE  Hosted(View(u))
<1>1. Paths \subseteq Tame /\ Hosted(View(tx[s])) /\ Settled(s)
  BY TameLess DEF Local, ForkInv
<1>2. SUFFICES ASSUME NEW p \in Paths, Host[p] # Root, St(u, row, p) \in Alive
               PROVE  St(u, row, Host[p]) = "forked"
  BY Sorts DEF Hosted, View
<1>3. PICK h : h = Host[p]
  OBVIOUS
<1>4. h \in Paths /\ p \in Children(h)
  BY <1>2, <1>3, Sorts
<1>5. Turns(s, u, p) /\ Turns(s, u, h)
  BY <1>4 DEF Local
<1>6. ASSUME St(tx[s], row, p) \in Alive PROVE St(u, row, h) = "forked"
  <2>1. St(tx[s], row, h) = "forked"
    BY <1>1, <1>2, <1>3, <1>4, <1>6, Sorts DEF Hosted, View
  <2>2. h \in tx[s].log => St(tx[s], row, p) \in Over
    BY <1>1, <1>4 DEF Settled
  <2> QED BY <1>5, <1>6, <2>1, <2>2 DEF Turns, Alive, Over
<1> QED BY <1>2, <1>3, <1>5, <1>6 DEF Turns, Alive, Over

LEMMA LocalMain ==
  ASSUME ForkInv, TypeOK, TypeOK', NEW s \in Sessions, NEW u \in Transactions,
         Local(s, u), Logs(s, u), Sound(s)', Ordered(s)', Paths \subseteq Tame',
         NEW c \in Seq(Calls), u.calls = Onto(tx[s].calls, c), Puts(s, u, c)
  PROVE  Main(s)'
<1>1. tx'[s] = u /\ row' = row /\ joins' = joins
  BY DEF Local, TypeOK, dbVars
<1>2. Paths \subseteq Tame /\ Main(s) /\ Paths \subseteq Flows
  BY TameLess, Sorts DEF Local, ForkInv
<1>3. JoinedMain(tx[s]) => JoinedMain(u)
  BY DEF JoinedMain, Local
<1>4. Asks(u) => u.op # "wait"
  BY <1>1 DEF Asks, AsksRoot, Ordered
<1>5. u.op = tx[s].op
  BY DEF Local
<1>6. ASSUME u.op # "wait", NEW p \in Paths, On(u.calls, p) # {} \/ Dirty(u, p)
      PROVE  row[p].st \in Alive
  <2>1. row'[p].st \in Status
    BY <1>2, RowOf, Sorts DEF TypeOK, Rows, Row
  <2>2. p \in Tame'
    BY <1>6
  <2>3. row[p].st \in Status
    BY <1>1, <2>1
  <2>4. CASE Dirty(u, p)
    <3>1. row[p].st \notin Over /\ row[p].st # "none"
      BY <1>1, <1>6, <2>2, <2>4 DEF Sound, Spawns, Dirty
    <3> QED BY <2>3, <3>1 DEF Status, Alive, Over
  <2>5. CASE ~Dirty(u, p)
    <3>1. St(u, row, p) = "active"
      BY <1>1, <1>6, <2>2, <2>5 DEF Sound
    <3> QED BY <2>5, <3>1 DEF St, Dirty, Alive
  <2> QED BY <2>4, <2>5
<1>7. \A p : Moves(tx[s], p) => Moves(u, p)
  BY DEF Moves, Local
<1>8. \A p : On(c, p) \subseteq On(u.calls, p)
  BY OnAfter DEF TypeOK, Transactions
<1>9. ASSUME NEW i \in DOMAIN u.calls, AsksRoot(u, u.calls[i]), i \notin DOMAIN c \/ u.calls[i] # c[i]
      PROVE  Asks(tx[s]) /\ tx[s].calls # <<>>
  <2>1. u.op # "wait"
    BY <1>4, <1>9 DEF Asks
  <2>2. u.calls[i].do = "recheck" /\ \E j \in DOMAIN tx[s].calls : u.calls[i] = tx[s].calls[j]
    BY <1>9, <2>1, LocalCalls
  <2> QED BY <2>2 DEF Asks, AsksRoot
<1>10. ASSUME Asks(u), ~JoinedMain(u) PROVE Working(u)
  <2>1. u.op # "wait"
    BY <1>4, <1>10
  <2>2. CASE Asks(tx[s])
    <3>1. PICK p \in Paths : (On(tx[s].calls, p) # {} \/ Moves(tx[s], p)) /\ row[p].st \in Alive
      BY <1>2, <1>3, <1>10, <2>2 DEF Main, Working
    <3>2. On(c, p) # {} \/ Moves(u, p)
      BY <1>7, <2>1, <3>1 DEF Puts
    <3>3. On(u.calls, p) # {} \/ Moves(u, p)
      BY <1>8, <3>2
    <3> QED BY <3>1, <3>3 DEF Working
  <2>3. CASE ~Asks(tx[s])
    <3>1. PICK i \in DOMAIN u.calls : AsksRoot(u, u.calls[i])
      BY <1>10 DEF Asks
    <3>2. i \in DOMAIN c /\ AsksRoot(u, c[i])
      BY <1>9, <2>3, <3>1
    <3>3. PICK p \in Paths : On(c, p) # {} \/ Dirty(u, p)
      BY <2>1, <2>3, <3>2 DEF Puts
    <3>4. On(u.calls, p) # {} \/ Dirty(u, p)
      BY <1>8, <3>3
    <3>5. row[p].st \in Alive
      BY <1>6, <2>1, <3>4
    <3> QED BY <3>4, <3>5 DEF Working, Moves, Dirty
  <2> QED BY <2>2, <2>3
<1>11. ASSUME Root \in u.log, u.op # "wait" PROVE Worked(u)
  <2>1. PICK p \in Paths : Moves(tx[s], p) /\ row[p].st \in Alive
    <3>1. CASE Root \in tx[s].log
      BY <1>2, <1>5, <1>11, <3>1 DEF Main, Worked
    <3>2. CASE Root \notin tx[s].log
      <4>1. /\ joins[Root] = 0 /\ Root \in Forks /\ Asks(tx[s])
            /\ \A p : On(tx[s].calls, p) = {}
        BY <1>5, <1>11, <3>2 DEF Logs
      <4>2. ~JoinedMain(tx[s])
        BY <3>2, <4>1 DEF JoinedMain
      <4> QED BY <1>2, <4>1, <4>2 DEF Main, Working
    <3> QED BY <3>1, <3>2
  <2> QED BY <1>7, <2>1 DEF Worked
<1>12. ASSUME Asks(u), On(u.calls, Root) # {} PROVE JoinedMain(u)
  <2>1. u.op # "wait"
    BY <1>4, <1>12
  <2>2. PICK i \in DOMAIN u.calls : u.calls[i].do \in AtStep /\ u.calls[i].flow = Root
    BY <1>12 DEF On
  <2>3. i \in DOMAIN c /\ u.calls[i] = c[i]
    BY <2>1, <2>2, LocalCalls DEF AtStep
  <2>4. On(c, Root) # {}
    BY <2>2, <2>3 DEF On
  <2>5. Len(c) = 1 /\ (On(tx[s].calls, Root) # {} \/ JoinedMain(u) \/ tx[s].calls = <<>>)
    BY <2>1, <2>4 DEF Puts
  <2>6. PICK j \in DOMAIN u.calls : AsksRoot(u, u.calls[j])
    BY <1>12 DEF Asks
  <2>7. Asks(tx[s]) /\ tx[s].calls # <<>>
    <3>1. CASE j \in DOMAIN c /\ u.calls[j] = c[j]
      <4>1. i = j
        BY <2>3, <2>5, <3>1
      <4> QED BY <2>2, <2>6, <4>1 DEF AsksRoot, AtStep
    <3>2. CASE j \notin DOMAIN c \/ u.calls[j] # c[j]
      BY <1>9, <2>6, <3>2
    <3> QED BY <3>1, <3>2
  <2> QED BY <1>2, <1>3, <2>5, <2>7 DEF Main
<1>13. /\ Asks(u) /\ ~JoinedMain(u) => Working(u)
       /\ Root \in u.log /\ u.op # "wait" => Worked(u)
       /\ Asks(u) /\ On(u.calls, Root) # {} => JoinedMain(u)
  BY <1>10, <1>11, <1>12
<1> QED BY <1>1, <1>13 DEF Main, Working, Worked, JoinedMain, Asks, AsksRoot, Moves, On

\* A step that commits nothing.
LEMMA LocalFork ==
  ASSUME ForkInv, OnceInv, OnceInv', JoinInv, JoinInv', TypeOK, TypeOK',
         NEW s \in Sessions, NEW u \in Transactions, Local(s, u), Logs(s, u), tx[s].op # "none",
         NEW c \in Seq(Calls), u.calls = Onto(tx[s].calls, c), Puts(s, u, c)
  PROVE  ForkInv'
<1>1. tx'[s] = u /\ row' = row /\ joins' = joins /\ \A w \in Sessions \ {s} : tx'[w] = tx[w]
  BY DEF Local, TypeOK, dbVars
<1>2. tx \in [Sessions -> Transactions]
  BY DEF TypeOK
<1>3. \A w \in Sessions : Sound(w)'
  BY <1>2, SelfSound, OthersSound
<1>4. \A w \in Sessions : Exits(w)' /\ Ordered(w)' /\ Joining(w)' /\ Settled(w)' /\ Fresh(w)'
  BY LocalExits, LocalOrdered, LocalSettled
<1>5. OneJoins'
  BY LocalOneJoin
<1>6. ASSUME Paths \subseteq Tame'
      PROVE  /\ Hosted([p \in Flows |-> row[p].st])'
             /\ \A w \in Sessions : Hosted(View(tx[w]))' /\ Main(w)'
  <2>1. Paths \subseteq Tame
    BY <1>6, TameLess DEF Local
  <2>2. /\ Hosted([p \in Flows |-> row[p].st])
        /\ \A w \in Sessions : Hosted(View(tx[w])) /\ Main(w)
    BY <2>1 DEF ForkInv
  <2>3. Hosted([p \in Flows |-> row[p].st])'
    BY <1>1, <2>2 DEF Hosted
  <2>4. ASSUME NEW w \in Sessions \ {s} PROVE Hosted(View(tx[w]))' /\ Main(w)'
    <3>1. tx'[w] = tx[w] /\ Hosted(View(tx[w])) /\ Main(w)
      BY <1>1, <2>2, <2>4
    <3>2. Hosted(View(tx[w]))'
      BY <1>1, <3>1 DEF Hosted, View, St
    <3>3. Main(w)'
      BY <1>1, <3>1 DEF Main, Working, Worked, JoinedMain, Asks, AsksRoot, Moves, On
    <3> QED BY <3>2, <3>3
  <2>5. Main(s)'
    BY <1>3, <1>4, <1>6, LocalMain
  <2>6. Hosted(View(tx[s]))'
    <3>1. Hosted(View(u))
      BY <1>6, LocalHosted
    <3> QED BY <1>1, <3>1 DEF Hosted, View, St
  <2> QED BY <2>3, <2>4, <2>5, <2>6
<1> QED BY <1>3, <1>4, <1>5, <1>6 DEF ForkInv

-----------------------------------------------------------------------------
(* A commit. *)

\* The transaction goes on behind its action, or is over.
GoesOnBehind(s, u) ==
  \/ u.op = "none" /\ u.calls = <<>>
  \/ /\ u.op = tx[s].op /\ u.op # "goal" /\ tx[s].calls # <<>> /\ tx[s].calls[1].do = "act"
     /\ DOMAIN u.calls = DOMAIN tx[s].calls
     /\ u.calls[1].do = "advance" /\ u.calls[1].flow = tx[s].calls[1].flow
     /\ ~Entering(u.calls[1])
     /\ \A i \in DOMAIN u.calls : i > 1 => u.calls[i] = tx[s].calls[i]

Commits(s, u) ==
  /\ tx' = [tx EXCEPT ![s] = u] /\ row' = Merged(tx[s]) /\ joins' = Logged(tx[s])
  /\ UNCHANGED <<contested, causes>>
  /\ tx[s].op # "none"
  /\ u.dirty = {} /\ u.log = {} /\ u.read \cap Paths = {}
  /\ GoesOnBehind(s, u)

LEMMA CommitIs ==
  ASSUME OnceInv, TypeOK, NEW s \in Sessions, NEW u, Commits(s, u)
  PROVE  /\ tx'[s] = u /\ \A w \in Sessions \ {s} : tx'[w] = tx[w]
         /\ Tame' = Tame /\ Tame \subseteq Paths /\ Paths \subseteq Flows
         /\ \A p \in Flows : row'[p].st = St(tx[s], row, p)
         /\ \A p \in Flows : ~Dirty(tx[s], p) => row'[p].st = row[p].st
         /\ \A f \in Forks : joins'[f] = joins[f] + IF f \in tx[s].log THEN 1 ELSE 0
         /\ \A w \in Sessions \ {s} : \A p \in Flows : Moves(tx[s], p) => ~Moves(tx[w], p)
<1>1. tx'[s] = u /\ \A w \in Sessions \ {s} : tx'[w] = tx[w]
  BY DEF Commits, TypeOK
<1>2. Tame' = Tame /\ Tame \subseteq Paths /\ Paths \subseteq Flows
  BY Sorts DEF Commits, Tame
<1>3. \A p \in Flows : row'[p].st = St(tx[s], row, p)
  BY DEF Commits, Merged, St, Columns
<1>4. \A p \in Flows : ~Dirty(tx[s], p) => row'[p].st = row[p].st
  BY <1>3 DEF St, Dirty
<1>5. \A f \in Forks : joins'[f] = joins[f] + IF f \in tx[s].log THEN 1 ELSE 0
  BY DEF Commits, Logged
<1>6. \A w \in Sessions \ {s} : \A p \in Flows : Moves(tx[s], p) => ~Moves(tx[w], p)
  BY DEF OnceInv, OnceFor, Alone
<1> QED BY <1>1, <1>2, <1>3, <1>4, <1>5, <1>6

LEMMA CommitSound ==
  ASSUME ForkInv, OnceInv, TypeOK, NEW s \in Sessions, NEW u \in Transactions, Commits(s, u),
         NEW w \in Sessions \ {s}
  PROVE  Sound(w)'
<1>1. tx'[w] = tx[w] /\ tx'[s] = u /\ Tame' = Tame /\ Sound(s) /\ Sound(w)
  BY CommitIs DEF ForkInv
<1>2. SUFFICES ASSUME NEW p \in Tame
               PROVE  /\ Dirty(tx[w], p) => row'[p].st \notin Over
                      /\ On(tx[w].calls, p) # {} =>
                           /\ St(tx[w], row', p) = "active"
                           /\ \A x \in Sessions \ {w} : ~Moves(tx'[x], p)
                      /\ KnownSt(tx[w], row', p) \in Over => St(tx[w], row', p) \in Over
                      /\ Spawns(tx[w], row', p) => /\ tx[w].op = "wait"
                                                   /\ Host[p] # Root => Dirty(tx[w], Host[p])
  BY <1>1 DEF Sound
<1>3. p \in Flows
  BY Sorts DEF Tame
<1>4. Dirty(tx[w], p) => row'[p].st = row[p].st
  BY <1>3, CommitIs DEF Moves, Dirty
<1>5. ASSUME row[p].st \in Over PROVE row'[p].st = row[p].st
  BY <1>1, <1>3, <1>5, CommitIs DEF Sound
<1>6. Dirty(tx[w], p) => row'[p].st \notin Over
  BY <1>1, <1>4 DEF Sound
<1>7. ASSUME On(tx[w].calls, p) # {}
      PROVE  St(tx[w], row', p) = "active" /\ \A x \in Sessions \ {w} : ~Moves(tx'[x], p)
  <2>1. St(tx[w], row, p) = "active" /\ \A x \in Sessions \ {w} : ~Moves(tx[x], p)
    BY <1>1, <1>7 DEF Sound
  <2>2. row'[p].st = row[p].st
    BY <1>3, <2>1, CommitIs DEF Moves, Dirty
  <2>3. ~Moves(u, p)
    BY DEF Commits, Moves
  <2> QED BY <1>1, <2>1, <2>2, <2>3, CommitIs DEF St
<1>8. ASSUME KnownSt(tx[w], row', p) \in Over PROVE St(tx[w], row', p) \in Over
  <2>1. CASE Dirty(tx[w], p)
    BY <1>8, <2>1 DEF KnownSt, St, Dirty
  <2>2. CASE ~Dirty(tx[w], p) /\ p \in tx[w].read
    <3>1. row[p].st \in Over
      BY <1>1, <1>8, <2>2 DEF Sound, KnownSt, St, Dirty
    <3> QED BY <1>5, <2>2, <3>1 DEF St, Dirty
  <2>3. CASE ~Dirty(tx[w], p) /\ p \notin tx[w].read
    BY <1>8, <2>3 DEF KnownSt, St, Dirty
  <2> QED BY <2>1, <2>2, <2>3
<1>9. ASSUME Spawns(tx[w], row', p)
      PROVE  tx[w].op = "wait" /\ (Host[p] # Root => Dirty(tx[w], Host[p]))
  <2>1. Dirty(tx[w], p) /\ row'[p].st = "none"
    BY <1>9 DEF Spawns, Dirty
  <2>2. Spawns(tx[w], row, p)
    BY <1>4, <2>1 DEF Spawns, Dirty
  <2> QED BY <1>1, <2>2 DEF Sound
<1> QED BY <1>6, <1>7, <1>8, <1>9

\* The calls of s in a step are those it was in.
LEMMA BehindOn ==
  ASSUME NEW s \in Sessions, NEW u \in Transactions, GoesOnBehind(s, u)
  PROVE  /\ \A p : On(u.calls, p) # {} => On(tx[s].calls, p) # {}
         /\ \A i \in DOMAIN u.calls : AsksRoot(u, u.calls[i]) => i \in DOMAIN tx[s].calls /\ AsksRoot(tx[s], tx[s].calls[i])
<1>1. \A p : \A i \in On(u.calls, p) : i \in On(tx[s].calls, p)
  <2> SUFFICES ASSUME NEW p, NEW i \in On(u.calls, p) PROVE i \in On(tx[s].calls, p)
    OBVIOUS
  <2>1. i \in DOMAIN u.calls /\ u.calls[i].do \in AtStep /\ u.calls[i].flow = p
    BY DEF On
  <2>2. i \in Nat /\ i >= 1 /\ u.calls # <<>>
    BY <2>1 DEF Transactions
  <2>3. CASE i > 1
    BY <2>1, <2>2, <2>3 DEF GoesOnBehind, On
  <2>4. CASE i = 1
    BY <2>1, <2>2, <2>4 DEF GoesOnBehind, On, AtStep
  <2> QED BY <2>2, <2>3, <2>4
<1>2. ASSUME NEW i \in DOMAIN u.calls, AsksRoot(u, u.calls[i])
      PROVE  i \in DOMAIN tx[s].calls /\ AsksRoot(tx[s], tx[s].calls[i])
  <2>1. i \in Nat /\ i >= 1 /\ u.calls # <<>>
    BY <1>2 DEF Transactions
  <2>2. CASE i = 1
    BY <1>2, <2>1, <2>2 DEF GoesOnBehind, AsksRoot
  <2>3. CASE i > 1
    BY <1>2, <2>1, <2>3 DEF GoesOnBehind, AsksRoot
  <2> QED BY <2>1, <2>2, <2>3
<1> QED BY <1>1, <1>2

LEMMA CommitSelf ==
  ASSUME ForkInv, OnceInv, TypeOK, NEW s \in Sessions, NEW u \in Transactions, Commits(s, u)
  PROVE  Sound(s)' /\ Exits(s)' /\ Ordered(s)' /\ Joining(s)' /\ Fresh(s)'
<1>1. /\ tx'[s] = u /\ \A w \in Sessions \ {s} : tx'[w] = tx[w]
      /\ Tame' = Tame /\ Tame \subseteq Paths /\ Paths \subseteq Flows
      /\ \A p \in Flows : row'[p].st = St(tx[s], row, p)
  BY CommitIs
<1>2. u.dirty = {} /\ u.log = {} /\ u.read \cap Paths = {} /\ GoesOnBehind(s, u)
  BY DEF Commits
<1>3. Sound(s) /\ Exits(s) /\ Ordered(s) /\ Fresh(s)
  BY DEF ForkInv
<1>4. \A p : ~Dirty(u, p) /\ St(u, row', p) = row'[p].st /\ ~Spawns(u, row', p)
  BY <1>2 DEF Dirty, St, Spawns
<1>5. \A p \in Paths : KnownSt(u, row', p) = row'[p].st
  BY <1>2 DEF KnownSt
<1>6. Sound(s)'
  <2>1. ASSUME NEW p \in Tame, On(u.calls, p) # {}
        PROVE  St(u, row', p) = "active" /\ \A w \in Sessions \ {s} : ~Moves(tx'[w], p)
    <3>1. On(tx[s].calls, p) # {}
      BY <1>2, <2>1, BehindOn
    <3> QED BY <1>1, <1>3, <1>4, <3>1 DEF Sound
  <2> QED BY <1>1, <1>4, <1>5, <2>1 DEF Sound
<1>7. \A i \in DOMAIN u.calls : i \in Nat /\ i >= 1 /\ (i = 1 \/ i > 1)
  BY DEF Transactions
<1>8. CASE u.calls = <<>> /\ u.op = "none"
  <2>1. Exits(s)'
    BY <1>1, <1>8 DEF Exits
  <2>2. Ordered(s)' /\ Joining(s)' /\ Fresh(s)'
    BY <1>1, <1>2, <1>8 DEF Ordered, Joining, Fresh
  <2> QED BY <1>6, <2>1, <2>2
<1>9. CASE /\ u.op = tx[s].op /\ u.op # "goal" /\ tx[s].calls # <<>> /\ tx[s].calls[1].do = "act"
           /\ DOMAIN u.calls = DOMAIN tx[s].calls
           /\ u.calls[1].do = "advance" /\ u.calls[1].flow = tx[s].calls[1].flow
           /\ ~Entering(u.calls[1])
           /\ \A i \in DOMAIN u.calls : i > 1 => u.calls[i] = tx[s].calls[i]
  <2>1. Exits(s)'
    <3>1. \A i \in DOMAIN u.calls : u.calls[i].do \notin {"exit", "kill"}
      BY <1>3, <1>7, <1>9 DEF Exits
    <3> QED BY <1>1, <1>9, <3>1 DEF Exits
  <2>2. ASSUME NEW i \in DOMAIN u.calls, i > 1
        PROVE  /\ u.calls[i].do \in (IF u.op = "wait" THEN {"process", "join"} ELSE {"recheck"})
               /\ u.calls[i].do = "recheck" => u.op # "wait"
               /\ Entering(u.calls[i]) => u.op = "wait"
    BY <1>3, <1>9, <2>2 DEF Ordered
  <2>3. Ordered(s)'
    <3>1. ASSUME NEW i \in DOMAIN u.calls
          PROVE  /\ u.calls[i].do = "recheck" => u.op # "wait"
                 /\ Entering(u.calls[i]) => u.op = "wait"
                 /\ u.calls[i].do # "leave"
      <4>1. CASE i = 1
        BY <1>9, <4>1
      <4>2. CASE i > 1
        BY <2>2, <4>2
      <4> QED BY <1>7, <4>1, <4>2
    <3> QED BY <1>1, <2>2, <3>1 DEF Ordered
  <2>4. Joining(s)'
    <3>1. ASSUME u.op # "wait", NEW i \in DOMAIN u.calls PROVE u.calls[i].do # "join"
      BY <1>7, <1>9, <2>2, <3>1
    <3> QED BY <1>1, <1>2, <3>1 DEF Joining
  <2>5. Fresh(s)'
    <3>1. ASSUME NEW i \in DOMAIN u.calls
          PROVE  u.calls[i].do # "resolve" /\ (u.op # "wait" => u.calls[i].do # "process")
      BY <1>7, <1>9, <2>2
    <3> QED BY <1>1, <3>1 DEF Fresh
  <2> QED BY <1>6, <2>1, <2>3, <2>4, <2>5
<1> QED BY <1>2, <1>8, <1>9 DEF GoesOnBehind

LEMMA CommitOthers ==
  ASSUME ForkInv, OnceInv, TypeOK, NEW s \in Sessions, NEW u \in Transactions, Commits(s, u),
         NEW w \in Sessions \ {s}
  PROVE  Exits(w)' /\ Ordered(w)' /\ Joining(w)' /\ Fresh(w)'
<1>1. tx'[w] = tx[w] /\ causes' = causes
  BY CommitIs DEF Commits
<1>2. Exits(w) /\ Ordered(w) /\ Joining(w) /\ Fresh(w)
  BY DEF ForkInv
<1>3. Open(s)
  BY DEF Open, Commits
<1>4. Exits(w)'
  BY <1>1, <1>2, <1>3 DEF Exits
<1>5. Ordered(w)'
  BY <1>1, <1>2 DEF Ordered, Entering
<1>6. Joining(w)'
  BY <1>1, <1>2 DEF Joining, Ending, Dirty
<1>7. Fresh(w)'
  BY <1>1, <1>2 DEF Fresh
<1> QED BY <1>4, <1>5, <1>6, <1>7

LEMMA CommitSettled ==
  ASSUME ForkInv, OnceInv, TypeOK, NEW s \in Sessions, NEW u \in Transactions, Commits(s, u),
         NEW w \in Sessions
  PROVE  Settled(w)'
<1>1. /\ tx'[s] = u /\ \A x \in Sessions \ {s} : tx'[x] = tx[x]
      /\ Tame' = Tame /\ Tame \subseteq Flows
      /\ \A p \in Flows : row'[p].st = St(tx[s], row, p)
      /\ \A f \in Forks : joins'[f] = joins[f] + IF f \in tx[s].log THEN 1 ELSE 0
  BY CommitIs
<1>2. Sound(s) /\ Settled(s) /\ Settled(w)
  BY DEF ForkInv
<1>3. ASSUME NEW p \in Tame, row[p].st \in Over PROVE row'[p].st \in Over
  BY <1>1, <1>2, <1>3, CommitIs DEF Sound
<1>4. ASSUME NEW f \in tx'[w].log, NEW p \in Children(f) \cap Tame
      PROVE  St(tx'[w], row', p) \in Over
  <2>1. w # s /\ tx'[w] = tx[w]
    BY <1>1, <1>4 DEF Commits
  <2>2. St(tx[w], row, p) \in Over
    BY <1>2, <1>4, <2>1 DEF Settled
  <2> QED BY <1>3, <2>1, <2>2 DEF St
<1>5. ASSUME NEW f \in Forks, joins'[f] > 0, NEW p \in Children(f) \cap Tame
      PROVE  row'[p].st \in Over
  <2>1. CASE f \in tx[s].log
    BY <1>1, <1>2, <1>5, <2>1 DEF Settled
  <2>2. CASE f \notin tx[s].log
    <3>1. joins[f] > 0
      BY <1>1, <1>5, <2>2 DEF TypeOK
    <3> QED BY <1>2, <1>3, <1>5, <3>1 DEF Settled
  <2> QED BY <2>1, <2>2
<1> QED BY <1>1, <1>4, <1>5 DEF Settled

LEMMA CommitOneJoin ==
  ASSUME ForkInv, OnceInv, TypeOK, NEW s \in Sessions, NEW u \in Transactions, Commits(s, u)
  PROVE  OneJoins'
<1>1. /\ tx'[s] = u /\ \A x \in Sessions \ {s} : tx'[x] = tx[x]
      /\ Tame' = Tame
      /\ \A f \in Forks : joins'[f] = joins[f] + IF f \in tx[s].log THEN 1 ELSE 0
  BY CommitIs
<1>2. ASSUME NEW f \in Forks, OneJoin(f) PROVE OneJoin(f)'
  <2>1. joins[f] \in Nat /\ u.log = {}
    BY DEF TypeOK, Commits
  <2>2. CASE f \in tx[s].log
    <3>1. joins'[f] = 1 /\ \A w \in Sessions \ {s} : f \notin tx[w].log
      BY <1>1, <1>2, <2>2 DEF OneJoin
    <3> QED BY <1>1, <2>1, <3>1 DEF OneJoin
  <2>3. CASE f \notin tx[s].log
    <3>1. joins'[f] = joins[f]
      BY <1>1, <2>1, <2>3
    <3>2. \A w \in Sessions : f \in tx'[w].log => w # s /\ f \in tx[w].log
      BY <1>1, <2>1
    <3>3. \A w \in Sessions : f \in tx'[w].log =>
            joins'[f] = 0 /\ \A x \in Sessions \ {w} : f \notin tx'[x].log
      BY <1>2, <3>1, <3>2 DEF OneJoin
    <3> QED BY <1>2, <3>1, <3>3 DEF OneJoin
  <2> QED BY <2>2, <2>3
<1> QED BY <1>1, <1>2 DEF OneJoins, ForkInv

LEMMA CommitHosted ==
  ASSUME ForkInv, OnceInv, TypeOK, NEW s \in Sessions, NEW u \in Transactions, Commits(s, u),
         Paths \subseteq Tame, NEW w \in Sessions \ {s}
  PROVE  Hosted(View(tx[w]))'
<1>1. /\ tx'[w] = tx[w] /\ Paths \subseteq Flows
      /\ \A p \in Flows : row'[p].st = St(tx[s], row, p)
      /\ \A p \in Flows : ~Dirty(tx[s], p) => row'[p].st = row[p].st
      /\ \A p \in Flows : ~(Dirty(tx[s], p) /\ Dirty(tx[w], p))
  BY CommitIs DEF Moves, Dirty
<1>2. Sound(s) /\ Sound(w) /\ Hosted(View(tx[s])) /\ Hosted(View(tx[w]))
  BY DEF ForkInv
<1>3. SUFFICES ASSUME NEW p \in Paths, Host[p] # Root, St(tx[w], row', p) \in Alive
               PROVE  St(tx[w], row', Host[p]) = "forked"
  BY <1>1, Sorts DEF Hosted, View
<1>4. PICK h : h = Host[p]
  OBVIOUS
<1>5. h \in Paths /\ h \in Flows /\ p \in Flows /\ p \in Tame /\ h # Root
  BY <1>3, <1>4, Sorts
<1>6. /\ St(tx[s], row, p) \in Alive => St(tx[s], row, h) = "forked"
      /\ St(tx[w], row, p) \in Alive => St(tx[w], row, h) = "forked"
  BY <1>2, <1>3, <1>4, <1>5 DEF Hosted, View
<1>7. row[p].st \in Alive \cup Over \cup {"none"}
  BY <1>5, RowOf DEF TypeOK, Row, Status, Alive, Over
<1>8. /\ Dirty(tx[s], p) \/ Dirty(tx[w], p) => row[p].st \notin Over
      /\ Dirty(tx[s], p) /\ row[p].st = "none" => Dirty(tx[s], h)
      /\ Dirty(tx[w], p) /\ row[p].st = "none" => Dirty(tx[w], h)
  BY <1>2, <1>4, <1>5 DEF Sound, Spawns, Dirty
<1>9. CASE Dirty(tx[w], p) /\ Dirty(tx[w], h)
  BY <1>3, <1>4, <1>6, <1>9 DEF St, Dirty
<1>10. CASE ~Dirty(tx[w], p) /\ ~Dirty(tx[w], h)
  BY <1>1, <1>3, <1>4, <1>5, <1>6, <1>10 DEF St, Dirty
<1>11. CASE Dirty(tx[w], p) /\ ~Dirty(tx[w], h)
  <2>1. ~Dirty(tx[s], p) /\ row[p].st \in Alive
    BY <1>1, <1>5, <1>7, <1>8, <1>11
  <2>2. St(tx[s], row, h) = "forked"
    BY <1>6, <2>1 DEF St, Dirty
  <2> QED BY <1>1, <1>4, <1>5, <1>11, <2>2 DEF St, Dirty
<1>12. CASE ~Dirty(tx[w], p) /\ Dirty(tx[w], h)
  <2>1. St(tx[w], row', p) = St(tx[s], row, p) /\ ~Dirty(tx[s], h)
    BY <1>1, <1>5, <1>12 DEF St, Dirty
  <2>2. row[p].st \in Alive
    BY <1>3, <1>7, <1>8, <2>1 DEF St, Dirty
  <2>3. St(tx[w], row, h) = "forked"
    BY <1>6, <1>12, <2>2 DEF St, Dirty
  <2> QED BY <1>4, <1>12, <2>3 DEF St, Dirty
<1> QED BY <1>9, <1>10, <1>11, <1>12

LEMMA CommitMain ==
  ASSUME ForkInv, OnceInv, TypeOK, TypeOK', NEW s \in Sessions, NEW u \in Transactions, Commits(s, u),
         Paths \subseteq Tame, NEW w \in Sessions
  PROVE  Main(w)'
<1>1. /\ tx'[s] = u /\ \A x \in Sessions \ {s} : tx'[x] = tx[x]
      /\ Paths \subseteq Flows
      /\ \A p \in Flows : row'[p].st = St(tx[s], row, p)
      /\ \A p \in Flows : ~Dirty(tx[s], p) => row'[p].st = row[p].st
  BY CommitIs
<1>2. Root \in Forks => joins'[Root] = joins[Root] + (IF Root \in tx[s].log THEN 1 ELSE 0)
  BY CommitIs
<1>3. Sound(s) /\ Sound(w) /\ Main(s) /\ Main(w)
  BY DEF ForkInv
<1>4. Root \in Forks => joins[Root] \in Nat
  BY DEF TypeOK
<1>5. Root \in Forks /\ joins[Root] > 0 => joins'[Root] > 0
  BY <1>2, <1>4
<1>6. CASE w # s
  <2>1. tx'[w] = tx[w]
    BY <1>1, <1>6
  <2>2. ASSUME NEW p \in Paths, On(tx[w].calls, p) # {} \/ Moves(tx[w], p)
        PROVE  row'[p].st = row[p].st
    <3>1. ~Moves(tx[s], p)
      BY <1>1, <1>3, <1>6, <2>2, CommitIs DEF Sound
    <3> QED BY <1>1, <3>1 DEF Moves, Dirty
  <2>3. Working(tx[w]) => Working(tx[w])'
    BY <2>1, <2>2 DEF Working, On, Moves
  <2>4. Worked(tx[w]) => Worked(tx[w])'
    BY <2>1, <2>2 DEF Worked, Moves
  <2>5. JoinedMain(tx[w]) => JoinedMain(tx[w])'
    BY <1>5, <2>1 DEF JoinedMain
  <2>6. Asks(tx[w])' <=> Asks(tx[w])
    BY <2>1 DEF Asks, AsksRoot
  <2>7. On(tx[w].calls, Root)' = On(tx[w].calls, Root)
    BY <2>1 DEF On
  <2> QED BY <1>3, <2>1, <2>3, <2>4, <2>5, <2>6, <2>7 DEF Main
<1>7. CASE w = s
  <2>1. u.log = {} /\ GoesOnBehind(s, u) /\ tx[s].log \subseteq Forks
    BY DEF Commits, TypeOK, Transactions
  <2>2. Asks(u) => Asks(tx[s])
    BY <2>1, BehindOn DEF Asks
  <2>3. JoinedMain(tx[s]) => Root \in Forks /\ joins'[Root] > 0
    BY <1>2, <1>4, <1>5, <2>1 DEF JoinedMain
  <2>4. ASSUME Asks(u), ~(Root \in Forks /\ joins'[Root] > 0)
        PROVE  \E p \in Paths : On(u.calls, p) # {} /\ row'[p].st \in Alive
    <3>1. u.calls # <<>>
      BY <2>4 DEF Asks
    <3>2. /\ 1 \in DOMAIN u.calls /\ u.calls[1].do = "advance" /\ u.calls[1].flow \in Flows
      <4>1. u.calls \in Seq(Calls)
        BY DEF Transactions
      <4>2. 1 \in DOMAIN u.calls /\ u.calls[1] \in Calls
        BY <3>1, <4>1
      <4> QED BY <2>1, <3>1, <4>2 DEF GoesOnBehind, Calls
    <3>3. PICK p : p = u.calls[1].flow
      OBVIOUS
    <3>4. On(u.calls, p) # {}
      BY <3>2, <3>3 DEF On, AtStep
    <3>5. On(tx[s].calls, p) # {}
      BY <2>1, <3>4, BehindOn
    <3>6. p # Root
      BY <1>3, <2>2, <2>3, <2>4, <3>5 DEF Main
    <3>7. p \in Paths
      BY <3>2, <3>3, <3>6, Sorts
    <3>8. row'[p].st = "active"
      BY <1>1, <1>3, <3>5, <3>7 DEF Sound
    <3> QED BY <3>4, <3>7, <3>8 DEF Alive
  <2>5. Asks(u) /\ On(u.calls, Root) # {} => Root \in Forks /\ joins'[Root] > 0
    BY <1>3, <2>1, <2>2, <2>3, BehindOn DEF Main
  <2>6. tx'[w] = u
    BY <1>1, <1>7
  <2>7. Asks(tx[w])' <=> Asks(u)
    BY <2>6 DEF Asks, AsksRoot
  <2>8. JoinedMain(tx[w])' <=> Root \in Forks /\ joins'[Root] > 0
    BY <2>1, <2>6 DEF JoinedMain
  <2>9. (\E p \in Paths : On(u.calls, p) # {} /\ row'[p].st \in Alive) => Working(tx[w])'
    BY <2>6 DEF Working, On
  <2>10. On(tx[w].calls, Root)' = On(u.calls, Root)
    BY <2>6 DEF On
  <2>11. Root \notin tx'[w].log
    BY <2>1, <2>6
  <2> QED BY <2>4, <2>5, <2>7, <2>8, <2>9, <2>10, <2>11 DEF Main
<1> QED BY <1>6, <1>7

LEMMA CommitFork ==
  ASSUME ForkInv, OnceInv, TypeOK, TypeOK', NEW s \in Sessions, NEW u \in Transactions, Commits(s, u)
  PROVE  ForkInv'
<1>1. /\ tx'[s] = u /\ Tame' = Tame /\ Tame \subseteq Paths /\ Paths \subseteq Flows
      /\ \A p \in Flows : row'[p].st = St(tx[s], row, p)
  BY CommitIs
<1>2. \A w \in Sessions : /\ Sound(w)' /\ Exits(w)' /\ Ordered(w)' /\ Joining(w)' /\ Fresh(w)'
                          /\ Settled(w)'
  BY CommitSound, CommitSelf, CommitOthers, CommitSettled
<1>3. OneJoins'
  BY CommitOneJoin
<1>4. ASSUME Paths \subseteq Tame'
      PROVE  /\ Hosted([p \in Flows |-> row[p].st])'
             /\ \A w \in Sessions : Hosted(View(tx[w]))' /\ Main(w)'
  <2>1. Paths \subseteq Tame
    BY <1>1, <1>4
  <2>2. Hosted(View(tx[s]))
    BY <2>1 DEF ForkInv
  <2>3. \A p \in Paths : Host[p] # Root => Host[p] \in Flows
    BY Sorts
  <2>4. Hosted([p \in Flows |-> row[p].st])'
    BY <1>1, <2>2, <2>3 DEF Hosted, View
  <2>5. \A p \in Flows : St(u, row', p) = row'[p].st
    BY DEF Commits, St
  <2>6. Hosted(View(tx[s]))'
    BY <1>1, <2>3, <2>4, <2>5 DEF Hosted, View
  <2>7. \A w \in Sessions : Hosted(View(tx[w]))'
    BY <2>1, <2>6, CommitHosted
  <2>8. \A w \in Sessions : Main(w)'
    BY <2>1, CommitMain
  <2> QED BY <2>4, <2>7, <2>8
<1> QED BY <1>2, <1>3, <1>4 DEF ForkInv

-----------------------------------------------------------------------------
(* What the operations on a transaction do. *)

\* u is t but for the columns D and the joins L, and knows what t does or the rows.
Alike(t, u, D, L) ==
  /\ Else(t, u, D) /\ u.log = t.log \cup L
  /\ \A p \in Paths : <<p, "st">> \notin D =>
       KnownSt(u, row, p) \in {KnownSt(t, row, p), row[p].st}

LEMMA LoadAlike ==
  ASSUME NEW t \in Transactions, row \in Rows, NEW P \in SUBSET Flows, NEW u, u = Load(t, P)
  PROVE  u \in Transactions /\ Alike(t, u, {}, {})
<1>1. u \in Transactions /\ Else(t, u, {})
  BY LoadElse
<1>2. /\ u.log = t.log /\ u.dirty = t.dirty /\ u.read = t.read \cup P
      /\ \A p \in Flows : u.mem[p].st = IF p \in P THEN KnownSt(t, row, p) ELSE t.mem[p].st
  BY LoadIs
<1>3. \A p \in Paths : KnownSt(u, row, p) = KnownSt(t, row, p)
  BY <1>2, Sorts DEF KnownSt
<1> QED BY <1>1, <1>2, <1>3 DEF Alike

LEMMA LookAlike ==
  ASSUME NEW t \in Transactions, NEW u, u = LookAtFunnel(t)
  PROVE  u \in Transactions /\ Alike(t, u, {}, {}) /\ u.calls = t.calls
<1>1. u \in Transactions /\ Else(t, u, {}) /\ u.calls = t.calls
  BY LookElse
<1>2. u.log = t.log /\ u.mem = t.mem /\ u.read = t.read /\ u.dirty = t.dirty
  BY DEF LookAtFunnel, Transactions
<1> QED BY <1>1, <1>2 DEF Alike, KnownSt

LEMMA WriteAlike ==
  ASSUME NEW t \in Transactions, row \in Rows, NEW p \in Flows, NEW c \in Columns, NEW v,
         NEW u, u = Write(t, p, c, v)
  PROVE  /\ Alike(t, u, {<<p, c>>}, {})
         /\ c = "st" => St(u, row, p) = v
<1>1. Else(t, u, {<<p, c>>}) /\ (c = "st" => St(u, row, p) = v)
  BY WriteElse
<1>2. u.log = t.log \cup {}
  BY WriteIs
<1>3. ASSUME NEW q \in Paths, <<q, "st">> # <<p, c>> PROVE KnownSt(u, row, q) = KnownSt(t, row, q)
  <2>1. q \in Flows
    BY Sorts
  <2>2. CASE q = p
    BY <1>3, <2>1, <2>2, WriteIs DEF KnownSt
  <2>3. CASE q # p
    <3>1. /\ u.read = t.read \cup {p} /\ u.dirty = t.dirty \cup {<<p, c>>}
          /\ \A x \in Flows \ {p} : u.mem[x] = t.mem[x]
      BY WriteIs
    <3> QED BY <1>3, <2>1, <2>3, <3>1 DEF KnownSt
  <2> QED BY <2>2, <2>3
<1> QED BY <1>1, <1>2, <1>3 DEF Alike

LEMMA StatusAlike ==
  ASSUME NEW t \in Transactions, row \in Rows, NEW p \in Flows, NEW v, NEW u, u = Write(t, p, "st", v)
  PROVE  Alike(t, u, {<<p, "st">>}, {}) /\ St(u, row, p) = v /\ Dirty(u, p)
<1>1. PICK c : c = "st"
  OBVIOUS
<1>2. c \in Columns /\ u = Write(t, p, c, v)
  BY <1>1 DEF Columns
<1>3. Alike(t, u, {<<p, c>>}, {}) /\ (c = "st" => St(u, row, p) = v)
  BY <1>2, WriteAlike
<1> QED BY <1>1, <1>3 DEF Alike, Else, Dirty

LEMMA CallsAlike ==
  ASSUME NEW t \in Transactions, NEW q, NEW u, u = [t EXCEPT !.calls = q]
  PROVE  Alike(t, u, {}, {}) /\ u.calls = q
<1>1. /\ u.op = t.op /\ u.dirty = t.dirty /\ u.log = t.log /\ u.mem = t.mem
      /\ u.read = t.read /\ u.acted = t.acted /\ u.calls = q
  BY DEF Transactions
<1> QED BY <1>1 DEF Alike, Else, KnownSt, St, At

LEMMA ExpireAlike ==
  ASSUME NEW t \in Transactions, NEW K, NEW u, u = Expire(t, K)
  PROVE  \A p \in Paths : KnownSt(u, row, p) \in {KnownSt(t, row, p), row[p].st}
<1>1. /\ u.dirty = t.dirty /\ u.log = t.log /\ u.list = t.list /\ u.todo = t.todo
      /\ u.op = t.op /\ u.read = t.read \cap K
      /\ \A p \in Flows :
           /\ u.mem[p].st = IF p \in K \/ <<p, "st">> \in t.dirty THEN t.mem[p].st ELSE "none"
           /\ u.mem[p].at = IF p \in K \/ <<p, "at">> \in t.dirty THEN t.mem[p].at ELSE 0
  BY ExpireIs
<1>2. Paths \subseteq Flows
  BY Sorts
<1> QED BY ONLY <1>1, <1>2 DEF KnownSt

LEMMA SpawnAlike ==
  ASSUME NEW t \in Transactions, NEW f \in Forks, NEW u, u = Spawned(t, f)
  PROVE  /\ Alike(t, u, Children(f) \X {"st", "at"}, {})
         /\ \A q \in Children(f) : St(u, row, q) = "active"
<1>1. Else(t, u, Children(f) \X {"st", "at"}) /\ \A q \in Children(f) : St(u, row, q) = "active"
  BY SpawnElse
<1>2. PICK e : e = Expire(t, t.list \cup {Root})
  OBVIOUS
<1>3. e \in Transactions /\ e.log = t.log
  BY <1>2, ExpireIs
<1>4. /\ u.log = e.log /\ u.read = e.read /\ u.dirty = e.dirty \cup Children(f) \X {"st", "at"}
      /\ \A q \in Flows \ Children(f) : u.mem[q] = e.mem[q]
  BY <1>2, <1>3 DEF Spawned, Transactions, Rows
<1>5. ASSUME NEW p \in Paths, <<p, "st">> \notin Children(f) \X {"st", "at"}
      PROVE  KnownSt(u, row, p) \in {KnownSt(t, row, p), row[p].st}
  <2>1. p \in Flows \ Children(f)
    BY <1>5, Sorts
  <2>2. KnownSt(u, row, p) = KnownSt(e, row, p)
    BY <1>4, <1>5, <2>1 DEF KnownSt
  <2> QED BY <1>2, <2>2, ExpireAlike
<1> QED BY <1>1, <1>3, <1>4, <1>5 DEF Alike

LEMMA RefreshAlike ==
  ASSUME NEW t \in Transactions, row \in Rows, NEW u, u = Refreshed(t, Expire(t, t.list))
  PROVE  u \in Transactions /\ Alike(t, u, {}, {})
<1>1. u \in Transactions /\ Else(t, u, {})
  BY RefreshElse
<1>2. PICK e : e = Expire(t, t.list)
  OBVIOUS
<1>3. e \in Transactions /\ e.log = t.log
  BY <1>2, ExpireIs
<1>4. /\ u.log = e.log /\ u.read = e.read \cup {Root} /\ u.dirty = e.dirty
      /\ \A q \in Paths : u.mem[q] = e.mem[q]
  BY <1>2, <1>3, Sorts DEF Refreshed, Transactions, Rows
<1>5. ASSUME NEW p \in Paths PROVE KnownSt(u, row, p) \in {KnownSt(t, row, p), row[p].st}
  <2>1. p # Root
    BY Sorts
  <2>2. KnownSt(u, row, p) = KnownSt(e, row, p)
    BY <1>4, <2>1 DEF KnownSt
  <2> QED BY <1>2, <2>2, ExpireAlike
<1> QED BY <1>1, <1>3, <1>4, <1>5 DEF Alike

LEMMA ColumnsAlike ==
  ASSUME NEW t, NEW u, NEW D, u.op = t.op, u.acted = t.acted, u.log = t.log, u.read = t.read,
         u.dirty = t.dirty \cup D,
         \A q \in Flows : /\ <<q, "st">> \notin D => u.mem[q].st = t.mem[q].st
                          /\ <<q, "at">> \notin D => u.mem[q].at = t.mem[q].at
  PROVE  Alike(t, u, D, {})
<1>1. ASSUME NEW q \in Flows
      PROVE  /\ <<q, "st">> \notin D => St(u, row, q) = St(t, row, q) /\ KnownSt(u, row, q) = KnownSt(t, row, q)
             /\ <<q, "at">> \notin D => At(u, row, q) = At(t, row, q)
  BY DEF St, At, KnownSt
<1>2. Else(t, u, D)
  BY <1>1 DEF Else
<1> QED BY <1>1, <1>2, Sorts DEF Alike

LEMMA DoomAlike ==
  ASSUME NEW t \in Transactions,
         NEW u, u = [t EXCEPT
                      !.mem = [p \in Flows |-> IF p \in Doomed(t) THEN [@[p] EXCEPT !.st = "exited"]
                                               ELSE @[p]],
                      !.dirty = @ \cup Doomed(t) \X {"st"}]
  PROVE  /\ Alike(t, u, Doomed(t) \X {"st"}, {})
         /\ \A q \in Doomed(t) : St(u, row, q) = "exited"
<1>1. /\ u.op = t.op /\ u.dirty = t.dirty \cup Doomed(t) \X {"st"} /\ u.log = t.log
      /\ u.read = t.read /\ u.acted = t.acted
      /\ \A q \in Flows \ Doomed(t) : u.mem[q] = t.mem[q]
      /\ \A q \in Doomed(t) : u.mem[q].st = "exited" /\ u.mem[q].at = t.mem[q].at
  BY Sorts DEF Transactions, Rows, Row, Doomed
<1>2. \A q \in Doomed(t) : <<q, "st">> \in u.dirty
  BY <1>1
<1>3. \A q \in Doomed(t) : St(u, row, q) = "exited"
  BY <1>1, <1>2 DEF St
<1> DEFINE D == Doomed(t) \X {"st"}
<1>4. /\ \A q \in Flows : <<q, "st">> \notin D => u.mem[q] = t.mem[q]
      /\ \A q \in Flows : u.mem[q].at = t.mem[q].at
  BY <1>1
<1>5. u.dirty = t.dirty \cup D
  BY <1>1
<1> HIDE DEF D
<1>6. Alike(t, u, D, {})
  BY <1>1, <1>4, <1>5, ColumnsAlike
<1>7. Alike(t, u, Doomed(t) \X {"st"}, {})
  BY ONLY <1>6 DEF D
<1> QED BY ONLY <1>3, <1>7

LEMMA AlikeAlike ==
  ASSUME NEW t, NEW u, NEW w, NEW D, NEW E, NEW L, NEW M, Alike(t, u, D, L), Alike(u, w, E, M)
  PROVE  Alike(t, w, D \cup E, L \cup M)
<1>1. Else(t, w, D \cup E)
  BY ElseElse DEF Alike
<1> QED BY <1>1 DEF Alike

\* A step of that kind turns only the threads of D.
LEMMA AlikeLocal ==
  ASSUME NEW s \in Sessions, NEW u, NEW D, NEW L, Alike(tx[s], u, D, L), tx[s].op # "none",
         tx' = [tx EXCEPT ![s] = u], UNCHANGED dbVars,
         contested \subseteq contested', causes \subseteq causes',
         \A p \in Tame' : <<p, "st">> \in D => Turns(s, u, p)
  PROVE  /\ Local(s, u)
         /\ \A p \in Tame' : Turns(s, u, p)
<1>1. /\ u.op = tx[s].op /\ u.dirty = tx[s].dirty \cup D /\ u.log = tx[s].log \cup L
      /\ \A p \in Flows : <<p, "st">> \notin D => St(u, row, p) = St(tx[s], row, p)
      /\ \A p \in Paths : <<p, "st">> \notin D => KnownSt(u, row, p) \in {KnownSt(tx[s], row, p), row[p].st}
  BY DEF Alike, Else
<1>2. \A p \in Paths : <<p, "st">> \in D => KnownSt(u, row, p) = St(u, row, p)
  BY <1>1 DEF KnownSt, St
<1>3. Tame' \subseteq Paths /\ Paths \subseteq Flows
  BY TameLess, Sorts
<1>4. ASSUME NEW p \in Tame' PROVE Turns(s, u, p)
  <2>1. CASE <<p, "st">> \in D
    BY <2>1
  <2>2. CASE <<p, "st">> \notin D
    BY <1>1, <1>3, <1>4, <2>2 DEF Turns, Dirty
  <2> QED BY <2>1, <2>2
<1>5. ASSUME NEW p \in Tame' PROVE KnownSt(u, row, p) \in {KnownSt(tx[s], row, p), row[p].st, St(u, row, p)}
  BY <1>1, <1>2, <1>3, <1>5
<1>6. ASSUME u.op = "goal", Exits(s), causes \cap {"overtaken", "raced"} = {}, NEW p \in Paths
      PROVE  KnownSt(u, row, p) = St(u, row, p)
  <2>1. KnownSt(tx[s], row, p) = St(tx[s], row, p)
    BY <1>1, <1>6 DEF Exits
  <2>2. CASE <<p, "st">> \in D
    BY <1>2, <2>2
  <2>3. CASE <<p, "st">> \notin D
    <3>1. St(u, row, p) = St(tx[s], row, p)
      BY <1>1, <1>3, <2>3
    <3>2. <<p, "st">> \notin u.dirty => St(u, row, p) = row[p].st
      BY DEF St
    <3>3. <<p, "st">> \in u.dirty => KnownSt(u, row, p) = St(u, row, p)
      BY DEF St, KnownSt
    <3> QED BY <1>1, <2>1, <2>3, <3>1, <3>2, <3>3
  <2> QED BY <2>2, <2>3
<1> QED BY <1>1, <1>4, <1>5, <1>6 DEF Local

\* The calls below the one on top of a session that is no timer's are no steps.
LEMMA OnlyTop ==
  ASSUME ForkInv, TypeOK, NEW s \in Sessions, tx[s].calls # <<>>, NEW c, c = Head(tx[s].calls)
  PROVE  /\ c = tx[s].calls[1] /\ 1 \in DOMAIN tx[s].calls /\ c \in Calls
         /\ tx[s].op # "wait" => \A p : On(tx[s].calls, p) # {} => c.do \in AtStep /\ c.flow = p
<1>1. tx[s].calls \in Seq(Calls) /\ Ordered(s)
  BY DEF ForkInv, TypeOK, Transactions
<1>2. c = tx[s].calls[1] /\ 1 \in DOMAIN tx[s].calls /\ c \in Calls
  BY <1>1
<1>3. ASSUME tx[s].op # "wait", NEW p, On(tx[s].calls, p) # {} PROVE c.do \in AtStep /\ c.flow = p
  <2>1. PICK i \in DOMAIN tx[s].calls : tx[s].calls[i].do \in AtStep /\ tx[s].calls[i].flow = p
    BY <1>3 DEF On
  <2>2. ~(i > 1)
    BY <1>1, <1>3, <2>1 DEF Ordered, AtStep
  <2>3. i = 1
    BY <1>1, <2>1, <2>2
  <2> QED BY <1>2, <2>1, <2>3
<1> QED BY <1>2, <1>3

\* Without a wait, no path but the one of the call on top has calls waiting.
LEMMA OnlyHead ==
  ASSUME ForkInv, TypeOK, NEW s \in Sessions, tx[s].calls # <<>>, NEW p,
         p = Head(tx[s].calls).flow
  PROVE  tx[s].op # "wait" => \A q : On(tx[s].calls, q) # {} => q = p
<1>1. PICK c : c = Head(tx[s].calls)
  OBVIOUS
<1>2. tx[s].op # "wait" => \A q : On(tx[s].calls, q) # {} => c.do \in AtStep /\ c.flow = q
  BY <1>1, OnlyTop
<1> QED BY <1>1, <1>2

\* A call that s may make when it has u.
Put(s, u, d) ==
  /\ d.do = "recheck" => u.op # "wait"
  /\ Entering(d) => u.op = "wait"
  /\ d.do = "leave" => d.flow \in u.log
  /\ d.do = "join" /\ d.flow # Root /\ u.op # "wait" => Ending(u, d.flow)
  /\ d.do \in {"exit", "kill"} <=> u.op = "goal"
  /\ d.do = "resolve" => Root \in u.read /\ <<d.flow, d.step>> \notin u.mem[Root].resolved
  /\ d.do = "process" /\ d.flow \in Paths /\ u.op # "wait" => <<d.flow, "at">> \in u.dirty
  /\ d.do \in AtStep /\ d.flow \in Tame' =>
       /\ St(u, row, d.flow) = "active"
       /\ \A w \in Sessions \ {s} : ~Moves(tx[w], d.flow)

\* What becomes of the flow that the call on top was in.
Leaves(s, u, c) ==
  u.op # "wait" =>
    /\ \A p \in Tame' : On(tx[s].calls, p) # {} => On(c, p) # {} \/ Moves(u, p)
    /\ \A i \in DOMAIN c : AsksRoot(u, c[i]) =>
         Asks(tx[s]) \/ \E p \in Paths : On(c, p) # {} \/ Dirty(u, p)
    /\ On(c, Root) # {} =>
         /\ Len(c) = 1
         /\ On(tx[s].calls, Root) # {} \/ JoinedMain(u) \/ tx[s].calls = <<>>

LEMMA PutsNone ==
  ASSUME NEW s, NEW u, NEW c, c = <<>>, Leaves(s, u, c) PROVE Puts(s, u, c)
BY DEF Puts, Leaves

LEMMA PutsOne ==
  ASSUME NEW s, NEW u, NEW d, Put(s, u, d), NEW c, c = <<d>>, Leaves(s, u, c) PROVE Puts(s, u, c)
<1>1. DOMAIN c = {1} /\ c[1] = d
  OBVIOUS
<1>2. \A i \in DOMAIN c : i = 1 /\ c[i] = d /\ ~(i > 1)
  BY <1>1
<1> QED BY <1>2 DEF Puts, Put, Leaves

-----------------------------------------------------------------------------
(* The calls. *)

Base == OnceInv /\ JoinInv /\ TypeOK

LEMMA OpNone ==
  ASSUME OnceInv, NEW s \in Sessions, tx[s].calls # <<>> PROVE tx[s].op # "none"
BY DEF OnceInv, OnceFor, Tidy

\* What a call that returns makes of its transaction.
Returned(s, u, t, c, D, L) ==
  /\ u \in Transactions /\ tx' = [tx EXCEPT ![s] = u]
  /\ u.calls = Onto(tx[s].calls, c) /\ Alike(tx[s], u, D, L)
  /\ u.mem = t.mem /\ u.read = t.read /\ u.dirty = t.dirty /\ u.log = t.log /\ u.op = t.op

LEMMA ReturnsIs ==
  ASSUME TypeOK, TypeOK', NEW s \in Sessions, tx[s].calls # <<>>, NEW t \in Transactions,
         NEW c \in Seq(Calls), Returns(s, t, c), NEW D, NEW L, Alike(tx[s], t, D, L),
         NEW u, u = Stacked(tx[s], t, c)
  PROVE  Returned(s, u, t, c, D, L)
<1>1. tx' = [tx EXCEPT ![s] = u]
  BY DEF Returns, Stacked
<1>2. u \in Transactions
  BY <1>1 DEF TypeOK
<1>a. PICK q : q = Onto(tx[s].calls, c)
  OBVIOUS
<1>b. u = [t EXCEPT !.calls = q]
  BY <1>a DEF Onto, Below, Stacked
<1>3. u.calls = Onto(tx[s].calls, c)
  BY <1>a, <1>b DEF Transactions
<1>4. u.mem = t.mem /\ u.read = t.read /\ u.dirty = t.dirty /\ u.log = t.log /\ u.op = t.op
  BY <1>b DEF Transactions
<1>5. Alike(tx[s], u, D, L)
  <2>1. Alike(t, u, {}, {})
    BY <1>b, CallsAlike
  <2>2. Alike(tx[s], u, D \cup {}, L \cup {})
    BY <2>1, AlikeAlike
  <2>3. D \cup {} = D /\ L \cup {} = L
    OBVIOUS
  <2> QED BY <2>2, <2>3
<1> QED BY <1>1, <1>2, <1>3, <1>4, <1>5 DEF Returned

\* A step that joins no fork.
LEMMA StepFork ==
  ASSUME ForkInv, Base, Base', NEW s \in Sessions, NEW u \in Transactions,
         tx' = [tx EXCEPT ![s] = u], tx[s].op # "none", UNCHANGED dbVars,
         contested \subseteq contested', causes \subseteq causes',
         NEW D, Alike(tx[s], u, D, {}), \A p \in Tame' : <<p, "st">> \in D => Turns(s, u, p),
         NEW c \in Seq(Calls), u.calls = Onto(tx[s].calls, c), Puts(s, u, c)
  PROVE  ForkInv'
<1>1. Local(s, u)
  BY AlikeLocal
<1>2. Logs(s, u)
  BY DEF Logs, Alike
<1> QED BY <1>1, <1>2, LocalFork DEF Base

\* Who is in an exit's call has begun with one.
LEMMA GoalTop ==
  ASSUME ForkInv, TypeOK, NEW s \in Sessions, NEW do, Running(s, do)
  PROVE  /\ do \in {"exit", "kill"} <=> tx[s].op = "goal"
         /\ do = "recheck" => tx[s].op # "wait" /\ Asks(tx[s])
         /\ do = "join" /\ Head(tx[s].calls).flow = Root /\ tx[s].op # "wait" => Asks(tx[s])
<1>1. tx[s].calls[1].do = do /\ 1 \in DOMAIN tx[s].calls /\ Head(tx[s].calls) = tx[s].calls[1]
  BY OnlyTop DEF Running
<1>2. Exits(s) /\ Ordered(s)
  BY DEF ForkInv
<1> QED BY <1>1, <1>2 DEF Exits, Ordered, Asks, AsksRoot

\* A call that is no step ends, with at most one that is none either.
Next1(do, d) ==
  /\ d \in Calls /\ d.do \notin AtStep \cup {"recheck", "leave"}
  /\ d.do \in {"exit", "kill"} <=> do \in {"exit", "kill"}
  /\ d.do = "join" => d.flow = Root /\ do = "recheck"

LEMMA PlainFork ==
  ASSUME ForkInv, Base, Base', NEW s \in Sessions, NEW do, do \notin AtStep, Running(s, do),
         NEW t \in Transactions, NEW D, Alike(tx[s], t, D, {}), \A p \in Paths : <<p, "st">> \notin D,
         UNCHANGED dbVars, contested \subseteq contested', causes \subseteq causes',
         NEW c, c = <<>> \/ \E d : Next1(do, d) /\ c = <<d>>, Returns(s, t, c)
  PROVE  ForkInv'
<1>1. tx[s].calls # <<>> /\ TypeOK /\ TypeOK' /\ OnceInv
  BY DEF Running, Base
<1>2. c \in Seq(Calls) /\ \A i \in DOMAIN c : Next1(do, c[i])
  <2>1. CASE c = <<>>
    BY <2>1
  <2>2. ASSUME NEW d, Next1(do, d), c = <<d>> PROVE c \in Seq(Calls) /\ \A i \in DOMAIN c : Next1(do, c[i])
    <3>1. d \in Calls
      BY <2>2 DEF Next1
    <3>2. c \in Seq(Calls) /\ \A i \in DOMAIN c : c[i] = d
      BY <2>2, <3>1
    <3> QED BY <2>2, <3>2
  <2> QED BY <2>1, <2>2
<1>3. PICK u : u = Stacked(tx[s], t, c)
  OBVIOUS
<1>4. /\ u \in Transactions /\ tx' = [tx EXCEPT ![s] = u]
      /\ u.calls = Onto(tx[s].calls, c) /\ Alike(tx[s], u, D, {})
  <2>1. Returned(s, u, t, c, D, {})
    BY <1>1, <1>2, <1>3, ReturnsIs
  <2> QED BY <2>1 DEF Returned
<1>5. u.op = tx[s].op /\ tx[s].op # "none"
  BY <1>1, <1>4, OpNone DEF Alike, Else
<1>6. Leaves(s, u, c)
  <2>1. \A p : On(c, p) = {}
    BY <1>2 DEF On, Next1
  <2>2. u.op # "wait" => \A p : On(tx[s].calls, p) = {}
    BY <1>1, <1>5, OnlyTop DEF Running
  <2>3. \A i \in DOMAIN c : AsksRoot(u, c[i]) => do = "recheck"
    BY <1>2 DEF AsksRoot, Next1
  <2>4. do = "recheck" => Asks(tx[s])
    BY <1>1, GoalTop
  <2> QED BY <2>1, <2>2, <2>3, <2>4 DEF Leaves
<1>7. Puts(s, u, c)
  <2>1. CASE c = <<>>
    BY <1>6, <2>1, PutsNone
  <2>2. ASSUME NEW d, Next1(do, d), c = <<d>> PROVE Puts(s, u, c)
    <3>1. do \in {"exit", "kill"} <=> u.op = "goal"
      BY <1>1, <1>5, GoalTop
    <3>2. Put(s, u, d)
      BY <2>2, <3>1 DEF Put, Next1, Entering, AtStep
    <3> QED BY <1>6, <2>2, <3>2, PutsOne
  <2> QED BY <2>1, <2>2
<1>8. \A p \in Tame' : <<p, "st">> \in D => Turns(s, u, p)
  BY TameLess
<1> QED BY <1>2, <1>4, <1>5, <1>7, <1>8, StepFork

LEMMA EndingFork ==
  ASSUME ForkInv, Base, Base', NEW s \in Sessions,
         Recheck(s) \/ CompleteEnrollment(s) \/ Finish(s) \/ ExitEnrollment(s)
  PROVE  ForkInv'
<1>1. /\ tx[s] \in Transactions /\ row \in Rows /\ Root \in Flows /\ Root \notin Paths
      /\ {Root} \subseteq Flows /\ Paths \subseteq Flows
  BY Sorts DEF Base, TypeOK
<1>2. CASE Recheck(s)
  <2>1. PICK t : t = Load(tx[s], {Root})
    OBVIOUS
  <2>2. t \in Transactions /\ Alike(tx[s], t, {}, {})
    BY <1>1, <2>1, LoadAlike
  <2>3. PICK c : Returns(s, t, c) /\ (c = <<>> \/ (Root \in Forks /\ c = <<Call("join", Root, 0)>>))
    BY <1>2, <2>1 DEF Recheck
  <2>4. Root \in Forks => Next1("recheck", Call("join", Root, 0))
    BY CallType DEF Next1, Call, AtStep, AtFork
  <2>5. c = <<>> \/ \E d : Next1("recheck", d) /\ c = <<d>>
    BY <2>3, <2>4
  <2>6. Running(s, "recheck") /\ UNCHANGED dbVars /\ UNCHANGED contested /\ UNCHANGED causes
    BY <1>2 DEF Recheck, ghostVars
  <2>7. "recheck" \notin AtStep
    BY DEF AtStep
  <2> QED BY <2>2, <2>3, <2>5, <2>6, <2>7, PlainFork
<1>3. CASE CompleteEnrollment(s)
  <2>1. PICK t : t = Load(tx[s], Paths \cup {Root})
    OBVIOUS
  <2>2. t \in Transactions /\ Alike(tx[s], t, {}, {})
    BY <1>1, <2>1, LoadAlike
  <2>3. PICK c : Returns(s, t, c) /\ (c = <<>> \/ c = <<Call("finish", Root, 0)>>)
    BY <1>3, <2>1 DEF CompleteEnrollment
  <2>4. Next1("complete", Call("finish", Root, 0))
    BY <1>1, CallType DEF Next1, Call, AtStep
  <2>5. c = <<>> \/ \E d : Next1("complete", d) /\ c = <<d>>
    BY <2>3, <2>4
  <2>6. Running(s, "complete") /\ UNCHANGED dbVars /\ UNCHANGED contested /\ causes \subseteq causes'
    BY <1>3 DEF CompleteEnrollment
  <2>7. "complete" \notin AtStep
    BY DEF AtStep
  <2> QED BY <2>2, <2>3, <2>5, <2>6, <2>7, PlainFork
<1>4. CASE Finish(s)
  <2>1. PICK t : t = Write(tx[s], Root, "st", "completed")
    OBVIOUS
  <2>2. t \in Transactions
    BY <1>1, <2>1, WriteType DEF Columns, Status
  <2>3. Alike(tx[s], t, {<<Root, "st">>}, {})
    BY <1>1, <2>1, WriteAlike DEF Columns
  <2>4. PICK c : Returns(s, t, c) /\ c = <<>>
    BY <1>4, <2>1 DEF Finish
  <2>5. \A p \in Paths : <<p, "st">> \notin {<<Root, "st">>}
    BY <1>1
  <2>6. Running(s, "finish") /\ UNCHANGED dbVars /\ UNCHANGED contested /\ UNCHANGED causes
    BY <1>4 DEF Finish, ghostVars
  <2>7. "finish" \notin AtStep
    BY DEF AtStep
  <2> QED BY <2>2, <2>3, <2>4, <2>5, <2>6, <2>7, PlainFork
<1>5. CASE ExitEnrollment(s)
  <2>1. PICK t : t = IF Known(tx[s], Root).counted THEN Load(tx[s], Paths) ELSE tx[s]
    OBVIOUS
  <2>2. t \in Transactions /\ Alike(tx[s], t, {}, {})
    <3>1. CASE t = tx[s]
      <4>1. Alike(tx[s], tx[s], {}, {})
        BY DEF Alike, Else
      <4> QED BY <1>1, <3>1, <4>1
    <3>2. CASE t = Load(tx[s], Paths)
      BY <1>1, <3>2, LoadAlike
    <3> QED BY <2>1, <3>1, <3>2
  <2>3. PICK c : Returns(s, t, c) /\ c = <<Call("kill", Root, 0)>>
    BY <1>5, <2>1 DEF ExitEnrollment
  <2>4. Next1("exit", Call("kill", Root, 0))
    BY <1>1, CallType DEF Next1, Call, AtStep
  <2>5. c = <<>> \/ \E d : Next1("exit", d) /\ c = <<d>>
    BY <2>3, <2>4
  <2>6. Running(s, "exit") /\ UNCHANGED dbVars /\ UNCHANGED contested /\ UNCHANGED causes
    BY <1>5 DEF ExitEnrollment, ghostVars
  <2>7. "exit" \notin AtStep
    BY DEF AtStep
  <2> QED BY <2>2, <2>3, <2>5, <2>6, <2>7, PlainFork
<1> QED BY <1>2, <1>3, <1>4, <1>5

\* One call comes of it.
LEMMA GoFork ==
  ASSUME ForkInv, Base, Base', NEW s \in Sessions, tx[s].calls # <<>>,
         NEW t \in Transactions, NEW D, Alike(tx[s], t, D, {}), UNCHANGED dbVars,
         contested \subseteq contested', causes \subseteq causes',
         NEW d \in Calls, NEW c, c = <<d>>, Returns(s, t, c), NEW u, u = Stacked(tx[s], t, c),
         \A p \in Tame' : <<p, "st">> \in D => Turns(s, u, p), Put(s, u, d), Leaves(s, u, c)
  PROVE  ForkInv'
<1>1. TypeOK /\ TypeOK' /\ OnceInv
  BY DEF Base
<1>2. c \in Seq(Calls)
  OBVIOUS
<1>3. Returned(s, u, t, c, D, {})
  BY <1>1, <1>2, ReturnsIs
<1>4. u \in Transactions /\ tx' = [tx EXCEPT ![s] = u] /\ u.calls = Onto(tx[s].calls, c) /\ Alike(tx[s], u, D, {})
  BY <1>3 DEF Returned
<1>5. tx[s].op # "none"
  BY <1>1, OpNone
<1>6. Puts(s, u, c)
  BY PutsOne
<1> QED BY <1>2, <1>4, <1>5, <1>6, StepFork

\* Who is in an exit or a join is in no step ...
LEMMA NoneOn ==
  ASSUME ForkInv, TypeOK, NEW s \in Sessions, NEW do, do \notin AtStep, Running(s, do),
         tx[s].op # "wait"
  PROVE  \A p : On(tx[s].calls, p) = {}
BY OnlyTop DEF Running

\* ... and what it leaves on the stack is none either.
LEMMA NothingOn ==
  ASSUME ForkInv, TypeOK, NEW s \in Sessions, NEW do, do \notin AtStep, Running(s, do),
         tx[s].op # "wait", NEW c \in Seq(Calls), NEW d, d = Onto(tx[s].calls, c),
         NEW p, On(c, p) = {}
  PROVE  On(d, p) = {}
<1>1. On(tx[s].calls, p) = {}
  BY NoneOn
<1>2. tx[s].calls \in Seq(Calls)
  BY DEF TypeOK, Transactions
<1> QED BY <1>1, <1>2, OnAfter

\* _exit_enrollment ends what is active, and runs alone if nothing is against it.
LEMMA KillFork ==
  ASSUME ForkInv, Base, Base', NEW s \in Sessions, Kill(s) PROVE ForkInv'
<1>1. /\ tx[s] \in Transactions /\ row \in Rows /\ Root \in Flows /\ Root \notin Paths
      /\ TypeOK /\ TypeOK' /\ OnceInv /\ Paths \subseteq Flows
  BY Sorts DEF Base, TypeOK
<1>2. PICK K : K = Doomed(tx[s])
  OBVIOUS
<1>3. PICK dead : dead = [tx[s] EXCEPT
                           !.mem = [p \in Flows |-> IF p \in Doomed(tx[s]) THEN [@[p] EXCEPT !.st = "exited"]
                                                    ELSE @[p]],
                           !.dirty = @ \cup Doomed(tx[s]) \X {"st"}]
  OBVIOUS
<1>4. dead \in Transactions /\ Alike(tx[s], dead, K \X {"st"}, {}) /\ \A q \in K : St(dead, row, q) = "exited"
  BY <1>1, <1>2, <1>3, DoomType, DoomAlike
<1>5. PICK t : t = Write(dead, Root, "st", "exited")
  OBVIOUS
<1>6. t \in Transactions
  BY <1>1, <1>4, <1>5, WriteType DEF Columns, Status
<1>7. PICK R : R = {<<Root, "st">>}
  OBVIOUS
<1>8. Alike(dead, t, R, {})
  BY <1>1, <1>4, <1>5, <1>7, WriteAlike DEF Columns
<1>9. Running(s, "kill") /\ UNCHANGED dbVars /\ UNCHANGED contested /\ UNCHANGED causes
      /\ tx[s].calls # <<>> /\ "kill" \notin AtStep
  BY DEF Kill, ghostVars, AtStep, Running
<1>10. PICK c : Returns(s, t, c) /\ c = <<>>
  BY <1>2, <1>3, <1>5 DEF Kill
<1>11. PICK D : D = (K \X {"st"}) \cup R
  OBVIOUS
<1>12. Alike(tx[s], t, D, {} \cup {})
  BY <1>4, <1>8, <1>11, AlikeAlike
<1>13. Alike(tx[s], t, D, {})
  <2>1. {} \cup {} = {}
    OBVIOUS
  <2> QED BY <1>12, <2>1
<1>14. PICK u : u = Stacked(tx[s], t, c)
  OBVIOUS
<1>15. c \in Seq(Calls)
  BY <1>10
<1>16. Returned(s, u, t, c, D, {})
  BY <1>1, <1>6, <1>9, <1>10, <1>13, <1>14, <1>15, ReturnsIs
<1>17. /\ u \in Transactions /\ tx' = [tx EXCEPT ![s] = u] /\ u.calls = Onto(tx[s].calls, c)
       /\ Alike(tx[s], u, D, {}) /\ u.op = t.op
  BY <1>16 DEF Returned
<1>18. tx[s].op = "goal" /\ u.op = "goal" /\ tx[s].op # "none"
  BY <1>1, <1>9, <1>13, <1>17, GoalTop DEF Alike, Else
<1>19. \A p : On(c, p) = {}
  BY <1>10 DEF On
<1>20. Leaves(s, u, c)
  <2>1. \A p : On(tx[s].calls, p) = {}
    BY <1>1, <1>9, <1>18, NoneOn
  <2> QED BY <1>10, <1>19, <2>1 DEF Leaves
<1>21. Puts(s, u, c)
  BY <1>10, <1>20, PutsNone
<1>22. ASSUME NEW p \in Tame', <<p, "st">> \in D PROVE Turns(s, u, p)
  <2>1. p \in Paths /\ p \in Flows /\ p # Root /\ causes \cap {"overtaken", "raced"} = {}
    BY <1>1, <1>9, <1>22 DEF Tame
  <2>2. p \in K
    BY <1>7, <1>11, <1>22, <2>1
  <2>3. Exits(s)
    BY DEF ForkInv
  <2>4. \A w \in Sessions \ {s} : On(tx[w].calls, p) = {}
    <3>1. \A w \in Sessions \ {s} : tx[w].op = "none"
      BY <1>18, <2>1, <2>3 DEF Exits, Open
    <3>2. \A w \in Sessions \ {s} : tx[w].calls = <<>>
      BY <1>1, <3>1 DEF OnceInv, OnceFor, Tidy
    <3> QED BY <3>2 DEF On
  <2>5. St(tx[s], row, p) = "active"
    <3>1. KnownSt(tx[s], row, p) = St(tx[s], row, p)
      BY <1>18, <2>1, <2>3 DEF Exits
    <3>2. p \in tx[s].read /\ tx[s].mem[p].st = "active"
      BY <1>2, <2>2 DEF Doomed
    <3> QED BY <3>1, <3>2 DEF KnownSt
  <2>6. Dirty(u, p)
    BY <1>17, <1>22 DEF Alike, Else, Dirty
  <2>7. St(u, row, p) = "exited"
    <3>1. St(dead, row, p) = "exited"
      BY <1>4, <2>2
    <3>2. <<p, "st">> \notin R
      BY <1>7, <2>1
    <3>3. St(t, row, p) = "exited"
      BY <1>8, <2>1, <3>1, <3>2 DEF Alike, Else
    <3>4. u.mem = t.mem /\ u.dirty = t.dirty
      BY <1>16 DEF Returned
    <3> QED BY <3>3, <3>4 DEF St
  <2>8. On(u.calls, p) = {}
    BY <1>1, <1>9, <1>15, <1>17, <1>18, <1>19, NothingOn
  <2> QED BY <2>4, <2>5, <2>6, <2>7, <2>8 DEF Turns, Over
<1> QED BY <1>9, <1>15, <1>17, <1>18, <1>21, <1>22, StepFork

\* A fork that is joined: all its threads are known, and none as running.
LEMMA KnownOver ==
  ASSUME JoinInv, TypeOK, NEW s \in Sessions, NEW do, Running(s, do), NEW f \in Forks,
         NEW t, t = Load(tx[s], Paths), StillActive(t, f) = {}, Members(t, f) # {},
         NEW p \in Children(f), KnownSt(t, row, p) # "forked"
  PROVE  KnownSt(tx[s], row, p) \in Over
<1>1. tx[s] \in Transactions /\ row \in Rows /\ RowsGood(row, joins) /\ Good(s, tx[s], row)
  <2>1. PICK c : c = Head(tx[s].calls)
    OBVIOUS
  <2> QED BY <2>1, TopGood
<1>2. Paths \subseteq Flows /\ p \in Paths /\ p \in Flows /\ Children(f) \subseteq Paths
  BY Sorts
<1>3. Paths \in SUBSET Flows /\ Paths \subseteq Paths
  BY <1>2
<1>4. Good(s, t, row)
  BY <1>1, <1>3, LoadGood
<1>5. t \in Transactions /\ Paths \subseteq t.read
  BY <1>1, <1>3, LoadIs
<1>6. KnownSt(t, row, p) = KnownSt(tx[s], row, p)
  <2>1. \A q \in Flows : t.mem[q].st = IF q \in Paths THEN KnownSt(tx[s], row, q) ELSE tx[s].mem[q].st
    BY <1>1, <1>3, LoadIs
  <2> QED BY <1>2, <1>5, <2>1 DEF KnownSt
<1>7. \A q \in Children(f) : Known(t, q).st = t.mem[q].st
  BY <1>2, <1>5 DEF Known, Columns
<1>8. t.mem[p].st # "none"
  <2>1. PICK q \in Children(f) : t.mem[q].st # "none"
    BY <1>7 DEF Members
  <2> QED BY <1>2, <1>4, <1>5, <2>1 DEF Good, Seen
<1>9. t.mem[p].st # "active"
  BY <1>7, <1>8 DEF StillActive, Members
<1>10. t.mem[p].st \in Status
  BY <1>2, <1>5 DEF Transactions, Rows, Row
<1>11. KnownSt(t, row, p) = t.mem[p].st
  BY <1>2, <1>5 DEF KnownSt
<1> QED BY <1>6, <1>8, <1>9, <1>10, <1>11 DEF Status, Over

\* _check_fork_join writes its row.
LEMMA JoinedFork ==
  ASSUME ForkInv, Base, Base', NEW s \in Sessions, Running(s, "join"),
         NEW f, f = Head(tx[s].calls).flow, NEW l, l = Load(tx[s], Paths),
         StillActive(l, f) = {}, Members(l, f) # {}, ~Joined(l, f),
         NEW t, t = [l EXCEPT !.log = @ \cup {f}], Returns(s, t, <<Call("leave", f, 0)>>),
         causes \subseteq causes',
         (\E p \in Members(l, f) : Known(l, p).st = "forked") => "overtaken" \in causes',
         UNCHANGED dbVars, UNCHANGED contested
  PROVE  ForkInv'
<1>1. /\ tx[s] \in Transactions /\ row \in Rows /\ TypeOK /\ TypeOK' /\ OnceInv /\ JoinInv
      /\ joins \in [Forks -> Nat] /\ tx[s].calls # <<>>
      /\ Paths \in SUBSET Flows
  BY Sorts DEF Base, TypeOK, Running
<1>2. f \in Forks /\ f \in Flows /\ tx[s].calls[1].do = "join" /\ tx[s].calls[1].flow = f /\ 1 \in DOMAIN tx[s].calls
  BY <1>1, OnlyTop DEF Running, Calls, AtFork
<1>3. l \in Transactions /\ Alike(tx[s], l, {}, {}) /\ l.log = tx[s].log
  BY <1>1, LoadAlike, LoadIs
<1>4. t \in Transactions /\ Alike(tx[s], t, {}, {f})
  <2>1. /\ t.op = l.op /\ t.dirty = l.dirty /\ t.log = l.log \cup {f} /\ t.mem = l.mem
        /\ t.read = l.read /\ t.acted = l.acted
    BY <1>3 DEF Transactions
  <2>2. \A p : KnownSt(t, row, p) = KnownSt(l, row, p) /\ St(t, row, p) = St(l, row, p) /\ At(t, row, p) = At(l, row, p)
    BY <2>1 DEF KnownSt, St, At
  <2>3. Alike(tx[s], t, {}, {f})
    BY <1>3, <2>1, <2>2 DEF Alike, Else
  <2>4. t \in Transactions
    BY <1>2, <1>3 DEF Transactions
  <2> QED BY <2>3, <2>4
<1>5. PICK d : d = Call("leave", f, 0)
  OBVIOUS
<1>6. d \in Calls /\ d.do = "leave" /\ d.flow = f
  BY <1>2, <1>5, CallType DEF Call, AtFork
<1>7. PICK c : c = <<d>>
  OBVIOUS
<1>8. c \in Seq(Calls) /\ Returns(s, t, c)
  BY <1>5, <1>6, <1>7
<1>9. PICK u : u = Stacked(tx[s], t, c)
  OBVIOUS
<1>10. PICK D : D = {}
  OBVIOUS
<1>11. PICK L : L = {f}
  OBVIOUS
<1>12. Returned(s, u, t, c, D, L)
  <2>1. Alike(tx[s], t, D, L)
    BY <1>4, <1>10, <1>11
  <2> QED BY <1>1, <1>4, <1>8, <1>9, <2>1, ReturnsIs
<1>13. /\ u \in Transactions /\ tx' = [tx EXCEPT ![s] = u] /\ u.calls = Onto(tx[s].calls, c)
       /\ Alike(tx[s], u, D, L) /\ u.op = tx[s].op /\ u.log = tx[s].log \cup {f} /\ u.dirty = tx[s].dirty
  BY <1>10, <1>11, <1>12 DEF Returned, Alike, Else
<1>14. tx[s].op # "none"
  BY <1>1, OpNone
<1>15. Local(s, u) /\ \A p \in Tame' : Turns(s, u, p)
  BY <1>10, <1>13, <1>14, AlikeLocal
<1>16. tx[s].op # "wait" => \A p : On(tx[s].calls, p) = {}
  BY <1>1, NoneOn DEF AtStep
<1>17. Logs(s, u)
  <2>1. joins[f] = 0
    BY <1>1, <1>2 DEF Joined
  <2>2. ASSUME NEW p \in Children(f) \cap Tame' PROVE KnownSt(tx[s], row, p) \in Over
    <3>1. "overtaken" \notin causes'
      BY <2>2 DEF Tame
    <3>2. p \in Flows
      BY <1>2, <2>2, Sorts
    <3>3. KnownSt(l, row, p) # "forked"
      <4>1. Known(l, p).st = KnownSt(l, row, p)
        BY DEF Known, KnownSt, Columns
      <4> QED BY <2>2, <3>1, <4>1 DEF Members
    <3> QED BY <1>1, <1>2, <2>2, <3>3, KnownOver
  <2>3. tx[s].op # "wait" => (f # Root => Ending(tx[s], f)) /\ (f = Root => Asks(tx[s]))
    <3>1. Joining(s)
      BY DEF ForkInv
    <3>2. f = Root /\ tx[s].op # "wait" => Asks(tx[s])
      BY <1>1, GoalTop
    <3> QED BY <1>2, <3>1, <3>2 DEF Joining
  <2> QED BY <1>2, <1>13, <1>15, <1>16, <2>1, <2>2, <2>3 DEF Logs
<1>18. Leaves(s, u, c)
  <2>1. DOMAIN c = {1} /\ c[1] = d
    BY <1>7
  <2>2. \A p : On(c, p) = {}
    BY <1>6, <2>1 DEF On, AtStep
  <2>3. \A i \in DOMAIN c : ~AsksRoot(u, c[i])
    BY <1>6, <2>1 DEF AsksRoot
  <2> QED BY <1>13, <1>16, <2>2, <2>3 DEF Leaves
<1>19. Puts(s, u, c)
  <2>1. tx[s].op # "goal"
    BY <1>1, GoalTop
  <2>2. Put(s, u, d)
    BY <1>6, <1>13, <2>1 DEF Put, Entering, AtStep
  <2> QED BY <1>7, <1>18, <2>2, PutsOne
<1> QED BY <1>1, <1>8, <1>13, <1>14, <1>15, <1>17, <1>19, LocalFork DEF Base

LEMMA CheckFork ==
  ASSUME ForkInv, Base, Base', NEW s \in Sessions, CheckForkJoin(s) PROVE ForkInv'
<1>1. PICK f : f = Head(tx[s].calls).flow
  OBVIOUS
<1>2. PICK l : l = Load(tx[s], Paths)
  OBVIOUS
<1>3. Running(s, "join") /\ UNCHANGED dbVars /\ UNCHANGED contested /\ causes \subseteq causes'
  BY DEF CheckForkJoin
<1>4. CASE StillActive(l, f) # {} \/ Members(l, f) = {} \/ Joined(l, f)
  <2>1. PICK c : Returns(s, l, c) /\ c = <<>>
    BY <1>1, <1>2, <1>4 DEF CheckForkJoin
  <2>2. l \in Transactions /\ Alike(tx[s], l, {}, {})
    BY <1>2, LoadAlike, Sorts DEF Base, TypeOK
  <2>3. "join" \notin AtStep
    BY DEF AtStep
  <2>4. c = <<>> \/ \E d : Next1("join", d) /\ c = <<d>>
    BY <2>1
  <2>5. PICK D : D = {}
    OBVIOUS
  <2>6. Alike(tx[s], l, D, {}) /\ \A p \in Paths : <<p, "st">> \notin D
    BY <2>2, <2>5
  <2> QED BY <1>3, <2>1, <2>2, <2>3, <2>4, <2>6, PlainFork
<1>5. CASE ~(StillActive(l, f) # {} \/ Members(l, f) = {} \/ Joined(l, f))
  <2>1. PICK t : t = [l EXCEPT !.log = @ \cup {f}] /\ Returns(s, t, <<Call("leave", f, 0)>>)
    BY <1>1, <1>2, <1>5 DEF CheckForkJoin
  <2>2. (\E p \in Members(l, f) : Known(l, p).st = "forked") => "overtaken" \in causes'
    BY <1>1, <1>2, <1>5 DEF CheckForkJoin
  <2> QED BY <1>1, <1>2, <1>3, <1>5, <2>1, <2>2, JoinedFork
<1> QED BY <1>4, <1>5

\* The second half: what is called for has its row written.
LEMMA LeaveFork ==
  ASSUME ForkInv, Base, Base', NEW s \in Sessions, ContinueAfterFork(s) PROVE ForkInv'
<1>1. /\ tx[s] \in Transactions /\ row \in Rows /\ TypeOK /\ TypeOK' /\ OnceInv /\ JoinInv
      /\ Root \in Flows /\ Root \notin Paths /\ Paths \subseteq Flows /\ Flows = {Root} \cup Paths
      /\ ForkStep = 2 /\ AfterFork = 3
  BY Sorts DEF Base, TypeOK, AfterFork
<1>2. /\ Running(s, "leave") /\ "leave" \notin AtStep /\ tx[s].calls # <<>> /\ tx[s].op # "none"
      /\ UNCHANGED dbVars /\ UNCHANGED causes
  BY <1>1, OpNone DEF ContinueAfterFork, AtStep, Running
<1>3. PICK f : f = Head(tx[s].calls).flow
  OBVIOUS
<1>4. f \in Forks /\ f \in Flows /\ tx[s].calls[1].do = "leave" /\ tx[s].calls[1].flow = f /\ 1 \in DOMAIN tx[s].calls
  BY <1>1, <1>2, <1>3, OnlyTop, Sorts DEF Running, Calls, AtFork
<1>5. f \in tx[s].log
  <2>1. Ordered(s)
    BY DEF ForkInv
  <2> QED BY <1>4, <2>1 DEF Ordered
<1>6. tx[s].op # "goal" /\ (tx[s].op # "wait" => \A p : On(tx[s].calls, p) = {})
  BY <1>1, <1>2, GoalTop, NoneOn
<1>7. PICK main : main = Write(tx[s], Root, "counted", FALSE)
  OBVIOUS
<1>8. PICK M : M = {<<Root, "counted">>}
  OBVIOUS
<1>9. main \in Transactions /\ Alike(tx[s], main, M, {})
  <2>1. "counted" \in Columns /\ FALSE \in BOOLEAN
    BY DEF Columns
  <2> QED BY <1>1, <1>7, <1>8, <2>1, WriteType, WriteAlike
<1>10. CASE /\ f # Root /\ Known(tx[s], f).st = "forked"
            /\ GoesOn(s, f, "forked", ForkStep)
            /\ Returns(s, Write(tx[s], f, "st", "active"), <<Call("advance", f, ForkStep)>>)
  <2>1. PICK t : t = Write(tx[s], f, "st", "active")
    OBVIOUS
  <2>2. t \in Transactions
    BY <1>1, <1>4, <2>1, WriteType DEF Columns, Status
  <2>3. PICK D : D = {<<f, "st">>}
    OBVIOUS
  <2>4. Alike(tx[s], t, D, {}) /\ St(t, row, f) = "active"
    BY <1>1, <1>4, <2>1, <2>3, StatusAlike
  <2>5. PICK d : d = Call("advance", f, ForkStep)
    OBVIOUS
  <2>6. d.do = "advance" /\ d.flow = f /\ d.step = ForkStep /\ d \in Calls
    BY <1>4, <2>5, ForkAt, CallType, Scripts DEF Call, AtStep
  <2>7. PICK c : c = <<d>>
    OBVIOUS
  <2>8. Returns(s, t, c)
    BY <1>10, <2>1, <2>5, <2>7
  <2>9. PICK u : u = Stacked(tx[s], t, c)
    OBVIOUS
  <2>10. c \in Seq(Calls)
    BY <2>6, <2>7
  <2>11. Returned(s, u, t, c, D, {})
    BY <1>1, <1>2, <2>2, <2>4, <2>8, <2>9, <2>10, ReturnsIs
  <2>12. /\ u.op = tx[s].op /\ St(u, row, f) = "active" /\ Dirty(u, f)
         /\ u.calls = Onto(tx[s].calls, c) /\ u.log = tx[s].log
    BY <2>3, <2>4, <2>11 DEF Returned, Alike, Else, St, Dirty
  <2>13. /\ contested \subseteq contested'
         /\ f \in Tame' =>
              /\ St(tx[s], row, f) = "forked"
              /\ \A w \in Sessions \ {s} : On(tx[w].calls, f) = {} /\ ~Moves(tx[w], f)
    BY <1>4, <1>10, GoesOnIs DEF Tame
  <2>14. \A p \in Tame' : <<p, "st">> \in D => Turns(s, u, p)
    BY <1>5, <2>3, <2>12, <2>13 DEF Turns
  <2>15. ~Entering(d)
    BY <1>1, <2>6 DEF Entering
  <2>16. Put(s, u, d)
    BY <1>6, <2>6, <2>12, <2>13, <2>15 DEF Put
  <2>17. Leaves(s, u, c)
    <3>1. DOMAIN c = {1} /\ c[1] = d
      BY <2>7
    <3>2. On(c, Root) = {}
      BY <1>10, <2>6, <3>1 DEF On
    <3>3. \A i \in DOMAIN c : ~AsksRoot(u, c[i])
      BY <2>6, <3>1 DEF AsksRoot
    <3> QED BY <1>6, <2>12, <3>2, <3>3 DEF Leaves
  <2> QED BY <1>2, <2>2, <2>4, <2>6, <2>7, <2>8, <2>9, <2>13, <2>14, <2>16, <2>17, GoFork
<1>11. CASE f # Root /\ Returns(s, tx[s], <<>>) /\ UNCHANGED contested
  <2>1. PICK c : Returns(s, tx[s], c) /\ c = <<>>
    BY <1>11
  <2>2. PICK D : D = {}
    OBVIOUS
  <2>3. Alike(tx[s], tx[s], D, {}) /\ \A p \in Paths : <<p, "st">> \notin D
    BY <2>2 DEF Alike, Else
  <2>4. c = <<>> \/ \E d : Next1("leave", d) /\ c = <<d>>
    BY <2>1
  <2> QED BY <1>1, <1>2, <1>11, <2>1, <2>3, <2>4, PlainFork
<1>12. CASE /\ f = Root /\ HasNext(Root, ForkStep) /\ contested \subseteq contested'
            /\ Returns(s, Write(main, Root, "at", AfterFork), <<Call("process", Root, AfterFork)>>)
  <2>1. PICK t : t = Write(main, Root, "at", AfterFork)
    OBVIOUS
  <2>2. AfterFork \in 1 .. Len(Script[Root]) /\ AfterFork \in 0 .. Len(Script[Root])
    BY <1>1, <1>12, Scripts DEF HasNext
  <2>3. t \in Transactions
    BY <1>1, <1>9, <2>1, <2>2, WriteType DEF Columns
  <2>4. PICK E : E = {<<Root, "at">>}
    OBVIOUS
  <2>5. Alike(main, t, E, {})
    BY <1>1, <1>9, <2>1, <2>4, WriteAlike DEF Columns
  <2>6. PICK D : D = M \cup E
    OBVIOUS
  <2>7. Alike(tx[s], t, D, {} \cup {})
    BY <1>9, <2>5, <2>6, AlikeAlike
  <2>8. Alike(tx[s], t, D, {}) /\ \A p \in Paths : <<p, "st">> \notin D
    <3>1. {} \cup {} = {}
      OBVIOUS
    <3> QED BY <1>1, <1>8, <2>4, <2>6, <2>7, <3>1
  <2>9. PICK d : d = Call("process", Root, AfterFork)
    OBVIOUS
  <2>10. d.do = "process" /\ d.flow = Root /\ d.step = AfterFork /\ d \in Calls
    BY <1>1, <2>2, <2>9, CallType, Scripts DEF Call, AtStep
  <2>11. PICK c : c = <<d>>
    OBVIOUS
  <2>12. c \in Seq(Calls) /\ Returns(s, t, c)
    BY <1>12, <2>1, <2>9, <2>10, <2>11
  <2>13. PICK u : u = Stacked(tx[s], t, c)
    OBVIOUS
  <2>14. Returned(s, u, t, c, D, {})
    BY <1>1, <1>2, <2>3, <2>8, <2>12, <2>13, ReturnsIs
  <2>15. u.op = tx[s].op /\ u.log = tx[s].log
    BY <2>14 DEF Returned, Alike, Else
  <2>16. ~Entering(d)
    BY <1>1, <2>10 DEF Entering
  <2>17. Root \notin Tame'
    BY <1>1, TameLess DEF Tame
  <2>18. Put(s, u, d)
    BY <1>1, <1>6, <2>10, <2>15, <2>16, <2>17 DEF Put
  <2>19. Leaves(s, u, c)
    <3>1. DOMAIN c = {1} /\ c[1] = d /\ Len(c) = 1
      BY <2>11
    <3>2. JoinedMain(u)
      BY <1>5, <1>12, <2>15 DEF JoinedMain
    <3>3. \A i \in DOMAIN c : ~AsksRoot(u, c[i])
      BY <2>10, <3>1 DEF AsksRoot
    <3> QED BY <1>6, <2>15, <3>1, <3>2, <3>3 DEF Leaves
  <2>20. \A p \in Tame' : <<p, "st">> \in D => Turns(s, u, p)
    BY <2>8 DEF Tame
  <2> QED BY <1>2, <1>12, <2>3, <2>8, <2>10, <2>11, <2>12, <2>13, <2>18, <2>19, <2>20, GoFork
<1>13. CASE /\ f = Root /\ contested \subseteq contested'
            /\ Returns(s, main, <<Call("complete", Root, 0)>>)
  <2>1. PICK d : d = Call("complete", Root, 0)
    OBVIOUS
  <2>2. Next1("leave", d)
    BY <1>1, <2>1, CallType DEF Next1, Call, AtStep
  <2>3. PICK c : c = <<d>>
    OBVIOUS
  <2>4. Returns(s, main, c) /\ (c = <<>> \/ \E e : Next1("leave", e) /\ c = <<e>>)
    BY <1>13, <2>1, <2>2, <2>3
  <2>5. \A p \in Paths : <<p, "st">> \notin M
    BY <1>1, <1>8
  <2> QED BY <1>2, <1>9, <1>13, <2>4, <2>5, PlainFork
<1>14. f = Root => contested \subseteq contested'
  BY <1>3 DEF ContinueAfterFork, GoesOn
<1> QED BY <1>3, <1>7, <1>10, <1>11, <1>12, <1>13, <1>14 DEF ContinueAfterFork

\* The flow of the call on top goes on, in the step it is in or the next.
LEMMA SameFork ==
  ASSUME ForkInv, Base, Base', NEW s \in Sessions, NEW do \in AtStep, Running(s, do),
         NEW p, p = Head(tx[s].calls).flow, NEW t \in Transactions, NEW D, Alike(tx[s], t, D, {}),
         \A q \in Paths : <<q, "st">> \notin D, UNCHANGED dbVars,
         contested \subseteq contested', causes \subseteq causes',
         NEW d \in Calls, d.do \in AtStep, d.flow = p, Entering(d) => tx[s].op = "wait",
         d.do = "resolve" => Root \in t.read /\ <<p, d.step>> \notin t.mem[Root].resolved,
         d.do = "process" /\ p \in Paths /\ tx[s].op # "wait" => <<p, "at">> \in t.dirty,
         NEW c, c = <<d>>, Returns(s, t, c)
  PROVE  ForkInv'
<1>1. TypeOK /\ TypeOK' /\ OnceInv /\ JoinInv /\ tx[s].calls # <<>>
  BY DEF Base, Running
<1>2. c \in Seq(Calls)
  OBVIOUS
<1>3. PICK u : u = Stacked(tx[s], t, c)
  OBVIOUS
<1>4. Returned(s, u, t, c, D, {})
  BY <1>1, <1>2, <1>3, ReturnsIs
<1>5. /\ u.op = tx[s].op /\ u.read = t.read /\ u.mem = t.mem /\ u.dirty = t.dirty
      /\ \A q \in Flows : <<q, "st">> \notin D => St(u, row, q) = St(tx[s], row, q)
  BY <1>4 DEF Returned, Alike, Else
<1>6. p \in Flows /\ 1 \in On(tx[s].calls, p)
  BY <1>1, TopOn
<1>7. ASSUME p \in Tame'
      PROVE  St(u, row, p) = "active" /\ \A w \in Sessions \ {s} : ~Moves(tx[w], p)
  <2>1. p \in Tame /\ p \in Paths
    BY <1>7, TameLess
  <2>2. Sound(s)
    BY DEF ForkInv
  <2>3. St(tx[s], row, p) = "active" /\ \A w \in Sessions \ {s} : ~Moves(tx[w], p)
    BY <1>6, <2>1, <2>2 DEF Sound
  <2> QED BY <1>5, <1>6, <2>1, <2>3
<1>8. tx[s].op # "goal"
  BY <1>1, GoalTop DEF AtStep
<1>9. Put(s, u, d)
  BY <1>5, <1>7, <1>8 DEF Put, AtStep
<1>10. Leaves(s, u, c)
  <2>1. DOMAIN c = {1} /\ c[1] = d /\ Len(c) = 1
    OBVIOUS
  <2>2. 1 \in On(c, p) /\ \A q : On(c, q) # {} => q = p
    BY <2>1 DEF On
  <2>3. \A i \in DOMAIN c : ~AsksRoot(u, c[i])
    BY <2>1 DEF AsksRoot, AtStep
  <2>4. u.op # "wait" => \A q : On(tx[s].calls, q) # {} => q = p
    <3>1. TypeOK /\ tx[s].calls # <<>> /\ u.op = tx[s].op
      BY <1>1, <1>5
    <3>2. tx[s].op # "wait" => \A q : On(tx[s].calls, q) # {} => q = p
      BY <3>1, OnlyHead
    <3> QED BY <3>1, <3>2
  <2> QED BY <1>6, <2>1, <2>2, <2>3, <2>4 DEF Leaves
<1>11. \A q \in Tame' : <<q, "st">> \in D => Turns(s, u, q)
  BY TameLess
<1> QED BY <1>1, <1>3, <1>9, <1>10, <1>11, GoFork

\* Nobody else is in a step of it.
AloneOn(s, p) ==
  On(tx[s].calls, p) = {1} /\ \A w \in Sessions \ {s} : On(tx[w].calls, p) = {}

LEMMA TopAlone ==
  ASSUME Base, NEW s \in Sessions, NEW do \in AtStep, Running(s, do),
         NEW p, p = Head(tx[s].calls).flow, p \notin contested
  PROVE  AloneOn(s, p)
<1>1. PICK c : c = Head(tx[s].calls)
  OBVIOUS
<1>2. p = c.flow /\ OnceInv /\ JoinInv /\ TypeOK
  BY <1>1 DEF Base
<1>3. p \notin contested =>
        /\ On(tx[s].calls, p) = {1} /\ c.step = At(tx[s], row, p)
        /\ \A w \in Sessions \ {s} : On(tx[w].calls, p) = {} /\ <<p, "at">> \notin tx[w].dirty
  BY <1>1, <1>2, TopOn
<1> QED BY <1>3 DEF AloneOn

\* It ends, and its fork is asked to join.
LEMMA OverFork ==
  ASSUME ForkInv, Base, Base', NEW s \in Sessions, NEW do \in AtStep, Running(s, do),
         NEW p \in Paths, p = Head(tx[s].calls).flow,
         NEW l \in Transactions, Alike(tx[s], l, {}, {}),
         NEW v \in Over, NEW t, t = Write(l, p, "st", v), UNCHANGED dbVars,
         UNCHANGED contested, causes \subseteq causes', Returns(s, t, <<Call("join", Host[p], 0)>>)
  PROVE  ForkInv'
<1>1. /\ TypeOK /\ TypeOK' /\ OnceInv /\ JoinInv /\ tx[s].calls # <<>> /\ row \in Rows
      /\ tx[s].calls \in Seq(Calls) /\ Paths \subseteq Flows /\ p \in Flows
      /\ Host[p] \in Forks /\ p \in Children(Host[p])
  BY Sorts DEF Base, Running, TypeOK, Transactions
<1>2. t \in Transactions
  BY <1>1, WriteType DEF Columns, Status, Over
<1>3. PICK D : D = {<<p, "st">>}
  OBVIOUS
<1>4. Alike(tx[s], t, D, {}) /\ St(t, row, p) = v
  <2>1. Alike(l, t, D, {}) /\ St(t, row, p) = v
    BY SMTT(60), <1>1, <1>3, StatusAlike
  <2>2. Alike(tx[s], t, {} \cup D, {} \cup {})
    BY <2>1, AlikeAlike
  <2>3. {} \cup D = D /\ {} \cup {} = {}
    OBVIOUS
  <2> QED BY <2>1, <2>2, <2>3
<1>5. PICK d : d = Call("join", Host[p], 0)
  OBVIOUS
<1>6. d \in Calls /\ d.do = "join" /\ d.flow = Host[p]
  BY <1>1, <1>5, CallType DEF Call, AtFork
<1>7. PICK c : c = <<d>>
  OBVIOUS
<1>8. c \in Seq(Calls) /\ Returns(s, t, c)
  BY <1>5, <1>6, <1>7
<1>9. PICK u : u = Stacked(tx[s], t, c)
  OBVIOUS
<1>10. Returned(s, u, t, c, D, {})
  BY <1>1, <1>2, <1>4, <1>8, <1>9, ReturnsIs
<1>11. u.op = tx[s].op /\ St(u, row, p) = v /\ Dirty(u, p) /\ u.calls = Onto(tx[s].calls, c)
  BY ZenonT(60), <1>3, <1>4, <1>10 DEF Returned, Alike, Else, St, Dirty
<1>12. On(c, p) = {} /\ On(c, Root) = {} /\ \A i \in DOMAIN c : c[i] = d
  BY <1>6, <1>7 DEF On, AtStep
<1>13. p \in Tame' => Turns(s, u, p)
  <2>1. SUFFICES ASSUME p \in Tame' PROVE Turns(s, u, p)
    OBVIOUS
  <2>2. p \in Tame /\ p \notin contested
    BY <2>1, TameLess DEF Tame
  <2>3. On(tx[s].calls, p) = {1} /\ \A w \in Sessions \ {s} : On(tx[w].calls, p) = {}
    <3>1. AloneOn(s, p)
      BY <2>2, TopAlone
    <3> QED BY <3>1 DEF AloneOn
  <2>4. St(tx[s], row, p) = "active"
    <3>1. Sound(s)
      BY DEF ForkInv
    <3> QED BY <2>2, <2>3, <3>1 DEF Sound
  <2>5. On(u.calls, p) = {}
    BY <1>1, <1>8, <1>11, <1>12, <2>3, OnAfter
  <2> QED BY <1>11, <2>3, <2>4, <2>5 DEF Turns
<1>14. \A q \in Tame' : <<q, "st">> \in D => Turns(s, u, q)
  BY <1>3, <1>13
<1>15. tx[s].op # "goal"
  BY <1>1, GoalTop DEF AtStep
<1>16. Put(s, u, d)
  BY <1>1, <1>6, <1>11, <1>15 DEF Put, Ending, Entering, AtStep
<1>17. Leaves(s, u, c)
  <2>1. u.op # "wait" => \A q : On(tx[s].calls, q) # {} => q = p
    <3>1. TypeOK /\ tx[s].calls # <<>> /\ u.op = tx[s].op
      BY <1>1, <1>11
    <3>2. tx[s].op # "wait" => \A q : On(tx[s].calls, q) # {} => q = p
      BY <3>1, OnlyHead
    <3> QED BY <3>1, <3>2
  <2>2. Moves(u, p)
    BY <1>11 DEF Moves, Dirty
  <2> QED BY <1>11, <1>12, <2>1, <2>2 DEF Leaves
<1> QED BY Zenon, <1>1, <1>2, <1>4, <1>6, <1>7, <1>8, <1>9, <1>14, <1>16, <1>17, GoFork

\* The call on top, if it is in a step, as what it is for a fork.
Top(s, do, c) ==
  /\ c \in Calls /\ c.do = do /\ c.flow \in Flows /\ c.step \in Nat /\ c.step >= 1
  /\ <<c.flow, c.step>> \in Steps
  /\ Entering(c) => tx[s].op = "wait" /\ EnterGood(s, tx[s], row, c)
  /\ do = "resolve" => /\ Root \in tx[s].read /\ <<c.flow, c.step>> \notin tx[s].mem[Root].resolved
                       /\ TypeAt(c.flow, c.step) = "wait_until"
  /\ do = "act" => TypeAt(c.flow, c.step) = "action"
  /\ do = "process" /\ c.flow \in Paths /\ tx[s].op # "wait" => <<c.flow, "at">> \in tx[s].dirty

LEMMA TopStep ==
  ASSUME ForkInv, Base, NEW s \in Sessions, NEW do \in AtStep, Running(s, do),
         NEW c, c = Head(tx[s].calls)
  PROVE  Top(s, do, c)
<1>1. TypeOK /\ JoinInv /\ OnceInv /\ tx[s].calls # <<>>
  BY DEF Base, Running
<1>2. c \in Calls /\ c.do = do /\ CallGood(s, tx[s], row, c) /\ (Entering(c) => EnterGood(s, tx[s], row, c))
  BY <1>1, TopGood
<1>3. c.flow \in Flows /\ c.step \in Nat /\ c.step >= 1 /\ <<c.flow, c.step>> \in Steps
  BY <1>2, StepOf
<1>4. c = tx[s].calls[1] /\ 1 \in DOMAIN tx[s].calls
  BY <1>1, OnlyTop
<1>5. Ordered(s) /\ Fresh(s)
  BY DEF ForkInv
<1> QED BY <1>2, <1>3, <1>4, <1>5 DEF Top, CallGood, Ordered, Fresh

\* A step behind the first of a flow that forks leads into no fork.
LEMMA BehindFork ==
  ASSUME NEW p, NEW i, TypeAt(p, i) \notin {"none", "wait"}, p \in Flows, NEW d, d.do = "advance",
         d.flow = p, d.step = i
  PROVE  ~Entering(d)
BY PastFork, Sorts DEF Entering

LEMMA ResolveFork ==
  ASSUME ForkInv, Base, Base', NEW s \in Sessions, ResolveWaitUntil(s) PROVE ForkInv'
<1>1. /\ Running(s, "resolve") /\ "resolve" \in AtStep /\ UNCHANGED dbVars
      /\ UNCHANGED contested /\ UNCHANGED causes
      /\ tx[s] \in Transactions /\ row \in Rows /\ Root \in Flows /\ Root \notin Paths
  BY Sorts DEF ResolveWaitUntil, ghostVars, AtStep, Base, TypeOK
<1>2. PICK c : c = Head(tx[s].calls)
  OBVIOUS
<1>3. /\ c.flow \in Flows /\ <<c.flow, c.step>> \in Steps
      /\ Root \in tx[s].read /\ <<c.flow, c.step>> \notin tx[s].mem[Root].resolved
      /\ TypeAt(c.flow, c.step) = "wait_until"
  <2>1. Top(s, "resolve", c)
    BY <1>1, <1>2, TopStep
  <2> QED BY <2>1 DEF Top
<1>4. PICK done : done = Known(tx[s], Root).resolved
  OBVIOUS
<1>5. done = tx[s].mem[Root].resolved
  BY <1>3, <1>4 DEF Known, Columns
<1>6. PICK v : v = done \cup {<<c.flow, c.step>>}
  OBVIOUS
<1>7. PICK t : t = Write(tx[s], Root, "resolved", v)
  OBVIOUS
<1>8. PICK d : d = Call("advance", c.flow, c.step)
  OBVIOUS
<1>9. d \in Calls /\ d.do = "advance" /\ d.flow = c.flow /\ d.step = c.step
  BY <1>3, <1>8, CallType DEF Call, AtStep
<1>10. PICK e : e = <<d>>
  OBVIOUS
<1>11. Returns(s, t, e)
  BY <1>2, <1>3, <1>4, <1>5, <1>6, <1>7, <1>8, <1>10 DEF ResolveWaitUntil
<1>12. t \in Transactions
  <2>1. v \in SUBSET Steps
    <3>1. Known(tx[s], Root) \in Row
      BY <1>1, KnownType
    <3> QED BY <1>3, <1>4, <1>6, <3>1 DEF Row
  <2> QED BY <1>1, <1>7, <2>1, WriteType DEF Columns
<1>13. PICK D : D = {<<Root, "resolved">>}
  OBVIOUS
<1>14. Alike(tx[s], t, D, {}) /\ \A q \in Paths : <<q, "st">> \notin D
  BY <1>1, <1>7, <1>13, WriteAlike DEF Columns
<1>15. ~Entering(d)
  BY <1>3, <1>9, BehindFork
<1>16. PICK p : p = c.flow
  OBVIOUS
<1> QED BY <1>1, <1>2, <1>9, <1>10, <1>11, <1>12, <1>14, <1>15, <1>16, SameFork DEF AtStep

\* It waits, or the enrollment completes.
LEMMA PauseFork ==
  ASSUME ForkInv, Base, Base', NEW s \in Sessions, NEW do \in AtStep, Running(s, do),
         NEW p, p = Head(tx[s].calls).flow, NEW t \in Transactions, NEW D, Alike(tx[s], t, D, {}),
         \A q \in Paths : <<q, "st">> \notin D, UNCHANGED dbVars,
         contested \subseteq contested', causes \subseteq causes',
         p \in Paths /\ tx[s].op # "wait" => <<p, "at">> \in tx[s].dirty,
         NEW c, c = <<>> \/ \E d : Next1(do, d) /\ c = <<d>>, Returns(s, t, c)
  PROVE  ForkInv'
<1>1. TypeOK /\ TypeOK' /\ OnceInv /\ JoinInv /\ tx[s].calls # <<>>
  BY DEF Base, Running
<1>2. c \in Seq(Calls) /\ \A i \in DOMAIN c : Next1(do, c[i])
  <2>1. CASE c = <<>>
    BY <2>1
  <2>2. ASSUME NEW d, Next1(do, d), c = <<d>> PROVE c \in Seq(Calls) /\ \A i \in DOMAIN c : Next1(do, c[i])
    <3>1. d \in Calls
      BY <2>2 DEF Next1
    <3>2. c \in Seq(Calls) /\ \A i \in DOMAIN c : c[i] = d
      BY <2>2, <3>1
    <3> QED BY <2>2, <3>2
  <2> QED BY <2>1, <2>2
<1>3. PICK u : u = Stacked(tx[s], t, c)
  OBVIOUS
<1>4. Returned(s, u, t, c, D, {})
  BY <1>1, <1>2, <1>3, ReturnsIs
<1>5. /\ u \in Transactions /\ tx' = [tx EXCEPT ![s] = u] /\ u.calls = Onto(tx[s].calls, c)
      /\ Alike(tx[s], u, D, {}) /\ u.op = tx[s].op /\ tx[s].dirty \subseteq u.dirty
  BY <1>4 DEF Returned, Alike, Else
<1>6. tx[s].op # "none" /\ tx[s].op # "goal" /\ do # "recheck"
  BY <1>1, OpNone, GoalTop DEF AtStep
<1>7. Leaves(s, u, c)
  <2>1. \A q : On(c, q) = {}
    BY <1>2 DEF On, Next1
  <2>2. u.op # "wait" => \A q : On(tx[s].calls, q) # {} => q = p
    <3>1. TypeOK /\ tx[s].calls # <<>> /\ u.op = tx[s].op
      BY <1>1, <1>5
    <3>2. tx[s].op # "wait" => \A q : On(tx[s].calls, q) # {} => q = p
      BY <3>1, OnlyHead
    <3> QED BY <3>1, <3>2
  <2>3. \A i \in DOMAIN c : ~AsksRoot(u, c[i])
    BY <1>2, <1>6 DEF AsksRoot, Next1
  <2>4. u.op # "wait" /\ p \in Tame' => Moves(u, p)
    BY <1>5, TameLess DEF Moves
  <2> QED BY <2>1, <2>2, <2>3, <2>4 DEF Leaves
<1>8. Puts(s, u, c)
  <2>1. CASE c = <<>>
    BY <1>7, <2>1, PutsNone
  <2>2. ASSUME NEW d, Next1(do, d), c = <<d>> PROVE Puts(s, u, c)
    <3>1. Put(s, u, d)
      BY <1>5, <1>6, <2>2 DEF Put, Next1, Entering, AtStep
    <3> QED BY <1>7, <2>2, <3>1, PutsOne
  <2> QED BY <2>1, <2>2
<1>9. \A q \in Tame' : <<q, "st">> \in D => Turns(s, u, q)
  BY TameLess
<1> QED BY <1>2, <1>5, <1>6, <1>8, <1>9, StepFork

\* What completes the enrollment.
LEMMA CompleteCall ==
  ASSUME NEW do \in AtStep, NEW d, d = Call("complete", Root, 0), NEW c, c = <<d>>
  PROVE  \E e : Next1(do, e) /\ c = <<e>>
BY CallType, Sorts DEF Next1, Call, AtStep

LEMMA AdvanceFork ==
  ASSUME ForkInv, Base, Base', NEW s \in Sessions, Advance(s) PROVE ForkInv'
<1>1. /\ Running(s, "advance") /\ "advance" \in AtStep /\ UNCHANGED dbVars
      /\ UNCHANGED contested /\ UNCHANGED causes
      /\ tx[s] \in Transactions /\ row \in Rows /\ Root \notin Paths /\ Flows = {Root} \cup Paths
      /\ ForkStep = 2
  BY Sorts DEF Advance, ghostVars, AtStep, Base, TypeOK
<1>2. PICK c : c = Head(tx[s].calls)
  OBVIOUS
<1>3. Top(s, "advance", c)
  BY <1>1, <1>2, TopStep
<1>4. PICK p : p = c.flow
  OBVIOUS
<1>5. p \in Flows /\ c.step \in Nat /\ c.step >= 1 /\ c.do = "advance"
  BY <1>3, <1>4 DEF Top
<1>6. Alike(tx[s], tx[s], {}, {})
  BY DEF Alike, Else
<1>7. CASE /\ HasNext(p, c.step)
           /\ Returns(s, Write(tx[s], p, "at", c.step + 1), <<Call("process", p, c.step + 1)>>)
  <2>1. PICK i : i = c.step + 1
    OBVIOUS
  <2>2. i \in 1 .. Len(Script[p]) /\ i \in 0 .. Len(Script[p]) /\ <<p, i>> \in Steps
    BY <1>5, <1>7, <2>1, Scripts DEF HasNext
  <2>3. PICK t : t = Write(tx[s], p, "at", i)
    OBVIOUS
  <2>4. t \in Transactions
    BY <1>1, <1>5, <2>2, <2>3, WriteType DEF Columns
  <2>5. PICK D : D = {<<p, "at">>}
    OBVIOUS
  <2>6. Alike(tx[s], t, D, {}) /\ \A q \in Paths : <<q, "st">> \notin D
    BY <1>1, <1>5, <2>3, <2>5, WriteAlike DEF Columns
  <2>7. <<p, "at">> \in t.dirty
    BY <2>5, <2>6 DEF Alike, Else
  <2>8. PICK d : d = Call("process", p, i)
    OBVIOUS
  <2>9. d \in Calls /\ d.do = "process" /\ d.flow = p /\ d.step = i
    BY <2>2, <2>8, CallType DEF Call, AtStep
  <2>10. Entering(d) => tx[s].op = "wait"
    <3>1. Entering(d) => Entering(c)
      BY <1>1, <1>4, <1>5, <2>1, <2>9 DEF Entering
    <3> QED BY <1>3, <3>1 DEF Top
  <2>11. PICK e : e = <<d>>
    OBVIOUS
  <2>12. Returns(s, t, e)
    BY <1>7, <2>1, <2>3, <2>8, <2>11
  <2>13. p = Head(tx[s].calls).flow
    BY <1>2, <1>4
  <2> QED BY <1>1, <2>4, <2>6, <2>7, <2>9, <2>10, <2>11, <2>12, <2>13, SameFork DEF AtStep
<1>8. CASE p = Root /\ Returns(s, tx[s], <<Call("complete", Root, 0)>>)
  <2>1. PICK d : d = Call("complete", Root, 0)
    OBVIOUS
  <2>2. PICK e : e = <<d>>
    OBVIOUS
  <2>3. Returns(s, tx[s], e) /\ \E x : Next1("advance", x) /\ e = <<x>>
    BY <1>1, <1>8, <2>1, <2>2, CompleteCall
  <2>4. PICK D : D = {}
    OBVIOUS
  <2>5. Alike(tx[s], tx[s], D, {}) /\ \A q \in Paths : <<q, "st">> \notin D
    BY <1>6, <2>4
  <2>6. p = Head(tx[s].calls).flow /\ p \notin Paths
    BY <1>1, <1>2, <1>4, <1>8
  <2> QED BY <1>1, <2>3, <2>5, <2>6, PauseFork
<1>9. CASE p # Root /\ Returns(s, Write(tx[s], p, "st", "completed"), <<Call("join", Host[p], 0)>>)
  <2>1. p \in Paths /\ p = Head(tx[s].calls).flow
    BY <1>1, <1>2, <1>4, <1>5, <1>9
  <2>2. PICK t : t = Write(tx[s], p, "st", "completed")
    OBVIOUS
  <2>3. PICK v : v = "completed"
    OBVIOUS
  <2>4. v \in Over /\ t = Write(tx[s], p, "st", v)
    BY <2>2, <2>3 DEF Over
  <2> QED BY <1>1, <1>6, <1>9, <2>1, <2>2, <2>4, OverFork
<1> QED BY <1>2, <1>4, <1>7, <1>8, <1>9 DEF Advance

\* What a fork writes.
ForkWrites(t, u, f, D) ==
  /\ Alike(t, u, D, {})
  /\ \A q \in Paths : <<q, "st">> \in D => q \in Children(f) \/ q = f
  /\ \A q \in Children(f) : St(u, row, q) = "active" /\ Dirty(u, q)
  /\ f # Root => St(u, row, f) = "forked" /\ Dirty(u, f)

LEMMA ForkedAlike ==
  ASSUME NEW t \in Transactions, row \in Rows, NEW f \in Forks, NEW u, u = Forked(t, f)
  PROVE  \E D : ForkWrites(t, u, f, D)
<1>1. f \in Flows /\ Root \in Flows /\ Root \notin Paths /\ Paths \subseteq Flows /\ Children(f) \subseteq Paths
  BY Sorts
<1>2. f \notin Children(f)
  <2>1. SUFFICES ASSUME f \in Children(f) PROVE FALSE
    OBVIOUS
  <2>2. f \in Paths /\ Host[f] = f
    BY <1>1, <2>1, Sorts
  <2>3. {f} \in (SUBSET Paths) \ {{}}
    BY <2>2
  <2>4. \E p \in {f} : Host[p] \notin {f}
    BY <2>3, NestingAssumption
  <2> QED BY <2>2, <2>4
<1>3. PICK E : E = Children(f) \X {"st", "at"}
  OBVIOUS
<1>4. CASE f = Root
  <2>1. PICK w : w = Write(t, f, "counted", TRUE)
    OBVIOUS
  <2>2. PICK C : C = {<<f, "counted">>}
    OBVIOUS
  <2>3. w \in Transactions /\ Alike(t, w, C, {})
    <3>1. "counted" \in Columns /\ TRUE \in BOOLEAN
      BY DEF Columns
    <3> QED BY <1>1, <2>1, <2>2, <3>1, WriteType, WriteAlike
  <2>4. u = Spawned(w, f)
    BY <1>4, <2>1 DEF Forked
  <2>5. Alike(w, u, E, {}) /\ \A q \in Children(f) : St(u, row, q) = "active"
    BY <1>3, <2>3, <2>4, SpawnAlike
  <2>6. PICK D : D = C \cup E
    OBVIOUS
  <2>7. Alike(t, u, D, {} \cup {})
    BY <2>3, <2>5, <2>6, AlikeAlike
  <2>8. Alike(t, u, D, {})
    <3>1. {} \cup {} = {}
      OBVIOUS
    <3> QED BY <2>7, <3>1
  <2>9. \A q \in Children(f) : Dirty(u, q)
    BY <1>3, <2>6, <2>8 DEF Alike, Else, Dirty
  <2>10. \A q \in Paths : <<q, "st">> \in D => q \in Children(f) \/ q = f
    BY <1>3, <2>2, <2>6
  <2> QED BY <1>4, <2>5, <2>8, <2>9, <2>10 DEF ForkWrites
<1>5. CASE f # Root
  <2>1. PICK w : w = Write(t, f, "st", "forked")
    OBVIOUS
  <2>2. PICK C : C = {<<f, "st">>}
    OBVIOUS
  <2>3. w \in Transactions
    BY <1>1, <2>1, WriteType DEF Columns, Status
  <2>4. Alike(t, w, C, {}) /\ St(w, row, f) = "forked"
    BY <1>1, <2>1, <2>2, StatusAlike
  <2>5. u = Spawned(w, f)
    BY <1>5, <2>1 DEF Forked
  <2>6. Alike(w, u, E, {}) /\ \A q \in Children(f) : St(u, row, q) = "active"
    BY <1>3, <2>3, <2>5, SpawnAlike
  <2>7. PICK D : D = C \cup E
    OBVIOUS
  <2>8. Alike(t, u, D, {} \cup {})
    BY <2>4, <2>6, <2>7, AlikeAlike
  <2>9. Alike(t, u, D, {})
    <3>1. {} \cup {} = {}
      OBVIOUS
    <3> QED BY <2>8, <3>1
  <2>10. \A q \in Children(f) : Dirty(u, q)
    BY <1>3, <2>7, <2>9 DEF Alike, Else, Dirty
  <2>11. \A q \in Paths : <<q, "st">> \in D => q \in Children(f) \/ q = f
    BY <1>3, <2>2, <2>7
  <2>12. St(u, row, f) = "forked"
    <3>1. <<f, "st">> \notin E
      BY <1>2, <1>3
    <3> QED BY <1>1, <2>4, <2>6, <3>1 DEF Alike, Else
  <2>13. Dirty(u, f)
    BY <2>2, <2>7, <2>9 DEF Alike, Else, Dirty
  <2> QED BY <2>6, <2>9, <2>10, <2>11, <2>12, <2>13 DEF ForkWrites
<1> QED BY <1>4, <1>5

\* The calls of a fork.
LEMMA ForkCallsDo ==
  ASSUME NEW f \in Forks, NEW c, c = ForkCalls(f)
  PROVE  \A i \in DOMAIN c : c[i].do \in {"process", "join"}
<1>1. Branches[f] \in Seq(Paths)
  BY Scripts, Sorts
<1>2. PICK e : e = [i \in DOMAIN Branches[f] |-> Call("process", Branches[f][i], 1)]
  OBVIOUS
<1>3. PICK l : l = Call("join", f, 0)
  OBVIOUS
<1>4. c = e \o <<l>>
  BY <1>2, <1>3 DEF ForkCalls
<1>5. PICK S : S = {e[i] : i \in DOMAIN e} \cup {l}
  OBVIOUS
<1>6. e \in Seq(S) /\ l \in S
  BY <1>1, <1>2, <1>5
<1>7. PICK n : n = Len(e)
  OBVIOUS
<1>8. DOMAIN c = 1 .. n + 1 /\ c[n + 1] = l /\ \A i \in 1 .. n : c[i] = e[i]
  BY <1>4, <1>6, <1>7, AppendedOne
<1>9. n \in Nat /\ DOMAIN e = 1 .. n
  BY <1>6, <1>7
<1>10. \A i \in 1 .. n : e[i].do = "process"
  <2>1. ASSUME NEW i \in 1 .. n PROVE e[i].do = "process"
    <3>1. i \in DOMAIN Branches[f]
      BY <1>2, <1>9
    <3> QED BY <1>2, <3>1 DEF Call
  <2> QED BY <2>1
<1>11. l.do = "join"
  BY <1>3 DEF Call
<1> QED BY <1>8, <1>9, <1>10, <1>11

LEMMA PutsMany ==
  ASSUME NEW s, NEW u, u.op = "wait", NEW e, \A i \in DOMAIN e : e[i].do \in {"process", "join"},
         \A i \in DOMAIN e : e[i].do \in AtStep =>
           /\ St(u, row, e[i].flow) = "active"
           /\ \A w \in Sessions \ {s} : ~Moves(tx[w], e[i].flow)
  PROVE  Puts(s, u, e)
<1>1. \A i \in DOMAIN e : e[i].do \notin {"recheck", "leave", "exit", "kill", "resolve"}
  OBVIOUS
<1>2. u.op \notin {"goal", "recheck"}
  OBVIOUS
<1>3. \A i \in DOMAIN e : i > 1 => e[i].do \in (IF u.op = "wait" THEN {"process", "join"} ELSE {"recheck"})
  OBVIOUS
<1>4. \A i \in DOMAIN e :
        /\ e[i].do # "recheck" /\ e[i].do # "leave" /\ e[i].do # "resolve" /\ u.op = "wait"
        /\ e[i].do \in {"exit", "kill"} <=> u.op = "goal"
  BY <1>1, <1>2
<1> QED BY <1>3, <1>4 DEF Puts

\* A flow enters its fork.
LEMMA SpawnFork ==
  ASSUME ForkInv, Base, Base', NEW s \in Sessions, Running(s, "process"),
         NEW c, c = Head(tx[s].calls), NEW f, f = c.flow, TypeAt(f, c.step) = "fork",
         NEW l \in Transactions, Alike(tx[s], l, {}, {}), NEW t, t = Forked(l, f),
         UNCHANGED dbVars, UNCHANGED contested, causes \subseteq causes',
         NEW e, e = ForkCalls(f), Returns(s, t, e)
  PROVE  ForkInv'
<1>1. /\ TypeOK /\ TypeOK' /\ OnceInv /\ JoinInv /\ tx[s].calls # <<>> /\ row \in Rows
      /\ tx[s].calls \in Seq(Calls) /\ "process" \in AtStep /\ Paths \subseteq Flows
  BY Sorts DEF Base, Running, TypeOK, Transactions, AtStep
<1>2. Top(s, "process", c)
  BY <1>1, TopStep
<1>3. f \in Forks /\ f \in Flows /\ c.step = ForkStep /\ Children(f) \subseteq Paths
      /\ (\A q \in Children(f) : Host[q] = f)
  BY <1>2, ForkType, Sorts DEF Top
<1>4. tx[s].op = "wait" /\ s = Scheduler /\ \A q \in Children(f) : Unborn(tx[s], row, q)
  <2>1. Entering(c)
    BY Zenon, <1>2, <1>3 DEF Entering, Top
  <2> QED BY <1>2, <2>1 DEF Top, EnterGood
<1>5. t \in Transactions
  BY <1>1, <1>3, ForkedType
<1>6. PICK D : ForkWrites(l, t, f, D)
  BY <1>1, <1>3, ForkedAlike
<1>7. Alike(tx[s], t, D, {})
  <2>1. Alike(tx[s], t, {} \cup D, {} \cup {})
    BY <1>6, AlikeAlike DEF ForkWrites
  <2>2. {} \cup D = D /\ {} \cup {} = {}
    OBVIOUS
  <2> QED BY <2>1, <2>2
<1>8. e \in Seq(Calls)
  BY <1>3, ForkCallsType
<1>9. PICK u : u = Stacked(tx[s], t, e)
  OBVIOUS
<1>10. Returned(s, u, t, e, D, {})
  BY <1>1, <1>5, <1>7, <1>8, <1>9, ReturnsIs
<1>11. /\ u \in Transactions /\ tx' = [tx EXCEPT ![s] = u] /\ u.calls = Onto(tx[s].calls, e)
       /\ Alike(tx[s], u, D, {}) /\ u.op = "wait"
       /\ \A q \in Children(f) : St(u, row, q) = "active" /\ Dirty(u, q)
       /\ f # Root => St(u, row, f) = "forked" /\ Dirty(u, f)
  <2>1. /\ u \in Transactions /\ tx' = [tx EXCEPT ![s] = u] /\ u.calls = Onto(tx[s].calls, e)
        /\ Alike(tx[s], u, D, {}) /\ u.mem = t.mem /\ u.dirty = t.dirty
    BY <1>10 DEF Returned
  <2>2. u.op = "wait"
    BY <1>4, <2>1 DEF Alike, Else
  <2>3. \A q : St(u, row, q) = St(t, row, q) /\ (Dirty(u, q) <=> Dirty(t, q))
    BY <2>1 DEF St, Dirty
  <2>4. \A q \in Children(f) : St(u, row, q) = "active" /\ Dirty(u, q)
    BY <1>6, <2>3 DEF ForkWrites
  <2>5. f # Root => St(u, row, f) = "forked" /\ Dirty(u, f)
    BY <1>6, <2>3 DEF ForkWrites
  <2> QED BY <2>1, <2>2, <2>4, <2>5
<1>12. ASSUME NEW q \in Children(f)
       PROVE  /\ St(tx[s], row, q) = "none"
              /\ \A w \in Sessions : ~Moves(tx[w], q) /\ On(tx[w].calls, q) = {}
  <2>1. q \in Paths /\ Unborn(tx[Scheduler], row, q)
    BY <1>3, <1>4
  <2>2. \A w \in Sessions : ~Moves(tx[w], q) /\ On(tx[w].calls, q) = {}
    BY <1>1, <2>1, NobodyThere
  <2>3. St(tx[s], row, q) = "none"
    BY <1>4 DEF Unborn, St
  <2> QED BY <2>2, <2>3
<1>13. \A i \in DOMAIN e :
         /\ e[i].do \in {"process", "join"}
         /\ e[i].do \in AtStep => e[i].step = 1 /\ e[i].flow \in Children(f)
  BY <1>3, ForkCallsIs, ForkCallsDo
<1>14. ASSUME NEW p \in Tame', <<p, "st">> \in D PROVE Turns(s, u, p)
  <2>1. p \in Tame /\ p \in Paths /\ p \notin contested
    BY <1>14, TameLess DEF Tame
  <2>2. CASE p \in Children(f)
    <3>1. Dirty(u, p) /\ St(u, row, p) = "active" /\ Host[p] = f
      BY <1>3, <1>11, <2>2
    <3>2. St(tx[s], row, p) = "none" /\ \A w \in Sessions \ {s} : On(tx[w].calls, p) = {}
      BY <1>12, <2>2
    <3> QED BY <1>11, <3>1, <3>2 DEF Turns
  <2>3. CASE p = f /\ p \notin Children(f)
    <3>1. p # Root
      BY <2>1, Sorts
    <3>2. AloneOn(s, p)
      BY <1>1, <2>1, <2>3, TopAlone
    <3>3. St(tx[s], row, p) = "active"
      <4>1. Sound(s)
        BY DEF ForkInv
      <4> QED BY <2>1, <3>2, <4>1 DEF Sound, AloneOn
    <3>4. On(e, p) = {}
      BY Zenon, <1>13, <2>3 DEF On
    <3>5. On(u.calls, p) = {}
      BY <1>1, <1>8, <1>11, <3>2, <3>4, OnAfter DEF AloneOn
    <3>6. St(u, row, p) = "forked" /\ Dirty(u, p)
      BY <1>11, <2>3, <3>1
    <3> QED BY <3>2, <3>3, <3>5, <3>6 DEF Turns, AloneOn
  <2>4. p \in Children(f) \/ p = f
    BY <1>6, <1>14, <2>1 DEF ForkWrites
  <2> QED BY <2>2, <2>3, <2>4
<1>15. tx[s].op # "none" /\ "wait" # "goal"
  BY <1>4
<1>16. Puts(s, u, e)
  <2>1. ASSUME NEW i \in DOMAIN e, e[i].do \in AtStep
        PROVE  /\ St(u, row, e[i].flow) = "active"
               /\ \A w \in Sessions \ {s} : ~Moves(tx[w], e[i].flow)
    <3>1. PICK q \in Children(f) : q = e[i].flow
      BY <1>13, <2>1
    <3>2. St(u, row, q) = "active" /\ \A w \in Sessions \ {s} : ~Moves(tx[w], q)
      BY <1>11, <1>12
    <3> QED BY <3>1, <3>2
  <2>2. \A i \in DOMAIN e : e[i].do \in {"process", "join"}
    BY <1>13
  <2>3. u.op = "wait"
    BY <1>11
  <2> QED BY <2>1, <2>2, <2>3, PutsMany
<1> QED BY <1>8, <1>11, <1>14, <1>15, <1>16, StepFork

\* A mark that is set or taken back.
LEMMA ResolvedIs ==
  ASSUME NEW l \in Transactions, row \in Rows, NEW v, NEW t, t = Write(l, Root, "resolved", v)
  PROVE  t.mem[Root].resolved = v /\ Root \in t.read
<1>1. PICK k : k = Load(l, {Root})
  OBVIOUS
<1>2. k \in Transactions /\ Root \in k.read /\ Root \in Flows
  BY <1>1, Sorts, LoadIs
<1>3. k.mem \in [Flows -> Row]
  BY <1>2 DEF Transactions, Rows
<1>4. k.mem[Root] \in Row
  BY <1>2, <1>3
<1>5. t = [k EXCEPT !.mem[Root]["resolved"] = v, !.dirty = @ \cup {<<Root, "resolved">>}]
  BY <1>1 DEF Write
<1>6. t.mem = [k.mem EXCEPT ![Root] = [@ EXCEPT !["resolved"] = v]] /\ t.read = k.read
  BY <1>2, <1>5 DEF Transactions
<1>7. PICK m : m = k.mem[Root]
  OBVIOUS
<1>8. t.mem[Root] = [m EXCEPT !["resolved"] = v]
  BY <1>2, <1>3, <1>6, <1>7
<1>9. m \in Row
  BY <1>4, <1>7
<1> QED BY <1>2, <1>6, <1>8, <1>9 DEF Row

\* A wait_until, entered again, is not resolved.
LEMMA AwaitFork ==
  ASSUME ForkInv, Base, Base', NEW s \in Sessions, Running(s, "process"),
         NEW c, c = Head(tx[s].calls), NEW p, p = c.flow, TypeAt(p, c.step) = "wait_until",
         NEW l \in Transactions, Alike(tx[s], l, {}, {}), NEW done \in SUBSET Steps,
         NEW t, t = Write(l, Root, "resolved", done \ {<<p, c.step>>}),
         UNCHANGED dbVars, UNCHANGED contested, causes \subseteq causes',
         NEW e, e = <<>> \/ e = <<Call("resolve", p, c.step)>>, Returns(s, t, e)
  PROVE  ForkInv'
<1>1. "process" \in AtStep /\ row \in Rows /\ Root \in Flows /\ Root \notin Paths
  BY Sorts DEF AtStep, Base, TypeOK
<1>2. Top(s, "process", c)
  BY <1>1, TopStep
<1>3. PICK v : v = done \ {<<p, c.step>>}
  OBVIOUS
<1>4. v \in SUBSET Steps /\ <<p, c.step>> \notin v
  BY <1>3
<1>5. t \in Transactions
  BY <1>1, <1>3, <1>4, WriteType DEF Columns
<1>6. PICK D : D = {<<Root, "resolved">>}
  OBVIOUS
<1>7. Alike(l, t, D, {}) /\ \A q \in Paths : <<q, "st">> \notin D
  BY <1>1, <1>3, <1>6, WriteAlike DEF Columns
<1>8. Alike(tx[s], t, D, {})
  <2>1. Alike(tx[s], t, {} \cup D, {} \cup {})
    BY <1>7, AlikeAlike
  <2>2. {} \cup D = D /\ {} \cup {} = {}
    OBVIOUS
  <2> QED BY <2>1, <2>2
<1>9. t.mem[Root].resolved = v /\ Root \in t.read
  <2>1. l \in Transactions /\ row \in Rows /\ t = Write(l, Root, "resolved", v)
    BY <1>1, <1>3
  <2> QED BY ONLY <2>1, ResolvedIs
<1>10. p = Head(tx[s].calls).flow /\ (p \in Paths /\ tx[s].op # "wait" => <<p, "at">> \in tx[s].dirty)
  BY <1>2 DEF Top
<1>11. CASE e = <<>>
  BY <1>1, <1>5, <1>7, <1>8, <1>10, <1>11, PauseFork
<1>12. CASE e = <<Call("resolve", p, c.step)>>
  <2>1. PICK d : d = Call("resolve", p, c.step)
    OBVIOUS
  <2>2. d \in Calls /\ d.do = "resolve" /\ d.flow = p /\ d.step = c.step
    BY <1>2, <2>1, CallType DEF Top, Call, AtStep
  <2>3. e = <<d>> /\ d.do \in AtStep /\ ~Entering(d)
    BY Zenon, <1>12, <2>1, <2>2 DEF Entering, AtStep
  <2>4. Root \in t.read /\ <<p, d.step>> \notin t.mem[Root].resolved
    BY Zenon, <1>4, <1>9, <2>2
  <2> QED BY <1>1, <1>5, <1>7, <1>8, <1>10, <2>2, <2>3, <2>4, SameFork
<1> QED BY <1>11, <1>12

LEMMA ProcessFork ==
  ASSUME ForkInv, Base, Base', NEW s \in Sessions, ProcessStep(s) PROVE ForkInv'
<1>1. /\ Running(s, "process") /\ "process" \in AtStep /\ UNCHANGED dbVars
      /\ UNCHANGED contested /\ causes \subseteq causes'
      /\ tx[s] \in Transactions /\ row \in Rows /\ Root \notin Paths /\ Root \in Flows
      /\ Flows = {Root} \cup Paths
  BY Sorts DEF ProcessStep, AtStep, Base, TypeOK
<1>2. PICK c : c = Head(tx[s].calls)
  OBVIOUS
<1>3. Top(s, "process", c)
  BY <1>1, <1>2, TopStep
<1>4. PICK p : p = c.flow
  OBVIOUS
<1>5. PICK k : k = TypeAt(p, c.step)
  OBVIOUS
<1>6. PICK l : l = LookAtFunnel(tx[s])
  OBVIOUS
<1>7. l \in Transactions /\ Alike(tx[s], l, {}, {})
  BY <1>1, <1>6, LookAlike
<1>8. PICK D : D = {}
  OBVIOUS
<1>9. Alike(tx[s], l, D, {}) /\ \A q \in Paths : <<q, "st">> \notin D
  BY <1>7, <1>8
<1>10. p = Head(tx[s].calls).flow /\ p \in Flows /\ (p \in Paths /\ tx[s].op # "wait" => <<p, "at">> \in tx[s].dirty)
  BY <1>2, <1>3, <1>4 DEF Top
<1>11. CASE Returns(s, l, <<>>)
  <2>1. PICK e : e = <<>>
    OBVIOUS
  <2> QED BY <1>1, <1>7, <1>9, <1>10, <1>11, <2>1, PauseFork
<1>12. CASE Returns(s, l, <<Call("act", p, c.step)>>)
  <2>1. PICK d : d = Call("act", p, c.step)
    OBVIOUS
  <2>2. d \in Calls /\ d.do = "act" /\ d.flow = p
    BY <1>3, <1>4, <2>1, CallType DEF Top, Call, AtStep
  <2>3. d.do \in AtStep /\ ~Entering(d)
    BY <2>2 DEF Entering, AtStep
  <2>4. PICK e : e = <<d>>
    OBVIOUS
  <2>5. Returns(s, l, e)
    BY <1>12, <2>1, <2>4
  <2> QED BY <1>1, <1>7, <1>9, <1>10, <2>2, <2>3, <2>4, <2>5, SameFork
<1>13. CASE p = Root /\ Returns(s, l, <<Call("complete", Root, 0)>>)
  <2>1. PICK d : d = Call("complete", Root, 0)
    OBVIOUS
  <2>2. PICK e : e = <<d>>
    OBVIOUS
  <2>3. Returns(s, l, e) /\ \E x : Next1("process", x) /\ e = <<x>>
    BY <1>1, <1>13, <2>1, <2>2, CompleteCall
  <2> QED BY <1>1, <1>7, <1>9, <1>10, <2>3, PauseFork
<1>14. CASE p # Root /\ Returns(s, Write(l, p, "st", "exited"), <<Call("join", Host[p], 0)>>)
  <2>1. p \in Paths
    BY <1>1, <1>10, <1>14
  <2>2. PICK v : v = "exited"
    OBVIOUS
  <2>3. PICK t : t = Write(l, p, "st", v)
    OBVIOUS
  <2>4. v \in Over /\ Returns(s, t, <<Call("join", Host[p], 0)>>)
    BY <1>14, <2>2, <2>3 DEF Over
  <2> QED BY <1>1, <1>7, <1>10, <2>1, <2>3, <2>4, OverFork
<1>15. CASE k = "fork" /\ Returns(s, Forked(l, p), ForkCalls(p))
  <2>1. PICK t : t = Forked(l, p)
    OBVIOUS
  <2>2. PICK e : e = ForkCalls(p)
    OBVIOUS
  <2> QED BY <1>1, <1>2, <1>4, <1>5, <1>7, <1>15, <2>1, <2>2, SpawnFork
<1>16. CASE /\ k = "wait_until"
            /\ \E e \in {<<>>, <<Call("resolve", p, c.step)>>} :
                 Returns(s, Write(l, Root, "resolved", Known(l, Root).resolved \ {<<p, c.step>>}), e)
  <2>1. PICK done : done = Known(l, Root).resolved
    OBVIOUS
  <2>2. done \in SUBSET Steps
    <3>1. Known(l, Root) \in Row
      BY <1>1, <1>7, KnownType
    <3> QED BY <2>1, <3>1 DEF Row
  <2>3. PICK t : t = Write(l, Root, "resolved", done \ {<<p, c.step>>})
    OBVIOUS
  <2>4. PICK e : (e = <<>> \/ e = <<Call("resolve", p, c.step)>>) /\ Returns(s, t, e)
    BY <1>16, <2>1, <2>3
  <2> QED BY <1>1, <1>2, <1>4, <1>5, <1>7, <1>16, <2>2, <2>3, <2>4, AwaitFork
<1> QED BY <1>2, <1>4, <1>5, <1>6, <1>11, <1>12, <1>13, <1>14, <1>15, <1>16 DEF ProcessStep

\* What the session knows of the threads is gone when it has committed.
LEMMA FlushIs ==
  ASSUME TypeOK, NEW s \in Sessions, NEW t, t = Refreshed(tx[s], Expire(Flushed(tx[s]), {}))
  PROVE  t.log = {} /\ t.read = {Root} /\ t.op = tx[s].op
<1>1. PICK w : w = tx[s]
  OBVIOUS
<1>2. w \in Transactions
  BY <1>1 DEF TypeOK
<1>3. PICK h : h = Flushed(w)
  OBVIOUS
<1>4. h \in Transactions /\ h.log = {} /\ h.op = w.op
  BY <1>2, <1>3 DEF Flushed, Transactions
<1>5. PICK e : e = Expire(h, {})
  OBVIOUS
<1>6. e \in Transactions /\ e.log = {} /\ e.op = w.op /\ e.read = {}
  <2>1. e \in Transactions /\ e.log = h.log /\ e.op = h.op /\ e.read = h.read \cap {}
    BY <1>4, <1>5, ExpireIs
  <2> QED BY <1>4, <2>1
<1>7. t = Refreshed(w, e)
  BY <1>1, <1>3, <1>5
<1>8. t.log = e.log /\ t.read = e.read \cup {Root} /\ t.op = e.op
  BY <1>6, <1>7 DEF Refreshed, Transactions
<1> QED BY <1>1, <1>6, <1>8

\* The top of a stack is replaced.
LEMMA OneOnto ==
  ASSUME NEW q \in Seq(Calls), q # <<>>, NEW d \in Calls, NEW e, e = <<d>> \o Tail(q)
  PROVE  /\ e \in Seq(Calls) /\ DOMAIN e = DOMAIN q /\ 1 \in DOMAIN e /\ e[1] = d
         /\ \A i \in DOMAIN e : i > 1 => e[i] = q[i]
<1>1. PICK h, b : h = <<d>> /\ b = Tail(q)
  OBVIOUS
<1>2. h \in Seq(Calls) /\ Len(h) = 1 /\ h[1] = d
  BY <1>1
<1>3. b \in Seq(Calls) /\ Len(b) = Len(q) - 1 /\ Len(q) \in Nat /\ Len(q) >= 1
      /\ \A i \in 1 .. Len(b) : b[i] = q[i + 1]
  BY <1>1, HeadTailProperties, EmptySeq
<1>4. e \in Seq(Calls) /\ Len(e) = 1 + Len(b)
      /\ \A i \in 1 .. 1 + Len(b) : e[i] = IF i <= 1 THEN h[i] ELSE b[i - 1]
  <2>1. e = h \o b
    BY <1>1
  <2> QED BY <1>2, <1>3, <2>1, ConcatProperties
<1>5. DOMAIN e = 1 .. Len(q) /\ DOMAIN q = 1 .. Len(q)
  BY <1>3, <1>4, LenProperties
<1>6. 1 \in DOMAIN e /\ e[1] = d
  BY <1>2, <1>3, <1>4, <1>5
<1>7. ASSUME NEW i \in DOMAIN e, i > 1 PROVE e[i] = q[i]
  <2>1. i \in Nat /\ i <= Len(q) /\ i - 1 \in 1 .. Len(b)
    BY <1>3, <1>5, <1>7
  <2>2. e[i] = b[i - 1]
    BY <1>3, <1>4, <1>7, <2>1
  <2>3. b[i - 1] = q[(i - 1) + 1] /\ (i - 1) + 1 = i
    BY <1>3, <2>1
  <2> QED BY <2>2, <2>3
<1> QED BY <1>4, <1>5, <1>6, <1>7

\* An action runs, and most of them commit.
LEMMA ExecuteFork ==
  ASSUME ForkInv, Base, Base', NEW s \in Sessions, ExecuteAction(s) PROVE ForkInv'
<1>1. /\ Running(s, "act") /\ "act" \in AtStep /\ UNCHANGED contested /\ UNCHANGED causes
      /\ tx[s] \in Transactions /\ row \in Rows /\ TypeOK /\ TypeOK' /\ OnceInv /\ JoinInv
      /\ tx[s].calls # <<>> /\ tx[s].calls \in Seq(Calls)
  BY DEF ExecuteAction, AtStep, Base, TypeOK, Running, Transactions
<1>2. PICK c : c = Head(tx[s].calls)
  OBVIOUS
<1>3. Top(s, "act", c)
  BY <1>1, <1>2, TopStep
<1>4. c.do = "act" /\ c.flow \in Flows /\ <<c.flow, c.step>> \in Steps /\ TypeAt(c.flow, c.step) = "action"
  BY <1>3 DEF Top
<1>5. PICK d : d = Call("advance", c.flow, c.step)
  OBVIOUS
<1>6. d \in Calls /\ d.do = "advance" /\ d.flow = c.flow /\ d.step = c.step
  BY <1>4, <1>5, CallType DEF Call, AtStep
<1>7. ~Entering(d)
  BY <1>4, <1>6, BehindFork
<1>8. CASE Returns(s, Refreshed(tx[s], Expire(tx[s], tx[s].list)), <<d>>) /\ UNCHANGED dbVars
  <2>1. PICK t : t = Refreshed(tx[s], Expire(tx[s], tx[s].list))
    OBVIOUS
  <2>2. PICK D : D = {}
    OBVIOUS
  <2>3. t \in Transactions /\ Alike(tx[s], t, D, {}) /\ \A q \in Paths : <<q, "st">> \notin D
    BY <1>1, <2>1, <2>2, RefreshAlike
  <2>4. PICK e : e = <<d>>
    OBVIOUS
  <2>5. Returns(s, t, e)
    BY <1>8, <2>1, <2>4
  <2>6. PICK p : p = c.flow
    OBVIOUS
  <2> QED BY <1>1, <1>2, <1>6, <1>7, <1>8, <2>3, <2>4, <2>5, <2>6, SameFork DEF AtStep
<1>9. CASE /\ row' = Merged(tx[s]) /\ joins' = Logged(tx[s])
           /\ Returns(s, Refreshed(tx[s], Expire(Flushed(tx[s]), {})), <<d>>)
  <2>1. PICK t : t = Refreshed(tx[s], Expire(Flushed(tx[s]), {}))
    OBVIOUS
  <2>2. t \in Transactions /\ t.dirty = {}
    <3>1. PICK r : r = Merged(tx[s])
      OBVIOUS
    <3> QED BY <1>1, <2>1, <3>1, OwnCommit
  <2>3. t.log = {} /\ t.read = {Root} /\ t.op = tx[s].op
    BY <1>1, <2>1, FlushIs
  <2>4. PICK e : e = <<d>> \o Tail(tx[s].calls)
    OBVIOUS
  <2>5. /\ e \in Seq(Calls) /\ DOMAIN e = DOMAIN tx[s].calls /\ e[1] = d
        /\ \A i \in DOMAIN e : i > 1 => e[i] = tx[s].calls[i]
    BY <1>1, <1>6, <2>4, OneOnto
  <2>6. PICK u : u = [t EXCEPT !.calls = e]
    OBVIOUS
  <2>7. u \in Transactions /\ u.dirty = {} /\ u.log = {} /\ u.read = {Root} /\ u.op = tx[s].op /\ u.calls = e
    BY <2>2, <2>3, <2>5, <2>6 DEF Transactions
  <2>8. tx' = [tx EXCEPT ![s] = u]
    BY <1>9, <2>1, <2>4, <2>6 DEF Returns
  <2>9. u.op # "none" /\ u.op # "goal"
    <3>1. tx[s].op # "none"
      BY <1>1, OpNone
    <3>2. "act" \in {"exit", "kill"} <=> tx[s].op = "goal"
      BY <1>1, GoalTop
    <3> QED BY <2>7, <3>1, <3>2
  <2>10. tx[s].calls[1] = c
    BY <1>1, <1>2, OnlyTop
  <2>11. GoesOnBehind(s, u)
    BY <1>1, <1>4, <1>6, <1>7, <2>5, <2>7, <2>9, <2>10 DEF GoesOnBehind
  <2>12. u.read \cap Paths = {}
    BY <2>7, Sorts
  <2>13. Commits(s, u)
    BY <1>1, <1>9, <2>7, <2>8, <2>9, <2>11, <2>12 DEF Commits
  <2> QED BY <1>1, <2>7, <2>13, CommitFork
<1> QED BY <1>2, <1>5, <1>8, <1>9 DEF ExecuteAction

\* The transaction commits and is over.
LEMMA CommitEndFork ==
  ASSUME ForkInv, Base, Base', NEW s \in Sessions, Commit(s) PROVE ForkInv'
<1>1. /\ TypeOK /\ TypeOK' /\ OnceInv
      /\ tx[s].op # "none" /\ tx' = [tx EXCEPT ![s] = NoTx] /\ row' = Merged(tx[s]) /\ joins' = Logged(tx[s])
      /\ UNCHANGED <<contested, causes>>
  BY DEF Commit, Base, Open, ghostVars
<1>2. PICK u : u = NoTx
  OBVIOUS
<1>3. /\ u \in Transactions /\ u.dirty = {} /\ u.log = {} /\ u.read = {} /\ u.op = "none"
      /\ u.calls = <<>>
  BY <1>2, NoTxType DEF NoTx
<1>4. GoesOnBehind(s, u)
  BY <1>3 DEF GoesOnBehind
<1>5. u.read \cap Paths = {}
  BY <1>3
<1>6. Commits(s, u)
  BY <1>1, <1>2, <1>3, <1>4, <1>5 DEF Commits
<1> QED BY <1>1, <1>3, <1>6, CommitFork

\* The first call of a flow, and the caller's own check below it.
Firsts(c, d, e, p, op) == c = <<d>> \/ (c = <<d, e>> /\ p # Root /\ op # "wait")

LEMMA TakenPuts ==
  ASSUME NEW s \in Sessions, tx[s].calls = <<>>, NEW p \in Flows,
         NEW d, d.do \in {"advance", "resolve"}, d.flow = p, NEW u, Put(s, u, d), u.op # "goal",
         NEW e, e.do = "recheck", NEW c, Firsts(c, d, e, p, u.op)
  PROVE  Puts(s, u, c)
<1>1. \A q : On(tx[s].calls, q) = {}
  BY DEF On
<1>2. ~Asks(tx[s])
  BY DEF Asks
<1>3. d.do \in AtStep /\ e.do \notin AtStep /\ ~AsksRoot(u, d)
  BY DEF AtStep, AsksRoot
<1>4. CASE c = <<d>>
  <2>1. Leaves(s, u, c)
    <3>1. Len(c) = 1 /\ DOMAIN c = {1} /\ c[1] = d
      BY <1>4
    <3>2. \A i \in DOMAIN c : ~AsksRoot(u, c[i])
      BY <1>3, <3>1
    <3> QED BY <1>1, <3>1, <3>2 DEF Leaves
  <2> QED BY <1>4, <2>1, PutsOne
<1>5. CASE c = <<d, e>> /\ p # Root /\ u.op # "wait"
  <2>1. DOMAIN c = {1, 2} /\ c[1] = d /\ c[2] = e
    BY <1>5
  <2>2. p \in Paths /\ 1 \in On(c, p)
    BY <1>3, <1>5, <2>1, Sorts DEF On
  <2>3. On(c, Root) = {}
    BY <1>3, <1>5, <2>1 DEF On
  <2>4. ~Entering(e) /\ e.do \notin {"leave", "join", "exit", "kill", "resolve", "process"}
    BY DEF Entering
  <2>5. \A i \in DOMAIN c : i > 1 => c[i] = e
    BY <2>1
  <2>6. \A i \in DOMAIN c : c[i] = d \/ c[i] = e
    BY <2>1
  <2>7. \A i \in DOMAIN c :
          /\ i > 1 => c[i].do \in (IF u.op = "wait" THEN {"process", "join"} ELSE {"recheck"})
          /\ c[i].do = "recheck" => u.op # "wait"
          /\ Entering(c[i]) => u.op = "wait"
          /\ c[i].do = "leave" => c[i].flow \in u.log
    BY <1>5, <2>4, <2>5, <2>6 DEF Put
  <2>8. \A i \in DOMAIN c :
          /\ c[i].do = "join" /\ c[i].flow # Root /\ u.op # "wait" => Ending(u, c[i].flow)
          /\ c[i].do \in {"exit", "kill"} <=> u.op = "goal"
          /\ c[i].do = "resolve" =>
               Root \in u.read /\ <<c[i].flow, c[i].step>> \notin u.mem[Root].resolved
    BY <2>4, <2>6 DEF Put
  <2>9. \A i \in DOMAIN c :
          /\ c[i].do = "process" /\ c[i].flow \in Paths /\ u.op # "wait" => <<c[i].flow, "at">> \in u.dirty
          /\ c[i].do \in AtStep /\ c[i].flow \in Tame' =>
               /\ St(u, row, c[i].flow) = "active"
               /\ \A w \in Sessions \ {s} : ~Moves(tx[w], c[i].flow)
    BY <1>3, <2>4, <2>6 DEF Put
  <2>10. \E q \in Paths : On(c, q) # {}
    BY <2>2
  <2> QED BY <1>1, <2>3, <2>7, <2>8, <2>9, <2>10 DEF Puts
<1> QED BY <1>4, <1>5 DEF Firsts

\* A session without calls takes c.
LEMMA IdleFork ==
  ASSUME ForkInv, Base, Base', NEW s \in Sessions, tx[s].op # "none", tx[s].calls = <<>>,
         NEW t \in Transactions, Alike(tx[s], t, {}, {}), UNCHANGED dbVars,
         contested \subseteq contested', causes \subseteq causes', NEW c \in Seq(Calls),
         NEW u, u = [t EXCEPT !.calls = c], tx' = [tx EXCEPT ![s] = u], Puts(s, u, c)
  PROVE  ForkInv'
<1>1. u \in Transactions /\ u.calls = c /\ Alike(t, u, {}, {})
  BY CallsAlike DEF Transactions
<1>2. PICK D : D = {}
  OBVIOUS
<1>3. D \cup D = D
  BY <1>2
<1>4. Alike(tx[s], u, D, D)
  BY <1>1, <1>2, <1>3, AlikeAlike
<1>5. u.calls = Onto(tx[s].calls, c)
  BY <1>1 DEF Onto, Below
<1>6. Alike(tx[s], u, D, {}) /\ \A p \in Tame' : <<p, "st">> \in D => Turns(s, u, p)
  BY <1>2, <1>4
<1> QED BY <1>1, <1>5, <1>6, StepFork

\* What has been taken from the list, at its step i of type k, waits for what s is.
Takes(s, t, p, i, k) ==
  /\ t \in Transactions /\ Alike(tx[s], t, {}, {}) /\ p \in Flows /\ Root \in t.read
  /\ k = TypeAt(p, i) /\ k = Awaits(t.op) /\ t.op # "none"
  /\ GoesOn(s, p, "active", i)
  /\ k = "wait_until" => <<p, i>> \notin t.mem[Root].resolved

LEMMA TakesFork ==
  ASSUME ForkInv, Base, Base', NEW s \in Sessions, tx[s].op # "none", tx[s].calls = <<>>,
         NEW t, NEW p, NEW i, NEW k, Takes(s, t, p, i, k), UNCHANGED dbVars, UNCHANGED causes,
         NEW d, d = Call(IF k = "wait_until" THEN "resolve" ELSE "advance", p, i),
         NEW e, e = Call("recheck", Root, 0), NEW c \in Seq(Calls), Firsts(c, d, e, p, t.op),
         NEW u, u = [t EXCEPT !.calls = c], tx' = [tx EXCEPT ![s] = u]
  PROVE  ForkInv'
<1>1. /\ t \in Transactions /\ Alike(tx[s], t, {}, {}) /\ p \in Flows /\ Root \in t.read
      /\ k = TypeAt(p, i) /\ k = Awaits(t.op) /\ t.op # "none" /\ GoesOn(s, p, "active", i)
      /\ k = "wait_until" => <<p, i>> \notin t.mem[Root].resolved
  BY DEF Takes
<1>2. k # "none" /\ (k = "wait" <=> t.op = "wait")
  BY <1>1 DEF Awaits, Transactions
<1>3. <<p, i>> \in Steps
  BY <1>1, <1>2, Scripts
<1>4. t.op # "goal"
  <2>1. k \in Types
    BY <1>1, <1>2, <1>3, FunnelAssumption DEF TypeAt, Types
  <2> QED BY <1>1, <2>1 DEF Awaits, Types
<1>5. d.do \in {"advance", "resolve"} /\ d.flow = p /\ d.step = i /\ (d.do = "resolve" <=> k = "wait_until")
      /\ d \in Calls
  <2>1. d = Call("resolve", p, i) \/ d = Call("advance", p, i)
    OBVIOUS
  <2> QED BY <1>3, <2>1, CallType DEF Call, AtStep
<1>6. e.do = "recheck"
  BY DEF Call
<1>9. u.op = t.op /\ u.read = t.read /\ u.mem = t.mem /\ u.dirty = t.dirty /\ u.log = t.log
  BY <1>1 DEF Transactions
<1>10. Entering(d) => u.op = "wait"
  <2>1. d.do = "advance" /\ k # "wait" => ~Entering(d)
    BY <1>1, <1>2, <1>5, BehindFork
  <2>2. d.do = "resolve" => ~Entering(d)
    BY DEF Entering
  <2> QED BY <1>2, <1>5, <1>9, <2>1, <2>2
<1>11. /\ contested \subseteq contested'
       /\ p \notin contested' =>
            /\ St(tx[s], row, p) = "active"
            /\ \A w \in Sessions \ {s} : ~Moves(tx[w], p)
  BY <1>1, GoesOnIs
<1>12. St(u, row, p) = St(tx[s], row, p)
  BY <1>1, <1>9 DEF Alike, Else, St
<1>13. p \in Tame' => p \notin contested'
  BY DEF Tame
<1>14. Put(s, u, d)
  BY <1>1, <1>4, <1>5, <1>9, <1>10, <1>11, <1>12, <1>13 DEF Put
<1>15. Puts(s, u, c)
  <2>1. u.op # "goal"
    BY <1>4, <1>9
  <2>2. Firsts(c, d, e, p, u.op)
    BY <1>9
  <2>3. p \in Flows /\ d.do \in {"advance", "resolve"} /\ d.flow = p /\ tx[s].calls = <<>> /\ s \in Sessions
    BY <1>1, <1>5
  <2> QED BY ONLY <1>6, <1>14, <2>1, <2>2, <2>3, TakenPuts
<1>17. causes \subseteq causes'
  OBVIOUS
<1> QED BY <1>1, <1>11, <1>15, <1>17, IdleFork

\* It is skipped.
LEMMA SkippedFork ==
  ASSUME ForkInv, Base, Base', NEW s \in Sessions, tx[s].op # "none", tx[s].calls = <<>>,
         NEW t \in Transactions, Alike(tx[s], t, {}, {}), UNCHANGED dbVars,
         UNCHANGED contested, UNCHANGED causes, NEW c, c = <<>>,
         tx' = [tx EXCEPT ![s] = [t EXCEPT !.calls = c]]
  PROVE  ForkInv'
<1>1. PICK u : u = [t EXCEPT !.calls = c]
  OBVIOUS
<1>2. \A q : On(tx[s].calls, q) = {} /\ On(c, q) = {}
  BY DEF On
<1>3. Leaves(s, u, c)
  BY <1>2 DEF Leaves
<1>4. Puts(s, u, c)
  BY <1>3, PutsNone
<1>5. c \in Seq(Calls) /\ contested \subseteq contested' /\ causes \subseteq causes'
  OBVIOUS
<1> QED BY <1>1, <1>4, <1>5, IdleFork

LEMMA PairOf ==
  ASSUME NEW d, NEW e PROVE <<d>> \o <<e>> = <<d, e>>
<1>1. PICK g, h, c, b : g = <<d>> /\ h = <<e>> /\ c = g \o h /\ b = <<d, e>>
  OBVIOUS
<1>2. g \in Seq({d, e}) /\ h \in Seq({d, e}) /\ b \in Seq({d, e}) /\ Len(g) = 1 /\ Len(h) = 1 /\ Len(b) = 2
      /\ g[1] = d /\ h[1] = e /\ b[1] = d /\ b[2] = e
  BY <1>1
<1>3. c \in Seq({d, e}) /\ Len(c) = 2 /\ \A j \in 1 .. 2 : c[j] = IF j <= 1 THEN g[j] ELSE h[j - 1]
  BY <1>1, <1>2, ConcatProperties
<1>4. \A j \in 1 .. 2 : c[j] = b[j]
  BY <1>2, <1>3
<1>5. c = b
  BY <1>2, <1>3, <1>4, SeqEqual
<1> QED BY <1>1, <1>5

\* The list's next.
LEMMA TakeFork ==
  ASSUME ForkInv, Base, Base', NEW s \in Sessions, Take(s) PROVE ForkInv'
<1> DEFINE old == tx[s]
           Main1(p) == old.op = "wait" /\ p = Root
           X(p) == IF Main1(p) THEN LookAtFunnel(old) ELSE old
           T(p) == [Load(X(p), {Root, p}) EXCEPT !.todo = @ \ {p}]
           I(p) == T(p).mem[p].at
           D(p) == Call(IF TypeAt(p, I(p)) = "wait_until" THEN "resolve" ELSE "advance", p, I(p))
           R(p) == IF p = Root \/ TypeAt(p, I(p)) = "wait" THEN <<>> ELSE <<Call("recheck", Root, 0)>>
           Skipped(p) == \/ TypeAt(p, I(p)) # Awaits(old.op)
                         \/ Main1(p) /\ KnowsStopped(old)
                         \/ /\ TypeAt(p, I(p)) = "wait_until"
                            /\ \/ <<p, I(p)>> \in T(p).mem[Root].resolved
                               \/ old.op = TypeAt(p, I(p)) /\ p # Root /\ T(p).mem[Root].st # "active"
           C(p) == IF Skipped(p) THEN <<>> ELSE <<D(p)>> \o R(p)
<1>1. PICK p \in tx[s].todo :
        /\ tx' = [tx EXCEPT ![s] = [T(p) EXCEPT !.calls = C(p)]]
        /\ IF Skipped(p) THEN contested' = contested ELSE GoesOn(s, p, "active", I(p))
  BY DEF Take
<1>2. /\ UNCHANGED dbVars /\ UNCHANGED causes /\ old.op # "none" /\ old.calls = <<>>
      /\ JoinInv /\ TypeOK
  BY DEF Take, Open, Base
<1>3. X(p) = old \/ X(p) = LookAtFunnel(old)
  OBVIOUS
<1> HIDE DEF X, I, D, R, Skipped, C
<1>4. PICK t : t = T(p)
  OBVIOUS
<1>5. p \in Flows /\ old \in Transactions /\ row \in Rows
  BY <1>2, ListedIs DEF TypeOK
<1>6. t \in Transactions /\ Alike(tx[s], t, {}, {}) /\ Root \in t.read
  <2>1. PICK l : l = X(p)
    OBVIOUS
  <2>2. l \in Transactions /\ Alike(old, l, {}, {})
    <3>1. CASE l = old
      BY <1>5, <3>1 DEF Alike, Else
    <3>2. CASE l = LookAtFunnel(old)
      BY <1>5, <3>2, LookAlike
    <3> QED BY <1>3, <2>1, <3>1, <3>2
  <2>3. PICK P \in SUBSET Flows : P = {Root, p}
    BY <1>5, Sorts
  <2>4. PICK v : v = Load(l, P)
    OBVIOUS
  <2>5. v \in Transactions /\ Alike(l, v, {}, {}) /\ Root \in v.read
    <3>1. v \in Transactions /\ Alike(l, v, {}, {})
      BY <1>5, <2>2, <2>4, LoadAlike
    <3>2. Root \in v.read
      BY <2>2, <2>3, <2>4, <1>5 DEF Load, Transactions
    <3> QED BY <3>1, <3>2
  <2>6. t = [v EXCEPT !.todo = @ \ {p}]
    BY <1>4, <2>1, <2>3, <2>4
  <2>7. /\ t \in Transactions /\ t.dirty = v.dirty /\ t.op = v.op /\ t.acted = v.acted
        /\ t.mem = v.mem /\ t.read = v.read /\ t.log = v.log
    BY <2>5, <2>6 DEF Transactions
  <2>8. PICK E : E = {}
    OBVIOUS
  <2>9. E \cup E = E
    BY <2>8
  <2>10. Alike(old, v, E, E)
    BY <2>2, <2>5, <2>8, <2>9, AlikeAlike
  <2>11. Alike(old, t, E, E)
    BY <2>7, <2>10 DEF Alike, Else, St, At, KnownSt
  <2> QED BY <2>5, <2>7, <2>8, <2>11
<1>7. PICK i, d : i = I(p) /\ d = D(p)
  OBVIOUS
<1>8. PICK rest, c : rest = R(p) /\ c = C(p)
  OBVIOUS
<1>9. PICK e : e = Call("recheck", Root, 0)
  OBVIOUS
<1>10. PICK u : u = [t EXCEPT !.calls = c]
  OBVIOUS
<1>11. tx' = [tx EXCEPT ![s] = u]
  BY <1>1, <1>4, <1>8, <1>10
<1>12. PICK k : k = TypeAt(p, i)
  OBVIOUS
<1>13. d = Call(IF k = "wait_until" THEN "resolve" ELSE "advance", p, i)
  BY <1>7, <1>12 DEF D
<1>14. CASE Skipped(p)
  <2>1. c = <<>> /\ contested' = contested
    BY <1>1, <1>8, <1>14 DEF C
  <2>2. tx' = [tx EXCEPT ![s] = [t EXCEPT !.calls = c]]
    BY <1>10, <1>11
  <2> HIDE DEF T
  <2> QED BY <1>2, <1>6, <2>1, <2>2, SkippedFork
<1>15. CASE ~Skipped(p)
  <2>1. t.op = old.op
    BY <1>6 DEF Alike, Else
  <2>2. k = Awaits(t.op) /\ (k = "wait_until" => <<p, i>> \notin t.mem[Root].resolved)
    BY <1>4, <1>7, <1>12, <1>15, <2>1 DEF Skipped
  <2>3. GoesOn(s, p, "active", i)
    BY <1>1, <1>7, <1>15
  <2>4. t.op # "none"
    BY <1>2, <2>1
  <2>5. Takes(s, t, p, i, k)
    BY <1>5, <1>6, <1>12, <2>2, <2>3, <2>4 DEF Takes
  <2>6. k # "none" /\ (k = "wait" <=> t.op = "wait")
    BY <1>6, <2>2, <2>4 DEF Awaits, Transactions
  <2>7. c = <<d>> \o rest
    BY <1>7, <1>8, <1>15 DEF C
  <2>8. \/ (p = Root \/ k = "wait") /\ rest = <<>>
        \/ p # Root /\ k # "wait" /\ rest = <<e>>
    BY <1>7, <1>8, <1>9, <1>12 DEF R
  <2>9. Firsts(c, d, e, p, t.op)
    <3>1. CASE (p = Root \/ k = "wait") /\ rest = <<>>
      <4>1. c = <<d>>
        BY <2>7, <3>1
      <4> QED BY <4>1 DEF Firsts
    <3>2. CASE p # Root /\ k # "wait" /\ rest = <<e>>
      <4>1. c = <<d>> \o <<e>>
        BY <2>7, <3>2
      <4>2. c = <<d, e>>
        BY <4>1, PairOf
      <4> QED BY <2>6, <3>2, <4>2 DEF Firsts
    <3> QED BY <2>8, <3>1, <3>2
  <2>10. c \in Seq(Calls)
    <3>1. <<p, i>> \in Steps
      BY <1>5, <1>12, <2>6, Scripts
    <3>2. d \in Calls
      BY <1>13, <3>1, CallType DEF AtStep
    <3>3. e \in Calls
      BY <1>9, CallType, Sorts
    <3>4. e.do \notin AtStep
      BY <1>9 DEF Call, AtStep
    <3>5. rest = <<>> \/ rest = <<e>>
      BY <2>8
    <3> QED BY <2>7, <3>2, <3>3, <3>4, <3>5, FirstOnTop DEF Begins
  <2> HIDE DEF T, Main1
  <2> QED BY <1>2, <1>9, <1>10, <1>11, <1>13, <2>5, <2>9, <2>10, TakesFork
<1> QED BY <1>14, <1>15

-----------------------------------------------------------------------------
(* A transaction begins, or is lost. *)

\* u knows what is, has written nothing, and has no call but an exit's; an exit that
\* runs beside another transaction is a cause.
Clean(s, u) ==
  /\ u.dirty = {} /\ u.log = {}
  /\ \A p \in Paths : KnownSt(u, row, p) = row[p].st
  /\ \A i \in DOMAIN u.calls : i = 1 /\ u.calls[i].do = "exit" /\ u.op = "goal"
  /\ causes' \cap {"overtaken", "raced"} = {} =>
       /\ u.op = "goal" => \A w \in Sessions \ {s} : ~Open(w)
       /\ u.op # "none" => \A w \in Sessions \ {s} : tx[w].op # "goal"

Anew(s, u) ==
  /\ tx' = [tx EXCEPT ![s] = u] /\ UNCHANGED dbVars /\ UNCHANGED contested /\ causes \subseteq causes'

LEMMA AnewIs ==
  ASSUME TypeOK, NEW s \in Sessions, NEW u, Anew(s, u)
  PROVE  /\ tx'[s] = u /\ \A w \in Sessions \ {s} : tx'[w] = tx[w]
         /\ row' = row /\ joins' = joins /\ Tame' \subseteq Tame /\ Tame \subseteq Paths
         /\ (causes' \cap {"overtaken", "raced"} = {} => causes \cap {"overtaken", "raced"} = {})
<1>1. tx \in [Sessions -> Transactions]
  BY DEF TypeOK
<1> QED BY <1>1, TameLess DEF Anew, dbVars

LEMMA AnewSelf ==
  ASSUME ForkInv, TypeOK, NEW s \in Sessions, NEW u, Anew(s, u), Clean(s, u)
  PROVE  Sound(s)' /\ Exits(s)' /\ Ordered(s)' /\ Joining(s)' /\ Settled(s)' /\ Fresh(s)'
<1>1. /\ tx'[s] = u /\ \A w \in Sessions \ {s} : tx'[w] = tx[w]
      /\ row' = row /\ joins' = joins /\ Tame' \subseteq Tame /\ Tame \subseteq Paths
  BY AnewIs
<1>2. /\ \A p : ~Dirty(u, p) /\ St(u, row, p) = row[p].st /\ ~Spawns(u, row, p)
      /\ u.log = {}
      /\ \A p : On(u.calls, p) = {}
      /\ \A p \in Paths : KnownSt(u, row, p) = row[p].st
  BY DEF Clean, Dirty, St, Spawns, On, AtStep
<1>3. \A i \in DOMAIN u.calls : i = 1 /\ u.calls[i].do = "exit" /\ u.op = "goal"
  BY DEF Clean
<1>4. Sound(s)'
  BY <1>1, <1>2 DEF Sound, Dirty
<1>5. Exits(s)'
  <2>1. causes' \cap {"overtaken", "raced"} = {} /\ u.op = "goal" => \A w \in Sessions \ {s} : tx'[w].op = "none"
    BY <1>1 DEF Clean, Open
  <2> QED BY <1>1, <1>2, <1>3, <2>1 DEF Exits, Open
<1>6. Ordered(s)'
  BY <1>1, <1>3 DEF Ordered, Entering
<1>7. Joining(s)'
  BY <1>1, <1>2, <1>3 DEF Joining
<1>8. Settled(s)'
  BY <1>1, <1>2 DEF Settled, ForkInv
<1>9. Fresh(s)'
  BY <1>1, <1>3 DEF Fresh
<1> QED BY <1>4, <1>5, <1>6, <1>7, <1>8, <1>9

LEMMA AnewOthers ==
  ASSUME ForkInv, TypeOK, NEW s \in Sessions, NEW u, Anew(s, u), Clean(s, u),
         NEW w \in Sessions \ {s}
  PROVE  Sound(w)' /\ Exits(w)' /\ Ordered(w)' /\ Joining(w)' /\ Settled(w)' /\ Fresh(w)'
<1>1. /\ tx'[s] = u /\ tx'[w] = tx[w] /\ \A x \in Sessions \ {s} : tx'[x] = tx[x]
      /\ row' = row /\ joins' = joins /\ Tame' \subseteq Tame /\ Tame \subseteq Paths
      /\ (causes' \cap {"overtaken", "raced"} = {} => causes \cap {"overtaken", "raced"} = {})
  BY AnewIs
<1>2. Sound(w) /\ Exits(w) /\ Ordered(w) /\ Joining(w) /\ Settled(w) /\ Fresh(w)
  BY DEF ForkInv
<1>3. \A p : ~Moves(u, p)
  BY DEF Clean, Moves
<1>4. Sound(w)'
  <2>1. ASSUME NEW p \in Tame', \A x \in Sessions \ {w} : ~Moves(tx[x], p)
        PROVE  \A x \in Sessions \ {w} : ~Moves(tx'[x], p)
    BY <1>1, <1>3, <2>1
  <2> QED BY <1>1, <1>2, <2>1 DEF Sound, Dirty
<1>5. Exits(w)'
  <2>1. ASSUME tx[w].op = "goal", causes' \cap {"overtaken", "raced"} = {}
        PROVE  \A x \in Sessions \ {w} : tx'[x].op = "none"
    <3>1. \A x \in Sessions \ {w} : tx[x].op = "none"
      BY <1>1, <1>2, <2>1 DEF Exits, Open
    <3>2. u.op = "none"
      BY <2>1 DEF Clean
    <3> QED BY <1>1, <3>1, <3>2
  <2> QED BY <1>1, <1>2, <2>1 DEF Exits, Open
<1>6. Ordered(w)'
  BY <1>1, <1>2 DEF Ordered, Entering
<1>7. Joining(w)'
  BY <1>1, <1>2 DEF Joining, Ending, Dirty
<1>8. Settled(w)'
  BY <1>1, <1>2 DEF Settled
<1>9. Fresh(w)'
  BY <1>1, <1>2 DEF Fresh
<1> QED BY <1>4, <1>5, <1>6, <1>7, <1>8, <1>9

LEMMA AnewFork ==
  ASSUME ForkInv, TypeOK, NEW s \in Sessions, NEW u, Anew(s, u), Clean(s, u)
  PROVE  ForkInv'
<1>1. /\ tx'[s] = u /\ \A w \in Sessions \ {s} : tx'[w] = tx[w]
      /\ row' = row /\ joins' = joins /\ Tame' \subseteq Tame /\ Tame \subseteq Paths
  BY AnewIs
<1>2. \A w \in Sessions :
        Sound(w)' /\ Exits(w)' /\ Ordered(w)' /\ Joining(w)' /\ Settled(w)' /\ Fresh(w)'
  BY AnewSelf, AnewOthers
<1>3. u.log = {} /\ \A p : St(u, row, p) = row[p].st
  BY DEF Clean, St
<1>4. OneJoins'
  <2>1. ASSUME NEW f \in Forks, OneJoin(f) PROVE OneJoin(f)'
    BY <1>1, <1>3, <2>1 DEF OneJoin
  <2>2. OneJoins
    BY DEF ForkInv
  <2>3. ASSUME NEW f \in Forks, Children(f) \subseteq Tame', f = Root => Paths \subseteq Tame'
        PROVE  OneJoin(f)'
    BY <1>1, <2>1, <2>2, <2>3 DEF OneJoins
  <2> QED BY <2>3 DEF OneJoins
<1>5. ASSUME Paths \subseteq Tame'
      PROVE  /\ Hosted([p \in Flows |-> row[p].st])'
             /\ \A w \in Sessions : Hosted(View(tx[w]))' /\ Main(w)'
  <2>1. Hosted([p \in Flows |-> row[p].st]) /\ \A w \in Sessions : Hosted(View(tx[w])) /\ Main(w)
    BY <1>1, <1>5 DEF ForkInv
  <2>2. Hosted([p \in Flows |-> row[p].st])'
    BY <1>1, <2>1
  <2>3. Hosted(View(tx[s]))'
    <3>1. View(tx[s])' = [p \in Flows |-> row[p].st]
      BY <1>1, <1>3 DEF View
    <3> QED BY <2>1, <3>1 DEF Hosted
  <2>4. Main(s)'
    <3>1. ~Asks(u)
      BY DEF Clean, Asks, AsksRoot
    <3> QED BY <1>1, <1>3, <3>1 DEF Main
  <2>5. ASSUME NEW w \in Sessions \ {s} PROVE Hosted(View(tx[w]))' /\ Main(w)'
    <3>1. tx'[w] = tx[w] /\ Main(w) /\ Hosted(View(tx[w]))
      BY <1>1, <2>1, <2>5
    <3>2. Hosted(View(tx[w]))'
      BY <1>1, <3>1 DEF Hosted, View, St
    <3>3. Main(w)'
      BY <1>1, <3>1 DEF Main, Asks, AsksRoot, JoinedMain, Working, Worked
    <3> QED BY <3>2, <3>3
  <2> QED BY <2>2, <2>3, <2>4, <2>5
<1> QED BY <1>2, <1>4, <1>5 DEF ForkInv

\* It begins.
LEMMA BeginFork ==
  ASSUME ForkInv, TypeOK, NEW s \in Sessions, NEW op, op # "none", NEW t \in Transactions, Begin(s, op, t),
         UNCHANGED dbVars, UNCHANGED contested, t.dirty = {}, t.log = {},
         \A p \in Paths : KnownSt(t, row, p) = row[p].st,
         \A i \in DOMAIN t.calls : i = 1 /\ t.calls[i].do = "exit" /\ op = "goal"
  PROVE  ForkInv'
<1>1. PICK u : u = [t EXCEPT !.op = op]
  OBVIOUS
<1>2. /\ tx' = [tx EXCEPT ![s] = u] /\ causes \subseteq causes'
      /\ (causes' \cap {"overtaken", "raced"} = {} => ~Overlaps(s, op))
  BY <1>1 DEF Begin
<1>3. /\ u.op = op /\ u.dirty = {} /\ u.log = {} /\ u.calls = t.calls
      /\ u.read = t.read /\ u.mem = t.mem
  BY <1>1 DEF Transactions
<1>4. \A p \in Paths : KnownSt(u, row, p) = row[p].st
  BY <1>3 DEF KnownSt
<1>5. ASSUME ~Overlaps(s, op)
      PROVE  /\ op = "goal" => \A w \in Sessions \ {s} : ~Open(w)
             /\ \A w \in Sessions \ {s} : tx[w].op # "goal"
  BY <1>5 DEF Overlaps, Open
<1>6. Clean(s, u)
  BY <1>2, <1>3, <1>4, <1>5 DEF Clean
<1>7. Anew(s, u)
  BY <1>2 DEF Anew
<1> QED BY <1>6, <1>7, AnewFork

\* With what it lists.
LEMMA ListFork ==
  ASSUME ForkInv, TypeOK, NEW s \in Sessions, NEW op \in Timers \cup {"event", "reply"},
         NEW L \in SUBSET Flows, Begin(s, op, List(L)), UNCHANGED dbVars, UNCHANGED contested
  PROVE  ForkInv'
<1>1. PICK t : t = List(L)
  OBVIOUS
<1>2. PICK v : v = Load(NoTx, L)
  OBVIOUS
<1>3. /\ v \in Transactions /\ v.dirty = {} /\ v.log = {} /\ v.calls = <<>> /\ v.read = L
      /\ \A p \in L : v.mem[p].st = row[p].st
  BY <1>2, FirstLoad
<1>4. t = [v EXCEPT !.list = L, !.todo = L]
  BY <1>1, <1>2 DEF List
<1>5. /\ t \in Transactions /\ t.dirty = {} /\ t.log = {} /\ t.calls = <<>>
      /\ t.read = L /\ t.mem = v.mem
  BY <1>3, <1>4 DEF Transactions
<1>6. \A p \in Paths : KnownSt(t, row, p) = row[p].st
  BY <1>3, <1>5 DEF KnownSt
<1>7. Begin(s, op, t)
  BY <1>1
<1>8. op # "none"
  BY DEF Timers
<1>9. \A i \in DOMAIN t.calls : i = 1 /\ t.calls[i].do = "exit" /\ op = "goal"
  BY <1>5
<1> QED BY <1>5, <1>6, <1>7, <1>8, <1>9, BeginFork

LEMMA OpenPassFork == ASSUME ForkInv, TypeOK, NEW k \in Timers, OpenPass(k) PROVE ForkInv'
<1>1. PICK L \in SUBSET Listed(k) : Begin(Scheduler, k, List(L))
  BY DEF OpenPass
<1>2. UNCHANGED dbVars /\ UNCHANGED contested
  BY DEF OpenPass
<1>3. Listed(k) \subseteq Flows
  BY DEF Listed
<1>4. L \in SUBSET Flows /\ Scheduler \in Sessions
  BY <1>1, <1>3 DEF Sessions
<1> QED BY <1>1, <1>2, <1>4, ListFork

LEMMA OpenOtherFork ==
  ASSUME ForkInv, TypeOK, NEW s \in Handlers, OpenEvent(s) \/ OpenReply(s) \/ OpenGoal(s)
  PROVE  ForkInv'
<1>1. s \in Sessions /\ UNCHANGED dbVars /\ UNCHANGED contested
  BY DEF Sessions, OpenEvent, OpenReply, OpenGoal
<1>2. CASE OpenEvent(s)
  <2>1. PICK L : L = Listed("wait_until")
    OBVIOUS
  <2>2. L \in SUBSET Flows
    BY <2>1 DEF Listed
  <2>3. Begin(s, "event", List(L))
    BY <1>2, <2>1 DEF OpenEvent
  <2> QED BY <1>1, <2>2, <2>3, ListFork
<1>3. CASE OpenReply(s)
  <2>1. PICK p \in Paths : Begin(s, "reply", List({p}))
    BY <1>3 DEF OpenReply
  <2>2. PICK L : L = {p}
    OBVIOUS
  <2>3. L \in SUBSET Flows /\ Begin(s, "reply", List(L))
    BY <2>1, <2>2, Sorts
  <2> QED BY <1>1, <2>3, ListFork
<1>4. CASE OpenGoal(s)
  <2>1. PICK L \in SUBSET Flows : L = {Root}
    BY Sorts
  <2>2. PICK v : v = Load(NoTx, L)
    OBVIOUS
  <2>3. /\ v \in Transactions /\ v.dirty = {} /\ v.log = {} /\ v.calls = <<>> /\ v.read = L
        /\ \A p \in L : v.mem[p].st = row[p].st
    BY <2>2, FirstLoad
  <2>4. PICK d, c : d = Call("exit", Root, 0) /\ c = <<d>>
    OBVIOUS
  <2>5. d.do = "exit" /\ d \in Calls
    BY <2>4, CallType, Sorts DEF Call
  <2>6. PICK t : t = [v EXCEPT !.calls = c]
    OBVIOUS
  <2>7. c \in Seq(Calls) /\ \A i \in DOMAIN c : i = 1 /\ c[i].do = "exit"
    BY <2>4, <2>5
  <2>8. /\ t \in Transactions /\ t.dirty = {} /\ t.log = {} /\ t.calls = c
        /\ t.read = L /\ t.mem = v.mem
    BY <2>3, <2>6, <2>7 DEF Transactions
  <2>9. \A p \in Paths : KnownSt(t, row, p) = row[p].st
    BY <2>3, <2>8 DEF KnownSt
  <2>10. Begin(s, "goal", t)
    BY <1>4, <2>1, <2>2, <2>4, <2>6 DEF OpenGoal
  <2>11. PICK op : op = "goal"
    OBVIOUS
  <2>12. op # "none" /\ \A i \in DOMAIN t.calls : i = 1 /\ t.calls[i].do = "exit" /\ op = "goal"
    BY <2>7, <2>8, <2>11
  <2>13. Begin(s, op, t)
    BY <2>10, <2>11
  <2> QED BY <1>1, <2>8, <2>9, <2>12, <2>13, BeginFork
<1> QED BY <1>2, <1>3, <1>4

\* It is lost.
LEMMA DroppedFork ==
  ASSUME ForkInv, TypeOK, NEW s \in Sessions, Dropped(s), UNCHANGED dbVars, UNCHANGED contested
  PROVE  ForkInv'
<1>1. PICK u : u = NoTx
  OBVIOUS
<1>2. /\ u.dirty = {} /\ u.log = {} /\ u.read = {} /\ u.op = "none" /\ u.calls = <<>>
  BY <1>1 DEF NoTx
<1>3. \A p \in Paths : KnownSt(u, row, p) = row[p].st
  BY <1>2 DEF KnownSt
<1>4. Clean(s, u)
  BY <1>2, <1>3 DEF Clean
<1>5. Anew(s, u)
  BY <1>1 DEF Dropped, Anew
<1> QED BY <1>4, <1>5, AnewFork

-----------------------------------------------------------------------------
(* The invariant. *)

LEMMA EngineFork ==
  ASSUME ForkInv, Base, Base', NEW s \in Sessions, Engine(s) PROVE ForkInv'
BY TakeFork, ResolveFork, AdvanceFork, ProcessFork, ExecuteFork, CheckFork, LeaveFork, EndingFork,
   KillFork, CommitEndFork DEF Engine

LEMMA ForkStart == Init => ForkInv
<1> SUFFICES ASSUME Init PROVE ForkInv
  OBVIOUS
<1>1. PICK u : u = NoTx
  OBVIOUS
<1>2. \A s \in Sessions : tx[s] = u
  BY <1>1 DEF Init
<1>3. u.op = "none" /\ u.dirty = {} /\ u.log = {} /\ u.read = {} /\ u.calls = <<>>
  BY <1>1 DEF NoTx
<1>4. /\ \A p : ~Dirty(u, p) /\ ~Moves(u, p) /\ St(u, row, p) = row[p].st /\ ~Spawns(u, row, p)
      /\ \A p : On(u.calls, p) = {} /\ KnownSt(u, row, p) = row[p].st
      /\ ~Asks(u) /\ DOMAIN u.calls = {}
  BY <1>3 DEF Dirty, Moves, St, Spawns, On, KnownSt, Asks
<1>5. \A p \in Paths : row[p].st = "none"
  BY Sorts DEF Init, Blank
<1>6. \A f \in Forks : joins[f] = 0
  BY DEF Init
<1>7. Tame \subseteq Paths
  BY DEF Tame
<1>8. \A s \in Sessions : Sound(s)
  BY <1>2, <1>4, <1>7 DEF Sound
<1>9. \A s \in Sessions : Exits(s) /\ Ordered(s) /\ Joining(s) /\ Settled(s) /\ Fresh(s)
  BY <1>2, <1>3, <1>4, <1>6 DEF Exits, Ordered, Joining, Settled, Fresh
<1>10. OneJoins
  BY <1>2, <1>3, <1>6 DEF OneJoins, OneJoin
<1>11. Hosted([p \in Flows |-> row[p].st])
  BY <1>5, Sorts DEF Hosted, Alive
<1>12. \A s \in Sessions : Hosted(View(tx[s]))
  BY <1>2, <1>4, <1>5, Sorts DEF Hosted, View, Alive
<1>13. \A s \in Sessions : Main(s)
  BY <1>2, <1>3, <1>4 DEF Main
<1> QED BY <1>8, <1>9, <1>10, <1>11, <1>12, <1>13 DEF ForkInv

LEMMA ForkStay ==
  ASSUME ForkInv, UNCHANGED <<row, joins, tx, contested, causes>> PROVE ForkInv'
<1>1. row' = row /\ joins' = joins /\ tx' = tx /\ contested' = contested /\ causes' = causes
  OBVIOUS
<1>2. Tame' = Tame
  BY <1>1 DEF Tame
<1>3. \A s \in Sessions : Sound(s)' /\ Exits(s)'
  BY SMTT(60), <1>1, <1>2 DEF ForkInv, Sound, Exits, Dirty, Open
<1>4. \A s \in Sessions : Ordered(s)' /\ Joining(s)' /\ Fresh(s)'
  BY <1>1 DEF ForkInv, Ordered, Joining, Fresh, Ending, Dirty
<1>5. \A s \in Sessions : Settled(s)'
  BY <1>1, <1>2 DEF ForkInv, Settled
<1>6. OneJoins'
  BY <1>1, <1>2 DEF ForkInv, OneJoins, OneJoin
<1>7. Hosted([p \in Flows |-> row[p].st])' <=> Hosted([p \in Flows |-> row[p].st])
  BY <1>1
<1>8. ASSUME NEW s \in Sessions PROVE (Hosted(View(tx[s]))' <=> Hosted(View(tx[s]))) /\ (Main(s)' <=> Main(s))
  BY <1>1 DEF Hosted, View, Main, Asks, AsksRoot, JoinedMain, Working, Worked
<1> QED BY <1>2, <1>3, <1>4, <1>5, <1>6, <1>7, <1>8 DEF ForkInv

LEMMA ForkKept ==
  ASSUME ForkInv, Base, Base', [Next]_vars PROVE ForkInv'
<1>0. TypeOK
  BY DEF Base
<1>1. CASE UNCHANGED vars
  BY <1>1, ForkStay DEF vars, dbVars, ghostVars
<1>2. CASE \E k \in Timers : OpenPass(k)
  BY <1>0, <1>2, OpenPassFork
<1>3. CASE \E s \in Handlers : OpenEvent(s) \/ OpenReply(s) \/ OpenGoal(s)
  BY <1>0, <1>3, OpenOtherFork
<1>4. CASE \E s \in Sessions : Engine(s) \/ Abort(s) \/ Victim(s)
  <2>1. PICK s \in Sessions : Engine(s) \/ Abort(s) \/ Victim(s)
    BY <1>4
  <2>2. Abort(s) \/ Victim(s) => Dropped(s) /\ UNCHANGED dbVars /\ UNCHANGED contested
    BY DEF Abort, Victim
  <2> QED BY <1>0, <2>1, <2>2, EngineFork, DroppedFork
<1>5. CASE EventArrives \/ Stop \/ Resume
  BY <1>5, ForkStay DEF EventArrives, Stop, Resume, dbVars, ghostVars
<1> QED BY <1>1, <1>2, <1>3, <1>4, <1>5 DEF Next

\* A fork is joined once, however many threads it has and however deep it is nested,
\* although _check_fork_join runs after every thread, after the fork and from its callers,
\* in sessions that do not see each other's uncommitted ends and with a test of the
\* fork_joined row that locks nothing, unless the fork was joined over a nested one, an
\* exit ran beside another transaction, or two transactions went on with one of the
\* threads at a time (for the main flow's fork, with any thread).
THEOREM JoinsAreOnce == Spec => []JoinsOnce
<1>1. Init => JoinInv /\ OnceInv /\ ForkInv
  BY JoinStart, OnceStart, ForkStart
<1>2. ForkInv /\ OnceInv /\ JoinInv /\ TypeOK /\ TypeOK' /\ [Next]_vars =>
        ForkInv' /\ OnceInv' /\ JoinInv'
  <2> SUFFICES ASSUME ForkInv, OnceInv, JoinInv, TypeOK, TypeOK', [Next]_vars
               PROVE  ForkInv' /\ OnceInv' /\ JoinInv'
    OBVIOUS
  <2>1. OnceInv' /\ JoinInv'
    BY OnceKept, JoinKept
  <2>2. Base /\ Base'
    BY <2>1 DEF Base
  <2> QED BY <2>1, <2>2, ForkKept
<1>3. ForkInv /\ TypeOK => JoinsOnce
  <2> SUFFICES ASSUME ForkInv, TypeOK, NEW f \in Forks, joins[f] > 1, ~MayJoinTwice(f) PROVE FALSE
    BY DEF JoinsOnce
  <2>1. /\ causes \cap {"overtaken", "raced"} = {}
        /\ contested \cap (IF f = Root THEN Paths ELSE Children(f)) = {}
    BY DEF MayJoinTwice
  <2>2. Children(f) \subseteq Paths
    BY Sorts
  <2>3. Children(f) \subseteq Tame /\ (f = Root => Paths \subseteq Tame)
    BY <2>1, <2>2 DEF Tame
  <2>4. joins[f] <= 1
    BY <2>3 DEF ForkInv, OneJoins, OneJoin
  <2>5. joins[f] \in Nat
    BY DEF TypeOK
  <2> QED BY <2>4, <2>5
<1> QED BY <1>1, <1>2, <1>3, FunnelTypes, PTL DEF Spec
=============================================================================

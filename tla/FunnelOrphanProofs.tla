------------------------- MODULE FunnelOrphanProofs -------------------------
(***************************************************************************)
(* No thread is left active in an ended enrollment, for any paths, scripts,*)
(* handlers and number of faults, unless one of the exceptions of          *)
(* OrphansAreExplained has happened.                                       *)
(*                                                                         *)
(* An enrollment completes behind its fork, and whoever knows a flow to be *)
(* behind its fork, or over, can rely on everything that ran below the     *)
(* fork being over, however deep it is nested: each join has found the     *)
(* threads of its own fork over, and these are behind theirs.  An exit     *)
(* ends what it finds; if it does not look, because the enrollment counts  *)
(* no threads, there are none or all of them are over.                     *)
(***************************************************************************)
EXTENDS FunnelForkProofs

\* The paths below the fork of f.
Inner(f) ==
  {p \in Paths : \A S \in SUBSET Paths :
     Children(f) \subseteq S /\ (\A g \in S : Children(g) \subseteq S) => p \in S}

\* No fork was joined over a nested one, no exit ran beside another transaction.
Calm == causes \cap {"overtaken", "raced"} = {}

\* A call that f has only behind its fork.
Behind(c, f) ==
  \/ c.do \in {"complete", "finish"} /\ f = Root
  \/ /\ c.do \in AtStep /\ c.flow = f
     /\ c.step >= ForkStep /\ (c.do = "process" => c.step > ForkStep)

\* t knows, or has written, that f is behind its fork or over.
Knows(t, f) ==
  \/ KnownAt(t, row, f) > ForkStep
  \/ At(t, row, f) > ForkStep
  \/ f \in Paths /\ (KnownSt(t, row, f) \in Over \/ St(t, row, f) \in Over)
  \/ f = Root /\ St(t, row, f) = "completed"

Past(t, f) ==
  \/ Knows(t, f)
  \/ f \in t.log
  \/ joins[f] > 0
  \/ \E i \in DOMAIN t.calls : Behind(t.calls[i], f)

\* What is below f is over when t commits.
Gone(t, f) == \A p \in Inner(f) \cap Tame : St(t, row, p) \in Over

Passed(t) == \A f \in Forks : Past(t, f) => Gone(t, f)

\* The enrollment counts its threads until they are gone.
Counting(t) ==
  /\ <<Root, "counted">> \in t.dirty => t.mem[Root].counted \/ Gone(t, Root)
  /\ (\A q \in Paths : row[q].st = "none") /\ (\E p \in Paths : Spawns(t, row, p))
       => <<Root, "counted">> \in t.dirty

\* An advance of the enrollment, which may complete it but does not exit.
Staying(t) == Passed(t) /\ Counting(t) /\ St(t, row, Root) # "exited"

\* An exit, before it has written and after.
Leaving(t) ==
  /\ t.todo = {}
  /\ t.calls # <<>> =>
       /\ t.dirty = {} /\ Root \in t.read
       /\ t.mem[Root].counted = row[Root].counted
       /\ t.calls[1].do = "kill" /\ row[Root].counted => Paths \subseteq t.read
  /\ t.calls = <<>> =>
       St(t, row, Root) = "exited" /\ \A p \in Tame : St(t, row, p) # "active"

Going ==
  /\ Passed(NoTx)
  /\ row[Root].counted \/ (\A p \in Paths : row[p].st = "none") \/ Gone(NoTx, Root)
  /\ \A s \in Sessions : IF tx[s].op = "goal" THEN Leaving(tx[s]) ELSE Staying(tx[s])

Exited ==
  /\ \A p \in Tame : row[p].st # "active"
  /\ \A s \in Sessions : tx[s].calls = <<>> /\ tx[s].todo = {} /\ tx[s].dirty = {}

OrphanInv ==
  /\ \A s \in Sessions : Open(s) \/ tx[s] = NoTx
  /\ Calm => IF row[Root].st = "exited" THEN Exited ELSE Going

-----------------------------------------------------------------------------
(* What is below a fork. *)

LEMMA InnerOwn == ASSUME NEW f \in Flows PROVE Children(f) \subseteq Inner(f)
<1>1. Children(f) \subseteq Paths
  BY Scripts
<1> QED BY <1>1 DEF Inner

LEMMA InnerClosed == ASSUME NEW f \in Flows, NEW g \in Inner(f) PROVE Children(g) \subseteq Inner(f)
<1> SUFFICES ASSUME NEW p \in Children(g) PROVE p \in Inner(f)
  OBVIOUS
<1>1. g \in Paths /\ p \in Paths
  BY Scripts DEF Inner
<1>2. ASSUME NEW S \in SUBSET Paths, Children(f) \subseteq S, \A h \in S : Children(h) \subseteq S
      PROVE  p \in S
  BY <1>2 DEF Inner
<1> QED BY <1>1, <1>2 DEF Inner

\* A path below a fork is on it or below one of its paths.
LEMMA InnerSplit ==
  ASSUME NEW f \in Flows, NEW p \in Inner(f), p \notin Children(f)
  PROVE  \E g \in Children(f) : g \in Forks /\ p \in Inner(g)
<1>1. PICK S : S = Children(f) \cup UNION {Inner(g) : g \in Children(f)}
  OBVIOUS
<1>2. Children(f) \subseteq Paths /\ Paths \subseteq Flows
  BY Scripts
<1>3. S \in SUBSET Paths
  BY <1>1, <1>2 DEF Inner
<1>4. ASSUME NEW h \in S PROVE Children(h) \subseteq S
  <2>1. CASE h \in Children(f)
    BY <1>1, <1>2, <2>1, InnerOwn
  <2>2. CASE \E g \in Children(f) : h \in Inner(g)
    BY <1>1, <1>2, <2>2, InnerClosed
  <2> QED BY <1>1, <2>1, <2>2
<1>5. p \in S
  BY <1>1, <1>3, <1>4 DEF Inner
<1>6. PICK g \in Children(f) : p \in Inner(g)
  BY <1>1, <1>5
<1>7. g \in Forks
  <2>1. ASSUME g \notin Forks PROVE FALSE
    <3>1. Children(g) = {}
      BY <1>2, <2>1 DEF Forks, Children
    <3>2. {} \in SUBSET Paths /\ \A h \in {} : Children(h) \subseteq {}
      OBVIOUS
    <3> QED BY <1>6, <3>1, <3>2 DEF Inner
  <2> QED BY <2>1
<1> QED BY <1>6, <1>7

LEMMA InnerAll == Inner(Root) = Paths
<1>1. PICK P : P = Paths \ Inner(Root)
  OBVIOUS
<1>2. ASSUME P # {} PROVE FALSE
  <2>1. P \in (SUBSET Paths) \ {{}}
    BY <1>1, <1>2
  <2>2. PICK p \in P : Host[p] \notin P
    BY <2>1, NestingAssumption
  <2>3. p \in Paths /\ p \notin Inner(Root) /\ Host[p] \in Flows /\ p \in Children(Host[p]) /\ Root \in Flows
    BY <1>1, <2>2, Sorts
  <2>4. CASE Host[p] = Root
    BY <2>3, <2>4, InnerOwn
  <2>5. CASE Host[p] \in Paths
    BY <1>1, <2>2, <2>3, <2>5, InnerClosed
  <2> QED BY <2>3, <2>4, <2>5, Sorts
<1> QED BY <1>1, <1>2 DEF Inner

-----------------------------------------------------------------------------
(* A step of one session that commits nothing. *)

\* u knows of a step what t does or the rows, and keeps the count.
Recalls(t, u, D) ==
  /\ \A f \in Flows : <<f, "at">> \notin D => KnownAt(u, row, f) \in {KnownAt(t, row, f), row[f].at}
  /\ <<Root, "counted">> \notin D /\ <<Root, "counted">> \in t.dirty =>
       u.mem[Root].counted = t.mem[Root].counted

\* It writes D, joins the forks L and calls c.
Makes(s, u, D, L, c) ==
  /\ u \in Transactions /\ tx' = [tx EXCEPT ![s] = u] /\ UNCHANGED dbVars
  /\ contested \subseteq contested' /\ causes \subseteq causes'
  /\ c \in Seq(Calls) /\ u.calls = Onto(tx[s].calls, c)
  /\ Alike(tx[s], u, D, L) /\ Recalls(tx[s], u, D)

\* What it does so is nothing new.
Grounded(s, u, D, L, c) ==
  /\ \A f \in Forks :
       /\ <<f, "st">> \in D /\ (KnownSt(u, row, f) \in Over \/ St(u, row, f) \in Over) => Past(tx[s], f)
       /\ <<f, "at">> \in D /\ (KnownAt(u, row, f) > ForkStep \/ At(u, row, f) > ForkStep) => Past(tx[s], f)
       /\ f \in L => Gone(tx[s], f)
       /\ \A i \in DOMAIN c : Behind(c[i], f) => Past(tx[s], f)
  /\ \A p \in Tame' : <<p, "st">> \in D /\ St(tx[s], row, p) \in Over => St(u, row, p) \in Over
  /\ <<Root, "st">> \in D => St(u, row, Root) # "exited"
  /\ <<Root, "counted">> \in D => u.mem[Root].counted \/ Gone(tx[s], Root)
  /\ (\A q \in Paths : row[q].st = "none") /\ (\E p \in Paths : <<p, "st">> \in D \ tx[s].dirty)
       => <<Root, "counted">> \in u.dirty

LEMMA CalmBefore ==
  ASSUME causes \subseteq causes', Calm' PROVE Calm
BY DEF Calm

\* What is over stays over.
LEMMA GoneStays ==
  ASSUME NEW s \in Sessions, NEW u, NEW D, NEW L, NEW c, Makes(s, u, D, L, c), Grounded(s, u, D, L, c),
         NEW f, Gone(tx[s], f)
  PROVE  Gone(u, f)'
<1> SUFFICES ASSUME NEW p \in Inner(f) \cap Tame' PROVE St(u, row, p)' \in Over
  BY DEF Gone
<1>1. p \in Tame /\ p \in Flows
  BY TameLess DEF Makes
<1>2. St(tx[s], row, p) \in Over
  BY <1>1 DEF Gone
<1>3. St(u, row, p)' = St(u, row, p)
  BY DEF St, Makes, dbVars
<1>4. CASE <<p, "st">> \in D
  BY <1>2, <1>3, <1>4 DEF Grounded
<1>5. CASE <<p, "st">> \notin D
  BY <1>1, <1>2, <1>3, <1>5 DEF Makes, Alike, Else
<1> QED BY <1>4, <1>5

\* What u knows is nothing new either.
LEMMA PastBefore ==
  ASSUME NEW s \in Sessions, tx[s] \in Transactions, NEW u, NEW D, NEW L, NEW c, Makes(s, u, D, L, c),
         Grounded(s, u, D, L, c), NEW f \in Forks, Past(u, f)'
  PROVE  Past(tx[s], f) \/ Past(NoTx, f) \/ Gone(tx[s], f)
<1>1. row' = row /\ joins' = joins
  BY DEF Makes, dbVars
<1>2. f \in Flows /\ (f \in Paths <=> f # Root)
  BY Sorts
<1>3. /\ KnownAt(NoTx, row, f) = row[f].at /\ KnownSt(NoTx, row, f) = row[f].st
      /\ St(NoTx, row, f) = row[f].st
  BY DEF NoTx, KnownAt, KnownSt, St
<1>4. CASE Knows(u, f)
  <2>1. <<f, "st">> \notin D =>
          /\ St(u, row, f) = St(tx[s], row, f)
          /\ f \in Paths => KnownSt(u, row, f) \in {KnownSt(tx[s], row, f), row[f].st}
    BY <1>2 DEF Makes, Alike, Else
  <2>2. <<f, "at">> \notin D =>
          /\ At(u, row, f) = At(tx[s], row, f)
          /\ KnownAt(u, row, f) \in {KnownAt(tx[s], row, f), row[f].at}
    BY <1>2 DEF Makes, Alike, Else, Recalls
  <2>3. CASE KnownAt(u, row, f) > ForkStep \/ At(u, row, f) > ForkStep
    BY <1>3, <2>2, <2>3 DEF Knows, Past, Grounded
  <2>4. CASE f \in Paths /\ (KnownSt(u, row, f) \in Over \/ St(u, row, f) \in Over)
    BY <1>3, <2>1, <2>4 DEF Knows, Past, Grounded
  <2>5. CASE f = Root /\ St(u, row, f) = "completed"
    BY <1>3, <2>1, <2>5 DEF Knows, Past, Grounded, Over
  <2> QED BY <1>4, <2>3, <2>4, <2>5 DEF Knows
<1>5. CASE f \in u.log
  BY <1>5 DEF Makes, Alike, Grounded, Past
<1>6. CASE joins[f] > 0
  BY <1>6 DEF Past
<1>7. CASE \E i \in DOMAIN u.calls : Behind(u.calls[i], f)
  <2>1. PICK i \in DOMAIN u.calls : Behind(u.calls[i], f)
    BY <1>7
  <2>2. tx[s].calls \in Seq(Calls) /\ c \in Seq(Calls) /\ u.calls = Onto(tx[s].calls, c)
    BY DEF Makes, Transactions
  <2>3. CASE i \in DOMAIN c
    <3>1. u.calls[i] = c[i]
      BY <2>2, <2>3, StackOn
    <3> QED BY <2>1, <2>3, <3>1 DEF Grounded
  <2>4. CASE i \notin DOMAIN c
    <3>1. PICK j \in DOMAIN tx[s].calls : u.calls[i] = tx[s].calls[j]
      BY <2>2, <2>4, StackOn
    <3> QED BY <2>1, <3>1 DEF Past
  <2> QED BY <2>3, <2>4
<1>8. Knows(u, f)' <=> Knows(u, f)
  BY <1>1 DEF Knows, KnownAt, At, KnownSt, St
<1>9. Knows(u, f) \/ f \in u.log \/ joins[f] > 0 \/ \E i \in DOMAIN u.calls : Behind(u.calls[i], f)
  BY <1>1, <1>8 DEF Past
<1> QED BY <1>4, <1>5, <1>6, <1>7, <1>9

\* For the others nothing changes.
LEMMA CarryLocal ==
  ASSUME UNCHANGED dbVars, contested \subseteq contested', causes \subseteq causes', NEW t
  PROVE  /\ \A f : Past(t, f)' <=> Past(t, f)
         /\ \A f : Gone(t, f) => Gone(t, f)'
         /\ Staying(t) => Staying(t)'
         /\ Leaving(t) => Leaving(t)'
         /\ Passed(t) => Passed(t)'
<1>1. row' = row /\ joins' = joins
  BY DEF dbVars
<1>2. Tame' \subseteq Tame
  BY TameLess
<1>3. ASSUME NEW f PROVE Past(t, f)' <=> Past(t, f)
  <2>1. Knows(t, f)' <=> Knows(t, f)
    BY <1>1 DEF Knows, KnownAt, At, KnownSt, St
  <2> QED BY <1>1, <2>1 DEF Past
<1>4. ASSUME NEW p PROVE St(t, row, p)' = St(t, row, p) /\ (Spawns(t, row, p)' <=> Spawns(t, row, p))
  BY <1>1 DEF St, Spawns
<1>5. ASSUME NEW f, Gone(t, f) PROVE Gone(t, f)'
  BY <1>2, <1>4, <1>5 DEF Gone
<1>6. Passed(t) => Passed(t)'
  BY <1>3, <1>5 DEF Passed
<1>7. Counting(t) => Counting(t)'
  BY <1>1, <1>4, <1>5 DEF Counting
<1>8. Staying(t) => Staying(t)'
  BY <1>4, <1>6, <1>7 DEF Staying
<1>9. Leaving(t) => Leaving(t)'
  BY <1>1, <1>2, <1>4 DEF Leaving
<1> QED BY <1>3, <1>5, <1>6, <1>8, <1>9

\* What is over in the rows is not written.
LEMMA RowGone ==
  ASSUME NEW s, Sound(s), NEW f, Gone(NoTx, f) PROVE Gone(tx[s], f)
<1> SUFFICES ASSUME NEW p \in Inner(f) \cap Tame PROVE St(tx[s], row, p) \in Over
  BY DEF Gone
<1>1. row[p].st \in Over
  BY DEF Gone, NoTx, St
<1>2. ~Dirty(tx[s], p)
  BY <1>1 DEF Sound
<1> QED BY <1>1, <1>2 DEF Dirty, St

LEMMA SelfStays ==
  ASSUME NEW s \in Sessions, tx[s] \in Transactions, Sound(s), NEW u, NEW D, NEW L, NEW c,
         Makes(s, u, D, L, c), Grounded(s, u, D, L, c), Passed(NoTx), Staying(tx[s])
  PROVE  Staying(u)'
<1>1. row' = row
  BY DEF Makes, dbVars
<1>2. /\ \A f : Gone(tx[s], f) => Gone(u, f)'
      /\ u.dirty = tx[s].dirty \cup D
  BY GoneStays DEF Makes, Alike, Else
<1>3. Passed(u)'
  <2> SUFFICES ASSUME NEW f \in Forks, Past(u, f)' PROVE Gone(u, f)'
    BY DEF Passed
  <2>1. Past(tx[s], f) \/ Past(NoTx, f) \/ Gone(tx[s], f)
    BY PastBefore
  <2>2. Past(NoTx, f) => Gone(tx[s], f)
    BY RowGone DEF Passed
  <2> QED BY <1>2, <2>1, <2>2 DEF Staying, Passed
<1>4. Counting(u)'
  <2>1. <<Root, "counted">> \in u.dirty => u.mem[Root].counted \/ Gone(u, Root)'
    <3>1. CASE <<Root, "counted">> \in D
      BY <1>2, <3>1 DEF Grounded
    <3>2. CASE <<Root, "counted">> \notin D /\ <<Root, "counted">> \in u.dirty
      <4>1. u.mem[Root].counted = tx[s].mem[Root].counted /\ <<Root, "counted">> \in tx[s].dirty
        BY <1>2, <3>2 DEF Makes, Recalls
      <4> QED BY <1>2, <4>1 DEF Staying, Counting
    <3> QED BY <3>1, <3>2
  <2>2. ASSUME \A q \in Paths : row[q].st = "none", NEW p \in Paths, Spawns(u, row, p)
        PROVE  <<Root, "counted">> \in u.dirty
    <3>1. CASE <<p, "st">> \in D \ tx[s].dirty
      BY <2>2, <3>1 DEF Grounded
    <3>2. CASE <<p, "st">> \notin D \ tx[s].dirty
      <4>1. Spawns(tx[s], row, p)
        BY <1>2, <2>2, <3>2 DEF Spawns
      <4> QED BY <1>2, <2>2, <4>1 DEF Staying, Counting
    <3> QED BY <3>1, <3>2
  <2>3. \A p : Spawns(u, row, p)' <=> Spawns(u, row, p)
    BY <1>1 DEF Spawns
  <2> QED BY <1>1, <2>1, <2>2, <2>3 DEF Counting
<1>5. St(u, row, Root)' # "exited"
  <2>1. St(u, row, Root)' = St(u, row, Root)
    BY <1>1 DEF St
  <2>2. <<Root, "st">> \notin D => St(u, row, Root) = St(tx[s], row, Root)
    BY Sorts DEF Makes, Alike, Else
  <2> QED BY <2>1, <2>2 DEF Grounded, Staying
<1> QED BY <1>3, <1>4, <1>5 DEF Staying

\* What the others and the rows are stays.
LEMMA LocalOrphan ==
  ASSUME OrphanInv, ForkInv, TypeOK, NEW s \in Sessions, tx[s].op \notin {"none", "goal"},
         Calm' => row[Root].st # "exited",
         NEW u, NEW D, NEW L, NEW c, Makes(s, u, D, L, c), Calm' => Grounded(s, u, D, L, c)
  PROVE  OrphanInv'
<1>1. /\ UNCHANGED dbVars /\ row' = row /\ contested \subseteq contested' /\ causes \subseteq causes'
      /\ tx' = [tx EXCEPT ![s] = u] /\ u.op = tx[s].op /\ tx[s] \in Transactions
  BY DEF Makes, dbVars, Alike, Else, TypeOK
<1>2. tx'[s] = u /\ \A w \in Sessions \ {s} : tx'[w] = tx[w]
  BY <1>1 DEF TypeOK
<1>3. \A w \in Sessions : Open(w)' \/ (tx[w] = NoTx)'
  BY <1>1, <1>2 DEF OrphanInv, Open
<1>4. ASSUME Calm' PROVE Going'
  <2>1. Going
    BY <1>1, <1>4, CalmBefore DEF OrphanInv
  <2>2. Sound(s) /\ Staying(tx[s]) /\ Passed(NoTx)
    BY <2>1 DEF Going, ForkInv
  <2>3. Staying(u)'
    BY <1>1, <1>4, <2>2, SelfStays
  <2>4. Passed(NoTx)' /\ (Gone(NoTx, Root) => Gone(NoTx, Root)')
    BY <1>1, <2>2, CarryLocal
  <2>5. ASSUME NEW w \in Sessions PROVE (IF tx[w].op = "goal" THEN Leaving(tx[w]) ELSE Staying(tx[w]))'
    <3>1. CASE w = s
      BY <1>1, <1>2, <2>3, <3>1 DEF Staying, Passed, Counting, Past, Gone, Knows
    <3>2. CASE w # s
      <4>1. PICK t : t = tx[w]
        OBVIOUS
      <4>2. (t.op = "goal" => Leaving(t)) /\ (t.op # "goal" => Staying(t))
        BY <2>1, <4>1 DEF Going
      <4>3. (t.op = "goal" => Leaving(t)') /\ (t.op # "goal" => Staying(t)')
        BY <1>1, <4>2, CarryLocal
      <4> QED BY <1>2, <3>2, <4>1, <4>3 DEF Leaving, Staying, Passed, Counting, Past, Gone, Knows
    <3> QED BY <3>1, <3>2
  <2> QED BY <1>1, <2>1, <2>4, <2>5 DEF Going
<1> QED BY <1>1, <1>3, <1>4 DEF OrphanInv

-----------------------------------------------------------------------------
(* What the operations on a transaction do. *)

Becomes(t, u, D, L) == u \in Transactions /\ Alike(t, u, D, L) /\ Recalls(t, u, D)

LEMMA SameRecalls ==
  ASSUME NEW t, NEW u, u.mem = t.mem, u.read = t.read, u.dirty = t.dirty PROVE Recalls(t, u, {})
BY DEF Recalls, KnownAt

LEMMA BecomesBecomes ==
  ASSUME NEW t, NEW u, NEW w, NEW D, NEW E, NEW L, NEW M, Becomes(t, u, D, L), Becomes(u, w, E, M)
  PROVE  Becomes(t, w, D \cup E, L \cup M)
<1>1. Alike(t, w, D \cup E, L \cup M)
  BY AlikeAlike DEF Becomes
<1>2. u.dirty = t.dirty \cup D
  BY DEF Becomes, Alike, Else
<1>3. Recalls(t, w, D \cup E)
  BY <1>2 DEF Becomes, Recalls
<1> QED BY <1>1, <1>3 DEF Becomes

LEMMA LoadBecomes ==
  ASSUME NEW t \in Transactions, row \in Rows, NEW P \in SUBSET Flows, NEW u, u = Load(t, P)
  PROVE  Becomes(t, u, {}, {})
<1>1. u \in Transactions /\ Alike(t, u, {}, {})
  BY LoadAlike
<1>2. /\ u.dirty = t.dirty /\ u.read = t.read \cup P
      /\ \A p \in Flows : u.mem[p].at = IF p \in P THEN KnownAt(t, row, p) ELSE t.mem[p].at
  BY LoadIs
<1>3. \A p \in Flows : KnownAt(u, row, p) = KnownAt(t, row, p)
  BY <1>2 DEF KnownAt
<1>4. <<Root, "counted">> \in t.dirty => u.mem[Root].counted = t.mem[Root].counted
  <2>1. u.mem[Root] = IF Root \in P THEN Known(t, Root) ELSE t.mem[Root]
    BY Sorts DEF Load, Transactions
  <2> QED BY <2>1 DEF Known, Columns
<1> QED BY <1>1, <1>3, <1>4 DEF Becomes, Recalls

LEMMA LookBecomes ==
  ASSUME NEW t \in Transactions, NEW u, u = LookAtFunnel(t)
  PROVE  Becomes(t, u, {}, {}) /\ u.calls = t.calls
<1>1. u \in Transactions /\ Alike(t, u, {}, {}) /\ u.calls = t.calls
  BY LookAlike
<1>2. u.mem = t.mem /\ u.read = t.read /\ u.dirty = t.dirty
  BY DEF LookAtFunnel, Transactions
<1> QED BY <1>1, <1>2, SameRecalls DEF Becomes

LEMMA WriteBecomes ==
  ASSUME NEW t \in Transactions, row \in Rows, NEW p \in Flows, NEW c \in Columns, NEW v,
         NEW u, u = Write(t, p, c, v), u \in Transactions
  PROVE  /\ Becomes(t, u, {<<p, c>>}, {})
         /\ c = "st" => St(u, row, p) = v
         /\ c = "counted" => u.mem[p].counted = v
<1>1. Alike(t, u, {<<p, c>>}, {}) /\ (c = "st" => St(u, row, p) = v)
  BY WriteAlike
<1>2. /\ u.read = t.read \cup {p} /\ u.dirty = t.dirty \cup {<<p, c>>}
      /\ \A q \in Flows \ {p} : u.mem[q] = t.mem[q]
      /\ u.mem[p].at = IF c = "at" THEN v ELSE KnownAt(t, row, p)
  BY WriteIs
<1>3. \A q \in Flows : <<q, "at">> # <<p, c>> => KnownAt(u, row, q) = KnownAt(t, row, q)
  BY <1>2 DEF KnownAt
<1>4. u.mem[p] = [Known(t, p) EXCEPT ![c] = v]
  <2>1. PICK l : l = Load(t, {p})
    OBVIOUS
  <2>2. {p} \in SUBSET Flows
    OBVIOUS
  <2>3. l \in Transactions
    BY <2>1, <2>2, LoadIs
  <2>4. l.mem[p] = Known(t, p)
    BY <2>1 DEF Load, Transactions
  <2> QED BY <2>1, <2>3, <2>4 DEF Write, Transactions, Rows
<1>5. DOMAIN Known(t, p) = Columns
  BY DEF Known
<1>6. /\ c = "counted" => u.mem[p].counted = v
      /\ c # "counted" /\ <<p, "counted">> \in t.dirty => u.mem[p].counted = t.mem[p].counted
  BY <1>4, <1>5 DEF Known, Columns
<1>7. <<Root, "counted">> # <<p, c>> /\ <<Root, "counted">> \in t.dirty =>
        u.mem[Root].counted = t.mem[Root].counted
  BY <1>2, <1>6, Sorts
<1> QED BY <1>1, <1>3, <1>6, <1>7 DEF Becomes, Recalls

LEMMA ExpireRecalls ==
  ASSUME NEW t \in Transactions, NEW K, NEW u, u = Expire(t, K)
  PROVE  Recalls(t, u, {}) /\ u.dirty = t.dirty
<1>1. /\ u.dirty = t.dirty /\ u.log = t.log /\ u.list = t.list /\ u.todo = t.todo
      /\ u.op = t.op /\ u.read = t.read \cap K
      /\ \A p \in Flows :
           /\ u.mem[p].st = IF p \in K \/ <<p, "st">> \in t.dirty THEN t.mem[p].st ELSE "none"
           /\ u.mem[p].at = IF p \in K \/ <<p, "at">> \in t.dirty THEN t.mem[p].at ELSE 0
  BY ExpireIs
<1>2. <<Root, "counted">> \in t.dirty => u.mem[Root].counted = t.mem[Root].counted
  <2>1. u.mem[Root] = IF Root \in K THEN t.mem[Root] ELSE
                        [c \in Columns |-> IF <<Root, c>> \in t.dirty THEN t.mem[Root][c] ELSE Blank[c]]
    BY Sorts DEF Expire, Transactions
  <2> QED BY <2>1 DEF Columns
<1>3. \A f \in Flows : KnownAt(u, row, f) \in {KnownAt(t, row, f), row[f].at}
  BY ONLY <1>1 DEF KnownAt
<1> QED BY <1>1, <1>2, <1>3 DEF Recalls

LEMMA SpawnBecomes ==
  ASSUME NEW t \in Transactions, NEW f \in Forks, NEW u, u = Spawned(t, f), u \in Transactions
  PROVE  Becomes(t, u, Children(f) \X {"st", "at"}, {})
<1>1. Alike(t, u, Children(f) \X {"st", "at"}, {})
  BY SpawnAlike
<1>2. PICK e : e = Expire(t, t.list \cup {Root})
  OBVIOUS
<1>3. e \in Transactions /\ Recalls(t, e, {}) /\ e.dirty = t.dirty
  BY <1>2, ExpireIs, ExpireRecalls
<1>4. /\ u.read = e.read /\ u.dirty = e.dirty \cup Children(f) \X {"st", "at"}
      /\ \A q \in Flows \ Children(f) : u.mem[q] = e.mem[q]
  BY <1>2, <1>3 DEF Spawned, Transactions, Rows
<1>5. Root \in Flows /\ Root \notin Children(f)
  BY Sorts
<1>6. ASSUME NEW p \in Flows, <<p, "at">> \notin Children(f) \X {"st", "at"}
      PROVE  KnownAt(u, row, p) = KnownAt(e, row, p)
  BY <1>4, <1>6 DEF KnownAt
<1>7. Recalls(e, u, Children(f) \X {"st", "at"})
  BY <1>4, <1>5, <1>6 DEF Recalls
<1>8. Recalls(t, u, Children(f) \X {"st", "at"})
  BY <1>3, <1>7 DEF Recalls
<1> QED BY <1>1, <1>8 DEF Becomes

LEMMA RefreshBecomes ==
  ASSUME NEW t \in Transactions, row \in Rows, NEW u, u = Refreshed(t, Expire(t, t.list))
  PROVE  Becomes(t, u, {}, {})
<1>1. u \in Transactions /\ Alike(t, u, {}, {})
  BY RefreshAlike
<1>2. PICK e : e = Expire(t, t.list)
  OBVIOUS
<1>3. e \in Transactions /\ Recalls(t, e, {}) /\ e.dirty = t.dirty
  BY <1>2, ExpireIs, ExpireRecalls
<1>4. /\ u.read = e.read \cup {Root} /\ u.dirty = e.dirty
      /\ u.mem[Root] = Merged(t)[Root] /\ \A q \in Paths : u.mem[q] = e.mem[q]
  BY <1>2, <1>3, Sorts DEF Refreshed, Transactions, Rows
<1>5. /\ u.mem[Root].at = At(t, row, Root)
      /\ <<Root, "counted">> \in t.dirty => u.mem[Root].counted = t.mem[Root].counted
  BY <1>4, Sorts DEF Merged, At, Columns
<1>6. ASSUME NEW p \in Flows PROVE KnownAt(u, row, p) \in {KnownAt(t, row, p), row[p].at}
  <2>1. CASE p = Root
    BY <1>3, <1>4, <1>5, <2>1 DEF KnownAt, At
  <2>2. CASE p \in Paths
    <3>1. KnownAt(u, row, p) = KnownAt(e, row, p)
      BY <1>4, <2>2, Sorts DEF KnownAt
    <3> QED BY <1>3, <3>1 DEF Recalls
  <2> QED BY <2>1, <2>2, Sorts
<1> QED BY <1>1, <1>5, <1>6 DEF Becomes, Recalls

-----------------------------------------------------------------------------
(* The calls of an advance. *)

\* A call returns.
LEMMA ReturnOrphan ==
  ASSUME OrphanInv, ForkInv, Base, Base', NEW s \in Sessions, tx[s].calls # <<>>, tx[s].op # "goal",
         NEW t, NEW D, NEW L, Becomes(tx[s], t, D, L), UNCHANGED dbVars,
         contested \subseteq contested', causes \subseteq causes',
         NEW c \in Seq(Calls), Returns(s, t, c), NEW u, u = Stacked(tx[s], t, c),
         Calm' /\ Makes(s, u, D, L, c) /\ Staying(tx[s]) => Grounded(s, u, D, L, c)
  PROVE  OrphanInv'
<1>1. Returned(s, u, t, c, D, L)
  BY ReturnsIs DEF Base, Becomes
<1>2. Recalls(tx[s], u, D)
  BY Zenon, <1>1 DEF Returned, Becomes, Recalls, KnownAt
<1>3. Makes(s, u, D, L, c)
  BY <1>1, <1>2 DEF Returned, Makes
<1>4. tx[s].op # "none"
  BY OpNone DEF Base
<1>5. ASSUME Calm' PROVE row[Root].st # "exited" /\ Staying(tx[s])
  <2>1. Calm
    BY <1>5, CalmBefore
  <2> QED BY <2>1 DEF OrphanInv, Exited, Going
<1>6. Calm' => Grounded(s, u, D, L, c)
  BY <1>3, <1>5
<1> QED BY <1>3, <1>4, <1>5, <1>6, LocalOrphan DEF Base

\* Nothing is written of a status, of a fork's step or of the count.
Quiet(D) ==
  /\ \A p \in Flows : <<p, "st">> \notin D
  /\ \A f \in Forks : <<f, "at">> \notin D
  /\ <<Root, "counted">> \notin D

LEMMA QuietOrphan ==
  ASSUME OrphanInv, ForkInv, Base, Base', NEW s \in Sessions, tx[s].calls # <<>>, tx[s].op # "goal",
         NEW t, NEW D, Quiet(D), Becomes(tx[s], t, D, {}), UNCHANGED dbVars,
         contested \subseteq contested', causes \subseteq causes',
         NEW c \in Seq(Calls), Returns(s, t, c),
         \A f \in Forks : \A i \in DOMAIN c : Behind(c[i], f) => Past(tx[s], f)
  PROVE  OrphanInv'
<1>1. PICK u : u = Stacked(tx[s], t, c)
  OBVIOUS
<1>2. PICK L : L = {}
  OBVIOUS
<1>3. Paths \subseteq Flows /\ Root \in Flows /\ Forks \subseteq Flows
  BY Sorts
<1>4. Grounded(s, u, D, L, c)
  BY <1>2, <1>3, TameLess DEF Quiet, Grounded
<1>5. Becomes(tx[s], t, D, L)
  BY <1>2
<1> QED BY <1>1, <1>4, <1>5, ReturnOrphan

\* A call that is in no step calls for none, or for the end.
LEMMA AsideBehind ==
  /\ \A do \in {"join", "leave", "recheck", "exit", "kill"} : \A p, i, f : ~Behind(Call(do, p, i), f)
  /\ \A do \in {"complete", "finish"} : \A p, i, f : Behind(Call(do, p, i), f) => f = Root
BY DEF Behind, Call, AtStep

LEMMA TopBehind ==
  ASSUME TypeOK, NEW s \in Sessions, NEW do, Running(s, do), NEW f, Behind(Head(tx[s].calls), f)
  PROVE  Past(tx[s], f)
<1>1. tx[s].calls \in Seq(Calls) /\ tx[s].calls # <<>>
  BY DEF TypeOK, Transactions, Running
<1>2. 1 \in DOMAIN tx[s].calls /\ Head(tx[s].calls) = tx[s].calls[1]
  BY <1>1
<1> QED BY <1>2 DEF Past

\* At most one call.
LEMMA FewCalls ==
  ASSUME NEW c, NEW d, c = <<>> \/ c = <<d>>, NEW t, \A f \in Forks : Behind(d, f) => Past(t, f)
  PROVE  \A f \in Forks : \A i \in DOMAIN c : Behind(c[i], f) => Past(t, f)
OBVIOUS

LEMMA FewTyped ==
  ASSUME NEW c, NEW d \in Calls, c = <<>> \/ c = <<d>> PROVE c \in Seq(Calls)
<1>1. CASE c = <<>>
  BY <1>1
<1>2. CASE c = <<d>>
  BY <1>2
<1> QED BY <1>1, <1>2

LEMMA RecheckOrphan ==
  ASSUME OrphanInv, ForkInv, Base, Base', NEW s \in Sessions, Recheck(s) PROVE OrphanInv'
<1>1. PICK t : t = Load(tx[s], {Root})
  OBVIOUS
<1>2. PICK c : /\ Returns(s, t, c)
               /\ c = IF Root \in Forks /\ t.mem[Root].at = ForkStep
                      THEN <<Call("join", Root, 0)>> ELSE <<>>
  BY <1>1 DEF Recheck
<1>3. PICK d : d = Call("join", Root, 0)
  OBVIOUS
<1>4. Running(s, "recheck") /\ tx[s].calls # <<>> /\ UNCHANGED dbVars /\ contested' = contested /\ causes' = causes
  BY DEF Recheck, Running, ghostVars
<1>5. tx[s].op # "goal" /\ TypeOK
  BY <1>4, GoalTop DEF Base
<1>6. PICK D : D = {}
  OBVIOUS
<1>7. Becomes(tx[s], t, D, {}) /\ Quiet(D)
  BY <1>1, <1>6, LoadBecomes, Sorts DEF Base, TypeOK, Quiet
<1>8. c = <<>> \/ c = <<d>>
  BY <1>2, <1>3
<1>9. c \in Seq(Calls)
  <2>1. Root \in Forks => d \in Calls
    BY <1>3, CallType DEF AtFork
  <2> QED BY <1>2, <1>3, <2>1
<1>10. \A f \in Forks : Behind(d, f) => Past(tx[s], f)
  BY <1>3, AsideBehind
<1>11. \A f \in Forks : \A i \in DOMAIN c : Behind(c[i], f) => Past(tx[s], f)
  BY <1>8, <1>10, FewCalls
<1> QED BY <1>2, <1>4, <1>5, <1>7, <1>9, <1>11, QuietOrphan

LEMMA CompleteOrphan ==
  ASSUME OrphanInv, ForkInv, Base, Base', NEW s \in Sessions, CompleteEnrollment(s) PROVE OrphanInv'
<1>1. PICK t : t = Load(tx[s], Paths \cup {Root})
  OBVIOUS
<1>2. PICK c : Returns(s, t, c) /\ c = IF Unfinished(t) # {} THEN <<>> ELSE <<Call("finish", Root, 0)>>
  BY <1>1 DEF CompleteEnrollment
<1>3. PICK d : d = Call("finish", Root, 0)
  OBVIOUS
<1>4. /\ Running(s, "complete") /\ tx[s].calls # <<>> /\ UNCHANGED dbVars /\ contested' = contested
      /\ causes \subseteq causes'
  BY DEF CompleteEnrollment, Running
<1>5. tx[s].op # "goal" /\ TypeOK
  BY <1>4, GoalTop DEF Base
<1>6. PICK D : D = {}
  OBVIOUS
<1>7. Becomes(tx[s], t, D, {}) /\ Quiet(D)
  BY <1>1, <1>6, LoadBecomes, Sorts DEF Base, TypeOK, Quiet
<1>8. c = <<>> \/ c = <<d>>
  BY <1>2, <1>3
<1>9. c \in Seq(Calls)
  <2>1. d \in Calls
    BY <1>3, CallType, Sorts
  <2> QED BY <1>8, <2>1, FewTyped
<1>10. ASSUME NEW f \in Forks, Behind(d, f) PROVE Past(tx[s], f)
  <2>1. f = Root
    BY <1>3, <1>10, AsideBehind
  <2>2. Behind(Head(tx[s].calls), f)
    BY <1>4, <2>1 DEF Behind, Running
  <2> QED BY <1>4, <1>5, <2>2, TopBehind
<1>11. \A f \in Forks : \A i \in DOMAIN c : Behind(c[i], f) => Past(tx[s], f)
  BY <1>8, <1>10, FewCalls
<1> QED BY <1>2, <1>4, <1>5, <1>7, <1>9, <1>11, QuietOrphan

LEMMA FinishOrphan ==
  ASSUME OrphanInv, ForkInv, Base, Base', NEW s \in Sessions, Finish(s) PROVE OrphanInv'
<1>1. PICK t : t = Write(tx[s], Root, "st", "completed")
  OBVIOUS
<1>2. PICK c : Returns(s, t, c) /\ c = <<>>
  BY <1>1 DEF Finish
<1>3. /\ Running(s, "finish") /\ tx[s].calls # <<>> /\ UNCHANGED dbVars /\ contested' = contested
      /\ causes' = causes
  BY DEF Finish, Running, ghostVars
<1>4. tx[s].op # "goal" /\ TypeOK /\ row \in Rows /\ tx[s] \in Transactions
  BY <1>3, GoalTop DEF Base, TypeOK
<1>5. PICK D : D = {<<Root, "st">>}
  OBVIOUS
<1>6. Becomes(tx[s], t, D, {}) /\ St(t, row, Root) = "completed"
  <2>1. PICK k : k = "st"
    OBVIOUS
  <2>2. PICK v : v = "completed"
    OBVIOUS
  <2>3. k \in Columns /\ t = Write(tx[s], Root, k, v) /\ Root \in Flows
    BY <1>1, <2>1, <2>2, Sorts DEF Columns
  <2>4. t \in Transactions
    BY <1>1, <1>4, <2>3, WriteType DEF Status, Columns
  <2> QED BY <1>4, <1>5, <2>1, <2>2, <2>3, <2>4, WriteBecomes
<1>7. PICK u : u = Stacked(tx[s], t, c)
  OBVIOUS
<1>8. PICK L : L = {}
  OBVIOUS
<1>9. Past(tx[s], Root)
  <2>1. Behind(Head(tx[s].calls), Root)
    BY <1>3 DEF Behind, Running
  <2> QED BY <1>3, <1>4, <2>1, TopBehind
<1>10. c \in Seq(Calls) /\ DOMAIN c = {} /\ Becomes(tx[s], t, D, L)
  BY <1>2, <1>6, <1>8
<1>11. ASSUME Makes(s, u, D, L, c) PROVE Grounded(s, u, D, L, c)
  <2>1. St(u, row, Root) = "completed"
    BY <1>4, <1>6, <1>7 DEF Stacked, St, Becomes, Transactions
  <2>2. Tame' \subseteq Paths /\ Root \notin Paths
    BY <1>3, TameLess, Sorts
  <2> QED BY <1>5, <1>8, <1>9, <1>10, <2>1, <2>2 DEF Grounded
<1> QED BY <1>2, <1>3, <1>4, <1>7, <1>10, <1>11, ReturnOrphan

\* A step of a fork's flow that is neither its wait nor its fork is behind it.
LEMMA BehindStep ==
  ASSUME NEW f \in Forks, NEW i, TypeAt(f, i) \notin {"none", "wait", "fork"}
  PROVE  i \in Nat /\ i > ForkStep
<1>1. i \in Nat /\ i >= ForkStep
  BY PastFork
<1>2. Script[f][ForkStep] = "fork" /\ ForkStep \in DOMAIN Script[f] /\ ForkStep = 2
  BY FunnelAssumption, ForkAt, Scripts DEF Forks, ForkStep
<1>3. i # ForkStep
  BY <1>2 DEF TypeAt
<1> QED BY <1>1, <1>2, <1>3

\* The flow of the call on top goes on in its step, or ends.
Continues(do, c, d) ==
  \/ /\ d.do \in AtStep /\ d.flow = c.flow /\ d.step = c.step
     /\ do = "process" => TypeAt(c.flow, c.step) \notin {"none", "wait", "fork"}
     /\ d.do = "process" => do = "process"
  \/ /\ d.do = "complete" /\ c.flow = Root
     /\ IF do = "process" THEN TypeAt(Root, c.step) \notin {"none", "wait", "fork"}
                          ELSE ~HasNext(Root, c.step)

LEMMA ContinuesBehind ==
  ASSUME TypeOK, NEW s \in Sessions, NEW do \in AtStep, Running(s, do),
         NEW c, c = Head(tx[s].calls), NEW d, Continues(do, c, d), NEW f \in Forks, Behind(d, f)
  PROVE  Past(tx[s], f)
<1>1. c \in Calls /\ c.do = do /\ c.flow \in Flows /\ c.step \in Nat
  BY TopCall, StepOf
<1>2. ForkStep = 2
  BY DEF ForkStep
<1>3. c.flow = f /\ c.step >= ForkStep /\ (do = "process" => c.step > ForkStep)
  <2>1. CASE d.do \in AtStep
    <3>1. /\ d.flow = c.flow /\ d.step = c.step
          /\ do = "process" => TypeAt(c.flow, c.step) \notin {"none", "wait", "fork"}
      BY <2>1 DEF Continues, AtStep
    <3>2. d.flow = f /\ d.step >= ForkStep
      BY <2>1 DEF Behind, AtStep
    <3>3. do = "process" => c.step > ForkStep
      BY <3>1, <3>2, BehindStep
    <3> QED BY <3>1, <3>2, <3>3
  <2>2. CASE d.do \notin AtStep
    <3>1. f = Root /\ c.flow = Root
      BY <2>2 DEF Behind, Continues
    <3>2. CASE do = "process"
      <4>1. TypeAt(Root, c.step) \notin {"none", "wait", "fork"}
        BY <2>2, <3>2 DEF Continues
      <4>2. c.step > ForkStep
        BY <3>1, <4>1, BehindStep
      <4> QED BY <1>1, <1>2, <3>1, <4>2
    <3>3. CASE do # "process"
      <4>1. ~HasNext(Root, c.step)
        BY <2>2, <3>3 DEF Continues
      <4>2. Len(Script[Root]) >= ForkStep /\ Len(Script[Root]) \in Nat
        BY <3>1, Scripts, Sorts, FunnelAssumption
      <4> QED BY <1>1, <1>2, <3>1, <3>3, <4>1, <4>2 DEF HasNext
    <3> QED BY <3>2, <3>3
  <2> QED BY <2>1, <2>2
<1>4. Behind(c, f)
  BY <1>1, <1>3 DEF Behind
<1> QED BY <1>4, TopBehind

\* It writes nothing of the kind and calls for that, or nothing.
LEMMA ContinueOrphan ==
  ASSUME OrphanInv, ForkInv, Base, Base', NEW s \in Sessions, NEW do \in AtStep, Running(s, do),
         NEW t, NEW D, Quiet(D), Becomes(tx[s], t, D, {}), UNCHANGED dbVars,
         contested \subseteq contested', causes \subseteq causes',
         NEW d \in Calls, Continues(do, Head(tx[s].calls), d), NEW c, c = <<>> \/ c = <<d>>,
         Returns(s, t, c)
  PROVE  OrphanInv'
<1>1. tx[s].calls # <<>> /\ TypeOK
  BY DEF Running, Base
<1>2. tx[s].op # "goal"
  BY <1>1, GoalTop DEF AtStep
<1>3. c \in Seq(Calls)
  BY FewTyped
<1>4. \A f \in Forks : Behind(d, f) => Past(tx[s], f)
  BY <1>1, ContinuesBehind
<1>5. \A f \in Forks : \A i \in DOMAIN c : Behind(c[i], f) => Past(tx[s], f)
  BY <1>4, FewCalls
<1> QED BY <1>1, <1>2, <1>3, <1>5, QuietOrphan

\* A mark of a wait_until is set or taken back.
LEMMA MarkBecomes ==
  ASSUME NEW l \in Transactions, row \in Rows, NEW v \in SUBSET Steps, NEW t, t = Write(l, Root, "resolved", v)
  PROVE  Becomes(l, t, {<<Root, "resolved">>}, {}) /\ Quiet({<<Root, "resolved">>})
<1>1. PICK k : k = "resolved"
  OBVIOUS
<1>2. k \in Columns /\ t = Write(l, Root, k, v) /\ Root \in Flows
  BY <1>1, Sorts DEF Columns
<1>3. t \in Transactions
  BY <1>1, <1>2, WriteType
<1>4. Becomes(l, t, {<<Root, k>>}, {})
  BY <1>2, <1>3, WriteBecomes
<1>5. Quiet({<<Root, k>>})
  BY <1>1 DEF Quiet
<1> QED BY <1>1, <1>4, <1>5

LEMMA ResolveOrphan ==
  ASSUME OrphanInv, ForkInv, Base, Base', NEW s \in Sessions, ResolveWaitUntil(s) PROVE OrphanInv'
<1>1. PICK a : a = Head(tx[s].calls)
  OBVIOUS
<1>2. PICK done : done = Known(tx[s], Root).resolved
  OBVIOUS
<1>3. PICK do : do = "resolve"
  OBVIOUS
<1>4. /\ Running(s, do) /\ UNCHANGED dbVars /\ contested' = contested /\ causes' = causes
      /\ do \in AtStep /\ TypeOK /\ row \in Rows /\ tx[s] \in Transactions
  BY <1>3 DEF ResolveWaitUntil, ghostVars, AtStep, Base, TypeOK
<1>5. a \in Calls /\ <<a.flow, a.step>> \in Steps
  BY <1>1, <1>4, TopCall, StepOf
<1>6. PICK d : d = Call("advance", a.flow, a.step)
  OBVIOUS
<1>7. d \in Calls /\ Continues(do, a, d)
  BY <1>3, <1>5, <1>6, CallType DEF Continues, Call, AtStep
<1>8. CASE <<a.flow, a.step>> \in done
  <2>1. PICK t : t = Load(tx[s], {Root}) /\ Returns(s, t, <<>>)
    BY <1>1, <1>2, <1>8 DEF ResolveWaitUntil
  <2>2. PICK D : D = {}
    OBVIOUS
  <2>3. Becomes(tx[s], t, D, {}) /\ Quiet(D)
    BY <1>4, <2>1, <2>2, LoadBecomes, Sorts DEF Quiet
  <2>4. PICK c : c = <<>>
    OBVIOUS
  <2> QED BY <1>1, <1>4, <1>7, <2>1, <2>3, <2>4, ContinueOrphan
<1>9. CASE <<a.flow, a.step>> \notin done
  <2>1. PICK v : v = done \cup {<<a.flow, a.step>>}
    OBVIOUS
  <2>2. PICK t : t = Write(tx[s], Root, "resolved", v) /\ Returns(s, t, <<d>>)
    BY <1>1, <1>2, <1>6, <1>9, <2>1 DEF ResolveWaitUntil
  <2>3. v \in SUBSET Steps
    <3>1. Known(tx[s], Root) \in Row
      BY <1>4, KnownType, Sorts
    <3> QED BY <1>2, <1>5, <2>1, <3>1 DEF Row
  <2>4. PICK D : D = {<<Root, "resolved">>}
    OBVIOUS
  <2>5. Becomes(tx[s], t, D, {}) /\ Quiet(D)
    BY <1>4, <2>2, <2>3, <2>4, MarkBecomes
  <2>6. PICK c : c = <<d>>
    OBVIOUS
  <2>7. Returns(s, t, c)
    BY <2>2, <2>6
  <2> QED BY <1>1, <1>4, <1>7, <2>5, <2>6, <2>7, ContinueOrphan
<1> QED BY <1>8, <1>9

\* The status of a thread is written, with no call of a step.
LEMMA StatusOrphan ==
  ASSUME OrphanInv, ForkInv, Base, Base', NEW s \in Sessions, tx[s].calls # <<>>, tx[s].op # "goal",
         NEW l \in Transactions, Becomes(tx[s], l, {}, {}), NEW p \in Paths, NEW v \in Over,
         NEW t, t = Write(l, p, "st", v),
         UNCHANGED dbVars, contested \subseteq contested', causes \subseteq causes',
         St(tx[s], row, p) # "none", p \in Forks => Past(tx[s], p), NEW f \in Forks, Returns(s, t, <<Call("join", f, 0)>>)
  PROVE  OrphanInv'
<1>1. TypeOK /\ row \in Rows /\ p \in Flows /\ p # Root /\ Forks \subseteq Flows
  BY Sorts DEF Base, TypeOK
<1>2. Becomes(l, t, {<<p, "st">>}, {}) /\ St(t, row, p) = v
  <2>1. PICK k : k = "st"
    OBVIOUS
  <2>2. k \in Columns /\ t = Write(l, p, k, v)
    BY <2>1 DEF Columns
  <2>3. t \in Transactions
    BY <1>1, <2>1, <2>2, WriteType DEF Status, Columns, Over
  <2> QED BY <1>1, <2>1, <2>2, <2>3, WriteBecomes
<1>3. PICK D : D = {<<p, "st">>}
  OBVIOUS
<1>4. PICK L : L = {}
  OBVIOUS
<1>5. Becomes(tx[s], t, D, L)
  <2>1. {} \cup {<<p, "st">>} = D /\ {} \cup {} = L
    BY <1>3, <1>4
  <2> QED BY <1>2, <2>1, BecomesBecomes
<1>6. PICK d : d = Call("join", f, 0)
  OBVIOUS
<1>7. PICK c : c = <<d>>
  OBVIOUS
<1>8. d \in Calls /\ c \in Seq(Calls) /\ Returns(s, t, c)
  BY <1>6, <1>7, CallType DEF AtFork
<1>9. \A g \in Forks : \A i \in DOMAIN c : Behind(c[i], g) => Past(tx[s], g)
  <2>1. \A g \in Forks : ~Behind(d, g)
    BY <1>6, AsideBehind
  <2> QED BY <1>7, <2>1
<1>10. PICK u : u = Stacked(tx[s], t, c)
  OBVIOUS
<1>11. ASSUME Makes(s, u, D, L, c), Staying(tx[s]) PROVE Grounded(s, u, D, L, c)
  <2>1. St(u, row, p) = v
    BY <1>2, <1>10 DEF Stacked, St, Becomes, Transactions
  <2>2. /\ \A q : <<q, "st">> \in D => q = p
        /\ \A q : <<q, "at">> \notin D /\ <<q, "counted">> \notin D
    BY <1>3
  <2>3. (\A q \in Paths : row[q].st = "none") => \A q \in Paths : <<q, "st">> \notin D \ tx[s].dirty
    BY <2>2 DEF St
  <2> QED BY <1>1, <1>4, <1>9, <2>1, <2>2, <2>3 DEF Grounded
<1> QED BY <1>5, <1>8, <1>10, <1>11, ReturnOrphan

LEMMA TopThere ==
  ASSUME OnceInv, JoinInv, TypeOK, NEW s \in Sessions, NEW do \in AtStep, Running(s, do),
         NEW a, a = Head(tx[s].calls)
  PROVE  St(tx[s], row, a.flow) # "none" /\ On(tx[s].calls, a.flow) # {}
<1>1. tx[s].calls \in Seq(Calls) /\ tx[s].calls # <<>>
  BY DEF Running, TypeOK, Transactions
<1>2. 1 \in DOMAIN tx[s].calls /\ tx[s].calls[1] = a /\ a.do = do
  BY <1>1 DEF Running
<1>3. a.flow \in Flows
  BY TopCall, StepOf
<1>4. On(tx[s].calls, a.flow) # {}
  BY <1>2 DEF On
<1>5. Tidy(tx[s], row)
  BY DEF OnceInv, OnceFor
<1> QED BY <1>3, <1>4, <1>5 DEF Tidy

\* The flow of the call on top ends.
LEMMA OverOrphan ==
  ASSUME OrphanInv, ForkInv, Base, Base', NEW s \in Sessions, NEW do \in AtStep, Running(s, do),
         NEW a, a = Head(tx[s].calls), a.flow \in Paths,
         NEW l \in Transactions, Becomes(tx[s], l, {}, {}), NEW v \in Over,
         NEW t, t = Write(l, a.flow, "st", v), UNCHANGED dbVars,
         contested \subseteq contested', causes \subseteq causes',
         IF do = "process" THEN TypeAt(a.flow, a.step) \notin {"none", "wait", "fork"}
                           ELSE ~HasNext(a.flow, a.step),
         Returns(s, t, <<Call("join", Host[a.flow], 0)>>)
  PROVE  OrphanInv'
<1>1. tx[s].calls # <<>> /\ TypeOK /\ OnceInv /\ JoinInv
  BY DEF Running, Base
<1>2. tx[s].op # "goal"
  BY <1>1, GoalTop DEF AtStep
<1>3. PICK p : p = a.flow
  OBVIOUS
<1>4. St(tx[s], row, p) # "none" /\ p \in Flows /\ p \in Paths
  <2>1. St(tx[s], row, p) # "none"
    BY <1>1, <1>3, TopThere
  <2> QED BY <1>3, <2>1, Sorts
<1>5. PICK f : f = Host[p]
  OBVIOUS
<1>6. f \in Forks
  BY <1>4, <1>5, Sorts
<1>7. ASSUME p \in Forks PROVE Past(tx[s], p)
  <2>1. a \in Calls /\ a.do = do /\ a.step \in Nat /\ ForkStep = 2
    BY <1>1, TopCall, StepOf DEF ForkStep
  <2>2. a.step >= ForkStep /\ (do = "process" => a.step > ForkStep)
    <3>1. CASE do = "process"
      <4>1. a.step > ForkStep
        BY <1>3, <1>7, <3>1, BehindStep
      <4> QED BY <2>1, <4>1
    <3>2. CASE do # "process"
      <4>1. Len(Script[p]) >= ForkStep /\ Len(Script[p]) \in Nat
        BY <1>4, <1>7, Scripts, FunnelAssumption
      <4> QED BY <1>3, <2>1, <3>2, <4>1 DEF HasNext
    <3> QED BY <3>1, <3>2
  <2>3. Behind(a, p)
    BY <1>3, <2>1, <2>2 DEF Behind
  <2> QED BY <1>1, <2>3, TopBehind
<1>8. t = Write(l, p, "st", v) /\ Returns(s, t, <<Call("join", f, 0)>>)
  BY <1>3, <1>5
<1> QED BY <1>1, <1>2, <1>4, <1>6, <1>7, <1>8, StatusOrphan

LEMMA AdvanceOrphan ==
  ASSUME OrphanInv, ForkInv, Base, Base', NEW s \in Sessions, Advance(s) PROVE OrphanInv'
<1>1. PICK a : a = Head(tx[s].calls)
  OBVIOUS
<1>2. PICK do : do = "advance"
  OBVIOUS
<1>3. /\ Running(s, do) /\ UNCHANGED dbVars /\ contested' = contested /\ causes' = causes
      /\ do \in AtStep /\ TypeOK /\ row \in Rows /\ tx[s] \in Transactions /\ tx[s].calls # <<>>
  BY <1>2 DEF Advance, ghostVars, AtStep, Base, TypeOK, Running
<1>4. a \in Calls /\ a.do = do /\ a.flow \in Flows /\ a.step \in Nat /\ <<a.flow, a.step>> \in Steps
  BY <1>1, <1>3, TopCall, StepOf
<1>5. PICK L : L = {}
  OBVIOUS
<1>6. CASE HasNext(a.flow, a.step)
  <2>1. PICK p : p = a.flow
    OBVIOUS
  <2>2. PICK v : v = a.step + 1
    OBVIOUS
  <2>3. PICK d : d = Call("process", p, v)
    OBVIOUS
  <2>4. PICK t : t = Write(tx[s], p, "at", v) /\ Returns(s, t, <<d>>)
    BY <1>1, <1>6, <2>1, <2>2, <2>3 DEF Advance
  <2>5. v \in Nat /\ v \in 0 .. Len(Script[p]) /\ <<p, v>> \in Steps
    BY <1>4, <1>6, <2>1, <2>2, Scripts DEF HasNext
  <2>6. d \in Calls
    BY <2>3, <2>5, CallType DEF AtStep
  <2>7. PICK D : D = {<<p, "at">>}
    OBVIOUS
  <2>8. Becomes(tx[s], t, D, L)
    <3>1. PICK k : k = "at"
      OBVIOUS
    <3>2. k \in Columns /\ t = Write(tx[s], p, k, v)
      BY <2>4, <3>1 DEF Columns
    <3>3. t \in Transactions
      BY <1>3, <1>4, <2>1, <2>5, <3>1, <3>2, WriteType
    <3> QED BY <1>3, <1>4, <1>5, <2>1, <2>7, <3>1, <3>2, <3>3, WriteBecomes
  <2>9. PICK c : c = <<d>>
    OBVIOUS
  <2>10. c \in Seq(Calls) /\ Returns(s, t, c)
    BY <2>4, <2>6, <2>9
  <2>11. PICK u : u = Stacked(tx[s], t, c)
    OBVIOUS
  <2>12. tx[s].op # "goal"
    BY <1>2, <1>3, GoalTop DEF Base
  <2>13. p \in Forks /\ v > ForkStep => Past(tx[s], p)
    <3>1. ForkStep = 2 /\ (v > ForkStep => a.step >= ForkStep)
      BY <1>4, <2>2 DEF ForkStep
    <3>2. v > ForkStep => Behind(a, p)
      BY <1>2, <1>3, <1>4, <2>1, <3>1 DEF Behind
    <3> QED BY <1>1, <1>3, <3>2, TopBehind
  <2>14. KnownAt(u, row, p) = v /\ At(u, row, p) = v
    <3>1. u.mem = t.mem /\ u.read = t.read /\ u.dirty = t.dirty
      BY <2>8, <2>11 DEF Stacked, Becomes, Transactions
    <3>2. PICK k : k = "at"
      OBVIOUS
    <3>3. k \in Columns /\ t = Write(tx[s], p, k, v)
      BY <2>4, <3>2 DEF Columns
    <3>4. t.mem[p].at = v /\ t.dirty = tx[s].dirty \cup {<<p, k>>}
      BY <1>3, <1>4, <2>1, <3>2, <3>3, WriteIs
    <3> QED BY <3>1, <3>2, <3>4 DEF KnownAt, At
  <2>15. ASSUME Makes(s, u, D, L, c) PROVE Grounded(s, u, D, L, c)
    <3>1. /\ \A q : <<q, "at">> \in D => q = p
          /\ \A q : <<q, "st">> \notin D /\ <<q, "counted">> \notin D
      BY <2>7
    <3>2. \A f \in Forks : \A i \in DOMAIN c : Behind(c[i], f) => f = p /\ v > ForkStep
      BY <2>3, <2>9 DEF Behind, Call, AtStep
    <3> QED BY <1>5, <2>13, <2>14, <3>1, <3>2 DEF Grounded
  <2> QED BY <1>3, <2>8, <2>10, <2>11, <2>12, <2>15, ReturnOrphan
<1>7. CASE ~HasNext(a.flow, a.step) /\ a.flow = Root
  <2>1. PICK d : d = Call("complete", Root, 0)
    OBVIOUS
  <2>2. PICK c : Returns(s, tx[s], c) /\ c = <<d>>
    BY <1>1, <1>7, <2>1 DEF Advance
  <2>3. d \in Calls /\ Continues(do, a, d)
    BY <1>2, <1>4, <1>7, <2>1, CallType, Sorts DEF Continues, Call
  <2>4. PICK D : D = {}
    OBVIOUS
  <2>5. Becomes(tx[s], tx[s], D, {}) /\ Quiet(D)
    <3>1. Alike(tx[s], tx[s], {}, {})
      BY DEF Alike, Else
    <3> QED BY <1>3, <2>4, <3>1, SameRecalls DEF Becomes, Quiet
  <2> QED BY <1>1, <1>3, <2>2, <2>3, <2>5, ContinueOrphan
<1>8. CASE ~HasNext(a.flow, a.step) /\ a.flow # Root
  <2>1. PICK v : v = "completed"
    OBVIOUS
  <2>2. PICK t : t = Write(tx[s], a.flow, "st", v) /\ Returns(s, t, <<Call("join", Host[a.flow], 0)>>)
    BY <1>1, <1>8, <2>1 DEF Advance
  <2>3. a.flow \in Paths /\ v \in Over
    BY <1>4, <1>8, <2>1, Sorts DEF Over
  <2>4. Becomes(tx[s], tx[s], {}, {})
    <3>1. Alike(tx[s], tx[s], {}, {})
      BY DEF Alike, Else
    <3> QED BY <1>3, <3>1, SameRecalls DEF Becomes
  <2>5. IF do = "process" THEN TypeAt(a.flow, a.step) \notin {"none", "wait", "fork"}
                          ELSE ~HasNext(a.flow, a.step)
    BY <1>2, <1>8
  <2> QED BY <1>1, <1>3, <2>2, <2>3, <2>4, <2>5, OverOrphan
<1> QED BY <1>6, <1>7, <1>8

\* What a fork writes.
ForkColumns(f) ==
  Children(f) \X {"st", "at"} \cup {<<f, IF f = Root THEN "counted" ELSE "st">>}

LEMMA ForkedBecomes ==
  ASSUME NEW t \in Transactions, row \in Rows, NEW f \in Forks, NEW u, u = Forked(t, f)
  PROVE  /\ Becomes(t, u, ForkColumns(f), {})
         /\ \A q \in Children(f) : St(u, row, q) = "active" /\ At(u, row, q) = 1
         /\ IF f = Root THEN u.mem[Root].counted ELSE St(u, row, f) = "forked"
<1>1. PICK k : k = IF f = Root THEN "counted" ELSE "st"
  OBVIOUS
<1>2. PICK v : v = IF f = Root THEN TRUE ELSE "forked"
  OBVIOUS
<1>3. PICK w : w = Write(t, f, k, v)
  OBVIOUS
<1>4. /\ k \in Columns /\ f \in Flows /\ f \notin Children(f) /\ Root \notin Children(f)
      /\ Children(f) \subseteq Flows
  <2>1. f \notin Children(f)
    <3>1. ASSUME f \in Children(f) PROVE FALSE
      <4>1. f \in Paths /\ Host[f] = f
        BY <3>1, Sorts
      <4>2. {f} \in (SUBSET Paths) \ {{}}
        BY <4>1
      <4> QED BY <4>1, <4>2, NestingAssumption
    <3> QED BY <3>1
  <2> QED BY <1>1, <2>1, Sorts DEF Columns
<1>5. w \in Transactions
  BY <1>1, <1>2, <1>3, <1>4, WriteType DEF Status, Columns
<1>6. /\ Becomes(t, w, {<<f, k>>}, {}) /\ (k = "st" => St(w, row, f) = v)
      /\ k = "counted" => w.mem[f].counted = v
  BY <1>3, <1>4, <1>5, WriteBecomes
<1>7. u = Spawned(w, f)
  BY <1>1, <1>2, <1>3 DEF Forked
<1>8. u \in Transactions
  BY ForkedType
<1>9. Becomes(w, u, Children(f) \X {"st", "at"}, {})
  BY <1>5, <1>7, <1>8, SpawnBecomes
<1>10. \A q \in Children(f) : St(u, row, q) = "active" /\ At(u, row, q) = 1
  BY <1>5, <1>7, SpawnElse
<1>11. Becomes(t, u, ForkColumns(f), {})
  <2>1. {<<f, k>>} \cup Children(f) \X {"st", "at"} = ForkColumns(f)
    BY <1>1 DEF ForkColumns
  <2>2. {} \cup {} = {}
    OBVIOUS
  <2>3. Becomes(t, u, {<<f, k>>} \cup Children(f) \X {"st", "at"}, {} \cup {})
    BY <1>6, <1>9, BecomesBecomes
  <2> QED BY <2>1, <2>2, <2>3
<1>12. CASE f = Root
  <2>1. <<Root, "counted">> \in w.dirty /\ w.mem[Root].counted
    BY <1>1, <1>2, <1>6, <1>12 DEF Becomes, Alike, Else
  <2>2. <<Root, "counted">> \notin Children(f) \X {"st", "at"}
    OBVIOUS
  <2> QED BY <1>9, <1>10, <1>11, <1>12, <2>1, <2>2 DEF Becomes, Recalls
<1>13. CASE f # Root
  <2>1. St(w, row, f) = "forked"
    BY <1>1, <1>2, <1>6, <1>13
  <2>2. <<f, "st">> \notin Children(f) \X {"st", "at"}
    BY <1>4
  <2> QED BY <1>4, <1>9, <1>10, <1>11, <1>13, <2>1, <2>2 DEF Becomes, Alike, Else
<1> QED BY <1>12, <1>13

\* Calls for the first step of a path are behind no fork.
LEMMA FirstStepOnly ==
  ASSUME NEW c, \A i \in DOMAIN c : c[i].do \in {"process", "join"},
         \A i \in DOMAIN c : c[i].do \in AtStep => c[i].step = 1
  PROVE  \A i \in DOMAIN c : \A g \in Forks : ~Behind(c[i], g)
<1> SUFFICES ASSUME NEW i \in DOMAIN c, NEW g \in Forks PROVE ~Behind(c[i], g)
  OBVIOUS
<1>1. PICK d : d = c[i]
  OBVIOUS
<1>2. d.do \in {"process", "join"} /\ (d.do \in AtStep => d.step = 1)
  BY <1>1
<1>3. ~Behind(d, g)
  BY <1>2 DEF Behind, ForkStep, AtStep
<1> QED BY <1>1, <1>3

\* A flow enters its fork.
LEMMA SpawnOrphan ==
  ASSUME OrphanInv, ForkInv, Base, Base', NEW s \in Sessions, NEW do, do = "process", Running(s, do),
         NEW a, a = Head(tx[s].calls), NEW f, f = a.flow, TypeAt(f, a.step) = "fork",
         NEW l \in Transactions, Becomes(tx[s], l, {}, {}), NEW t, t = Forked(l, f),
         UNCHANGED dbVars, contested \subseteq contested', causes \subseteq causes',
         NEW c, c = ForkCalls(f), Returns(s, t, c)
  PROVE  OrphanInv'
<1>1. /\ tx[s].calls # <<>> /\ TypeOK /\ OnceInv /\ JoinInv /\ row \in Rows /\ do \in AtStep
      /\ tx[s] \in Transactions
  BY DEF Running, Base, AtStep, TypeOK
<1>2. tx[s].op # "goal"
  BY <1>1, GoalTop DEF AtStep
<1>3. Top(s, do, a)
  BY <1>1, TopStep
<1>4. f \in Forks /\ a.step = ForkStep /\ f \in Flows
  BY <1>3, ForkType DEF Top
<1>5. \A q \in Children(f) : Unborn(tx[s], row, q)
  <2>1. Entering(a)
    BY <1>3, <1>4 DEF Entering, Top
  <2> QED BY Zenon, <1>3, <2>1 DEF Top, EnterGood
<1>6. PICK D : D = ForkColumns(f)
  OBVIOUS
<1>7. PICK L : L = {}
  OBVIOUS
<1>8. /\ Becomes(l, t, D, {})
      /\ \A q \in Children(f) : St(t, row, q) = "active" /\ At(t, row, q) = 1
      /\ IF f = Root THEN t.mem[Root].counted ELSE St(t, row, f) = "forked"
  BY <1>1, <1>4, <1>6, ForkedBecomes
<1>9. Becomes(tx[s], t, D, L)
  <2>1. {} \cup D = D /\ {} \cup {} = L
    BY <1>7
  <2> QED BY <1>8, <2>1, BecomesBecomes
<1>10. c \in Seq(Calls) /\ \A i \in DOMAIN c : \A g \in Forks : ~Behind(c[i], g)
  <2>1. c \in Seq(Calls)
    BY <1>4, ForkCallsType
  <2>2. \A i \in DOMAIN c : c[i].do \in {"process", "join"}
    BY <1>4, ForkCallsDo
  <2>3. \A i \in DOMAIN c : c[i].do \in AtStep => c[i].step = 1
    BY <1>4, ForkCallsIs
  <2> QED BY <2>1, <2>2, <2>3, FirstStepOnly
<1>11. PICK u : u = Stacked(tx[s], t, c)
  OBVIOUS
<1>12. ASSUME Makes(s, u, D, L, c), Staying(tx[s]), Calm' PROVE Grounded(s, u, D, L, c)
  <2>1. u.mem = t.mem /\ u.dirty = t.dirty /\ u.dirty = tx[s].dirty \cup D
    BY <1>9, <1>11 DEF Stacked, Becomes, Transactions, Alike, Else
  <2>2. /\ \A q : <<q, "st">> \in D => q \in Children(f) \/ (q = f /\ f # Root)
        /\ \A q : <<q, "at">> \in D => q \in Children(f)
        /\ \A q : <<q, "counted">> \in D <=> q = f /\ f = Root
    BY Zenon, <1>6 DEF ForkColumns
  <2>3. \A q : <<q, "st">> \in D => St(u, row, q) \notin Over /\ KnownSt(u, row, q) \notin Over
    BY <1>8, <2>1, <2>2 DEF St, KnownSt, Over
  <2>4. \A q : <<q, "at">> \in D => ~(KnownAt(u, row, q) > ForkStep) /\ ~(At(u, row, q) > ForkStep)
    <3>1. \A q : <<q, "at">> \in D => At(t, row, q) = 1
      BY Zenon, <1>8, <2>2
    <3>2. \A q : <<q, "at">> \in D => KnownAt(u, row, q) = 1 /\ At(u, row, q) = 1
      BY <2>1, <3>1 DEF At, KnownAt
    <3> QED BY <3>2 DEF ForkStep
  <2>5. ASSUME NEW p \in Tame', <<p, "st">> \in D PROVE St(tx[s], row, p) \notin Over
    <3>1. CASE p \in Children(f)
      BY <1>5, <3>1 DEF Unborn, St, Over
    <3>2. CASE p = f
      <4>1. p \in Tame
        BY TameLess
      <4>2. On(tx[s].calls, p) # {}
        BY <1>1, <3>2, TopThere
      <4> QED BY <4>1, <4>2 DEF ForkInv, Sound, Over
    <3> QED BY <2>2, <2>5, <3>1, <3>2
  <2>6. <<Root, "st">> \notin D
    BY <1>4, <2>2, Sorts
  <2>7. <<Root, "counted">> \in D => u.mem[Root].counted
    BY Zenon, <1>8, <2>1, <2>2
  <2>8. ASSUME \A q \in Paths : row[q].st = "none" PROVE <<Root, "counted">> \in u.dirty
    <3>1. CASE f = Root
      BY <2>1, <2>2, <3>1
    <3>2. CASE f # Root
      <4>1. f \in Paths
        BY <1>4, <3>2, Sorts
      <4>2. St(tx[s], row, f) # "none"
        BY <1>1, TopThere
      <4>3. Spawns(tx[s], row, f)
        BY <2>8, <4>1, <4>2 DEF Spawns, St
      <4> QED BY <1>12, <2>1, <2>8, <4>1, <4>3 DEF Staying, Counting
    <3> QED BY <3>1, <3>2
  <2> QED BY <1>7, <1>10, <2>3, <2>4, <2>5, <2>6, <2>7, <2>8 DEF Grounded
<1> QED BY <1>1, <1>2, <1>9, <1>10, <1>11, <1>12, ReturnOrphan

LEMMA ProcessOrphan ==
  ASSUME OrphanInv, ForkInv, Base, Base', NEW s \in Sessions, ProcessStep(s) PROVE OrphanInv'
<1>1. PICK do : do = "process"
  OBVIOUS
<1>2. /\ Running(s, do) /\ do \in AtStep /\ UNCHANGED dbVars
      /\ contested \subseteq contested' /\ causes \subseteq causes' /\ TypeOK
      /\ tx[s] \in Transactions /\ row \in Rows /\ Root \in Flows /\ Flows = {Root} \cup Paths
  BY Zenon, <1>1, Sorts DEF ProcessStep, AtStep, Base, TypeOK
<1>3. PICK a : a = Head(tx[s].calls)
  OBVIOUS
<1>4. PICK k : k = TypeAt(a.flow, a.step)
  OBVIOUS
<1>5. PICK l : l = LookAtFunnel(tx[s])
  OBVIOUS
<1>6. l \in Transactions /\ Becomes(tx[s], l, {}, {})
  BY <1>2, <1>5, LookBecomes DEF Becomes
<1>7. PICK D : D = {}
  OBVIOUS
<1>8. Becomes(tx[s], l, D, {}) /\ Quiet(D)
  BY <1>6, <1>7 DEF Quiet
<1>9. a \in Calls /\ a.do = do /\ a.flow \in Flows /\ a.step \in Nat /\ <<a.flow, a.step>> \in Steps
  BY <1>2, <1>3, TopCall, StepOf
<1>10. PICK d : d = Call("act", a.flow, a.step)
  OBVIOUS
<1>11. d \in Calls
  BY <1>9, <1>10, CallType DEF AtStep
<1>12. CASE Returns(s, l, <<>>)
  <2>1. PICK c : c = <<>>
    OBVIOUS
  <2>2. c \in Seq(Calls) /\ DOMAIN c = {} /\ Returns(s, l, c)
    BY <1>12, <2>1
  <2>3. tx[s].calls # <<>> /\ tx[s].op # "goal"
    BY <1>1, <1>2, GoalTop DEF Running
  <2> QED BY <1>2, <1>8, <2>2, <2>3, QuietOrphan
<1>13. CASE k = "action" /\ Returns(s, l, <<d>>)
  <2>1. PICK c : c = <<d>>
    OBVIOUS
  <2>2. Continues(do, a, d)
    BY <1>1, <1>4, <1>10, <1>13 DEF Continues, Call, AtStep
  <2>3. Returns(s, l, c)
    BY <1>13, <2>1
  <2> QED BY <1>2, <1>3, <1>8, <1>11, <2>1, <2>2, <2>3, ContinueOrphan
<1>14. CASE k = "exit" /\ a.flow = Root /\ Returns(s, l, <<Call("complete", Root, 0)>>)
  <2>1. PICK e : e = Call("complete", Root, 0)
    OBVIOUS
  <2>2. PICK c : c = <<e>>
    OBVIOUS
  <2>3. e \in Calls
    BY <1>2, <2>1, CallType
  <2>4. Continues(do, a, e)
    BY <1>1, <1>4, <1>14, <2>1 DEF Continues, Call
  <2>5. Returns(s, l, c)
    BY <1>14, <2>1, <2>2
  <2> QED BY <1>2, <1>3, <1>8, <2>2, <2>3, <2>4, <2>5, ContinueOrphan
<1>15. CASE k = "exit" /\ a.flow # Root /\ Returns(s, Write(l, a.flow, "st", "exited"), <<Call("join", Host[a.flow], 0)>>)
  <2>1. a.flow \in Paths
    BY <1>2, <1>9, <1>15
  <2>2. PICK v : v = "exited"
    OBVIOUS
  <2>3. PICK t : t = Write(l, a.flow, "st", v)
    OBVIOUS
  <2>4. v \in Over /\ Returns(s, t, <<Call("join", Host[a.flow], 0)>>)
    BY <1>15, <2>2, <2>3 DEF Over
  <2>5. IF do = "process" THEN TypeAt(a.flow, a.step) \notin {"none", "wait", "fork"}
                          ELSE ~HasNext(a.flow, a.step)
    BY <1>1, <1>4, <1>15
  <2> QED BY <1>2, <1>3, <1>6, <2>1, <2>3, <2>4, <2>5, OverOrphan
<1>16. CASE k = "fork" /\ Returns(s, Forked(l, a.flow), ForkCalls(a.flow))
  <2>1. PICK f : f = a.flow
    OBVIOUS
  <2>2. PICK t : t = Forked(l, f)
    OBVIOUS
  <2>3. PICK c : c = ForkCalls(f)
    OBVIOUS
  <2>4. Returns(s, t, c) /\ TypeAt(f, a.step) = "fork"
    BY <1>4, <1>16, <2>1, <2>2, <2>3
  <2> QED BY <1>1, <1>2, <1>3, <1>6, <2>1, <2>2, <2>3, <2>4, SpawnOrphan
<1>17. PICK e : e = Call("resolve", a.flow, a.step)
  OBVIOUS
<1>18. CASE /\ k = "wait_until"
            /\ \E c \in {<<>>, <<e>>} :
                 Returns(s, Write(l, Root, "resolved", Known(l, Root).resolved \ {<<a.flow, a.step>>}), c)
  <2>1. PICK v : v = Known(l, Root).resolved \ {<<a.flow, a.step>>}
    OBVIOUS
  <2>2. v \in SUBSET Steps
    <3>1. Known(l, Root) \in Row
      BY <1>2, <1>6, KnownType
    <3> QED BY <2>1, <3>1 DEF Row
  <2>3. PICK t : t = Write(l, Root, "resolved", v)
    OBVIOUS
  <2>4. PICK c : (c = <<>> \/ c = <<e>>) /\ Returns(s, t, c)
    BY <1>18, <2>1, <2>3
  <2>5. PICK E : E = {<<Root, "resolved">>}
    OBVIOUS
  <2>6. Becomes(l, t, E, {}) /\ Quiet(E)
    BY <1>2, <1>6, <2>2, <2>3, <2>5, MarkBecomes
  <2>7. Becomes(tx[s], t, E, {})
    <3>1. {} \cup E = E /\ {} \cup {} = {}
      OBVIOUS
    <3>2. Becomes(tx[s], t, {} \cup E, {} \cup {})
      BY <1>6, <2>6, BecomesBecomes
    <3> QED BY <3>1, <3>2
  <2>8. e \in Calls /\ Continues(do, a, e)
    BY <1>1, <1>4, <1>9, <1>17, <1>18, CallType DEF Continues, Call, AtStep
  <2> QED BY <1>2, <1>3, <2>4, <2>6, <2>7, <2>8, ContinueOrphan
<1> QED BY <1>3, <1>4, <1>5, <1>10, <1>12, <1>13, <1>14, <1>15, <1>16, <1>17, <1>18 DEF ProcessStep

\* Who joins a fork knows its threads to be over, and these are behind their own.
LEMMA JoinedGone ==
  ASSUME ForkInv, JoinInv, TypeOK, NEW s \in Sessions, NEW f \in Forks, Passed(tx[s]),
         \A p \in Children(f) : KnownSt(tx[s], row, p) \in Over
  PROVE  Gone(tx[s], f)
<1> SUFFICES ASSUME NEW p \in Inner(f) \cap Tame PROVE St(tx[s], row, p) \in Over
  BY DEF Gone
<1>1. f \in Flows /\ Children(f) \subseteq Paths
  BY Sorts
<1>2. CASE p \in Children(f)
  <2>1. Sound(s)
    BY DEF ForkInv
  <2> QED BY <1>2, <2>1 DEF Sound
<1>3. CASE p \notin Children(f)
  <2>1. PICK g \in Children(f) : g \in Forks /\ p \in Inner(g)
    BY <1>1, <1>3, InnerSplit
  <2>2. Knows(tx[s], g)
    BY <1>1, <2>1 DEF Knows
  <2>3. Gone(tx[s], g)
    BY <2>1, <2>2 DEF Passed, Past
  <2> QED BY <2>1, <2>3 DEF Gone
<1> QED BY <1>2, <1>3

LEMMA JoinedOrphan ==
  ASSUME OrphanInv, ForkInv, Base, Base', NEW s \in Sessions, Running(s, "join"),
         NEW f, f = Head(tx[s].calls).flow, NEW l, l = Load(tx[s], Paths),
         StillActive(l, f) = {}, Members(l, f) # {},
         NEW t, t = [l EXCEPT !.log = @ \cup {f}], Returns(s, t, <<Call("leave", f, 0)>>),
         causes \subseteq causes',
         (\E p \in Members(l, f) : Known(l, p).st = "forked") => "overtaken" \in causes',
         UNCHANGED dbVars, UNCHANGED contested
  PROVE  OrphanInv'
<1>1. /\ tx[s] \in Transactions /\ row \in Rows /\ TypeOK /\ JoinInv /\ tx[s].calls # <<>>
      /\ Paths \in SUBSET Flows
  BY Sorts DEF Base, TypeOK, Running
<1>2. f \in Forks /\ f \in Flows /\ Children(f) \subseteq Paths
  <2>1. PICK a : a = Head(tx[s].calls)
    OBVIOUS
  <2>2. a \in Calls /\ a.do = "join" /\ a.flow = f
    BY <1>1, <2>1, TopCall
  <2>3. f \in Forks
    BY <2>2 DEF Calls, AtFork
  <2> QED BY <2>3, Sorts
<1>3. Becomes(tx[s], l, {}, {}) /\ l \in Transactions
  BY <1>1, LoadBecomes DEF Becomes
<1>4. PICK D : D = {}
  OBVIOUS
<1>5. PICK L : L = {f}
  OBVIOUS
<1>6. Becomes(tx[s], t, D, L)
  <2>1. /\ t.op = l.op /\ t.dirty = l.dirty /\ t.log = l.log \cup {f} /\ t.mem = l.mem
        /\ t.read = l.read /\ t.acted = l.acted /\ t \in Transactions
    BY <1>2, <1>3 DEF Transactions
  <2>2. \A p : KnownSt(t, row, p) = KnownSt(l, row, p) /\ St(t, row, p) = St(l, row, p)
               /\ At(t, row, p) = At(l, row, p)
    BY <2>1 DEF KnownSt, St, At
  <2>3. Alike(l, t, {}, {f})
    BY <2>1, <2>2 DEF Alike, Else
  <2>4. Recalls(l, t, {})
    BY <2>1, SameRecalls
  <2>5. {} \cup {} = D /\ {} \cup {f} = L
    BY <1>4, <1>5
  <2>6. Becomes(l, t, {}, {f})
    BY <2>1, <2>3, <2>4 DEF Becomes
  <2>7. Becomes(tx[s], t, {} \cup {}, {} \cup {f})
    BY <1>3, <2>6, BecomesBecomes
  <2> QED BY <2>5, <2>7
<1>7. PICK d : d = Call("leave", f, 0)
  OBVIOUS
<1>8. PICK c : c = <<d>>
  OBVIOUS
<1>9. d \in Calls /\ c \in Seq(Calls) /\ Returns(s, t, c)
  BY <1>2, <1>7, <1>8, CallType DEF AtFork
<1>10. PICK u : u = Stacked(tx[s], t, c)
  OBVIOUS
<1>11. ASSUME Calm', Makes(s, u, D, L, c), Staying(tx[s]) PROVE Grounded(s, u, D, L, c)
  <2>1. "overtaken" \notin causes'
    BY <1>11 DEF Calm
  <2>2. ASSUME NEW p \in Children(f) PROVE KnownSt(tx[s], row, p) \in Over
    <3>1. KnownSt(l, row, p) # "forked"
      <4>1. Known(l, p).st = KnownSt(l, row, p)
        BY DEF Known, KnownSt, Columns
      <4> QED BY <2>1, <2>2, <4>1 DEF Members
    <3> QED BY <1>1, <1>2, <2>2, <3>1, KnownOver
  <2>3. Gone(tx[s], f)
    BY <1>1, <1>2, <1>11, <2>2, JoinedGone DEF Staying
  <2>4. \A g \in Forks : \A i \in DOMAIN c : ~Behind(c[i], g)
    <3>1. \A g : ~Behind(d, g)
      BY <1>7, AsideBehind
    <3> QED BY <1>8, <3>1
  <2>5. \A x : x \notin D
    BY <1>4
  <2>6. \A g \in L : Gone(tx[s], g)
    BY <1>5, <2>3
  <2> QED BY <2>4, <2>5, <2>6 DEF Grounded
<1>12. tx[s].op # "goal"
  BY <1>1, GoalTop
<1> QED BY <1>1, <1>6, <1>9, <1>10, <1>11, <1>12, ReturnOrphan

LEMMA CheckOrphan ==
  ASSUME OrphanInv, ForkInv, Base, Base', NEW s \in Sessions, CheckForkJoin(s) PROVE OrphanInv'
<1>1. PICK f : f = Head(tx[s].calls).flow
  OBVIOUS
<1>2. PICK l : l = Load(tx[s], Paths)
  OBVIOUS
<1>3. Running(s, "join") /\ UNCHANGED dbVars /\ UNCHANGED contested /\ causes \subseteq causes'
  BY DEF CheckForkJoin
<1>4. CASE StillActive(l, f) # {} \/ Members(l, f) = {} \/ Joined(l, f)
  <2>1. PICK c : Returns(s, l, c) /\ c = <<>>
    BY <1>1, <1>2, <1>4 DEF CheckForkJoin
  <2>2. PICK D : D = {}
    OBVIOUS
  <2>3. Becomes(tx[s], l, D, {}) /\ Quiet(D)
    BY <1>2, <2>2, LoadBecomes, Sorts DEF Base, TypeOK, Quiet
  <2>4. tx[s].calls # <<>> /\ tx[s].op # "goal"
    BY <1>3, GoalTop DEF Base, Running
  <2>5. c \in Seq(Calls) /\ DOMAIN c = {}
    BY <2>1
  <2> QED BY <1>3, <2>1, <2>3, <2>4, <2>5, QuietOrphan
<1>5. CASE ~(StillActive(l, f) # {} \/ Members(l, f) = {} \/ Joined(l, f))
  <2>1. PICK t : t = [l EXCEPT !.log = @ \cup {f}] /\ Returns(s, t, <<Call("leave", f, 0)>>)
    BY <1>1, <1>2, <1>5 DEF CheckForkJoin
  <2>2. (\E p \in Members(l, f) : Known(l, p).st = "forked") => "overtaken" \in causes'
    BY <1>1, <1>2, <1>5 DEF CheckForkJoin
  <2> QED BY <1>1, <1>2, <1>3, <1>5, <2>1, <2>2, JoinedOrphan
<1> QED BY <1>4, <1>5

\* Whoever has joined a fork goes on behind it.
LEMMA LeaveOrphan ==
  ASSUME OrphanInv, ForkInv, Base, Base', NEW s \in Sessions, ContinueAfterFork(s) PROVE OrphanInv'
<1>1. /\ tx[s] \in Transactions /\ row \in Rows /\ TypeOK /\ OnceInv /\ JoinInv
      /\ Root \in Flows /\ Root \notin Paths /\ Paths \subseteq Flows /\ Flows = {Root} \cup Paths
      /\ ForkStep = 2 /\ AfterFork = 3
  BY Sorts DEF Base, TypeOK, AfterFork
<1>2. /\ Running(s, "leave") /\ tx[s].calls # <<>> /\ UNCHANGED dbVars /\ causes \subseteq causes'
  BY DEF ContinueAfterFork, Running
<1>3. tx[s].op # "goal"
  BY <1>1, <1>2, GoalTop
<1>4. PICK f : f = Head(tx[s].calls).flow
  OBVIOUS
<1>5. f \in Forks /\ f \in Flows /\ f \in tx[s].log
  <2>1. PICK a : a = Head(tx[s].calls)
    OBVIOUS
  <2>2. a \in Calls /\ a.do = "leave" /\ a.flow = f
    BY <1>1, <1>2, <1>4, <2>1, TopCall
  <2>3. f \in Forks
    BY <2>2 DEF Calls, AtFork
  <2>4. a = tx[s].calls[1] /\ 1 \in DOMAIN tx[s].calls
    BY <1>1, <1>2, <2>1, OnlyTop
  <2>5. Ordered(s)
    BY DEF ForkInv
  <2> QED BY <2>2, <2>3, <2>4, <2>5, Sorts DEF Ordered
<1>6. Past(tx[s], f)
  BY <1>5 DEF Past
<1>7. Becomes(tx[s], tx[s], {}, {})
  <2>1. Alike(tx[s], tx[s], {}, {})
    BY DEF Alike, Else
  <2> QED BY <1>1, <2>1, SameRecalls DEF Becomes
<1>8. PICK L : L = {}
  OBVIOUS
<1>9. PICK main : main = Write(tx[s], Root, "counted", FALSE)
  OBVIOUS
<1>10. PICK M : M = {<<Root, "counted">>}
  OBVIOUS
<1>11. Becomes(tx[s], main, M, L) /\ main \in Transactions
  <2>1. PICK k : k = "counted"
    OBVIOUS
  <2>2. PICK v : v = FALSE
    OBVIOUS
  <2>3. k \in Columns /\ main = Write(tx[s], Root, k, v) /\ M = {<<Root, k>>}
    BY <1>9, <1>10, <2>1, <2>2 DEF Columns
  <2>4. main \in Transactions
    BY <1>1, <2>1, <2>2, <2>3, WriteType
  <2> QED BY <1>1, <1>8, <2>3, <2>4, WriteBecomes
<1>12. CASE /\ f # Root /\ Known(tx[s], f).st = "forked"
            /\ GoesOn(s, f, "forked", ForkStep)
            /\ Returns(s, Write(tx[s], f, "st", "active"), <<Call("advance", f, ForkStep)>>)
  <2>1. PICK k : k = "st"
    OBVIOUS
  <2>2. PICK v : v = "active"
    OBVIOUS
  <2>3. PICK d : d = Call("advance", f, ForkStep)
    OBVIOUS
  <2>4. PICK c : c = <<d>>
    OBVIOUS
  <2>5. PICK t : t = Write(tx[s], f, k, v) /\ Returns(s, t, c)
    BY <1>12, <2>1, <2>2, <2>3, <2>4
  <2>6. PICK D : D = {<<f, k>>}
    OBVIOUS
  <2>7. Becomes(tx[s], t, D, L)
    <3>1. k \in Columns
      BY <2>1 DEF Columns
    <3>2. t \in Transactions
      BY <1>1, <1>5, <2>1, <2>2, <2>5, <3>1, WriteType DEF Status
    <3> QED BY <1>1, <1>5, <1>8, <2>5, <2>6, <3>1, <3>2, WriteBecomes
  <2>8. d \in Calls
    BY <1>5, <2>3, ForkAt, CallType, Scripts DEF AtStep
  <2>9. c \in Seq(Calls)
    BY <2>4, <2>8
  <2>10. PICK u : u = Stacked(tx[s], t, c)
    OBVIOUS
  <2>11. contested \subseteq contested' /\ (f \in Tame' => St(tx[s], row, f) = "forked")
    BY <1>5, <1>12, GoesOnIs DEF Tame
  <2>12. /\ \A q : <<q, "st">> \in D => q = f
         /\ \A q : <<q, "at">> \notin D /\ <<q, "counted">> \notin D
    BY <2>1, <2>6
  <2>13. \A g \in Forks : \A i \in DOMAIN c : Behind(c[i], g) => Past(tx[s], g)
    <3>1. \A g : Behind(d, g) => g = f
      BY <2>3 DEF Behind, Call, AtStep
    <3> QED BY <1>6, <2>4, <3>1
  <2>14. St(tx[s], row, f) # "none"
    <3>1. KnownSt(tx[s], row, f) = "forked"
      BY <1>12 DEF Known, KnownSt, Columns
    <3>2. Seen(tx[s], row) /\ f \in Paths
      BY <1>1, <1>5, <1>12 DEF JoinInv, Good
    <3> QED BY <3>1, <3>2 DEF KnownSt, Seen, St
  <2>15. (\A q \in Paths : row[q].st = "none") => \A q \in Paths : <<q, "st">> \notin D \ tx[s].dirty
    BY <1>1, <1>5, <1>12, <2>12, <2>14 DEF St
  <2>16. "forked" \notin Over
    BY DEF Over
  <2>17. Grounded(s, u, D, L, c)
    BY <1>6, <1>8, <1>12, <2>11, <2>12, <2>13, <2>15, <2>16 DEF Grounded
  <2> QED BY <1>2, <1>3, <2>5, <2>7, <2>9, <2>10, <2>11, <2>17, ReturnOrphan
<1>13. CASE Returns(s, tx[s], <<>>) /\ UNCHANGED contested
  <2>1. PICK c : Returns(s, tx[s], c) /\ c = <<>>
    BY <1>13
  <2>2. PICK D : D = {}
    OBVIOUS
  <2>3. Becomes(tx[s], tx[s], D, {}) /\ Quiet(D)
    BY <1>7, <2>2 DEF Quiet
  <2>4. c \in Seq(Calls) /\ DOMAIN c = {}
    BY <2>1
  <2> QED BY <1>2, <1>3, <1>13, <2>1, <2>3, <2>4, QuietOrphan
<1>14. ASSUME f = Root, NEW t, NEW E, E \subseteq {<<Root, "at">>}, Becomes(tx[s], t, M \cup E, L),
              NEW d \in Calls, d.flow = Root, NEW c, c = <<d>>, Returns(s, t, c), contested \subseteq contested'
       PROVE  OrphanInv'
  <2>1. PICK D : D = M \cup E
    OBVIOUS
  <2>2. /\ \A q : <<q, "st">> \notin D
        /\ \A q : <<q, "at">> \in D \/ <<q, "counted">> \in D => q = Root
    BY <1>10, <1>14, <2>1
  <2>3. c \in Seq(Calls)
    BY <1>14
  <2>4. PICK u : u = Stacked(tx[s], t, c)
    OBVIOUS
  <2>5. \A g : Behind(d, g) => g = Root
    BY <1>14 DEF Behind, AtStep
  <2>6. \A g \in Forks : \A i \in DOMAIN c : Behind(c[i], g) => Past(tx[s], g)
    BY <1>6, <1>14, <2>5
  <2>7. ASSUME Staying(tx[s]) PROVE Grounded(s, u, D, L, c)
    <3>1. Gone(tx[s], Root)
      BY <1>5, <1>6, <1>14, <2>7 DEF Staying, Passed
    <3> QED BY <1>6, <1>8, <1>14, <2>2, <2>6, <3>1 DEF Grounded
  <2>8. Becomes(tx[s], t, D, L)
    BY <1>14, <2>1
  <2> QED BY <1>2, <1>3, <1>14, <2>3, <2>4, <2>7, <2>8, ReturnOrphan
<1>15. CASE /\ f = Root /\ HasNext(Root, ForkStep) /\ contested \subseteq contested'
            /\ Returns(s, Write(main, Root, "at", AfterFork), <<Call("process", Root, AfterFork)>>)
  <2>1. PICK k : k = "at"
    OBVIOUS
  <2>2. PICK v : v = AfterFork
    OBVIOUS
  <2>3. PICK d : d = Call("process", Root, v)
    OBVIOUS
  <2>4. PICK c : c = <<d>>
    OBVIOUS
  <2>5. PICK t : t = Write(main, Root, k, v) /\ Returns(s, t, c)
    BY <1>15, <2>1, <2>2, <2>3, <2>4
  <2>6. v \in 1 .. Len(Script[Root]) /\ v \in 0 .. Len(Script[Root])
    BY <1>1, <1>15, <2>2, Scripts DEF HasNext
  <2>7. k \in Columns /\ t \in Transactions
    BY <1>1, <1>11, <2>1, <2>5, <2>6, WriteType DEF Columns
  <2>8. PICK E : E = {<<Root, k>>}
    OBVIOUS
  <2>9. Becomes(main, t, E, {})
    BY <1>1, <1>11, <2>5, <2>7, <2>8, WriteBecomes
  <2>10. Becomes(tx[s], t, M \cup E, L \cup {})
    BY <1>11, <2>9, BecomesBecomes
  <2>11. L \cup {} = L /\ E \subseteq {<<Root, "at">>}
    BY <2>1, <2>8
  <2>12. d \in Calls /\ d.flow = Root
    BY <1>1, <2>3, <2>6, CallType, Scripts DEF Call, AtStep
  <2> QED BY <1>14, <1>15, <2>4, <2>5, <2>10, <2>11, <2>12
<1>16. CASE /\ f = Root /\ contested \subseteq contested'
            /\ Returns(s, main, <<Call("complete", Root, 0)>>)
  <2>1. PICK d : d = Call("complete", Root, 0)
    OBVIOUS
  <2>2. PICK c : c = <<d>>
    OBVIOUS
  <2>3. d \in Calls /\ d.flow = Root /\ Returns(s, main, c)
    BY <1>1, <1>16, <2>1, <2>2, CallType DEF Call
  <2>4. PICK E : E = {}
    OBVIOUS
  <2>5. E \subseteq {<<Root, "at">>} /\ M \cup E = M
    BY <2>4
  <2>6. Becomes(tx[s], main, M \cup E, L)
    BY <1>11, <2>5
  <2> QED BY <1>14, <1>16, <2>2, <2>3, <2>5, <2>6
<1>17. f = Root => contested \subseteq contested'
  BY <1>4 DEF ContinueAfterFork, GoesOn
<1> QED BY <1>4, <1>9, <1>12, <1>13, <1>15, <1>16, <1>17 DEF ContinueAfterFork

-----------------------------------------------------------------------------
(* The list of a transaction. *)

\* A step that waits, of a fork's flow, and not in front of the fork is behind it.
LEMMA WaitsBehind ==
  ASSUME NEW f \in Forks, NEW i, TypeAt(f, i) \notin {"none", "fork"}, NEW d, d.do # "process",
         d.flow = f, d.step = i, Behind(d, f), d.do \in AtStep
  PROVE  i \in Nat /\ i > ForkStep
<1>1. i >= ForkStep
  BY DEF Behind, AtStep
<1>2. Script[f][1] = "wait" /\ Script[f][ForkStep] = "fork" /\ ForkStep \in DOMAIN Script[f] /\ ForkStep = 2
  BY FunnelAssumption, ForkAt, Scripts DEF Forks, ForkStep
<1>3. i # ForkStep
  BY <1>2 DEF TypeAt
<1>4. f \in Flows
  BY Sorts
<1>5. i \in Nat
  BY <1>4, Scripts
<1> QED BY <1>1, <1>2, <1>3, <1>5

\* What the list's next is taken for.
LEMMA TakenOrphan ==
  ASSUME OrphanInv, ForkInv, Base, NEW s \in Sessions, tx[s].op # "none", tx[s].calls = <<>>,
         NEW p \in tx[s].todo, NEW t, Becomes(tx[s], t, {}, {}), UNCHANGED dbVars,
         contested \subseteq contested', causes \subseteq causes',
         NEW c \in Seq(Calls),
         \A j \in DOMAIN c : c[j] # Call("recheck", Root, 0) =>
           /\ c[j].do \in {"advance", "resolve"} /\ c[j].flow = p
           /\ c[j].step = KnownAt(tx[s], row, p) /\ TypeAt(p, c[j].step) = Awaits(tx[s].op),
         NEW u, u = [t EXCEPT !.calls = c], tx' = [tx EXCEPT ![s] = u]
  PROVE  OrphanInv'
<1>1. TypeOK /\ tx[s] \in Transactions /\ t \in Transactions
  BY DEF Base, TypeOK, Becomes
<1>2. /\ u \in Transactions /\ u.calls = c /\ u.op = t.op /\ u.acted = t.acted /\ u.dirty = t.dirty
      /\ u.log = t.log /\ u.mem = t.mem /\ u.read = t.read
  BY <1>1 DEF Transactions
<1>3. PICK D : D = {}
  OBVIOUS
<1>4. PICK L : L = {}
  OBVIOUS
<1>5. Becomes(tx[s], u, D, L)
  <2>1. Becomes(tx[s], t, D, L)
    BY <1>3, <1>4
  <2> QED BY Zenon, <1>2, <2>1 DEF Becomes, Alike, Else, Recalls, KnownAt, KnownSt, At, St
<1>6. Makes(s, u, D, L, c)
  BY <1>2, <1>5 DEF Makes, Becomes, Onto, Below
<1>7. CASE Calm'
  <2>1. Calm
    BY <1>7, CalmBefore
  <2>2. row[Root].st # "exited" /\ Going
    BY <2>1 DEF OrphanInv, Exited
  <2>3. tx[s].op # "goal"
    BY <2>2 DEF Going, Leaving
  <2>4. ASSUME NEW f \in Forks, NEW j \in DOMAIN c, Behind(c[j], f) PROVE Past(tx[s], f)
    <3>1. PICK d : d = c[j]
      OBVIOUS
    <3>2. d # Call("recheck", Root, 0)
      BY <2>4, <3>1, AsideBehind
    <3>3. /\ d.do \in {"advance", "resolve"} /\ d.flow = p
          /\ d.step = KnownAt(tx[s], row, p) /\ TypeAt(p, d.step) = Awaits(tx[s].op)
      BY <3>1, <3>2
    <3>4. p = f /\ Behind(d, f) /\ d.do \in AtStep /\ d.do # "process"
      BY <2>4, <3>1, <3>3 DEF Behind, AtStep
    <3>5. Awaits(tx[s].op) \notin {"none", "fork"}
      BY <1>1 DEF Awaits, Transactions, Timers
    <3>6. d.step > ForkStep
      BY <3>3, <3>4, <3>5, WaitsBehind
    <3> QED BY <3>3, <3>4, <3>6 DEF Past, Knows
  <2>5. Grounded(s, u, D, L, c)
    BY <1>3, <1>4, <2>4 DEF Grounded
  <2> QED BY <1>1, <1>6, <2>2, <2>3, <2>5, LocalOrphan
<1>8. CASE ~Calm'
  <2>1. tx'[s].op # "none" /\ \A w \in Sessions \ {s} : tx'[w] = tx[w]
    BY <1>1, <1>2, <1>5 DEF TypeOK, Becomes, Alike, Else
  <2> QED BY <1>8, <2>1 DEF OrphanInv, Open
<1> QED BY <1>7, <1>8

LEMMA TakeOrphan ==
  ASSUME OrphanInv, ForkInv, Base, Base', NEW s \in Sessions, Take(s) PROVE OrphanInv'
<1> DEFINE old == tx[s]
           Main1(p) == old.op = "wait" /\ p = Root
           X(p) == IF Main1(p) THEN LookAtFunnel(old) ELSE old
           T(p) == [Load(X(p), {Root, p}) EXCEPT !.todo = @ \ {p}]
           I(p) == T(p).mem[p].at
           D(p) == Call(IF TypeAt(p, I(p)) = "wait_until" THEN "resolve" ELSE "advance", p, I(p))
           R(p) == IF p = Root \/ TypeAt(p, I(p)) = "wait" THEN <<>> ELSE <<Call("recheck", Root, 0)>>
           Skipped(p) == \/ TypeAt(p, I(p)) # Awaits(old.op)
                         \/ Main1(p) /\ KnowsStopped(old)
                         \/ /\ TypeAt(p, I(p)) = "wait_until"
                            /\ \/ <<p, I(p)>> \in T(p).mem[Root].resolved
                               \/ old.op = TypeAt(p, I(p)) /\ p # Root /\ T(p).mem[Root].st # "active"
           C(p) == IF Skipped(p) THEN <<>> ELSE <<D(p)>> \o R(p)
<1>1. PICK p \in tx[s].todo :
        /\ tx' = [tx EXCEPT ![s] = [T(p) EXCEPT !.calls = C(p)]]
        /\ IF Skipped(p) THEN contested' = contested ELSE GoesOn(s, p, "active", I(p))
  BY DEF Take
<1>2. /\ UNCHANGED dbVars /\ causes \subseteq causes' /\ old.op # "none" /\ old.calls = <<>>
      /\ JoinInv /\ TypeOK
  BY Zenon DEF Take, Open, Base
<1>3. X(p) = old \/ X(p) = LookAtFunnel(old)
  OBVIOUS
<1>4. contested \subseteq contested'
  BY <1>1 DEF GoesOn
<1> HIDE DEF X, I, D, R, Skipped, C
<1>5. PICK t : t = T(p)
  OBVIOUS
<1>6. p \in Flows /\ old \in Transactions /\ row \in Rows
  BY <1>2, ListedIs DEF TypeOK
<1>7. Becomes(tx[s], t, {}, {}) /\ t.mem[p].at = KnownAt(tx[s], row, p)
  <2>1. PICK l : l = X(p)
    OBVIOUS
  <2>2. Becomes(old, l, {}, {}) /\ KnownAt(l, row, p) = KnownAt(old, row, p)
    <3>1. CASE l = old
      <4>1. Alike(old, old, {}, {})
        BY DEF Alike, Else
      <4> QED BY <1>6, <3>1, <4>1, SameRecalls DEF Becomes
    <3>2. CASE l = LookAtFunnel(old)
      <4>1. Becomes(old, l, {}, {})
        BY <1>6, <3>2, LookBecomes
      <4>2. l.mem = old.mem /\ l.read = old.read /\ l.dirty = old.dirty
        BY <1>6, <3>2 DEF LookAtFunnel, Transactions
      <4> QED BY <4>1, <4>2 DEF KnownAt
    <3> QED BY <1>3, <2>1, <3>1, <3>2
  <2>3. PICK P \in SUBSET Flows : P = {Root, p}
    BY <1>6, Sorts
  <2>4. PICK v : v = Load(l, P)
    OBVIOUS
  <2>5. l \in Transactions
    BY <2>2 DEF Becomes
  <2>6. Becomes(l, v, {}, {}) /\ v \in Transactions
    BY <1>6, <2>4, <2>5, LoadBecomes DEF Becomes
  <2>7. v.mem[p].at = KnownAt(l, row, p)
    BY <1>6, <2>3, <2>4, <2>5, LoadIs
  <2>8. t = [v EXCEPT !.todo = @ \ {p}]
    BY <1>5, <2>1, <2>3, <2>4
  <2>9. /\ t \in Transactions /\ t.dirty = v.dirty /\ t.op = v.op /\ t.acted = v.acted
        /\ t.mem = v.mem /\ t.read = v.read /\ t.log = v.log
    BY <2>6, <2>8 DEF Transactions
  <2>10. {} \cup {} = {}
    OBVIOUS
  <2>11. Becomes(old, v, {} \cup {}, {} \cup {})
    BY <2>2, <2>6, BecomesBecomes
  <2>12. Becomes(old, v, {}, {})
    BY <2>10, <2>11
  <2>13. Becomes(old, t, {}, {})
    BY Zenon, <2>9, <2>12 DEF Becomes, Alike, Else, Recalls, KnownAt, KnownSt, At, St
  <2> QED BY <2>2, <2>7, <2>9, <2>13
<1>8. PICK i, k : i = I(p) /\ k = TypeAt(p, i)
  OBVIOUS
<1>9. i = KnownAt(tx[s], row, p)
  BY <1>5, <1>7, <1>8 DEF I
<1>10. PICK c : c = C(p)
  OBVIOUS
<1>11. PICK e : e = Call("recheck", Root, 0)
  OBVIOUS
<1>12. PICK u : u = [t EXCEPT !.calls = c]
  OBVIOUS
<1>13. tx' = [tx EXCEPT ![s] = u]
  BY <1>1, <1>5, <1>10, <1>12
<1>14. e \in Calls
  BY <1>11, CallType, Sorts
<1>15. CASE Skipped(p)
  <2>1. c = <<>>
    BY <1>10, <1>15 DEF C
  <2>2. c \in Seq(Calls) /\ DOMAIN c = {}
    BY <2>1
  <2>3. \A j \in DOMAIN c : c[j] # Call("recheck", Root, 0) =>
          /\ c[j].do \in {"advance", "resolve"} /\ c[j].flow = p
          /\ c[j].step = KnownAt(tx[s], row, p) /\ TypeAt(p, c[j].step) = Awaits(tx[s].op)
    BY <2>2
  <2> HIDE DEF T, Main1
  <2> QED BY <1>2, <1>4, <1>7, <1>12, <1>13, <2>2, <2>3, TakenOrphan
<1>16. CASE ~Skipped(p)
  <2>1. PICK d : d = Call(IF k = "wait_until" THEN "resolve" ELSE "advance", p, i)
    OBVIOUS
  <2>2. d = D(p)
    BY <1>8, <2>1 DEF D
  <2>3. k = Awaits(tx[s].op)
    BY <1>8, <1>16 DEF Skipped
  <2>4. k # "none"
    BY <1>2, <1>6, <2>3 DEF Awaits, Transactions
  <2>5. d.do \in {"advance", "resolve"} /\ d.flow = p /\ d.step = i /\ d \in Calls
    <3>1. <<p, i>> \in Steps
      BY <1>6, <1>8, <2>4, Scripts
    <3>2. d = Call("resolve", p, i) \/ d = Call("advance", p, i)
      BY <2>1
    <3> QED BY <3>1, <3>2, CallType DEF Call, AtStep
  <2>6. PICK rest : rest = R(p)
    OBVIOUS
  <2>7. c = <<d>> \o rest
    BY <1>10, <1>16, <2>2, <2>6 DEF C
  <2>8. rest = <<>> \/ rest = <<e>>
    BY <1>11, <2>6 DEF R
  <2>9. c = <<d>> \/ c = <<d, e>>
    <3>1. CASE rest = <<>>
      BY <2>7, <3>1
    <3>2. CASE rest = <<e>>
      <4>1. c = <<d>> \o <<e>>
        BY <2>7, <3>2
      <4> QED BY <4>1, PairOf
    <3> QED BY <2>8, <3>1, <3>2
  <2>10. c \in Seq(Calls) /\ \A j \in DOMAIN c : c[j] = d \/ c[j] = e
    <3>1. CASE c = <<d>>
      <4>1. DOMAIN c = {1} /\ c[1] = d /\ c \in Seq(Calls)
        BY <2>5, <3>1
      <4> QED BY <4>1
    <3>2. CASE c = <<d, e>>
      <4>1. DOMAIN c = {1, 2} /\ c[1] = d /\ c[2] = e /\ c \in Seq(Calls)
        BY <1>14, <2>5, <3>2
      <4> QED BY <4>1
    <3> QED BY <2>9, <3>1, <3>2
  <2>11. TypeAt(p, d.step) = Awaits(tx[s].op) /\ d.step = KnownAt(tx[s], row, p)
    BY <1>8, <1>9, <2>3, <2>5
  <2>12. \A j \in DOMAIN c : c[j] # Call("recheck", Root, 0) =>
           /\ c[j].do \in {"advance", "resolve"} /\ c[j].flow = p
           /\ c[j].step = KnownAt(tx[s], row, p) /\ TypeAt(p, c[j].step) = Awaits(tx[s].op)
    BY <1>11, <2>5, <2>10, <2>11
  <2> HIDE DEF T, Main1
  <2> QED BY <1>2, <1>4, <1>7, <1>12, <1>13, <2>10, <2>12, TakenOrphan
<1> QED BY <1>15, <1>16

-----------------------------------------------------------------------------
(* A commit. *)

\* s commits, and is over or goes on behind its action, with what it has committed.
Resumes(s, u) ==
  /\ Commits(s, u)
  /\ \A f \in Flows : KnownAt(u, row', f) = row'[f].at /\ KnownSt(u, row', f) = row'[f].st
  /\ \/ u = NoTx /\ tx[s].calls = <<>> /\ tx[s].todo = {}
     \/ /\ u.op = tx[s].op /\ u.op \notin {"none", "goal"} /\ tx[s].calls # <<>>
        /\ DOMAIN u.calls = DOMAIN tx[s].calls
        /\ tx[s].calls[1].do = "act" /\ u.calls[1].do = "advance"
        /\ u.calls[1].flow = tx[s].calls[1].flow /\ u.calls[1].step = tx[s].calls[1].step
        /\ \A i \in DOMAIN u.calls : i > 1 => u.calls[i] = tx[s].calls[i]

LEMMA ResumesIs ==
  ASSUME OnceInv, TypeOK, NEW s \in Sessions, NEW u, Resumes(s, u)
  PROVE  /\ \A p \in Flows : row'[p].st = St(tx[s], row, p) /\ row'[p].at = At(tx[s], row, p)
         /\ row'[Root].counted = IF <<Root, "counted">> \in tx[s].dirty THEN tx[s].mem[Root].counted
                                                                       ELSE row[Root].counted
         /\ \A p \in Flows : ~Dirty(tx[s], p) => row'[p].st = row[p].st
         /\ \A f \in Forks : joins'[f] > 0 => joins[f] > 0 \/ f \in tx[s].log
         /\ Tame' = Tame
         /\ tx'[s] = u /\ \A w \in Sessions \ {s} : tx'[w] = tx[w]
         /\ \A w \in Sessions \ {s} : \A p \in Flows : Moves(tx[s], p) => ~Moves(tx[w], p)
         /\ tx[s].op # "none" /\ causes' = causes
<1>1. Commits(s, u) /\ row' = Merged(tx[s])
  BY DEF Resumes, Commits
<1>2. /\ tx'[s] = u /\ \A w \in Sessions \ {s} : tx'[w] = tx[w]
      /\ Tame' = Tame
      /\ \A p \in Flows : row'[p].st = St(tx[s], row, p)
      /\ \A p \in Flows : ~Dirty(tx[s], p) => row'[p].st = row[p].st
      /\ \A f \in Forks : joins'[f] = joins[f] + IF f \in tx[s].log THEN 1 ELSE 0
      /\ \A w \in Sessions \ {s} : \A p \in Flows : Moves(tx[s], p) => ~Moves(tx[w], p)
  BY <1>1, CommitIs
<1>3. joins \in [Forks -> Nat]
  BY DEF TypeOK
<1>4. \A f \in Forks : joins'[f] > 0 => joins[f] > 0 \/ f \in tx[s].log
  BY <1>2, <1>3
<1>5. ASSUME NEW p \in Flows PROVE row'[p].at = At(tx[s], row, p)
  BY <1>1 DEF Merged, Columns, At
<1>6. row'[Root].counted = IF <<Root, "counted">> \in tx[s].dirty THEN tx[s].mem[Root].counted
                                                                 ELSE row[Root].counted
  BY <1>1, Sorts DEF Merged, Columns
<1> QED BY <1>1, <1>2, <1>4, <1>5, <1>6 DEF Commits

\* What the rows show of a fork then, s knew.
LEMMA RowPast ==
  ASSUME OnceInv, TypeOK, NEW s \in Sessions, NEW u, Resumes(s, u), NEW f \in Forks,
         Knows(NoTx, f)' \/ joins'[f] > 0
  PROVE  Past(tx[s], f)
<1>1. f \in Flows
  BY DEF Forks
<1>2. CASE joins'[f] > 0
  BY <1>2, ResumesIs DEF Past
<1>3. CASE Knows(NoTx, f)'
  <2>1. \/ row'[f].at > ForkStep
        \/ f \in Paths /\ row'[f].st \in Over
        \/ f = Root /\ row'[f].st = "completed"
    BY <1>3 DEF Knows, KnownAt, At, KnownSt, St, NoTx
  <2>2. row'[f].st = St(tx[s], row, f) /\ row'[f].at = At(tx[s], row, f)
    BY <1>1, ResumesIs
  <2> QED BY <2>1, <2>2 DEF Knows, Past
<1> QED BY <1>2, <1>3

\* And what another session knows, it knew, or s did.
LEMMA OtherPast ==
  ASSUME OnceInv, TypeOK, NEW s \in Sessions, NEW u, Resumes(s, u), NEW f \in Forks,
         NEW t, Past(t, f)'
  PROVE  Past(t, f) \/ Past(tx[s], f)
<1>1. f \in Flows
  BY DEF Forks
<1>2. row'[f].st = St(tx[s], row, f) /\ row'[f].at = At(tx[s], row, f)
  BY <1>1, ResumesIs
<1>3. CASE joins'[f] > 0
  BY <1>3, RowPast
<1>4. CASE f \in t.log \/ \E i \in DOMAIN t.calls : Behind(t.calls[i], f)
  BY <1>4 DEF Past
<1>5. CASE Knows(t, f)'
  <2>1. \/ KnownAt(t, row', f) > ForkStep \/ At(t, row', f) > ForkStep
        \/ f \in Paths /\ (KnownSt(t, row', f) \in Over \/ St(t, row', f) \in Over)
        \/ f = Root /\ St(t, row', f) = "completed"
    BY <1>5 DEF Knows, KnownAt, At, KnownSt, St
  <2>2. KnownAt(t, row', f) \in {KnownAt(t, row, f), row'[f].at}
        /\ At(t, row', f) \in {At(t, row, f), row'[f].at}
    BY ONLY DEF KnownAt, At
  <2>3. KnownSt(t, row', f) \in {KnownSt(t, row, f), row'[f].st}
        /\ St(t, row', f) \in {St(t, row, f), row'[f].st}
    BY ONLY DEF KnownSt, St
  <2> QED BY <1>2, <2>1, <2>2, <2>3 DEF Past, Knows
<1> QED BY <1>3, <1>4, <1>5 DEF Past

\* What is over stays over.
LEMMA OtherGone ==
  ASSUME ForkInv, OnceInv, JoinInv, TypeOK, NEW s \in Sessions, NEW u, Resumes(s, u),
         NEW w \in Sessions \ {s}, NEW t, t = tx[w], NEW f, Gone(t, f) \/ Gone(tx[s], f)
  PROVE  Gone(t, f)'
<1>1. Tame' = Tame /\ Tame \subseteq Paths /\ Paths \subseteq Flows
  BY ResumesIs, Sorts DEF Tame
<1>2. Sound(s) /\ Sound(w)
  BY DEF ForkInv
<1> SUFFICES ASSUME NEW p \in Inner(f) \cap Tame PROVE St(t, row', p) \in Over
  BY <1>1 DEF Gone, St
<1>3. p \in Flows /\ p \in Tame
  BY <1>1
<1>4. /\ row'[p].st = St(tx[s], row, p)
      /\ ~Dirty(tx[s], p) => row'[p].st = row[p].st
      /\ Dirty(tx[s], p) => ~Dirty(t, p)
  BY <1>3, ResumesIs DEF Moves, Dirty
<1>5. /\ Dirty(tx[s], p) => row[p].st \notin Over
      /\ Dirty(t, p) => row[p].st \notin Over
  BY <1>2, <1>3 DEF Sound
<1>6. St(t, row, p) \in Over \/ St(tx[s], row, p) \in Over
  BY DEF Gone
<1> QED BY <1>4, <1>5, <1>6 DEF St, Dirty

LEMMA OwnGone ==
  ASSUME OnceInv, TypeOK, NEW s \in Sessions, NEW u, Resumes(s, u), NEW f, Gone(tx[s], f)
  PROVE  Gone(NoTx, f)' /\ Gone(u, f)'
<1>1. Tame' = Tame /\ Tame \subseteq Paths /\ Paths \subseteq Flows
  BY ResumesIs, Sorts DEF Tame
<1>2. u.dirty = {} /\ NoTx.dirty = {}
  BY DEF Resumes, Commits, NoTx
<1>3. ASSUME NEW p \in Inner(f) \cap Tame PROVE row'[p].st \in Over
  <2>1. p \in Flows
    BY <1>1
  <2> QED BY <2>1, ResumesIs DEF Gone
<1> QED BY <1>1, <1>2, <1>3 DEF Gone, St

\* The enrollment counts its threads in the rows.
LEMMA CountedRows ==
  ASSUME OrphanInv, ForkInv, OnceInv, JoinInv, TypeOK, NEW s \in Sessions, NEW u, Resumes(s, u),
         Going, Staying(tx[s])
  PROVE  (row[Root].counted \/ (\A p \in Paths : row[p].st = "none") \/ Gone(NoTx, Root))'
<1>1. /\ row'[Root].counted = IF <<Root, "counted">> \in tx[s].dirty THEN tx[s].mem[Root].counted
                                                                      ELSE row[Root].counted
      /\ \A p \in Flows : ~Dirty(tx[s], p) => row'[p].st = row[p].st
  BY ResumesIs
<1>2. Counting(tx[s]) /\ Sound(s)
  BY DEF Staying, ForkInv
<1>3. Gone(tx[s], Root) => Gone(NoTx, Root)'
  BY OwnGone
<1>4. CASE <<Root, "counted">> \in tx[s].dirty
  BY <1>1, <1>2, <1>3, <1>4 DEF Counting
<1>5. CASE <<Root, "counted">> \notin tx[s].dirty
  <2>1. CASE row[Root].counted
    BY <1>1, <1>5, <2>1
  <2>2. CASE Gone(NoTx, Root)
    BY <1>2, <1>3, <2>2, RowGone
  <2>3. CASE \A p \in Paths : row[p].st = "none"
    <3>1. \A p \in Paths : ~Spawns(tx[s], row, p)
      BY <1>2, <1>5, <2>3 DEF Counting
    <3>2. \A p \in Paths : ~Dirty(tx[s], p)
      BY <2>3, <3>1 DEF Spawns, Dirty
    <3> QED BY <1>1, <2>3, <3>2, Sorts
  <2> QED BY <2>1, <2>2, <2>3 DEF Going
<1> QED BY <1>4, <1>5

\* What the others do stays.
LEMMA OtherStays ==
  ASSUME OrphanInv, ForkInv, OnceInv, JoinInv, TypeOK, NEW s \in Sessions, NEW u, Resumes(s, u),
         Staying(tx[s]), NEW w \in Sessions \ {s}, NEW t, t = tx[w], Staying(t)
  PROVE  Staying(t)'
<1>1. /\ \A p \in Flows : row'[p].st = St(tx[s], row, p)
      /\ \A p \in Flows : ~Dirty(tx[s], p) => row'[p].st = row[p].st
  BY ResumesIs
<1>2. ASSUME NEW f \in Forks, Past(t, f)' PROVE Gone(t, f)'
  <2>1. Past(t, f) \/ Past(tx[s], f)
    BY <1>2, OtherPast
  <2>2. Gone(t, f) \/ Gone(tx[s], f)
    BY <2>1 DEF Staying, Passed
  <2> QED BY <2>2, OtherGone
<1>3. Gone(t, Root) => Gone(t, Root)'
  BY OtherGone
<1>4. ASSUME \A q \in Paths : row'[q].st = "none" PROVE \A q \in Paths : row[q].st = "none"
  <2> SUFFICES ASSUME NEW q \in Paths, row[q].st # "none" PROVE FALSE
    OBVIOUS
  <2>1. q \in Flows /\ row'[q].st = "none"
    BY <1>4, Sorts
  <2>2. Dirty(tx[s], q) /\ tx[s].mem[q].st = "none"
    BY <1>1, <2>1 DEF St, Dirty
  <2>3. Written(s, tx[s], row)
    BY DEF JoinInv, Good
  <2> QED BY <2>1, <2>2, <2>3 DEF Written, Dirty
<1>5. ASSUME \A q \in Paths : row'[q].st = "none", NEW p \in Paths, Spawns(t, row', p)
      PROVE  <<Root, "counted">> \in t.dirty
  <2>1. \A q \in Paths : row[q].st = "none"
    BY <1>4, <1>5
  <2>2. Spawns(t, row, p)
    BY <1>5, <2>1 DEF Spawns
  <2> QED BY <2>1, <2>2 DEF Staying, Counting
<1>6. St(t, row', Root) # "exited"
  <2>1. row'[Root].st # "exited" /\ St(t, row, Root) # "exited"
    BY <1>1, Sorts DEF Staying
  <2> QED BY <2>1 DEF St
<1>7. Passed(t)'
  BY <1>2 DEF Passed
<1>8. Counting(t)'
  BY <1>3, <1>5 DEF Staying, Counting, Spawns
<1> QED BY <1>6, <1>7, <1>8 DEF Staying, St

\* What the session does stays, and what the rows are.
LEMMA OwnStays ==
  ASSUME OrphanInv, ForkInv, OnceInv, JoinInv, TypeOK, NEW s \in Sessions, NEW u, Resumes(s, u),
         Staying(tx[s])
  PROVE  Passed(NoTx)' /\ Staying(u)' /\ row'[Root].st # "exited"
<1>1. \A p \in Flows : row'[p].st = St(tx[s], row, p) /\ row'[p].at = At(tx[s], row, p)
  BY ResumesIs
<1>2. ASSUME NEW f \in Forks, Past(tx[s], f) PROVE Gone(NoTx, f)' /\ Gone(u, f)'
  BY <1>2, OwnGone DEF Staying, Passed
<1>3. ASSUME NEW f \in Forks, Knows(u, f)' PROVE Knows(NoTx, f)'
  <2>1. f \in Flows
    BY DEF Forks
  <2>2. KnownAt(u, row', f) = row'[f].at /\ KnownSt(u, row', f) = row'[f].st /\ u.dirty = {}
    BY <2>1 DEF Resumes, Commits
  <2> QED BY <1>3, <2>2 DEF Knows, KnownAt, KnownSt, At, St, NoTx
<1>4. ASSUME NEW f \in Forks, Past(NoTx, f)' PROVE Gone(NoTx, f)'
  <2>1. Knows(NoTx, f)' \/ joins'[f] > 0
    BY <1>4 DEF Past, NoTx
  <2> QED BY <1>2, <2>1, RowPast
<1>5. ASSUME NEW f \in Forks, Past(u, f)' PROVE Gone(u, f)'
  <2>1. CASE Knows(u, f)' \/ joins'[f] > 0
    BY <1>2, <1>3, <2>1, RowPast
  <2>2. CASE f \in u.log
    BY <2>2 DEF Resumes, Commits
  <2>3. CASE \E i \in DOMAIN u.calls : Behind(u.calls[i], f)
    <3>1. PICK i \in DOMAIN u.calls : Behind(u.calls[i], f)
      BY <2>3
    <3>2. u # NoTx
      BY <3>1 DEF NoTx
    <3>3. /\ DOMAIN u.calls = DOMAIN tx[s].calls
          /\ tx[s].calls[1].do = "act" /\ u.calls[1].do = "advance"
          /\ u.calls[1].flow = tx[s].calls[1].flow /\ u.calls[1].step = tx[s].calls[1].step
          /\ \A j \in DOMAIN u.calls : j > 1 => u.calls[j] = tx[s].calls[j]
      BY <3>2 DEF Resumes
    <3>4. i \in DOMAIN tx[s].calls /\ Behind(tx[s].calls[i], f)
      <4>1. CASE i = 1
        BY <3>1, <3>3, <4>1 DEF Behind, AtStep
      <4>2. CASE i # 1
        <5>1. i > 1
          BY <3>3, <4>2 DEF TypeOK, Transactions
        <5> QED BY <3>1, <3>3, <5>1
      <4> QED BY <4>1, <4>2
    <3> QED BY <1>2, <3>4 DEF Past
  <2> QED BY <1>5, <2>1, <2>2, <2>3 DEF Past
<1>6. u.dirty = {}
  BY DEF Resumes, Commits
<1>7. row'[Root].st # "exited"
  BY <1>1, Sorts DEF Staying
<1>8. Passed(NoTx)' /\ Passed(u)'
  BY <1>4, <1>5 DEF Passed
<1>9. Counting(u)'
  BY <1>6 DEF Counting, Spawns
<1> QED BY <1>6, <1>7, <1>8, <1>9 DEF Staying, St

\* Nothing else is open when an exit is.
LEMMA GoalAlone ==
  ASSUME OrphanInv, ForkInv, Calm, NEW s \in Sessions, tx[s].op = "goal", NEW w \in Sessions \ {s}
  PROVE  tx[w] = NoTx
<1>1. Exits(s)
  BY DEF ForkInv
<1>2. ~Open(w)
  BY <1>1 DEF Exits, Calm
<1> QED BY <1>2 DEF OrphanInv

LEMMA ResumedOrphan ==
  ASSUME OrphanInv, ForkInv, Base, NEW s \in Sessions, NEW u, Resumes(s, u) PROVE OrphanInv'
<1>1. OnceInv /\ JoinInv /\ TypeOK
  BY DEF Base
<1>2. /\ \A p \in Flows : row'[p].st = St(tx[s], row, p)
      /\ \A p \in Flows : ~Dirty(tx[s], p) => row'[p].st = row[p].st
      /\ Tame' = Tame /\ Tame \subseteq Paths /\ Paths \subseteq Flows /\ Root \in Flows
      /\ tx'[s] = u /\ \A w \in Sessions \ {s} : tx'[w] = tx[w]
      /\ tx[s].op # "none" /\ causes' = causes
  BY <1>1, ResumesIs, Sorts DEF Tame
<1>3. u = NoTx \/ u.op # "none"
  BY DEF Resumes
<1>4. \A w \in Sessions : Open(w)' \/ (tx[w] = NoTx)'
  BY <1>2, <1>3 DEF OrphanInv, Open
<1>5. Calm' => Calm
  BY <1>2 DEF Calm
<1>6. NoTx.calls = <<>> /\ NoTx.todo = {} /\ NoTx.dirty = {} /\ NoTx.op = "none"
  BY DEF NoTx
<1>7. ASSUME Calm, row[Root].st = "exited" PROVE Exited' /\ row'[Root].st = "exited"
  <2>1. Exited
    BY <1>7 DEF OrphanInv
  <2>2. tx[s].calls = <<>> /\ tx[s].dirty = {}
    BY <2>1 DEF Exited
  <2>3. u = NoTx
    BY <2>2 DEF Resumes
  <2>4. \A p \in Flows : row'[p].st = row[p].st
    BY <1>2, <2>2 DEF Dirty
  <2> QED BY <1>2, <1>6, <1>7, <2>1, <2>3, <2>4 DEF Exited
<1>8. ASSUME Calm, row[Root].st # "exited", tx[s].op = "goal" PROVE Exited' /\ row'[Root].st = "exited"
  <2>1. Leaving(tx[s])
    BY <1>8 DEF OrphanInv, Going
  <2>2. u = NoTx /\ tx[s].calls = <<>>
    BY <1>8 DEF Resumes
  <2>3. St(tx[s], row, Root) = "exited" /\ \A p \in Tame : St(tx[s], row, p) # "active"
    BY <2>1, <2>2 DEF Leaving
  <2>4. \A w \in Sessions : tx'[w] = NoTx
    BY <1>2, <1>8, <2>2, GoalAlone
  <2> QED BY <1>2, <1>6, <2>3, <2>4 DEF Exited
<1>9. ASSUME Calm, row[Root].st # "exited", tx[s].op # "goal" PROVE Going' /\ row'[Root].st # "exited"
  <2>1. Going /\ Staying(tx[s])
    BY <1>9 DEF OrphanInv, Going
  <2>2. Passed(NoTx)' /\ Staying(u)' /\ row'[Root].st # "exited"
    BY <1>1, <2>1, OwnStays
  <2>3. (row[Root].counted \/ (\A p \in Paths : row[p].st = "none") \/ Gone(NoTx, Root))'
    BY <1>1, <2>1, CountedRows
  <2>4. ASSUME NEW w \in Sessions PROVE (IF tx[w].op = "goal" THEN Leaving(tx[w]) ELSE Staying(tx[w]))'
    <3>1. CASE w = s
      <4>1. u.op # "goal"
        BY <1>6, <1>9 DEF Resumes
      <4> QED BY <1>2, <2>2, <3>1, <4>1 DEF Staying, Passed, Counting, Past, Gone, Knows
    <3>2. CASE w # s
      <4>1. PICK t : t = tx[w]
        OBVIOUS
      <4>2. t.op # "goal"
        BY <1>2, <1>9, <3>2, <4>1, <1>6, GoalAlone
      <4>3. Staying(t)
        BY <2>1, <4>1, <4>2 DEF Going
      <4>4. Staying(t)'
        BY <1>1, <2>1, <3>2, <4>1, <4>3, OtherStays
      <4> QED BY <1>2, <3>2, <4>1, <4>2, <4>4 DEF Staying, Passed, Counting, Past, Gone, Knows
    <3> QED BY <3>1, <3>2
  <2> QED BY <2>2, <2>3, <2>4 DEF Going
<1>10. CASE ~Calm
  BY <1>4, <1>5, <1>10 DEF OrphanInv
<1>11. CASE Calm
  BY <1>4, <1>7, <1>8, <1>9, <1>11 DEF OrphanInv
<1> QED BY <1>10, <1>11

\* The transaction commits and is over.
LEMMA CommitOrphan ==
  ASSUME OrphanInv, ForkInv, Base, NEW s \in Sessions, Commit(s) PROVE OrphanInv'
<1>1. /\ TypeOK /\ OnceInv
      /\ tx[s].op # "none" /\ tx' = [tx EXCEPT ![s] = NoTx] /\ row' = Merged(tx[s]) /\ joins' = Logged(tx[s])
      /\ UNCHANGED <<contested, causes>> /\ tx[s].calls = <<>> /\ tx[s].todo = {}
  BY DEF Commit, Base, Open, ghostVars
<1>2. PICK u : u = NoTx
  OBVIOUS
<1>3. u.dirty = {} /\ u.log = {} /\ u.read = {} /\ u.op = "none" /\ u.calls = <<>>
  BY <1>2 DEF NoTx
<1>4. GoesOnBehind(s, u)
  BY <1>3 DEF GoesOnBehind
<1>5. u.read \cap Paths = {}
  BY <1>3
<1>6. Commits(s, u)
  BY <1>1, <1>2, <1>3, <1>4, <1>5 DEF Commits
<1>7. \A f \in Flows : KnownAt(u, row', f) = row'[f].at /\ KnownSt(u, row', f) = row'[f].st
  BY <1>3 DEF KnownAt, KnownSt
<1>8. Resumes(s, u)
  BY <1>1, <1>2, <1>6, <1>7 DEF Resumes
<1> QED BY <1>8, ResumedOrphan

\* What the session knows when it has committed is what it has committed.
LEMMA FlushKnows ==
  ASSUME TypeOK, NEW s \in Sessions, NEW t, t = Refreshed(tx[s], Expire(Flushed(tx[s]), {})),
         t.dirty = {}, t.read = {Root}
  PROVE  \A f \in Flows : /\ KnownAt(t, Merged(tx[s]), f) = Merged(tx[s])[f].at
                          /\ KnownSt(t, Merged(tx[s]), f) = Merged(tx[s])[f].st
<1>1. PICK w : w = tx[s]
  OBVIOUS
<1>2. w \in Transactions
  BY <1>1 DEF TypeOK
<1>3. PICK h : h = Flushed(w)
  OBVIOUS
<1>4. h \in Transactions
  BY <1>2, <1>3 DEF Flushed, Transactions
<1>5. PICK e : e = Expire(h, {})
  OBVIOUS
<1>6. e \in Transactions
  BY <1>4, <1>5, ExpireIs
<1>7. PICK r : r = Merged(w)
  OBVIOUS
<1>8. t = [e EXCEPT !.mem[Root] = r[Root], !.read = @ \cup {Root}, !.funnel = "unread", !.acted = TRUE]
  BY <1>1, <1>3, <1>5, <1>7 DEF Refreshed
<1>9. t.mem[Root] = r[Root]
  <2>1. PICK b : b = r[Root]
    OBVIOUS
  <2>2. DOMAIN e.mem = Flows /\ Root \in Flows
    BY <1>6, Sorts DEF Transactions, Rows
  <2>3. t.mem = [e.mem EXCEPT ![Root] = b]
    BY ONLY <1>6, <1>8, <2>1 DEF Transactions
  <2> QED BY ONLY <2>1, <2>2, <2>3
<1> QED BY <1>1, <1>7, <1>9 DEF KnownAt, KnownSt

\* An action runs, and most of them commit.
LEMMA ExecuteOrphan ==
  ASSUME OrphanInv, ForkInv, Base, Base', NEW s \in Sessions, ExecuteAction(s) PROVE OrphanInv'
<1>1. /\ Running(s, "act") /\ "act" \in AtStep /\ UNCHANGED contested /\ UNCHANGED causes
      /\ tx[s] \in Transactions /\ row \in Rows /\ TypeOK /\ TypeOK' /\ OnceInv /\ JoinInv
      /\ tx[s].calls # <<>> /\ tx[s].calls \in Seq(Calls)
  BY DEF ExecuteAction, AtStep, Base, TypeOK, Running, Transactions
<1>2. PICK c : c = Head(tx[s].calls)
  OBVIOUS
<1>3. Top(s, "act", c)
  BY <1>1, <1>2, TopStep
<1>4. c.do = "act" /\ c.flow \in Flows /\ <<c.flow, c.step>> \in Steps /\ TypeAt(c.flow, c.step) = "action"
  BY <1>3 DEF Top
<1>5. PICK d : d = Call("advance", c.flow, c.step)
  OBVIOUS
<1>6. d \in Calls /\ d.do = "advance" /\ d.flow = c.flow /\ d.step = c.step
  BY <1>4, <1>5, CallType DEF Call, AtStep
<1>7. ~Entering(d)
  BY <1>4, <1>6, BehindFork
<1>8. CASE Returns(s, Refreshed(tx[s], Expire(tx[s], tx[s].list)), <<d>>) /\ UNCHANGED dbVars
  <2>1. PICK t : t = Refreshed(tx[s], Expire(tx[s], tx[s].list))
    OBVIOUS
  <2>2. PICK D : D = {}
    OBVIOUS
  <2>3. t \in Transactions /\ Becomes(tx[s], t, D, {}) /\ Quiet(D)
    BY <1>1, <2>1, <2>2, RefreshBecomes DEF Quiet, Becomes
  <2>4. PICK e : e = <<d>>
    OBVIOUS
  <2>5. Returns(s, t, e)
    BY <1>8, <2>1, <2>4
  <2>6. PICK do \in AtStep : do = "act"
    BY <1>1
  <2>7. Continues(do, c, d) /\ Running(s, do)
    BY <1>1, <1>4, <1>6, <2>6 DEF Continues, AtStep
  <2> QED BY <1>1, <1>2, <1>6, <1>8, <2>3, <2>4, <2>5, <2>7, ContinueOrphan
<1>9. CASE /\ row' = Merged(tx[s]) /\ joins' = Logged(tx[s])
           /\ Returns(s, Refreshed(tx[s], Expire(Flushed(tx[s]), {})), <<d>>)
  <2>1. PICK t : t = Refreshed(tx[s], Expire(Flushed(tx[s]), {}))
    OBVIOUS
  <2>2. t \in Transactions /\ t.dirty = {}
    <3>1. PICK r : r = Merged(tx[s])
      OBVIOUS
    <3> QED BY <1>1, <2>1, <3>1, OwnCommit
  <2>3. t.log = {} /\ t.read = {Root} /\ t.op = tx[s].op
    BY <1>1, <2>1, FlushIs
  <2>4. PICK e : e = <<d>> \o Tail(tx[s].calls)
    OBVIOUS
  <2>5. /\ e \in Seq(Calls) /\ DOMAIN e = DOMAIN tx[s].calls /\ e[1] = d
        /\ \A i \in DOMAIN e : i > 1 => e[i] = tx[s].calls[i]
    BY <1>1, <1>6, <2>4, OneOnto
  <2>6. PICK u : u = [t EXCEPT !.calls = e]
    OBVIOUS
  <2>7. u \in Transactions /\ u.dirty = {} /\ u.log = {} /\ u.read = {Root} /\ u.op = tx[s].op /\ u.calls = e
        /\ u.mem = t.mem /\ u.read = t.read /\ u.dirty = t.dirty
    BY <2>2, <2>3, <2>5, <2>6 DEF Transactions
  <2>8. tx' = [tx EXCEPT ![s] = u]
    BY <1>9, <2>1, <2>4, <2>6 DEF Returns
  <2>9. u.op # "none" /\ u.op # "goal"
    <3>1. tx[s].op # "none"
      BY <1>1, OpNone
    <3>2. "act" \in {"exit", "kill"} <=> tx[s].op = "goal"
      BY <1>1, GoalTop
    <3> QED BY <2>7, <3>1, <3>2
  <2>10. tx[s].calls[1] = c
    BY <1>1, <1>2, OnlyTop
  <2>11. GoesOnBehind(s, u)
    BY <1>1, <1>4, <1>6, <1>7, <2>5, <2>7, <2>9, <2>10 DEF GoesOnBehind
  <2>12. u.read \cap Paths = {}
    BY <2>7, Sorts
  <2>13. Commits(s, u)
    BY <1>1, <1>9, <2>7, <2>8, <2>9, <2>11, <2>12 DEF Commits
  <2>14. \A f \in Flows : KnownAt(t, row', f) = row'[f].at /\ KnownSt(t, row', f) = row'[f].st
    BY <1>1, <1>9, <2>1, <2>2, <2>3, FlushKnows
  <2>15. \A f \in Flows : KnownAt(u, row', f) = row'[f].at /\ KnownSt(u, row', f) = row'[f].st
    BY <2>7, <2>14 DEF KnownAt, KnownSt
  <2>16. Resumes(s, u)
    BY <1>1, <1>4, <1>6, <2>5, <2>7, <2>9, <2>10, <2>13, <2>15 DEF Resumes
  <2> QED BY <2>16, ResumedOrphan
<1> QED BY <1>2, <1>5, <1>8, <1>9 DEF ExecuteAction

-----------------------------------------------------------------------------
(* An exit. *)

\* A session has u, and commits nothing.
LEMMA GivenOrphan ==
  ASSUME OrphanInv, TypeOK, NEW s \in Sessions, NEW u, tx' = [tx EXCEPT ![s] = u], UNCHANGED dbVars,
         contested \subseteq contested', causes \subseteq causes', u = NoTx \/ u.op # "none",
         Calm' /\ row[Root].st = "exited" => u.calls = <<>> /\ u.todo = {} /\ u.dirty = {},
         Calm' /\ Going /\ row[Root].st # "exited" => IF u.op = "goal" THEN Leaving(u) ELSE Staying(u)
  PROVE  OrphanInv'
<1>1. tx'[s] = u /\ \A w \in Sessions \ {s} : tx'[w] = tx[w]
  BY DEF TypeOK
<1>2. row' = row
  BY DEF dbVars
<1>3. \A w \in Sessions : Open(w)' \/ (tx[w] = NoTx)'
  BY <1>1 DEF OrphanInv, Open
<1>4. ASSUME Calm', row[Root].st = "exited" PROVE Exited'
  <2>1. Exited
    BY <1>4, CalmBefore DEF OrphanInv
  <2>2. Tame' \subseteq Tame
    BY TameLess
  <2> QED BY <1>1, <1>2, <1>4, <2>1, <2>2 DEF Exited
<1>5. ASSUME Calm', row[Root].st # "exited" PROVE Going'
  <2>1. Going
    BY <1>5, CalmBefore DEF OrphanInv
  <2>2. /\ Passed(NoTx)' /\ (Gone(NoTx, Root) => Gone(NoTx, Root)')
        /\ IF u.op = "goal" THEN Leaving(u)' ELSE Staying(u)'
    BY <1>5, <2>1, CarryLocal DEF Going
  <2>3. ASSUME NEW w \in Sessions PROVE (IF tx[w].op = "goal" THEN Leaving(tx[w]) ELSE Staying(tx[w]))'
    <3>1. CASE w = s
      BY <1>1, <2>2, <3>1 DEF Leaving, Staying, Passed, Counting, Past, Gone, Knows
    <3>2. CASE w # s
      <4>1. PICK t : t = tx[w]
        OBVIOUS
      <4>2. (t.op = "goal" => Leaving(t)) /\ (t.op # "goal" => Staying(t))
        BY <2>1, <4>1 DEF Going
      <4>3. (t.op = "goal" => Leaving(t)') /\ (t.op # "goal" => Staying(t)')
        BY <4>2, CarryLocal
      <4> QED BY <1>1, <3>2, <4>1, <4>3 DEF Leaving, Staying, Passed, Counting, Past, Gone, Knows
    <3> QED BY <3>1, <3>2
  <2> QED BY <1>2, <2>1, <2>2, <2>3 DEF Going
<1> QED BY <1>2, <1>3, <1>4, <1>5 DEF OrphanInv

\* An exit has one call.
LEMMA GoalCall ==
  ASSUME ForkInv, TypeOK, NEW s \in Sessions, NEW do \in {"exit", "kill"}, Running(s, do),
         NEW t \in Transactions, NEW c \in Seq(Calls), Returns(s, t, c)
  PROVE  /\ tx[s].op = "goal" /\ tx[s].calls[1].do = do
         /\ tx' = [tx EXCEPT ![s] = [t EXCEPT !.calls = c]]
<1>1. tx[s] \in Transactions /\ tx[s].calls # <<>> /\ Head(tx[s].calls).do = do
  BY DEF TypeOK, Running
<1>2. PICK q : q = tx[s].calls
  OBVIOUS
<1>3. q \in Seq(Calls) /\ q # <<>> /\ Head(q).do = do
  BY <1>1, <1>2 DEF Transactions
<1>4. tx[s].op = "goal"
  BY GoalTop
<1>5. \A i \in DOMAIN q : q[i].do \in {"exit", "kill"}
  BY <1>2, <1>4 DEF ForkInv, Exits
<1>6. \A i \in DOMAIN q : i > 1 => q[i].do = "recheck"
  BY <1>2, <1>4 DEF ForkInv, Ordered
<1>7. Len(q) = 1 /\ q[1].do = do
  <2>1. DOMAIN q = 1 .. Len(q) /\ Len(q) \in Nat /\ Len(q) >= 1 /\ q[1] = Head(q)
    BY <1>3, LenProperties, EmptySeq
  <2>2. 2 \notin DOMAIN q
    BY <1>5, <1>6
  <2> QED BY <1>3, <2>1, <2>2
<1>8. Tail(q) = <<>>
  <2>1. PICK b : b = Tail(q)
    OBVIOUS
  <2>2. b \in Seq(Calls) /\ Len(b) = Len(q) - 1
    BY <1>3, <2>1, HeadTailProperties
  <2>3. Len(b) = 0
    BY <1>7, <2>2
  <2> QED BY <2>1, <2>2, <2>3, EmptySeq
<1>9. c \o Tail(q) = c
  BY <1>8, ConcatEmptySeq
<1> QED BY <1>2, <1>4, <1>7, <1>9 DEF Returns

\* _exit_enrollment looks for threads.
LEMMA ExitOrphan ==
  ASSUME OrphanInv, ForkInv, Base, Base', NEW s \in Sessions, ExitEnrollment(s) PROVE OrphanInv'
<1>1. /\ Running(s, "exit") /\ UNCHANGED dbVars /\ UNCHANGED contested /\ UNCHANGED causes
      /\ tx[s] \in Transactions /\ row \in Rows /\ TypeOK /\ tx[s].calls # <<>>
      /\ Paths \subseteq Flows /\ Root \in Flows /\ Root \notin Paths
  BY Sorts DEF ExitEnrollment, ghostVars, Base, TypeOK, Running
<1>2. PICK do \in {"exit", "kill"} : do = "exit"
  OBVIOUS
<1>3. PICK d : d = Call("kill", Root, 0)
  OBVIOUS
<1>4. d \in Calls /\ d.do = "kill"
  BY <1>1, <1>3, CallType DEF Call
<1>5. PICK c : c = <<d>>
  OBVIOUS
<1>6. c \in Seq(Calls) /\ c # <<>> /\ c[1] = d
  BY <1>4, <1>5
<1>7. PICK t : t = IF Known(tx[s], Root).counted THEN Load(tx[s], Paths) ELSE tx[s]
  OBVIOUS
<1>8. /\ t \in Transactions /\ t.dirty = tx[s].dirty /\ t.todo = tx[s].todo /\ t.op = tx[s].op
      /\ tx[s].read \subseteq t.read /\ (Known(tx[s], Root).counted => Paths \subseteq t.read)
      /\ t.mem[Root] = tx[s].mem[Root]
  <2>1. CASE Known(tx[s], Root).counted
    <3>1. t = Load(tx[s], Paths)
      BY <1>7, <2>1
    <3>2. t.mem[Root] = tx[s].mem[Root]
      BY <1>1, <3>1 DEF Load, Transactions
    <3> QED BY <1>1, <3>1, <3>2, LoadIs
  <2>2. CASE ~Known(tx[s], Root).counted
    BY <1>1, <1>7, <2>2
  <2> QED BY <2>1, <2>2
<1>9. Returns(s, t, c)
  BY <1>3, <1>5, <1>7 DEF ExitEnrollment
<1>10. PICK u : u = [t EXCEPT !.calls = c]
  OBVIOUS
<1>11. /\ tx' = [tx EXCEPT ![s] = u] /\ tx[s].op = "goal"
  BY <1>1, <1>2, <1>6, <1>8, <1>9, <1>10, GoalCall
<1>12. /\ u.calls = c /\ u.op = "goal" /\ u.dirty = t.dirty /\ u.todo = t.todo /\ u.read = t.read
       /\ u.mem = t.mem
  BY <1>8, <1>10, <1>11 DEF Transactions
<1>13. ASSUME Going PROVE Leaving(u)
  <2>1. Leaving(tx[s])
    BY <1>11, <1>13 DEF Going
  <2>2. tx[s].dirty = {} /\ Root \in tx[s].read /\ tx[s].mem[Root].counted = row[Root].counted /\ tx[s].todo = {}
    BY <1>1, <2>1 DEF Leaving
  <2>3. Known(tx[s], Root).counted = row[Root].counted
    BY <2>2 DEF Known, Columns
  <2> QED BY <1>6, <1>8, <1>12, <2>2, <2>3 DEF Leaving
<1>14. ~(Calm' /\ row[Root].st = "exited")
  BY <1>1, CalmBefore DEF OrphanInv, Exited
<1>15. u.op # "none"
  BY <1>12
<1> QED BY <1>1, <1>11, <1>12, <1>13, <1>14, <1>15, GivenOrphan

\* And ends the active ones.
LEMMA KillOrphan ==
  ASSUME OrphanInv, ForkInv, Base, Base', NEW s \in Sessions, Kill(s) PROVE OrphanInv'
<1>1. /\ tx[s] \in Transactions /\ row \in Rows /\ Root \in Flows /\ Root \notin Paths
      /\ TypeOK /\ TypeOK' /\ OnceInv /\ Paths \subseteq Flows
  BY Sorts DEF Base, TypeOK
<1>2. PICK K : K = Doomed(tx[s])
  OBVIOUS
<1>3. PICK dead : dead = [tx[s] EXCEPT
                           !.mem = [p \in Flows |-> IF p \in Doomed(tx[s]) THEN [@[p] EXCEPT !.st = "exited"]
                                                    ELSE @[p]],
                           !.dirty = @ \cup Doomed(tx[s]) \X {"st"}]
  OBVIOUS
<1>4. dead \in Transactions /\ Alike(tx[s], dead, K \X {"st"}, {}) /\ \A q \in K : St(dead, row, q) = "exited"
  BY <1>1, <1>2, <1>3, DoomType, DoomAlike
<1>5. PICK t : t = Write(dead, Root, "st", "exited")
  OBVIOUS
<1>6. t \in Transactions
  BY <1>1, <1>4, <1>5, WriteType DEF Columns, Status
<1>7. PICK R : R = {<<Root, "st">>}
  OBVIOUS
<1>8. Alike(dead, t, R, {}) /\ St(t, row, Root) = "exited"
  BY <1>1, <1>4, <1>5, <1>7, StatusAlike
<1>9. Running(s, "kill") /\ UNCHANGED dbVars /\ UNCHANGED contested /\ UNCHANGED causes
      /\ tx[s].calls # <<>>
  BY DEF Kill, ghostVars, Running
<1>10. PICK c : Returns(s, t, c) /\ c = <<>>
  BY <1>2, <1>3, <1>5 DEF Kill
<1>11. PICK do \in {"exit", "kill"} : do = "kill"
  OBVIOUS
<1>12. PICK u : u = [t EXCEPT !.calls = c]
  OBVIOUS
<1>13. /\ tx' = [tx EXCEPT ![s] = u] /\ tx[s].op = "goal" /\ tx[s].calls[1].do = "kill"
  <2>1. c \in Seq(Calls) /\ Running(s, do) /\ Returns(s, t, c)
    BY <1>9, <1>10, <1>11
  <2>2. tx' = [tx EXCEPT ![s] = [t EXCEPT !.calls = c]] /\ tx[s].op = "goal" /\ tx[s].calls[1].do = do
    BY <1>1, <1>6, <2>1, GoalCall
  <2> QED BY <1>11, <1>12, <2>2
<1>14. /\ u.calls = <<>> /\ u.op = t.op /\ u.dirty = t.dirty /\ u.todo = t.todo /\ u.mem = t.mem
  BY <1>6, <1>10, <1>12 DEF Transactions
<1>15. t.op = "goal" /\ t.todo = tx[s].todo
  <2>1. dead.op = tx[s].op /\ dead.todo = tx[s].todo
    BY <1>1, <1>3 DEF Transactions
  <2> QED BY <1>1, <1>4, <1>5, <1>13, <2>1, WriteIs DEF Columns
<1>16. /\ \A q \in K : St(t, row, q) = "exited"
       /\ \A q \in Paths \ K : St(t, row, q) = St(tx[s], row, q)
  <2>1. ASSUME NEW q \in Paths PROVE q \in Flows /\ <<q, "st">> \notin R
    BY <1>1, <1>7
  <2>2. ASSUME NEW q \in Paths PROVE St(t, row, q) = St(dead, row, q)
    BY <1>8, <2>1 DEF Alike, Else
  <2>3. K \subseteq Paths
    BY <1>2 DEF Doomed
  <2>4. ASSUME NEW q \in Paths \ K PROVE St(dead, row, q) = St(tx[s], row, q)
    <3>1. q \in Flows /\ <<q, "st">> \notin K \X {"st"}
      BY <1>1
    <3> QED BY <1>4, <3>1 DEF Alike, Else
  <2> QED BY <1>4, <2>2, <2>3, <2>4
<1>17. ASSUME Going, Calm' PROVE Leaving(u)
  <2>1. Leaving(tx[s])
    BY <1>13, <1>17 DEF Going
  <2>2. tx[s].dirty = {} /\ tx[s].todo = {} /\ (row[Root].counted => Paths \subseteq tx[s].read)
    BY <1>9, <1>13, <2>1 DEF Leaving
  <2>3. ASSUME NEW p \in Tame PROVE St(u, row, p) # "active"
    <3>1. p \in Paths /\ St(u, row, p) = St(t, row, p)
      BY <1>14 DEF Tame, St
    <3>2. CASE p \in K
      BY <1>16, <3>1, <3>2
    <3>3. CASE p \notin K
      <4>1. St(t, row, p) = row[p].st
        BY <1>16, <2>2, <3>1, <3>3 DEF St
      <4>2. CASE row[Root].counted
        <5>1. p \in tx[s].read /\ tx[s].mem[p].st # "active"
          BY <1>2, <2>2, <3>1, <3>3, <4>2 DEF Doomed
        <5>2. KnownSt(tx[s], row, p) = St(tx[s], row, p)
          BY <1>9, <1>13, <1>17, <3>1 DEF ForkInv, Exits, Calm
        <5> QED BY <2>2, <3>1, <4>1, <5>1, <5>2 DEF KnownSt, St
      <4>3. CASE \A q \in Paths : row[q].st = "none"
        BY <3>1, <4>1, <4>3
      <4>4. CASE Gone(NoTx, Root)
        <5>1. St(NoTx, row, p) \in Over
          BY <3>1, <4>4, InnerAll DEF Gone
        <5> QED BY <3>1, <4>1, <5>1 DEF St, NoTx, Over
      <4> QED BY <1>17, <4>2, <4>3, <4>4 DEF Going
    <3> QED BY <3>2, <3>3
  <2>4. St(u, row, Root) = "exited"
    BY <1>8, <1>14 DEF St
  <2> QED BY <1>14, <1>15, <2>2, <2>3, <2>4 DEF Leaving
<1>18. ~(Calm' /\ row[Root].st = "exited")
  BY <1>9, CalmBefore DEF OrphanInv, Exited
<1>19. u.op # "none" /\ u.op = "goal"
  BY <1>14, <1>15
<1> QED BY <1>1, <1>9, <1>13, <1>17, <1>18, <1>19, GivenOrphan

-----------------------------------------------------------------------------
(* A transaction begins, or is lost. *)

\* Who knows what is in the rows and has written nothing, stays.
LEMMA IdleStays ==
  ASSUME Going, row[Root].st # "exited", NEW u, u.dirty = {}, u.log = {}, u.calls = <<>>,
         \A f \in Flows : KnownAt(u, row, f) = row[f].at /\ KnownSt(u, row, f) = row[f].st
  PROVE  Staying(u)
<1>1. Passed(NoTx)
  BY DEF Going
<1>2. \A p : St(u, row, p) = row[p].st /\ At(u, row, p) = row[p].at /\ ~Spawns(u, row, p)
  BY DEF St, At, Spawns
<1>3. NoTx.dirty = {} /\ NoTx.log = {} /\ NoTx.calls = <<>> /\ NoTx.read = {}
  BY DEF NoTx
<1>4. \A p : /\ St(NoTx, row, p) = row[p].st /\ At(NoTx, row, p) = row[p].at
             /\ KnownAt(NoTx, row, p) = row[p].at /\ KnownSt(NoTx, row, p) = row[p].st
  BY <1>3 DEF St, At, KnownAt, KnownSt
<1>5. ASSUME NEW f \in Forks, Past(u, f) PROVE Past(NoTx, f)
  <2>1. f \in Flows
    BY DEF Forks
  <2>2. Knows(u, f) \/ joins[f] > 0
    BY <1>5 DEF Past
  <2>3. Knows(u, f) => Knows(NoTx, f)
    BY <1>2, <1>4, <2>1 DEF Knows
  <2> QED BY <2>2, <2>3 DEF Past
<1>6. ASSUME NEW f, Gone(NoTx, f) PROVE Gone(u, f)
  BY <1>2, <1>4, <1>6 DEF Gone
<1>7. Passed(u)
  BY <1>1, <1>5, <1>6 DEF Passed
<1>8. Counting(u)
  BY <1>2 DEF Counting
<1> QED BY <1>2, <1>7, <1>8 DEF Staying

\* It begins with what it lists.
LEMMA ListOrphan ==
  ASSUME OrphanInv, TypeOK, NEW s \in Sessions, NEW op \in Timers \cup {"event", "reply"},
         NEW L \in SUBSET Flows, row[Root].st = "active" \/ L = {}, Begin(s, op, List(L)),
         UNCHANGED dbVars, UNCHANGED contested
  PROVE  OrphanInv'
<1>1. PICK t : t = List(L)
  OBVIOUS
<1>2. PICK v : v = Load(NoTx, L)
  OBVIOUS
<1>3. /\ v \in Transactions /\ v.dirty = {} /\ v.log = {} /\ v.calls = <<>> /\ v.read = L
      /\ \A p \in L : v.mem[p].st = row[p].st /\ v.mem[p].at = row[p].at
  BY <1>2, FirstLoad
<1>4. t = [v EXCEPT !.list = L, !.todo = L]
  BY <1>1, <1>2 DEF List
<1>5. /\ t \in Transactions /\ t.dirty = {} /\ t.log = {} /\ t.calls = <<>>
      /\ t.read = L /\ t.mem = v.mem /\ t.todo = L
  BY <1>3, <1>4 DEF Transactions
<1>6. PICK u : u = [t EXCEPT !.op = op]
  OBVIOUS
<1>7. /\ u.dirty = {} /\ u.log = {} /\ u.calls = <<>> /\ u.read = L /\ u.mem = v.mem /\ u.todo = L /\ u.op = op
  BY <1>5, <1>6 DEF Transactions
<1>8. tx' = [tx EXCEPT ![s] = u] /\ causes \subseteq causes'
  BY <1>1, <1>6 DEF Begin
<1>9. op # "none" /\ op # "goal"
  BY DEF Timers
<1>10. \A f \in Flows : KnownAt(u, row, f) = row[f].at /\ KnownSt(u, row, f) = row[f].st
  BY <1>3, <1>7 DEF KnownAt, KnownSt
<1>11. ASSUME Going, row[Root].st # "exited" PROVE Staying(u)
  BY <1>7, <1>10, <1>11, IdleStays
<1>12. row[Root].st = "exited" => u.calls = <<>> /\ u.todo = {} /\ u.dirty = {}
  BY <1>7
<1> QED BY <1>7, <1>8, <1>9, <1>11, <1>12, GivenOrphan

LEMMA OpenPassOrphan == ASSUME OrphanInv, TypeOK, NEW k \in Timers, OpenPass(k) PROVE OrphanInv'
<1>1. PICK L \in (SUBSET Listed(k)) \ {{}} : Begin(Scheduler, k, List(L))
  BY DEF OpenPass
<1>2. UNCHANGED dbVars /\ UNCHANGED contested
  BY DEF OpenPass
<1>3. Listed(k) \subseteq Flows /\ (row[Root].st # "active" => Listed(k) = {})
  BY DEF Listed
<1>4. L \in SUBSET Flows /\ Scheduler \in Sessions /\ row[Root].st = "active"
  BY <1>1, <1>3 DEF Sessions
<1> QED BY <1>1, <1>2, <1>4, ListOrphan

LEMMA OpenOtherOrphan ==
  ASSUME OrphanInv, TypeOK, NEW s \in Handlers, OpenEvent(s) \/ OpenReply(s) \/ OpenGoal(s)
  PROVE  OrphanInv'
<1>1. s \in Sessions /\ UNCHANGED dbVars /\ UNCHANGED contested
  BY DEF Sessions, OpenEvent, OpenReply, OpenGoal
<1>2. CASE OpenEvent(s)
  <2>1. PICK L : L = Listed("wait_until")
    OBVIOUS
  <2>2. L \in SUBSET Flows /\ (row[Root].st = "active" \/ L = {})
    BY <2>1 DEF Listed
  <2>3. Begin(s, "event", List(L))
    BY <1>2, <2>1 DEF OpenEvent
  <2>4. PICK op \in Timers \cup {"event", "reply"} : op = "event"
    OBVIOUS
  <2>5. Begin(s, op, List(L))
    BY <2>3, <2>4
  <2> QED BY <1>1, <2>2, <2>5, ListOrphan
<1>3. CASE OpenReply(s)
  <2>1. PICK p \in Paths : Begin(s, "reply", List({p}))
    BY <1>3 DEF OpenReply
  <2>2. PICK L : L = {p}
    OBVIOUS
  <2>3. L \in SUBSET Flows /\ Begin(s, "reply", List(L)) /\ row[Root].st = "active"
    BY <1>3, <2>1, <2>2, Sorts DEF OpenReply
  <2>4. PICK op \in Timers \cup {"event", "reply"} : op = "reply"
    OBVIOUS
  <2>5. Begin(s, op, List(L))
    BY <2>3, <2>4
  <2> QED BY <1>1, <2>3, <2>5, ListOrphan
<1>4. CASE OpenGoal(s)
  <2>1. PICK L \in SUBSET Flows : L = {Root}
    BY Sorts
  <2>2. PICK v : v = Load(NoTx, L)
    OBVIOUS
  <2>3. /\ v \in Transactions /\ v.dirty = {} /\ v.todo = {} /\ v.read = L
    BY <2>2, FirstLoad
  <2>4. v.mem[Root].counted = row[Root].counted
    <3>1. NoTx.read = {} /\ NoTx.dirty = {} /\ NoTx \in Transactions
      BY NoTxType DEF NoTx
    <3>2. v.mem[Root] = Known(NoTx, Root)
      BY <2>1, <2>2, <3>1, Sorts DEF Load, Transactions
    <3> QED BY <3>1, <3>2 DEF Known, Columns
  <2>5. PICK d, c : d = Call("exit", Root, 0) /\ c = <<d>>
    OBVIOUS
  <2>6. d.do = "exit" /\ c # <<>> /\ c[1] = d
    BY <2>5 DEF Call
  <2>7. PICK t : t = [v EXCEPT !.calls = c]
    OBVIOUS
  <2>8. PICK u : u = [t EXCEPT !.op = "goal"]
    OBVIOUS
  <2>9. u.dirty = {} /\ u.todo = {} /\ u.read = L /\ u.mem = v.mem /\ u.calls = c /\ u.op = "goal"
    BY <2>3, <2>7, <2>8 DEF Transactions
  <2>10. tx' = [tx EXCEPT ![s] = u] /\ causes \subseteq causes'
    BY <1>4, <2>1, <2>2, <2>5, <2>7, <2>8 DEF OpenGoal, Begin
  <2>11. Leaving(u)
    BY <2>1, <2>4, <2>6, <2>9 DEF Leaving
  <2>12. row[Root].st # "exited"
    BY <1>4 DEF OpenGoal
  <2> QED BY <1>1, <2>9, <2>10, <2>11, <2>12, GivenOrphan
<1> QED BY <1>2, <1>3, <1>4

\* It is lost.
LEMMA DroppedOrphan ==
  ASSUME OrphanInv, TypeOK, NEW s \in Sessions, Dropped(s), UNCHANGED dbVars, UNCHANGED contested
  PROVE  OrphanInv'
<1>1. PICK u : u = NoTx
  OBVIOUS
<1>2. /\ u.dirty = {} /\ u.log = {} /\ u.read = {} /\ u.op = "none" /\ u.calls = <<>> /\ u.todo = {}
  BY <1>1 DEF NoTx
<1>3. \A p \in Flows : KnownAt(u, row, p) = row[p].at /\ KnownSt(u, row, p) = row[p].st
  BY <1>2 DEF KnownAt, KnownSt
<1>4. tx' = [tx EXCEPT ![s] = u] /\ causes \subseteq causes'
  BY <1>1 DEF Dropped
<1>5. ASSUME Going, row[Root].st # "exited" PROVE Staying(u)
  BY <1>2, <1>3, <1>5, IdleStays
<1> QED BY <1>1, <1>2, <1>4, <1>5, GivenOrphan

-----------------------------------------------------------------------------
(* The invariant. *)

LEMMA EngineOrphan ==
  ASSUME OrphanInv, ForkInv, Base, Base', NEW s \in Sessions, Engine(s) PROVE OrphanInv'
BY TakeOrphan, ResolveOrphan, AdvanceOrphan, ProcessOrphan, ExecuteOrphan, CheckOrphan, LeaveOrphan,
   RecheckOrphan, CompleteOrphan, FinishOrphan, ExitOrphan, KillOrphan, CommitOrphan DEF Engine

LEMMA OrphanStart == Init => OrphanInv
<1> SUFFICES ASSUME Init PROVE OrphanInv
  OBVIOUS
<1>1. PICK u : u = NoTx
  OBVIOUS
<1>2. \A s \in Sessions : tx[s] = u
  BY <1>1 DEF Init
<1>3. u.op = "none" /\ u.dirty = {} /\ u.log = {} /\ u.read = {} /\ u.calls = <<>>
  BY <1>1 DEF NoTx
<1>4. /\ \A p \in Paths : row[p].st = "none" /\ row[p].at = 0
      /\ row[Root].st = "active" /\ row[Root].at = 1
  BY Sorts DEF Init, Blank
<1>5. \A f \in Forks : joins[f] = 0
  BY DEF Init
<1>6. ASSUME NEW f \in Forks PROVE ~Past(u, f)
  <2>1. /\ f \in Flows /\ (f = Root \/ f \in Paths) /\ ForkStep = 2
        /\ St(u, row, f) = row[f].st /\ KnownSt(u, row, f) = row[f].st
        /\ At(u, row, f) = row[f].at /\ KnownAt(u, row, f) = row[f].at
    BY <1>3, Sorts DEF St, KnownSt, At, KnownAt
  <2>2. ~Knows(u, f)
    BY <1>4, <2>1, Sorts DEF Knows, Over
  <2> QED BY <1>3, <1>5, <2>2 DEF Past
<1>7. Passed(u)
  BY <1>6 DEF Passed
<1>8. Staying(u)
  BY <1>3, <1>4, <1>7 DEF Staying, Counting, Spawns, St
<1>9. Going
  BY <1>1, <1>2, <1>3, <1>4, <1>7, <1>8 DEF Going
<1> QED BY <1>1, <1>2, <1>4, <1>9 DEF OrphanInv

LEMMA OrphanStay ==
  ASSUME OrphanInv, UNCHANGED <<row, joins, tx, contested, causes>> PROVE OrphanInv'
<1>1. row' = row /\ joins' = joins /\ tx' = tx /\ contested' = contested /\ causes' = causes
  OBVIOUS
<1>2. Tame' = Tame /\ (Calm' <=> Calm)
  BY <1>1 DEF Tame, Calm
<1>3. UNCHANGED dbVars /\ contested \subseteq contested' /\ causes \subseteq causes'
  BY <1>1 DEF dbVars
<1>4. ASSUME Going PROVE Going'
  <2>1. Passed(NoTx)' /\ (Gone(NoTx, Root) => Gone(NoTx, Root)')
    BY <1>3, <1>4, CarryLocal DEF Going
  <2>2. ASSUME NEW w \in Sessions PROVE (IF tx[w].op = "goal" THEN Leaving(tx[w]) ELSE Staying(tx[w]))'
    <3>1. PICK t : t = tx[w]
      OBVIOUS
    <3>2. (t.op = "goal" => Leaving(t)') /\ (t.op # "goal" => Staying(t)')
      BY <1>3, <1>4, <3>1, CarryLocal DEF Going
    <3> QED BY <1>1, <3>1, <3>2 DEF Leaving, Staying, Passed, Counting, Past, Gone, Knows
  <2> QED BY <1>1, <1>4, <2>1, <2>2 DEF Going
<1>5. Exited => Exited'
  BY <1>1, <1>2 DEF Exited
<1> QED BY <1>1, <1>2, <1>4, <1>5 DEF OrphanInv, Open

LEMMA OrphanKept ==
  ASSUME OrphanInv, ForkInv, Base, Base', [Next]_vars PROVE OrphanInv'
<1>0. TypeOK
  BY DEF Base
<1>1. CASE UNCHANGED vars
  BY <1>1, OrphanStay DEF vars, dbVars, ghostVars
<1>2. CASE \E k \in Timers : OpenPass(k)
  BY <1>0, <1>2, OpenPassOrphan
<1>3. CASE \E s \in Handlers : OpenEvent(s) \/ OpenReply(s) \/ OpenGoal(s)
  BY <1>0, <1>3, OpenOtherOrphan
<1>4. CASE \E s \in Sessions : Engine(s) \/ Abort(s) \/ Victim(s)
  <2>1. PICK s \in Sessions : Engine(s) \/ Abort(s) \/ Victim(s)
    BY <1>4
  <2>2. Abort(s) \/ Victim(s) => Dropped(s) /\ UNCHANGED dbVars /\ UNCHANGED contested
    BY DEF Abort, Victim
  <2> QED BY <1>0, <2>1, <2>2, EngineOrphan, DroppedOrphan
<1>5. CASE EventArrives \/ Stop \/ Resume
  BY <1>5, OrphanStay DEF EventArrives, Stop, Resume, dbVars, ghostVars
<1> QED BY <1>1, <1>2, <1>3, <1>4, <1>5 DEF Next

\* No thread is left active in an enrollment that has completed or exited: the
\* completion asks _complete_enrollment's guard and comes behind the fork's join, which
\* has found every thread over, however deep the forks are nested, and an exit ends the
\* threads it finds, unless the exit ran beside another transaction, a fork was joined
\* over a nested one, or two transactions went on with that thread.
THEOREM NoThreadIsOrphaned == Spec => []OrphansAreExplained
<1>1. Init => JoinInv /\ OnceInv /\ ForkInv /\ OrphanInv
  BY JoinStart, OnceStart, ForkStart, OrphanStart
<1>2. OrphanInv /\ ForkInv /\ OnceInv /\ JoinInv /\ TypeOK /\ TypeOK' /\ [Next]_vars =>
        OrphanInv' /\ ForkInv' /\ OnceInv' /\ JoinInv'
  <2> SUFFICES ASSUME OrphanInv, ForkInv, OnceInv, JoinInv, TypeOK, TypeOK', [Next]_vars
               PROVE  OrphanInv' /\ ForkInv' /\ OnceInv' /\ JoinInv'
    OBVIOUS
  <2>1. OnceInv' /\ JoinInv'
    BY OnceKept, JoinKept
  <2>2. Base /\ Base'
    BY <2>1 DEF Base
  <2> QED BY <2>1, <2>2, ForkKept, OrphanKept
<1>3. OrphanInv /\ TypeOK => OrphansAreExplained
  <2> SUFFICES ASSUME OrphanInv, Ended, NEW p \in Paths \ contested, row[p].st = "active",
                      causes \cap {"overtaken", "raced"} = {}
               PROVE  FALSE
    BY DEF OrphansAreExplained
  <2>1. Calm /\ p \in Tame
    BY DEF Calm, Tame
  <2>2. CASE row[Root].st = "exited"
    BY <2>1, <2>2 DEF OrphanInv, Exited
  <2>3. CASE row[Root].st = "completed"
    <3>1. Passed(NoTx)
      BY <2>1, <2>3 DEF OrphanInv, Going
    <3>2. NoTx.dirty = {}
      BY DEF NoTx
    <3>3. Past(NoTx, Root)
      BY <2>3, <3>2 DEF Past, Knows, St
    <3>4. CASE Root \in Forks
      <4>1. Gone(NoTx, Root)
        BY <3>1, <3>3, <3>4 DEF Passed
      <4>2. St(NoTx, row, p) \in Over
        BY <2>1, <4>1, InnerAll DEF Gone
      <4> QED BY <3>2, <4>2 DEF St, Over
    <3>5. CASE Root \notin Forks
      <4>1. Children(Root) = {}
        BY <3>5, Sorts DEF Forks, Children
      <4>2. {} \in SUBSET Paths /\ \A h \in {} : Children(h) \subseteq {}
        OBVIOUS
      <4>3. p \in Inner(Root)
        BY InnerAll
      <4> QED BY <4>1, <4>2, <4>3 DEF Inner
    <3> QED BY <3>4, <3>5
  <2> QED BY <2>2, <2>3 DEF Ended
<1> QED BY <1>1, <1>2, <1>3, FunnelTypes, PTL DEF Spec
=============================================================================

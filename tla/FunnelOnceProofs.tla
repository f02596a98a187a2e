-------------------------- MODULE FunnelOnceProofs --------------------------
(***************************************************************************)
(* An action of a funnel runs once, for any paths, scripts, handlers and   *)
(* number of faults, unless two transactions went on with its flow at a    *)
(* time or one was lost behind an action.                                  *)
(*                                                                         *)
(* What holds of a flow p until it is contested: one call of one session   *)
(* is in a step of it, that step is where the session's rows have p, and   *)
(* no action beyond where p is has run.  It is stated for any rows r,      *)
(* transactions x, executions a, contested flows K and causes C, since an  *)
(* action's commit changes them one after the other.                       *)
(***************************************************************************)
EXTENDS FunnelJoinProofs

\* The calls of a stack that are in a step of p.
On(q, p) == {i \in DOMAIN q : q[i].do \in AtStep /\ q[i].flow = p}

Moves(t, p) == <<p, "st">> \in t.dirty \/ <<p, "at">> \in t.dirty

\* No action of p beyond i has run.
Unrun(a, p, i) == \A y \in Actions : y[1] = p /\ y[2] > i => a[y] = 0

\* A transaction that has not begun has nothing; a call below another one starts a
\* thread; a flow that is moved exists.
Tidy(t, r) ==
  /\ t.op = "none" => t.dirty = {} /\ t.calls = <<>> /\ ~t.acted
  /\ \A i \in DOMAIN t.calls : i > 1 /\ t.calls[i].do \in AtStep =>
       t.calls[i].do = "process" /\ t.calls[i].step = 1
  /\ \A p \in Flows : On(t.calls, p) # {} \/ <<p, "at">> \in t.dirty => St(t, r, p) # "none"

\* One transaction moves a flow.
Alone(x) ==
  \A s, u \in Sessions : s # u => \A p \in Flows : Moves(x[s], p) => ~Moves(x[u], p)

\* One call is in a step of p, and nobody else takes p to another one.
Single(r, x, p) ==
  \A s \in Sessions : \A i \in On(x[s].calls, p) :
    /\ \A j \in On(x[s].calls, p) : i = j
    /\ x[s].calls[i].step = At(x[s], r, p)
    /\ \A u \in Sessions \ {s} : On(x[u].calls, p) = {} /\ <<p, "at">> \notin x[u].dirty

\* The actions of p run in its order, each of them once: none that a session is about
\* to process, none beyond the last step that p was taken to, and, as long as
\* nothing was committed on the way there, none beyond the row.
Unspent(r, x, a, p) ==
  /\ \A s \in Sessions :
       /\ \A i \in On(x[s].calls, p) :
            x[s].calls[i].do \in {"process", "act"} =>
              \A y \in Actions : y = <<p, x[s].calls[i].step>> => a[y] = 0
       /\ (\A u \in Sessions \ {s} : <<p, "at">> \notin x[u].dirty) =>
            Unrun(a, p, At(x[s], r, p))
       /\ ~x[s].acted /\ <<p, "at">> \in x[s].dirty => Unrun(a, p, r[p].at)
  /\ \A y \in Actions : y[1] = p => a[y] <= 1

OnceFor(r, x, a, K, C) ==
  /\ \A p \in Flows : r[p].st = "none" => r[p].at = 0
  /\ \A s \in Sessions : Tidy(x[s], r)
  /\ Alone(x)
  /\ \A p \in Flows \ K : Single(r, x, p) /\ ("lost" \notin C => Unspent(r, x, a, p))

OnceInv == OnceFor(row, tx, acts, contested, causes)

-----------------------------------------------------------------------------
(* A step of one session that commits nothing: the calls c take the place of *)
(* the top of its stack.                                                     *)

Below(q) == IF q = <<>> THEN <<>> ELSE Tail(q)
Onto(q, c) == c \o Below(q)

\* The call in c that is in a step of p takes p there, and nobody else is on it.
Leads(r, x, a, s, u, c, p, C) ==
  /\ \A i, j \in On(c, p) : i = j
  /\ \A i \in On(c, p) :
       /\ c[i].step = At(u, r, p)
       /\ c[i].do \in {"process", "act"} /\ "lost" \notin C =>
            \A y \in Actions : y = <<p, c[i].step>> => a[y] = 0
  /\ At(u, r, p) >= At(x[s], r, p)
  /\ On(x[s].calls, p) \subseteq {1}
  /\ On(x[s].calls, p) = {} =>
       \A w \in Sessions \ {s} : On(x[w].calls, p) = {} /\ <<p, "at">> \notin x[w].dirty

\* A flow changes its step only with a call in c.
Onward(r, x, a, s, u, c, K, C) ==
  /\ u.op # "none" /\ (x[s].acted => u.acted)
  /\ \A i \in DOMAIN c : i > 1 /\ c[i].do \in AtStep => c[i].do = "process" /\ c[i].step = 1
  /\ \A p \in Flows :
       /\ St(x[s], r, p) # "none" \/ On(c, p) # {} => St(u, r, p) # "none"
       /\ Moves(u, p) => Moves(x[s], p) \/ \A w \in Sessions \ {s} : ~Moves(x[w], p)
       /\ <<p, "at">> \in x[s].dirty => <<p, "at">> \in u.dirty
       /\ On(c, p) = {} => /\ At(u, r, p) = At(x[s], r, p)
                           /\ <<p, "at">> \in u.dirty => <<p, "at">> \in x[s].dirty
  /\ \A p \in Flows \ K : On(c, p) # {} => Leads(r, x, a, s, u, c, p, C)

\* A call is one of the new ones or was below the top.
LEMMA StackOn ==
  ASSUME NEW q \in Seq(Calls), NEW c \in Seq(Calls), NEW d, d = Onto(q, c)
  PROVE  /\ DOMAIN c \subseteq DOMAIN d /\ \A i \in DOMAIN c : d[i] = c[i]
         /\ \A i \in DOMAIN d \ DOMAIN c :
              /\ i - Len(c) + 1 \in DOMAIN q /\ i - Len(c) + 1 > 1
              /\ d[i] = q[i - Len(c) + 1]
              /\ i \in Nat /\ Len(c) \in Nat
<1>1. CASE q = <<>>
  <2>1. Below(q) = <<>>
    BY <1>1 DEF Below
  <2>2. d = c
    BY <2>1 DEF Onto
  <2> QED BY <2>2
<1>2. CASE q # <<>>
  <2>1. PICK b : b = Tail(q)
    OBVIOUS
  <2>2. b \in Seq(Calls) /\ Len(b) = Len(q) - 1 /\ Len(q) \in Nat /\ Len(q) >= 1
        /\ \A i \in 1 .. Len(b) : b[i] = q[i + 1]
    BY <1>2, <2>1
  <2>7. b \in Seq(Calls)
    BY <2>2
  <2>3. d = c \o b
    BY <1>2, <2>1 DEF Below, Onto
  <2>4. /\ DOMAIN d = 1 .. Len(c) + Len(b) /\ DOMAIN c = 1 .. Len(c) /\ DOMAIN q = 1 .. Len(q)
        /\ Len(c) \in Nat /\ Len(b) \in Nat
    <3>1. Len(c \o b) = Len(c) + Len(b) /\ c \o b \in Seq(Calls)
      BY <2>7
    <3> QED BY <2>2, <2>3, <3>1
  <2>5. \A i \in DOMAIN c : d[i] = c[i]
    BY <2>2, <2>3
  <2>6. ASSUME NEW i \in DOMAIN d \ DOMAIN c
        PROVE  /\ i - Len(c) + 1 \in DOMAIN q /\ i - Len(c) + 1 > 1
               /\ d[i] = q[i - Len(c) + 1]
               /\ i \in Nat /\ Len(c) \in Nat
    <3>1. i \in Nat /\ i > Len(c) /\ i - Len(c) \in 1 .. Len(b)
      BY <2>4, <2>6
    <3>2. d[i] = b[i - Len(c)]
      BY <2>2, <2>3, <2>4, <3>1
    <3>3. i - Len(c) + 1 \in 1 .. Len(q)
      BY <2>2, <2>4, <3>1
    <3>4. i - Len(c) + 1 > 1 /\ Len(c) \in Nat
      BY <2>4, <3>1
    <3>5. b[i - Len(c)] = q[i - Len(c) + 1]
      BY <2>2, <3>1
    <3> QED BY <2>4, <3>1, <3>2, <3>3, <3>4, <3>5
  <2> QED BY <2>4, <2>5, <2>6
<1> QED BY <1>1, <1>2

LEMMA TypesOf ==
  ASSUME NEW t \in Transactions, NEW r \in Rows, NEW p \in Flows
  PROVE  /\ t.calls \in Seq(Calls) /\ At(t, r, p) \in Nat /\ r[p].at \in Nat
         /\ \A i \in On(t.calls, p) : i \in Nat /\ i >= 1
<1>1. t.mem \in Rows /\ t.mem[p].at \in Nat /\ r[p].at \in Nat
  BY MemOf, RowOf DEF Row
<1> QED BY <1>1 DEF Transactions, At, On

\* The calls of one session in a step of p, after the step.
LEMMA OnAfter ==
  ASSUME NEW q \in Seq(Calls), NEW c \in Seq(Calls), NEW d, d = Onto(q, c), NEW p
  PROVE  /\ On(c, p) \subseteq On(d, p)
         /\ On(d, p) # {} => On(c, p) # {} \/ On(q, p) # {}
         /\ On(q, p) \subseteq {1} => On(d, p) = On(c, p)
         /\ \A i \in On(d, p) : \/ i \in On(c, p) /\ d[i] = c[i]
                                \/ /\ i - Len(c) + 1 \in On(q, p) /\ i - Len(c) + 1 > 1
                                   /\ d[i] = q[i - Len(c) + 1]
                                   /\ i \in Nat /\ Len(c) \in Nat
<1>4. /\ DOMAIN c \subseteq DOMAIN d /\ \A i \in DOMAIN c : d[i] = c[i]
      /\ \A i \in DOMAIN d \ DOMAIN c :
           /\ i - Len(c) + 1 \in DOMAIN q /\ i - Len(c) + 1 > 1
           /\ d[i] = q[i - Len(c) + 1]
           /\ i \in Nat /\ Len(c) \in Nat
  BY StackOn
<1>1. On(c, p) \subseteq On(d, p)
  BY <1>4 DEF On
<1>2. \A i \in On(d, p) : \/ i \in On(c, p) /\ d[i] = c[i]
                          \/ /\ i - Len(c) + 1 \in On(q, p) /\ i - Len(c) + 1 > 1
                             /\ d[i] = q[i - Len(c) + 1]
                             /\ i \in Nat /\ Len(c) \in Nat
  <2> SUFFICES ASSUME NEW i \in On(d, p)
               PROVE  \/ i \in On(c, p) /\ d[i] = c[i]
                      \/ /\ i - Len(c) + 1 \in On(q, p) /\ i - Len(c) + 1 > 1
                         /\ d[i] = q[i - Len(c) + 1]
                         /\ i \in Nat /\ Len(c) \in Nat
    OBVIOUS
  <2>1. i \in DOMAIN d /\ d[i].do \in AtStep /\ d[i].flow = p
    BY DEF On
  <2>2. CASE i \in DOMAIN c
    <3>1. d[i] = c[i]
      BY <1>4, <2>2
    <3> QED BY <2>1, <2>2, <3>1 DEF On
  <2>3. CASE i \notin DOMAIN c
    <3>1. PICK j : j = i - Len(c) + 1
      OBVIOUS
    <3>2. j \in DOMAIN q /\ j > 1 /\ d[i] = q[j] /\ i \in Nat /\ Len(c) \in Nat
      BY <1>4, <2>1, <2>3, <3>1
    <3>3. j \in On(q, p)
      BY <2>1, <3>2 DEF On
    <3> QED BY <3>1, <3>2, <3>3
  <2> QED BY <2>2, <2>3
<1>3. ASSUME On(q, p) \subseteq {1} PROVE On(d, p) \subseteq On(c, p)
  <2> SUFFICES ASSUME NEW i \in On(d, p) PROVE i \in On(c, p)
    OBVIOUS
  <2> QED BY <1>2, <1>3
<1> QED BY <1>1, <1>2, <1>3

LEMMA LocalOnce ==
  ASSUME NEW r \in Rows, NEW x \in [Sessions -> Transactions], NEW a, NEW K, NEW C,
         OnceFor(r, x, a, K, C),
         NEW s \in Sessions, NEW u \in Transactions, NEW c \in Seq(Calls),
         u.calls = Onto(x[s].calls, c),
         NEW L, K \subseteq L, NEW D, C \subseteq D, Onward(r, x, a, s, u, c, L, C),
         NEW y, y = [x EXCEPT ![s] = u]
  PROVE  OnceFor(r, y, a, L, D)
<1>1. PICK t : t = x[s]
  OBVIOUS
<1>2. t \in Transactions /\ t.calls \in Seq(Calls) /\ Tidy(t, r)
  BY <1>1, TypesOf DEF OnceFor, Transactions
<1>11. u.calls = Onto(t.calls, c)
  BY <1>1
<1>3. \A p : /\ On(c, p) \subseteq On(u.calls, p)
             /\ On(u.calls, p) # {} => On(c, p) # {} \/ On(t.calls, p) # {}
             /\ On(t.calls, p) \subseteq {1} => On(u.calls, p) = On(c, p)
             /\ \A i \in On(u.calls, p) :
                  \/ i \in On(c, p) /\ u.calls[i] = c[i]
                  \/ /\ i - Len(c) + 1 \in On(t.calls, p) /\ i - Len(c) + 1 > 1
                     /\ u.calls[i] = t.calls[i - Len(c) + 1]
                     /\ i \in Nat /\ Len(c) \in Nat
  BY <1>2, <1>11, OnAfter
<1>4. y[s] = u /\ \A w \in Sessions \ {s} : y[w] = x[w]
  OBVIOUS
<1>5. Tidy(u, r)
  <2>1. u.op # "none"
    BY DEF Onward
  <2>2. ASSUME NEW i \in DOMAIN u.calls, i > 1, u.calls[i].do \in AtStep
        PROVE  u.calls[i].do = "process" /\ u.calls[i].step = 1
    <3>1. CASE i \in DOMAIN c
      <4>1. u.calls[i] = c[i]
        BY <1>2, <1>11, <3>1, StackOn
      <4> QED BY <2>2, <3>1, <4>1 DEF Onward
    <3>2. CASE i \notin DOMAIN c
      <4>1. PICK j : j = i - Len(c) + 1
        OBVIOUS
      <4>2. j \in DOMAIN t.calls /\ j > 1 /\ u.calls[i] = t.calls[j]
        BY <1>2, <1>11, <3>2, <4>1, StackOn
      <4> QED BY <1>2, <2>2, <4>2 DEF Tidy
    <3> QED BY <3>1, <3>2
  <2>3. ASSUME NEW p \in Flows, On(u.calls, p) # {} \/ <<p, "at">> \in u.dirty
        PROVE  St(u, r, p) # "none"
    <3>1. CASE On(c, p) # {}
      BY <3>1 DEF Onward
    <3>2. CASE On(c, p) = {}
      <4>1. On(t.calls, p) # {} \/ <<p, "at">> \in t.dirty
        BY <1>1, <1>3, <2>3, <3>2 DEF Onward
      <4> QED BY <1>1, <1>2, <4>1 DEF Tidy, Onward
    <3> QED BY <3>1, <3>2
  <2> QED BY <2>1, <2>2, <2>3 DEF Tidy
<1>6. Alone(y)
  <2>1. \A w \in Sessions \ {s} : \A p \in Flows : Moves(u, p) => ~Moves(x[w], p)
    BY DEF OnceFor, Alone, Onward
  <2> SUFFICES ASSUME NEW v \in Sessions, NEW w \in Sessions, v # w, NEW p \in Flows,
                      Moves(y[v], p), Moves(y[w], p)
               PROVE  FALSE
    BY DEF Alone
  <2> QED BY <1>4, <2>1 DEF OnceFor, Alone
<1>7. ASSUME NEW p \in Flows \ L PROVE Single(r, y, p)
  <2>1. Single(r, x, p) /\ p \in Flows
    BY <1>7 DEF OnceFor
  <2>2. On(c, p) # {} => Leads(r, x, a, s, u, c, p, C)
    BY <1>7 DEF Onward
  <2>3. ASSUME NEW i \in On(u.calls, p)
        PROVE  /\ \A j \in On(u.calls, p) : i = j
               /\ u.calls[i].step = At(u, r, p)
               /\ \A w \in Sessions \ {s} : On(x[w].calls, p) = {} /\ <<p, "at">> \notin x[w].dirty
    <3>1. CASE On(c, p) # {}
      <4>3. On(t.calls, p) \subseteq {1}
        BY <1>1, <2>2, <3>1 DEF Leads
      <4>1. On(u.calls, p) = On(c, p) /\ u.calls[i] = c[i]
        <5>1. On(u.calls, p) = On(c, p)
          BY <1>3, <4>3
        <5>2. i - Len(c) + 1 \in On(t.calls, p) => ~ (i - Len(c) + 1 > 1)
          BY <4>3
        <5> QED BY <1>3, <2>3, <5>1, <5>2
      <4>2. \A w \in Sessions \ {s} : On(x[w].calls, p) = {} /\ <<p, "at">> \notin x[w].dirty
        BY <2>1, <2>2, <3>1 DEF Leads, Single
      <4> QED BY <2>2, <2>3, <3>1, <4>1, <4>2 DEF Leads
    <3>2. CASE On(c, p) = {}
      <4>1. \A j \in On(u.calls, p) :
              /\ j - Len(c) + 1 \in On(t.calls, p) /\ u.calls[j] = t.calls[j - Len(c) + 1]
              /\ j \in Nat /\ Len(c) \in Nat
        BY <1>3, <3>2
      <4>2. At(u, r, p) = At(t, r, p)
        BY <1>1, <2>1, <3>2 DEF Onward
      <4>3. \A j \in On(u.calls, p) : i = j
        <5> SUFFICES ASSUME NEW j \in On(u.calls, p) PROVE i = j
          OBVIOUS
        <5>1. i - Len(c) + 1 = j - Len(c) + 1
          BY ZenonT(60), <1>1, <2>1, <2>3, <4>1 DEF Single
        <5> QED BY <2>3, <4>1, <5>1
      <4>4. PICK k : k = i - Len(c) + 1
        OBVIOUS
      <4>5. k \in On(x[s].calls, p) /\ u.calls[i] = x[s].calls[k]
        BY <1>1, <2>3, <4>1, <4>4
      <4>6. /\ x[s].calls[k].step = At(x[s], r, p)
            /\ \A w \in Sessions \ {s} : On(x[w].calls, p) = {} /\ <<p, "at">> \notin x[w].dirty
        BY <2>1, <4>5 DEF Single
      <4> QED BY <1>1, <4>2, <4>3, <4>5, <4>6
    <3> QED BY <3>1, <3>2
  <2>4. ASSUME NEW w \in Sessions \ {s}, NEW i \in On(x[w].calls, p)
        PROVE  On(u.calls, p) = {} /\ <<p, "at">> \notin u.dirty
    <3>1. On(t.calls, p) = {} /\ <<p, "at">> \notin t.dirty
      BY <1>1, <2>1, <2>4 DEF Single
    <3>2. On(c, p) = {}
      BY <1>1, <2>2, <2>4, <3>1 DEF Leads
    <3> QED BY <1>1, <1>3, <2>1, <3>1, <3>2 DEF Onward
  <2> SUFFICES ASSUME NEW v \in Sessions, NEW i \in On(y[v].calls, p)
               PROVE  /\ \A j \in On(y[v].calls, p) : i = j
                      /\ y[v].calls[i].step = At(y[v], r, p)
                      /\ \A w \in Sessions \ {v} :
                           On(y[w].calls, p) = {} /\ <<p, "at">> \notin y[w].dirty
    BY DEF Single
  <2>5. CASE v = s
    BY <1>4, <2>3, <2>5
  <2>6. CASE v # s
    BY <1>4, <2>1, <2>4, <2>6 DEF Single
  <2> QED BY <2>5, <2>6
<1>8. ASSUME NEW p \in Flows \ L, "lost" \notin D PROVE Unspent(r, y, a, p)
  <2>1. Unspent(r, x, a, p) /\ p \in Flows /\ "lost" \notin C
    BY <1>8 DEF OnceFor
  <2>2. On(c, p) # {} => Leads(r, x, a, s, u, c, p, C)
    BY <1>8 DEF Onward
  <2>3. \A i \in On(u.calls, p) : u.calls[i].do \in {"process", "act"} =>
          \A z \in Actions : z = <<p, u.calls[i].step>> => a[z] = 0
    <3> SUFFICES ASSUME NEW i \in On(u.calls, p), u.calls[i].do \in {"process", "act"},
                        NEW z \in Actions, z = <<p, u.calls[i].step>>
                 PROVE  a[z] = 0
      OBVIOUS
    <3>1. CASE i \in On(c, p) /\ u.calls[i] = c[i]
      BY <2>1, <2>2, <3>1 DEF Leads
    <3>2. CASE i - Len(c) + 1 \in On(t.calls, p) /\ u.calls[i] = t.calls[i - Len(c) + 1]
      BY <1>1, <2>1, <3>2 DEF Unspent
    <3> QED BY <1>3, <3>1, <3>2
  <2>4. At(u, r, p) \in Nat /\ At(t, r, p) \in Nat /\ At(u, r, p) >= At(t, r, p)
    <3>1. At(u, r, p) \in Nat /\ At(t, r, p) \in Nat
      BY <1>2, <2>1, TypesOf
    <3>2. On(c, p) = {} => At(u, r, p) = At(t, r, p)
      BY <1>1, <2>1 DEF Onward
    <3>3. On(c, p) # {} => At(u, r, p) >= At(t, r, p)
      BY <1>1, <2>2 DEF Leads
    <3> QED BY <3>1, <3>2, <3>3
  <2>5. ASSUME \A w \in Sessions \ {s} : <<p, "at">> \notin x[w].dirty
        PROVE  Unrun(a, p, At(u, r, p))
    <3>1. Unrun(a, p, At(t, r, p))
      BY <1>1, <2>1, <2>5 DEF Unspent
    <3>2. \A z \in Actions : z[1] = p => z[2] \in Nat
      BY Scripts DEF Actions, Steps, StepsOf
    <3> QED BY <2>4, <3>1, <3>2 DEF Unrun
  <2>6. ASSUME ~u.acted, <<p, "at">> \in u.dirty PROVE Unrun(a, p, r[p].at)
    <3>1. ~t.acted
      BY <1>1, <2>6 DEF Onward
    <3>2. CASE <<p, "at">> \in t.dirty
      BY <1>1, <2>1, <3>1, <3>2 DEF Unspent
    <3>3. CASE <<p, "at">> \notin t.dirty
      <4>1. \A w \in Sessions \ {s} : ~Moves(x[w], p)
        BY <2>1, <2>6 DEF OnceFor, Alone, Onward, Moves
      <4>2. At(t, r, p) = r[p].at
        BY <3>3 DEF At
      <4> QED BY <1>1, <2>1, <4>1, <4>2 DEF Unspent, Moves
    <3> QED BY <3>2, <3>3
  <2> SUFFICES ASSUME NEW v \in Sessions
               PROVE  /\ \A i \in On(y[v].calls, p) :
                           y[v].calls[i].do \in {"process", "act"} =>
                             \A z \in Actions : z = <<p, y[v].calls[i].step>> => a[z] = 0
                      /\ (\A w \in Sessions \ {v} : <<p, "at">> \notin y[w].dirty) =>
                           Unrun(a, p, At(y[v], r, p))
                      /\ ~y[v].acted /\ <<p, "at">> \in y[v].dirty => Unrun(a, p, r[p].at)
    BY <2>1 DEF Unspent
  <2>7. CASE v = s
    BY <1>4, <2>3, <2>5, <2>6, <2>7
  <2>8. CASE v # s
    <3>1. <<p, "at">> \in x[s].dirty => <<p, "at">> \in u.dirty
      BY <2>1 DEF Onward
    <3>2. y[v] = x[v] /\ y[s] = u /\ v \in Sessions \ {s}
      BY <1>4, <2>8
    <3>3. (\A w \in Sessions \ {v} : <<p, "at">> \notin y[w].dirty) =>
            \A w \in Sessions \ {v} : <<p, "at">> \notin x[w].dirty
      BY <1>4, <3>1
    <3> QED BY <2>1, <3>2, <3>3 DEF Unspent
  <2> QED BY <2>7, <2>8
<1>9. \A v \in Sessions : Tidy(y[v], r)
  BY <1>4, <1>5 DEF OnceFor
<1>10. \A p \in Flows : r[p].st = "none" => r[p].at = 0
  BY DEF OnceFor
<1> QED BY <1>6, <1>7, <1>8, <1>9, <1>10 DEF OnceFor

\* An action at the step where p is, in a session that goes on from there.
LEMMA RunOnce ==
  ASSUME NEW r \in Rows, NEW x \in [Sessions -> Transactions], NEW a \in [Actions -> Nat],
         NEW K, NEW C, OnceFor(r, x, a, K, C),
         NEW s \in Sessions, x[s].acted, NEW p \in Flows, NEW z \in Actions, z[1] = p,
         On(x[s].calls, p) # {}, At(x[s], r, p) = z[2] \/ p \in K,
         p \notin K => \A i \in On(x[s].calls, p) : x[s].calls[i].do = "advance",
         p \notin K /\ "lost" \notin C => a[z] = 0,
         NEW b, b = [a EXCEPT ![z] = @ + 1]
  PROVE  OnceFor(r, x, b, K, C)
<1>1. b[z] = a[z] + 1 /\ \A y \in Actions : y # z => b[y] = a[y]
  OBVIOUS
<1>2. \A y \in Actions : y[1] \in Flows /\ y[2] \in Nat /\ y = <<y[1], y[2]>>
  BY Scripts DEF Actions, Steps, StepsOf
<1>3. ASSUME NEW q \in Flows \ K, "lost" \notin C PROVE Unspent(r, x, b, q)
  <2>1. Unspent(r, x, a, q) /\ Single(r, x, q)
    BY <1>3 DEF OnceFor
  <2>2. CASE q # p
    <3>1. \A y \in Actions : y[1] = q => b[y] = a[y]
      BY <1>1, <2>2
    <3>2. \A i \in Nat : \A y \in Actions : y = <<q, i>> => b[y] = a[y]
      BY <3>1
    <3>3. \A i : Unrun(a, q, i) => Unrun(b, q, i)
      BY <3>1 DEF Unrun
    <3>4. \A v \in Sessions : \A i \in On(x[v].calls, q) : x[v].calls[i].step \in Nat
      <4> SUFFICES ASSUME NEW v \in Sessions, NEW i \in On(x[v].calls, q)
                   PROVE  x[v].calls[i].step \in Nat
        OBVIOUS
      <4>1. x[v] \in Transactions /\ q \in Flows
        OBVIOUS
      <4>2. At(x[v], r, q) \in Nat
        BY <4>1, TypesOf
      <4> QED BY <2>1, <4>2 DEF Single
    <3>5. \A v \in Sessions : \A i \in On(x[v].calls, q) :
            x[v].calls[i].do \in {"process", "act"} =>
              \A y \in Actions : y = <<q, x[v].calls[i].step>> => b[y] = 0
      BY <2>1, <3>2, <3>4 DEF Unspent
    <3> QED BY <2>1, <3>1, <3>3, <3>5 DEF Unspent
  <2>3. CASE q = p
    <3>1. a[z] = 0 /\ At(x[s], r, p) = z[2] /\ p \notin K
      BY <1>3, <2>3
    <3>2. \A w \in Sessions \ {s} : On(x[w].calls, p) = {} /\ <<p, "at">> \notin x[w].dirty
      BY <2>1, <2>3 DEF Single
    <3>3. \A v \in Sessions : \A i \in On(x[v].calls, p) : x[v].calls[i].do = "advance"
      BY <3>1, <3>2
    <3>4. \A y \in Actions : y[1] = p => b[y] <= 1
      BY <1>1, <2>1, <2>3, <3>1 DEF Unspent
    <3>5. \A i : Unrun(a, p, i) /\ z[2] = i => Unrun(b, p, i)
      BY <1>1, <1>2 DEF Unrun
    <3>6. ASSUME NEW v \in Sessions, \A w \in Sessions \ {v} : <<p, "at">> \notin x[w].dirty
          PROVE  Unrun(b, p, At(x[v], r, p))
      <4>1. Unrun(a, p, At(x[v], r, p))
        BY <2>1, <2>3, <3>6 DEF Unspent
      <4>2. At(x[v], r, p) = z[2]
        BY <3>1, <3>2, <3>6 DEF At
      <4> QED BY <3>5, <4>1, <4>2
    <3>7. \A v \in Sessions : ~x[v].acted /\ <<p, "at">> \in x[v].dirty => Unrun(b, p, r[p].at)
      BY <3>2
    <3>8. \A v \in Sessions : \A i \in On(x[v].calls, p) :
            x[v].calls[i].do \notin {"process", "act"}
      BY <3>3
    <3> QED BY <2>3, <3>4, <3>6, <3>7, <3>8 DEF Unspent
  <2> QED BY <2>2, <2>3
<1> QED BY <1>3 DEF OnceFor

\* What s has written becomes the rows; u is what s goes on with.
LEMMA CommitOnce ==
  ASSUME NEW r \in Rows, NEW x \in [Sessions -> Transactions], NEW a, NEW K, NEW C,
         OnceFor(r, x, a, K, C), NEW s \in Sessions,
         \A p \in Flows : <<p, "st">> \in x[s].dirty => x[s].mem[p].st # "none",
         NEW g \in Rows,
         \A p \in Flows : g[p].st = St(x[s], r, p) /\ g[p].at = At(x[s], r, p),
         NEW u \in Transactions, u.dirty = {}, u.calls = x[s].calls \/ u.calls = <<>>,
         u.op # "none" \/ (u.calls = <<>> /\ ~u.acted),
         NEW y, y = [x EXCEPT ![s] = u]
  PROVE  OnceFor(g, y, a, K, C)
<1>1. PICK t : t = x[s]
  OBVIOUS
<1>2. y[s] = u /\ \A w \in Sessions \ {s} : y[w] = x[w]
  OBVIOUS
<1>3. \A p \in Flows : On(u.calls, p) \subseteq On(t.calls, p)
  BY <1>1 DEF On
<1>4. \A p \in Flows : St(u, g, p) = St(t, r, p) /\ At(u, g, p) = At(t, r, p)
  BY <1>1 DEF St, At
<1>5. \A p \in Flows : r[p].st # "none" => g[p].st # "none"
  BY DEF St
<1>6. \A p \in Flows : g[p].st = "none" => g[p].at = 0
  <2> SUFFICES ASSUME NEW p \in Flows, g[p].st = "none" PROVE g[p].at = 0
    OBVIOUS
  <2>1. St(t, r, p) = "none" /\ r[p].st = "none"
    BY <1>1, <1>5
  <2>2. <<p, "at">> \notin t.dirty
    BY <1>1, <2>1 DEF OnceFor, Tidy
  <2> QED BY <1>1, <2>1, <2>2 DEF OnceFor, At
<1>7. ASSUME NEW v \in Sessions PROVE Tidy(y[v], g)
  <2>1. Tidy(x[v], r)
    BY DEF OnceFor
  <2>2. CASE v = s
    <3>1. u.op = "none" => u.dirty = {} /\ u.calls = <<>> /\ ~u.acted
      OBVIOUS
    <3>2. \A i \in DOMAIN u.calls : i > 1 /\ u.calls[i].do \in AtStep =>
            u.calls[i].do = "process" /\ u.calls[i].step = 1
      BY <2>1, <2>2 DEF Tidy
    <3>3. \A p \in Flows : On(u.calls, p) # {} \/ <<p, "at">> \in u.dirty => St(u, g, p) # "none"
      BY <1>1, <1>3, <1>4, <2>1, <2>2 DEF Tidy
    <3> QED BY <1>2, <2>2, <3>1, <3>2, <3>3 DEF Tidy
  <2>3. CASE v # s
    <3>1. \A p \in Flows : St(x[v], r, p) # "none" => St(x[v], g, p) # "none"
      BY <1>5 DEF St
    <3> QED BY <1>2, <2>1, <2>3, <3>1 DEF Tidy
  <2> QED BY <2>2, <2>3
<1>8. Alone(y)
  <2>1. \A p \in Flows : ~Moves(u, p)
    BY DEF Moves
  <2> SUFFICES ASSUME NEW v \in Sessions, NEW w \in Sessions, v # w, NEW p \in Flows,
                      Moves(y[v], p), Moves(y[w], p)
               PROVE  FALSE
    BY DEF Alone
  <2> QED BY <1>2, <2>1 DEF OnceFor, Alone
<1>9. \A w \in Sessions \ {s}, p \in Flows :
        <<p, "at">> \notin t.dirty \/ <<p, "at">> \in x[w].dirty => At(x[w], g, p) = At(x[w], r, p)
  <2> SUFFICES ASSUME NEW w \in Sessions \ {s}, NEW p \in Flows,
                      <<p, "at">> \notin t.dirty \/ <<p, "at">> \in x[w].dirty
               PROVE  At(x[w], g, p) = At(x[w], r, p)
    OBVIOUS
  <2>1. CASE <<p, "at">> \in x[w].dirty
    BY <2>1 DEF At
  <2>2. CASE <<p, "at">> \notin t.dirty
    BY <1>1, <2>2 DEF At
  <2> QED BY <2>1, <2>2
<1>10. ASSUME NEW p \in Flows \ K PROVE Single(g, y, p)
  <2>1. Single(r, x, p) /\ p \in Flows
    BY <1>10 DEF OnceFor
  <2> SUFFICES ASSUME NEW v \in Sessions, NEW i \in On(y[v].calls, p)
               PROVE  /\ \A j \in On(y[v].calls, p) : i = j
                      /\ y[v].calls[i].step = At(y[v], g, p)
                      /\ \A w \in Sessions \ {v} :
                           On(y[w].calls, p) = {} /\ <<p, "at">> \notin y[w].dirty
    BY DEF Single
  <2>2. CASE v = s
    <3>1. i \in On(t.calls, p) /\ u.calls = t.calls
      BY <1>1, <1>2, <1>3, <2>1, <2>2 DEF On
    <3> QED BY ZenonT(60), <1>1, <1>2, <1>4, <2>1, <2>2, <3>1 DEF Single
  <2>3. CASE v # s
    <3>1. i \in On(x[v].calls, p) /\ v \in Sessions \ {s}
      BY <1>2, <2>3
    <3>2. <<p, "at">> \notin t.dirty /\ On(t.calls, p) = {}
      BY <1>1, <2>1, <2>3, <3>1 DEF Single
    <3>3. On(u.calls, p) = {} /\ <<p, "at">> \notin u.dirty
      BY <1>3, <2>1, <3>2
    <3>4. At(x[v], g, p) = At(x[v], r, p)
      BY <1>9, <2>1, <3>1, <3>2
    <3> QED BY <1>2, <2>1, <2>3, <3>1, <3>3, <3>4 DEF Single
  <2> QED BY <2>2, <2>3
<1>11. ASSUME NEW p \in Flows \ K, "lost" \notin C PROVE Unspent(g, y, a, p)
  <2>1. Unspent(r, x, a, p) /\ p \in Flows
    BY <1>11 DEF OnceFor
  <2> SUFFICES ASSUME NEW v \in Sessions
               PROVE  /\ \A i \in On(y[v].calls, p) :
                           y[v].calls[i].do \in {"process", "act"} =>
                             \A z \in Actions : z = <<p, y[v].calls[i].step>> => a[z] = 0
                      /\ (\A w \in Sessions \ {v} : <<p, "at">> \notin y[w].dirty) =>
                           Unrun(a, p, At(y[v], g, p))
                      /\ ~y[v].acted /\ <<p, "at">> \in y[v].dirty => Unrun(a, p, g[p].at)
    BY <2>1 DEF Unspent
  <2>2. \A i \in On(y[v].calls, p) : y[v].calls[i].do \in {"process", "act"} =>
          \A z \in Actions : z = <<p, y[v].calls[i].step>> => a[z] = 0
    <3>1. CASE v # s
      BY <1>2, <2>1, <3>1 DEF Unspent
    <3>2. CASE v = s
      <4> SUFFICES ASSUME NEW i \in On(u.calls, p)
                   PROVE  u.calls[i].do \in {"process", "act"} =>
                            \A z \in Actions : z = <<p, u.calls[i].step>> => a[z] = 0
        BY <1>2, <3>2
      <4>1. i \in On(x[s].calls, p) /\ u.calls = x[s].calls
        BY <1>1, <1>3, <2>1 DEF On
      <4> QED BY <2>1, <4>1 DEF Unspent
    <3> QED BY <3>1, <3>2
  <2>3. ASSUME \A w \in Sessions \ {v} : <<p, "at">> \notin y[w].dirty
        PROVE  Unrun(a, p, At(y[v], g, p))
    <3>1. CASE v = s
      <4>1. \A w \in Sessions \ {s} : <<p, "at">> \notin x[w].dirty
        BY <1>2, <2>3, <3>1
      <4> QED BY <1>1, <1>2, <1>4, <2>1, <3>1, <4>1 DEF Unspent
    <3>2. CASE v # s /\ <<p, "at">> \in x[v].dirty
      <4>1. <<p, "at">> \notin t.dirty
        BY <1>1, <2>1, <3>2 DEF OnceFor, Alone, Moves
      <4>2. \A w \in Sessions \ {v} : <<p, "at">> \notin x[w].dirty
        BY <1>1, <1>2, <2>3, <4>1
      <4>3. At(x[v], g, p) = At(x[v], r, p)
        BY <1>9, <2>1, <3>2
      <4> QED BY <1>2, <2>1, <3>2, <4>2, <4>3 DEF Unspent
    <3>3. CASE v # s /\ <<p, "at">> \notin x[v].dirty
      <4>1. \A w \in Sessions \ {s} : <<p, "at">> \notin x[w].dirty
        BY <1>2, <2>3, <3>3
      <4>2. Unrun(a, p, At(t, r, p))
        BY <1>1, <2>1, <4>1 DEF Unspent
      <4>3. At(y[v], g, p) = At(t, r, p)
        BY <1>1, <1>2, <2>1, <3>3 DEF At
      <4> QED BY <4>2, <4>3
    <3> QED BY <3>1, <3>2, <3>3
  <2>4. ASSUME ~y[v].acted, <<p, "at">> \in y[v].dirty PROVE Unrun(a, p, g[p].at)
    <3>1. v # s /\ y[v] = x[v]
      BY <1>2, <2>4
    <3>2. <<p, "at">> \notin t.dirty
      BY <1>1, <2>1, <2>4, <3>1 DEF OnceFor, Alone, Moves
    <3>3. g[p].at = r[p].at
      BY <1>1, <2>1, <3>2 DEF At
    <3> QED BY <2>1, <2>4, <3>1, <3>3 DEF Unspent
  <2> QED BY <2>2, <2>3, <2>4
<1> QED BY <1>6, <1>7, <1>8, <1>10, <1>11 DEF OnceFor

\* A transaction is rolled back.
LEMMA DropOnce ==
  ASSUME NEW r \in Rows, NEW x \in [Sessions -> Transactions], NEW a, NEW K, NEW C,
         OnceFor(r, x, a, K, C), NEW s \in Sessions,
         NEW D, D = IF x[s].acted THEN C \cup {"lost"} ELSE C,
         NEW y, y = [x EXCEPT ![s] = NoTx]
  PROVE  OnceFor(r, y, a, K, D)
<1>1. y[s] = NoTx /\ \A w \in Sessions \ {s} : y[w] = x[w]
  OBVIOUS
<1>2. NoTx.dirty = {} /\ NoTx.calls = <<>> /\ ~NoTx.acted /\ NoTx.op = "none"
  BY DEF NoTx
<1>3. \A p : On(NoTx.calls, p) = {} /\ ~Moves(NoTx, p)
  BY <1>2 DEF On, Moves
<1>4. \A v \in Sessions : Tidy(y[v], r)
  <2>1. Tidy(NoTx, r)
    BY <1>2, <1>3 DEF Tidy
  <2> QED BY <1>1, <2>1 DEF OnceFor
<1>5. Alone(y)
  <2> SUFFICES ASSUME NEW v \in Sessions, NEW w \in Sessions, v # w, NEW p \in Flows,
                      Moves(y[v], p), Moves(y[w], p)
               PROVE  FALSE
    BY DEF Alone
  <2> QED BY <1>1, <1>3 DEF OnceFor, Alone
<1>6. ASSUME NEW p \in Flows \ K PROVE Single(r, y, p)
  <2>1. Single(r, x, p)
    BY DEF OnceFor
  <2> SUFFICES ASSUME NEW v \in Sessions, NEW i \in On(y[v].calls, p)
               PROVE  /\ \A j \in On(y[v].calls, p) : i = j
                      /\ y[v].calls[i].step = At(y[v], r, p)
                      /\ \A w \in Sessions \ {v} :
                           On(y[w].calls, p) = {} /\ <<p, "at">> \notin y[w].dirty
    BY DEF Single
  <2>2. v # s
    BY <1>1, <1>3
  <2> QED BY <1>1, <1>2, <1>3, <2>1, <2>2 DEF Single
<1>7. ASSUME NEW p \in Flows \ K, "lost" \notin D PROVE Unspent(r, y, a, p)
  <2>1. ~x[s].acted /\ "lost" \notin C
    BY <1>7
  <2>2. Unspent(r, x, a, p) /\ p \in Flows
    BY <2>1 DEF OnceFor
  <2>3. ASSUME NEW v \in Sessions, \A w \in Sessions \ {v} : <<p, "at">> \notin y[w].dirty
        PROVE  Unrun(a, p, At(y[v], r, p))
    <3>1. CASE <<p, "at">> \in x[s].dirty
      <4>1. \A w \in Sessions \ {s} : <<p, "at">> \notin x[w].dirty
        BY <2>2, <3>1 DEF OnceFor, Alone, Moves
      <4>2. At(y[v], r, p) = r[p].at
        BY <1>1, <1>2, <4>1 DEF At
      <4> QED BY <2>1, <2>2, <3>1, <4>2 DEF Unspent
    <3>2. CASE <<p, "at">> \notin x[s].dirty
      <4>1. \A w \in Sessions \ {v} : <<p, "at">> \notin x[w].dirty
        BY <1>1, <2>3, <3>2
      <4>2. At(y[v], r, p) = At(x[v], r, p)
        BY <1>1, <1>2, <3>2 DEF At
      <4> QED BY <2>2, <4>1, <4>2 DEF Unspent
    <3> QED BY <3>1, <3>2
  <2>4. \A v \in Sessions : \A i \in On(y[v].calls, p) :
          y[v].calls[i].do \in {"process", "act"} =>
            \A z \in Actions : z = <<p, y[v].calls[i].step>> => a[z] = 0
    BY <1>1, <1>3, <2>2 DEF Unspent
  <2>5. \A v \in Sessions : ~y[v].acted /\ <<p, "at">> \in y[v].dirty => Unrun(a, p, r[p].at)
    BY <1>1, <1>2, <2>2 DEF Unspent
  <2> QED BY <2>2, <2>3, <2>4, <2>5 DEF Unspent
<1> QED BY <1>4, <1>5, <1>6, <1>7 DEF OnceFor

-----------------------------------------------------------------------------
(* What a step has to show. *)

\* u is t but for the columns D.
Else(t, u, D) ==
  /\ u.op = t.op /\ (t.acted => u.acted) /\ u.dirty = t.dirty \cup D
  /\ \A p \in Flows : /\ <<p, "st">> \notin D => St(u, row, p) = St(t, row, p)
                      /\ <<p, "at">> \notin D => At(u, row, p) = At(t, row, p)

LEMMA LoadElse ==
  ASSUME NEW t \in Transactions, row \in Rows, NEW P \in SUBSET Flows, NEW u, u = Load(t, P)
  PROVE  u \in Transactions /\ Else(t, u, {})
<1>1. u \in Transactions /\ u.dirty = t.dirty /\ u.op = t.op
      /\ \A p \in Flows :
           /\ u.mem[p].st = IF p \in P THEN KnownSt(t, row, p) ELSE t.mem[p].st
           /\ u.mem[p].at = IF p \in P THEN KnownAt(t, row, p) ELSE t.mem[p].at
  BY LoadIs
<1>2. u.acted = t.acted
  BY DEF Load, Transactions
<1> QED BY <1>1, <1>2 DEF Else, St, At, KnownSt, KnownAt

LEMMA LookElse ==
  ASSUME NEW t \in Transactions, NEW u, u = LookAtFunnel(t)
  PROVE  u \in Transactions /\ Else(t, u, {}) /\ u.calls = t.calls
<1>1. u \in Transactions
  BY LookType
<1>2. u.op = t.op /\ u.acted = t.acted /\ u.dirty = t.dirty /\ u.mem = t.mem /\ u.calls = t.calls
  BY DEF LookAtFunnel, Transactions
<1> QED BY <1>1, <1>2 DEF Else, St, At

LEMMA WriteElse ==
  ASSUME NEW t \in Transactions, row \in Rows, NEW p \in Flows, NEW c \in Columns, NEW v,
         NEW u, u = Write(t, p, c, v)
  PROVE  /\ Else(t, u, {<<p, c>>})
         /\ c = "st" => St(u, row, p) = v
         /\ c = "at" => At(u, row, p) = v
<1>1. /\ u.dirty = t.dirty \cup {<<p, c>>} /\ u.op = t.op
      /\ \A q \in Flows \ {p} : u.mem[q] = t.mem[q]
      /\ u.mem[p].st = IF c = "st" THEN v ELSE KnownSt(t, row, p)
      /\ u.mem[p].at = IF c = "at" THEN v ELSE KnownAt(t, row, p)
  BY WriteIs
<1>2. u.acted = t.acted
  BY DEF Write, Load, Transactions
<1>3. ASSUME NEW q \in Flows
      PROVE  /\ <<q, "st">> \notin {<<p, c>>} => St(u, row, q) = St(t, row, q)
             /\ <<q, "at">> \notin {<<p, c>>} => At(u, row, q) = At(t, row, q)
  <2>1. CASE q # p
    BY <1>1, <2>1 DEF St, At
  <2>2. CASE q = p
    BY <1>1, <2>2 DEF St, At, KnownSt, KnownAt
  <2> QED BY <2>1, <2>2
<1>4. /\ c = "st" => St(u, row, p) = v
      /\ c = "at" => At(u, row, p) = v
  BY <1>1 DEF St, At
<1> QED BY <1>1, <1>2, <1>3, <1>4 DEF Else

LEMMA ElseElse ==
  ASSUME NEW t, NEW u, NEW w, NEW D, NEW E, Else(t, u, D), Else(u, w, E)
  PROVE  Else(t, w, D \cup E)
<1>1. w.dirty = t.dirty \cup (D \cup E)
  BY DEF Else
<1> QED BY <1>1 DEF Else

\* The call on top is in a step of p.
LEMMA TopOn ==
  ASSUME OnceInv, JoinInv, TypeOK, NEW s \in Sessions, NEW do \in AtStep, Running(s, do),
         NEW c, c = Head(tx[s].calls), NEW p, p = c.flow
  PROVE  /\ p \in Flows /\ 1 \in On(tx[s].calls, p) /\ tx[s].calls[1] = c
         /\ St(tx[s], row, p) # "none"
         /\ p \notin contested =>
              /\ On(tx[s].calls, p) = {1} /\ c.step = At(tx[s], row, p)
              /\ \A w \in Sessions \ {s} : On(tx[w].calls, p) = {} /\ <<p, "at">> \notin tx[w].dirty
         /\ p \notin contested /\ "lost" \notin causes =>
              /\ Unrun(acts, p, c.step)
              /\ do \in {"process", "act"} => \A y \in Actions : y = <<p, c.step>> => acts[y] = 0
<1>1. tx[s] \in Transactions /\ tx[s].calls # <<>> /\ c \in Calls /\ c.do = do
  BY TopGood
<1>2. tx[s].calls \in Seq(Calls)
  BY <1>1 DEF Transactions
<1>3. 1 \in DOMAIN tx[s].calls /\ tx[s].calls[1] = c
  BY <1>1, <1>2
<1>4. p \in Flows
  BY <1>1 DEF Calls
<1>5. 1 \in On(tx[s].calls, p)
  BY <1>1, <1>3 DEF On
<1>6. St(tx[s], row, p) # "none"
  BY <1>4, <1>5 DEF OnceInv, OnceFor, Tidy
<1>7. ASSUME p \notin contested
      PROVE  /\ On(tx[s].calls, p) = {1} /\ c.step = At(tx[s], row, p)
             /\ \A w \in Sessions \ {s} : On(tx[w].calls, p) = {} /\ <<p, "at">> \notin tx[w].dirty
  <2>1. Single(row, tx, p)
    BY <1>4, <1>7 DEF OnceInv, OnceFor
  <2> QED BY <1>3, <1>5, <2>1 DEF Single
<1>8. ASSUME p \notin contested, "lost" \notin causes
      PROVE  /\ Unrun(acts, p, c.step)
             /\ do \in {"process", "act"} => \A y \in Actions : y = <<p, c.step>> => acts[y] = 0
  <2>1. Unspent(row, tx, acts, p)
    BY <1>4, <1>8 DEF OnceInv, OnceFor
  <2>2. Unrun(acts, p, At(tx[s], row, p))
    BY <1>7, <1>8, <2>1 DEF Unspent
  <2> QED BY <1>1, <1>3, <1>5, <1>7, <1>8, <2>1, <2>2 DEF Unspent
<1> QED BY <1>3, <1>4, <1>5, <1>6, <1>7, <1>8

\* The rows and the executions are as before.
Kept ==
  UNCHANGED <<row, acts>> /\ contested \subseteq contested' /\ causes \subseteq causes'

\* s makes t of its transaction, with the columns D, and leaves every flow where it is.
Rests(s, t, c, D) ==
  /\ Else(tx[s], t, D)
  /\ \A i \in DOMAIN c : c[i].do \notin AtStep
  /\ \A p \in Flows : <<p, "at">> \notin D
  /\ \A p \in Flows : <<p, "st">> \in D => Free(s, p) /\ St(t, row, p) # "none"

\* s goes on with p, where it is then; L are the contested flows.
Goes(s, t, d, p, D, L) ==
  /\ Else(tx[s], t, D)
  /\ d.do \in AtStep /\ d.flow = p /\ St(t, row, p) # "none"
  /\ \A q \in Flows : <<q, "at">> \in D => q = p
  /\ \A q \in Flows : <<q, "at">> \in D \/ <<q, "st">> \in D => Free(s, q)
  /\ \A q \in Flows : <<q, "st">> \in D => St(t, row, q) # "none"
  /\ p \notin L =>
       /\ d.step = At(t, row, p) /\ At(t, row, p) >= At(tx[s], row, p)
       /\ d.do \in {"process", "act"} /\ "lost" \notin causes =>
            \A y \in Actions : y = <<p, d.step>> => acts[y] = 0
       /\ On(tx[s].calls, p) \subseteq {1}
       /\ \A w \in Sessions \ {s} : On(tx[w].calls, p) = {} /\ <<p, "at">> \notin tx[w].dirty

LEMMA OnwardQuiet ==
  ASSUME NEW s \in Sessions, NEW t, t.op # "none", NEW c, NEW D, Rests(s, t, c, D), NEW L
  PROVE  Onward(row, tx, acts, s, t, c, L, causes)
<1>1. \A p \in Flows : On(c, p) = {}
  BY DEF On, Rests
<1>2. ASSUME NEW p \in Flows
      PROVE  /\ St(tx[s], row, p) # "none" => St(t, row, p) # "none"
             /\ Moves(t, p) => Moves(tx[s], p) \/ \A w \in Sessions \ {s} : ~Moves(tx[w], p)
             /\ <<p, "at">> \in t.dirty <=> <<p, "at">> \in tx[s].dirty
             /\ At(t, row, p) = At(tx[s], row, p)
  <2>1. Free(s, p) => \A w \in Sessions \ {s} : ~Moves(tx[w], p)
    BY DEF Free, Moves, Columns
  <2> QED BY <2>1 DEF Else, Moves, Rests
<1> QED BY <1>1, <1>2 DEF Onward, Else, Rests

LEMMA OnwardGo ==
  ASSUME NEW s \in Sessions, NEW t, t.op # "none", NEW c \in Seq(Calls), c # <<>>,
         \A i \in DOMAIN c : i > 1 => c[i].do \notin AtStep,
         NEW p, NEW D, NEW L, Goes(s, t, c[1], p, D, L)
  PROVE  Onward(row, tx, acts, s, t, c, L, causes)
<1>7. PICK d : d = c[1]
  OBVIOUS
<1>8. Goes(s, t, d, p, D, L)
  BY <1>7
<1>1. 1 \in DOMAIN c /\ \A i \in DOMAIN c : i \in Nat /\ i >= 1
  OBVIOUS
<1>2. \A q : On(c, q) = IF q = p THEN {1} ELSE {}
  <2>1. ASSUME NEW q, NEW i \in On(c, q) PROVE i = 1 /\ q = p
    <3>1. i \in DOMAIN c /\ c[i].do \in AtStep /\ c[i].flow = q
      BY <2>1 DEF On
    <3>2. ~(i > 1)
      BY <3>1
    <3>3. i = 1
      BY <1>1, <3>1, <3>2
    <3> QED BY <1>7, <1>8, <3>1, <3>3 DEF Goes
  <2>2. 1 \in On(c, p)
    BY <1>1, <1>7, <1>8 DEF On, Goes
  <2> QED BY <2>1, <2>2
<1>3. ASSUME NEW q \in Flows
      PROVE  /\ St(tx[s], row, q) # "none" \/ On(c, q) # {} => St(t, row, q) # "none"
             /\ Moves(t, q) => Moves(tx[s], q) \/ \A w \in Sessions \ {s} : ~Moves(tx[w], q)
             /\ <<q, "at">> \in tx[s].dirty => <<q, "at">> \in t.dirty
             /\ On(c, q) = {} => /\ At(t, row, q) = At(tx[s], row, q)
                                 /\ <<q, "at">> \in t.dirty => <<q, "at">> \in tx[s].dirty
  <2>1. Free(s, q) => \A w \in Sessions \ {s} : ~Moves(tx[w], q)
    BY DEF Free, Moves, Columns
  <2>2. On(c, q) # {} <=> q = p
    BY <1>2
  <2>3. Else(tx[s], t, D) /\ St(t, row, p) # "none"
        /\ (<<q, "at">> \in D => q = p)
        /\ (<<q, "at">> \in D \/ <<q, "st">> \in D => Free(s, q))
        /\ (<<q, "st">> \in D => St(t, row, q) # "none")
    BY <1>8 DEF Goes
  <2> QED BY <2>1, <2>2, <2>3 DEF Else, Moves
<1>4. ASSUME NEW q \in Flows \ L, On(c, q) # {} PROVE Leads(row, tx, acts, s, t, c, q, causes)
  <2>1. q = p /\ On(c, p) = {1}
    BY <1>2, <1>4
  <2> QED BY <1>4, <1>7, <1>8, <2>1 DEF Leads, Goes
<1>5. \A i \in DOMAIN c : ~(i > 1 /\ c[i].do \in AtStep)
  OBVIOUS
<1>6. t.op # "none" /\ (tx[s].acted => t.acted)
  BY <1>8 DEF Else, Goes
<1> QED BY <1>3, <1>4, <1>5, <1>6 DEF Onward

\* A call returns.
LEMMA CallOnce ==
  ASSUME OnceInv, TypeOK, NEW s \in Sessions, tx[s].calls # <<>>,
         NEW t \in Transactions, NEW c \in Seq(Calls), Returns(s, t, c), Kept,
         Onward(row, tx, acts, s, t, c, contested', causes)
  PROVE  OnceInv'
<1>1. PICK u : u = [t EXCEPT !.calls = c \o Tail(tx[s].calls)]
  OBVIOUS
<1>2. u.calls = Onto(tx[s].calls, c)
  BY <1>1 DEF Onto, Below, Transactions
<1>3. tx[s] \in Transactions /\ tx[s].calls \in Seq(Calls)
  BY DEF TypeOK, Transactions
<1>4. c \o Tail(tx[s].calls) \in Seq(Calls)
  BY <1>3
<1>5. u \in Transactions
  BY <1>1, <1>4 DEF Transactions
<1>6. u.op = t.op /\ u.acted = t.acted /\ u.dirty = t.dirty /\ u.mem = t.mem
  BY <1>1 DEF Transactions
<1>7. \A p : St(u, row, p) = St(t, row, p) /\ At(u, row, p) = At(t, row, p) /\ (Moves(u, p) <=> Moves(t, p))
  BY <1>6 DEF St, At, Moves
<1>8. Onward(row, tx, acts, s, u, c, contested', causes)
  <2>1. \A p \in Flows \ contested' : On(c, p) # {} => Leads(row, tx, acts, s, u, c, p, causes)
    BY <1>7 DEF Onward, Leads
  <2> QED BY <1>6, <1>7, <2>1 DEF Onward
<1>9. tx' = [tx EXCEPT ![s] = u]
  BY <1>1 DEF Returns
<1>10. row \in Rows /\ tx \in [Sessions -> Transactions]
  BY DEF TypeOK
<1>12. contested \subseteq contested' /\ causes \subseteq causes' /\ row' = row /\ acts' = acts
  BY DEF Kept
<1>11. OnceFor(row, tx', acts, contested', causes')
  <2>1. OnceFor(row, tx, acts, contested, causes)
    BY DEF OnceInv
  <2>2. PICK L : L = contested'
    OBVIOUS
  <2>3. PICK M : M = causes'
    OBVIOUS
  <2>4. PICK y : y = tx'
    OBVIOUS
  <2>5. OnceFor(row, y, acts, L, M)
    BY <1>2, <1>5, <1>8, <1>9, <1>10, <1>12, <2>1, <2>2, <2>3, <2>4, LocalOnce
  <2> QED BY <2>2, <2>3, <2>4, <2>5
<1> QED BY <1>11, <1>12 DEF OnceInv

\* A call returns and leaves every flow where it is.
LEMMA QuietOnce ==
  ASSUME OnceInv, TypeOK, NEW s \in Sessions, tx[s].calls # <<>>,
         NEW t \in Transactions, NEW c \in Seq(Calls), Returns(s, t, c), Kept,
         NEW D, Rests(s, t, c, D)
  PROVE  OnceInv'
<1>1. t.op # "none"
  BY DEF OnceInv, OnceFor, Tidy, Else, Rests
<1>2. PICK L : L = contested'
  OBVIOUS
<1>3. Onward(row, tx, acts, s, t, c, L, causes)
  BY <1>1, OnwardQuiet
<1> QED BY <1>2, <1>3, CallOnce

\* A call returns and goes on with p.
LEMMA GoOnce ==
  ASSUME OnceInv, TypeOK, NEW s \in Sessions, tx[s].calls # <<>>,
         NEW t \in Transactions, NEW d \in Calls, Returns(s, t, <<d>>), Kept,
         NEW p, NEW D, NEW L, L = contested', Goes(s, t, d, p, D, L)
  PROVE  OnceInv'
<1>1. t.op # "none"
  BY DEF OnceInv, OnceFor, Tidy, Else, Goes
<1>3. PICK c : c = <<d>>
  OBVIOUS
<1>4. c \in Seq(Calls) /\ c # <<>> /\ d = c[1] /\ \A i \in DOMAIN c : i > 1 => c[i].do \notin AtStep
  BY <1>3
<1>5. Onward(row, tx, acts, s, t, c, L, causes)
  BY <1>1, <1>4, OnwardGo
<1> QED BY <1>3, <1>4, <1>5, CallOnce

\* A call that is in no step, or none.
LEMMA NoStep ==
  /\ \A i \in DOMAIN <<>> : <<>>[i].do \notin AtStep
  /\ \A do \in {"join", "leave", "recheck", "complete", "finish", "exit", "kill"} : \A p, i :
       \A j \in DOMAIN <<Call(do, p, i)>> : <<Call(do, p, i)>>[j].do \notin AtStep
  BY DEF Call, AtStep

\* The call on top leads to another one in the same step.
LEMMA SameStep ==
  ASSUME OnceInv, JoinInv, TypeOK, NEW s \in Sessions, NEW do \in AtStep, Running(s, do),
         NEW c, c = Head(tx[s].calls), NEW e \in AtStep,
         e \in {"process", "act"} => do \in {"process", "act"},
         NEW t \in Transactions, NEW D, Else(tx[s], t, D),
         \A q \in Flows : <<q, "st">> \notin D /\ <<q, "at">> \notin D,
         Returns(s, t, <<Call(e, c.flow, c.step)>>), Kept
  PROVE  OnceInv'
<1>1. PICK p : p = c.flow
  OBVIOUS
<1>2. tx[s] \in Transactions /\ row \in Rows /\ tx[s].calls # <<>> /\ c \in Calls /\ c.do = do
  BY TopGood
<1>3. p \in Flows /\ <<p, c.step>> \in Steps
  BY <1>1, <1>2, StepOf
<1>4. PICK d : d = Call(e, p, c.step)
  OBVIOUS
<1>5. d.do = e /\ d.flow = p /\ d.step = c.step /\ d \in Calls
  BY <1>3, <1>4, CallType DEF Call
<1>6. /\ St(tx[s], row, p) # "none"
      /\ p \notin contested =>
           /\ On(tx[s].calls, p) = {1} /\ c.step = At(tx[s], row, p)
           /\ \A w \in Sessions \ {s} : On(tx[w].calls, p) = {} /\ <<p, "at">> \notin tx[w].dirty
      /\ p \notin contested /\ "lost" \notin causes =>
           (do \in {"process", "act"} => \A y \in Actions : y = <<p, c.step>> => acts[y] = 0)
  BY <1>1, TopOn
<1>7. St(t, row, p) = St(tx[s], row, p) /\ At(t, row, p) = At(tx[s], row, p)
  BY <1>3 DEF Else
<1>8. At(tx[s], row, p) \in Nat
  BY <1>2, <1>3, TypesOf
<1>9. p \notin contested' =>
        /\ d.step = At(t, row, p) /\ At(t, row, p) >= At(tx[s], row, p)
        /\ d.do \in {"process", "act"} /\ "lost" \notin causes =>
             \A y \in Actions : y = <<p, d.step>> => acts[y] = 0
        /\ On(tx[s].calls, p) \subseteq {1}
        /\ \A w \in Sessions \ {s} : On(tx[w].calls, p) = {} /\ <<p, "at">> \notin tx[w].dirty
  BY <1>5, <1>6, <1>7, <1>8 DEF Kept
<1>10. PICK L : L = contested'
  OBVIOUS
<1>11. Goes(s, t, d, p, D, L)
  BY <1>5, <1>6, <1>7, <1>9, <1>10 DEF Goes
<1>12. Returns(s, t, <<d>>)
  BY <1>1, <1>4
<1> QED BY <1>2, <1>5, <1>10, <1>11, <1>12, GoOnce

LEMMA ResolveOnce ==
  ASSUME OnceInv, JoinInv, TypeOK, NEW s \in Sessions, ResolveWaitUntil(s) PROVE OnceInv'
<1>1. PICK c : c = Head(tx[s].calls)
  OBVIOUS
<1>2. tx[s] \in Transactions /\ row \in Rows /\ tx[s].calls # <<>> /\ c \in Calls /\ c.do = "resolve"
  BY <1>1, TopGood DEF ResolveWaitUntil
<1>3. Kept
  BY DEF ResolveWaitUntil, dbVars, ghostVars, Kept
<1>4. CASE Returns(s, Load(tx[s], {Root}), <<>>)
  <2>1. PICK t : t = Load(tx[s], {Root})
    OBVIOUS
  <2>2. t \in Transactions /\ Else(tx[s], t, {})
    BY <1>2, <2>1, LoadElse, Sorts
  <2>3. PICK q : q = <<>>
    OBVIOUS
  <2>4. q \in Seq(Calls) /\ \A i \in DOMAIN q : q[i].do \notin AtStep
    BY <2>3
  <2>5. Rests(s, t, q, {})
    BY <2>2, <2>4 DEF Rests
  <2> QED BY <1>2, <1>3, <1>4, <2>1, <2>2, <2>3, <2>4, <2>5, QuietOnce
<1>5. CASE Returns(s, Write(tx[s], Root, "resolved",
                            Known(tx[s], Root).resolved \cup {<<c.flow, c.step>>}),
                   <<Call("advance", c.flow, c.step)>>)
  <2>1. PICK v : v = Known(tx[s], Root).resolved \cup {<<c.flow, c.step>>}
    OBVIOUS
  <2>2. PICK t : t = Write(tx[s], Root, "resolved", v)
    OBVIOUS
  <2>3. t \in Transactions
    <3>1. <<c.flow, c.step>> \in Steps
      BY <1>2, StepOf DEF AtStep
    <3>2. v \in SUBSET Steps
      BY <1>2, <2>1, <3>1, KnownType, Sorts DEF Row
    <3> QED BY <1>2, <2>2, <3>2, WriteType, Sorts DEF Columns
  <2>4. PICK D : D = {<<Root, "resolved">>}
    OBVIOUS
  <2>5. Else(tx[s], t, D)
    BY <1>2, <2>2, <2>4, WriteElse, Sorts DEF Columns
  <2>6. \A q \in Flows : <<q, "at">> \notin D /\ <<q, "st">> \notin D
    BY <2>4
  <2>7. Running(s, "resolve") /\ "resolve" \in AtStep
    BY DEF ResolveWaitUntil, AtStep
  <2>8. "advance" \in AtStep /\ "advance" \notin {"process", "act"}
    BY DEF AtStep
  <2>9. Returns(s, t, <<Call("advance", c.flow, c.step)>>)
    BY <1>5, <2>1, <2>2
  <2> QED BY <1>1, <1>3, <2>3, <2>5, <2>6, <2>7, <2>8, <2>9, SameStep
<1> QED BY <1>1, <1>4, <1>5 DEF ResolveWaitUntil

LEMMA AdvanceOnce ==
  ASSUME OnceInv, JoinInv, TypeOK, NEW s \in Sessions, Advance(s) PROVE OnceInv'
<1>1. PICK c : c = Head(tx[s].calls)
  OBVIOUS
<1>2. tx[s] \in Transactions /\ row \in Rows /\ tx[s].calls # <<>> /\ c \in Calls /\ c.do = "advance"
  BY <1>1, TopGood DEF Advance
<1>3. Kept
  BY DEF Advance, dbVars, ghostVars, Kept
<1>4. PICK p : p = c.flow
  OBVIOUS
<1>5. p \in Flows /\ c.step \in Nat /\ c.step >= 1 /\ <<p, c.step>> \in Steps
  BY <1>2, <1>4, StepOf DEF AtStep
<1>6. /\ St(tx[s], row, p) # "none"
      /\ p \notin contested =>
           /\ On(tx[s].calls, p) = {1} /\ c.step = At(tx[s], row, p)
           /\ \A w \in Sessions \ {s} : On(tx[w].calls, p) = {} /\ <<p, "at">> \notin tx[w].dirty
      /\ p \notin contested /\ "lost" \notin causes => Unrun(acts, p, c.step)
  <2>1. Running(s, "advance")
    BY DEF Advance
  <2>2. "advance" \in AtStep
    BY DEF AtStep
  <2> QED BY <1>1, <1>4, <2>1, <2>2, TopOn
<1>7. CASE HasNext(p, c.step) /\ Free(s, p)
           /\ Returns(s, Write(tx[s], p, "at", c.step + 1), <<Call("process", p, c.step + 1)>>)
  <2>14. PICK v : v = c.step + 1
    OBVIOUS
  <2>1. PICK t : t = Write(tx[s], p, "at", v)
    OBVIOUS
  <2>2. c.step + 1 \in 1 .. Len(Script[p])
    BY <1>5, <1>7, Scripts DEF HasNext
  <2>3. t \in Transactions
    BY <1>2, <1>5, <2>1, <2>2, <2>14, WriteType DEF Columns
  <2>4. PICK D : D = {<<p, "at">>}
    OBVIOUS
  <2>5. Else(tx[s], t, D) /\ At(t, row, p) = v
    <3>1. "at" \in Columns
      BY DEF Columns
    <3> QED BY <1>2, <1>5, <2>1, <2>4, <3>1, WriteElse
  <2>6. \A q : <<q, "st">> \notin D /\ (<<q, "at">> \in D => q = p)
    BY <2>4
  <2>7. PICK d : d = Call("process", p, c.step + 1)
    OBVIOUS
  <2>8. d.do = "process" /\ d.flow = p /\ d.step = c.step + 1 /\ d \in Calls /\ d.do \in AtStep
    BY <1>5, <2>2, <2>7, CallType, Scripts DEF Call, AtStep
  <2>9. St(t, row, p) # "none"
    BY <1>5, <1>6, <2>5, <2>6 DEF Else
  <2>10. p \notin contested' =>
           /\ d.step = At(t, row, p) /\ At(t, row, p) >= At(tx[s], row, p)
           /\ d.do \in {"process", "act"} /\ "lost" \notin causes =>
                \A y \in Actions : y = <<p, d.step>> => acts[y] = 0
           /\ On(tx[s].calls, p) \subseteq {1}
           /\ \A w \in Sessions \ {s} : On(tx[w].calls, p) = {} /\ <<p, "at">> \notin tx[w].dirty
    <3>1. \A y \in Actions : y = <<p, d.step>> => y[1] = p /\ y[2] > c.step
      BY <1>5, <2>8
    <3>2. p \notin contested /\ "lost" \notin causes =>
            \A y \in Actions : y = <<p, d.step>> => acts[y] = 0
      BY <1>6, <3>1 DEF Unrun
    <3> QED BY <1>3, <1>5, <1>6, <2>5, <2>8, <2>14, <3>2 DEF Kept
  <2>11. Returns(s, t, <<d>>)
    BY <1>7, <2>1, <2>7, <2>14
  <2>12. Free(s, p)
    BY <1>7
  <2>13. \A q \in Flows : <<q, "at">> \in D \/ <<q, "st">> \in D => Free(s, q)
    BY <2>6, <2>12
  <2>15. PICK L : L = contested'
    OBVIOUS
  <2>16. Goes(s, t, d, p, D, L)
    BY <2>5, <2>6, <2>8, <2>9, <2>10, <2>13, <2>15 DEF Goes
  <2> QED BY <1>2, <1>3, <2>3, <2>8, <2>11, <2>15, <2>16, GoOnce
<1>8. CASE Returns(s, tx[s], <<Call("complete", Root, 0)>>)
  <2>1. PICK q : q = <<Call("complete", Root, 0)>>
    OBVIOUS
  <2>2. q \in Seq(Calls)
    BY <2>1, CallType, Sorts
  <2>3. \A i \in DOMAIN q : q[i].do \notin AtStep
    BY <2>1, NoStep
  <2>4. Rests(s, tx[s], q, {})
    BY <2>3 DEF Else, Rests
  <2> QED BY <1>2, <1>3, <1>8, <2>1, <2>2, <2>4, QuietOnce
<1>9. CASE p # Root /\ Free(s, p)
           /\ Returns(s, Write(tx[s], p, "st", "completed"), <<Call("join", Host[p], 0)>>)
  <2>1. PICK t : t = Write(tx[s], p, "st", "completed")
    OBVIOUS
  <2>2. t \in Transactions
    BY <1>2, <1>5, <2>1, WriteType DEF Columns, Status
  <2>3. PICK D : D = {<<p, "st">>}
    OBVIOUS
  <2>4. Else(tx[s], t, D) /\ St(t, row, p) = "completed"
    <3>1. "st" \in Columns
      BY DEF Columns
    <3>2. PICK v : v = "completed"
      OBVIOUS
    <3>3. t = Write(tx[s], p, "st", v)
      BY <2>1, <3>2
    <3> QED BY <1>2, <1>5, <2>3, <3>1, <3>2, <3>3, WriteElse
  <2>5. \A q : <<q, "at">> \notin D /\ (<<q, "st">> \in D => q = p)
    BY <2>3
  <2>6. PICK q : q = <<Call("join", Host[p], 0)>>
    OBVIOUS
  <2>7. q \in Seq(Calls)
    BY <1>5, <1>9, <2>6, CallType, Sorts DEF AtFork
  <2>8. \A i \in DOMAIN q : q[i].do \notin AtStep
    BY <2>6, NoStep
  <2>9. Returns(s, t, q)
    BY <1>9, <2>1, <2>6
  <2>10. \A r \in Flows : <<r, "st">> \in D => Free(s, r) /\ St(t, row, r) # "none"
    BY <1>9, <2>4, <2>5
  <2>11. \A r \in Flows : <<r, "at">> \notin D
    BY <2>5
  <2>12. Rests(s, t, q, D)
    BY <2>4, <2>8, <2>10, <2>11 DEF Rests
  <2> QED BY <1>2, <1>3, <2>2, <2>7, <2>9, <2>12, QuietOnce
<1> QED BY <1>1, <1>4, <1>7, <1>8, <1>9 DEF Advance

-----------------------------------------------------------------------------
(* A fork. *)

\* The threads of f begin, in their first step; the rest stays.
LEMMA SpawnElse ==
  ASSUME NEW t \in Transactions, NEW f \in Forks, NEW u, u = Spawned(t, f)
  PROVE  /\ Else(t, u, Children(f) \X {"st", "at"})
         /\ \A q \in Children(f) : St(u, row, q) = "active" /\ At(u, row, q) = 1
<1>1. PICK K : K = t.list \cup {Root}
  OBVIOUS
<1>2. PICK e : e = Expire(t, K)
  OBVIOUS
<1>3. /\ e \in Transactions /\ e.dirty = t.dirty /\ e.op = t.op
      /\ \A p \in Flows :
           /\ <<p, "st">> \in t.dirty => e.mem[p].st = t.mem[p].st
           /\ <<p, "at">> \in t.dirty => e.mem[p].at = t.mem[p].at
  <2>1. /\ e \in Transactions /\ e.dirty = t.dirty /\ e.op = t.op
        /\ \A p \in Flows :
             /\ e.mem[p].st = IF p \in K \/ <<p, "st">> \in t.dirty THEN t.mem[p].st ELSE "none"
             /\ e.mem[p].at = IF p \in K \/ <<p, "at">> \in t.dirty THEN t.mem[p].at ELSE 0
    BY <1>2, ExpireIs
  <2> QED BY <2>1
<1>4. e.acted = t.acted
  BY <1>2 DEF Expire, Transactions
<1>5. PICK one : one = [Blank EXCEPT !.st = "active", !.at = 1]
  OBVIOUS
<1>6. one.st = "active" /\ one.at = 1
  BY <1>5 DEF Blank
<1>7. u = [e EXCEPT !.mem = [p \in Flows |-> IF p \in Children(f) THEN one ELSE @[p]],
                    !.dirty = @ \cup Children(f) \X {"st", "at"}]
  BY <1>1, <1>2, <1>5 DEF Spawned
<1>8. /\ u.mem = [p \in Flows |-> IF p \in Children(f) THEN one ELSE e.mem[p]]
      /\ u.dirty = e.dirty \cup Children(f) \X {"st", "at"} /\ u.op = e.op /\ u.acted = e.acted
  BY <1>3, <1>7 DEF Transactions
<1>9. \A q \in Flows : q \in Children(f) <=>
        <<q, "st">> \in Children(f) \X {"st", "at"} /\ <<q, "at">> \in Children(f) \X {"st", "at"}
  OBVIOUS
<1>10. \A q \in Flows : <<q, "st">> \in Children(f) \X {"st", "at"} \/ <<q, "at">> \in Children(f) \X {"st", "at"}
         => q \in Children(f)
  OBVIOUS
<1>11. Children(f) \subseteq Flows
  BY Sorts
<1>12. \A q \in Children(f) : St(u, row, q) = "active" /\ At(u, row, q) = 1
  BY <1>6, <1>8, <1>9, <1>11 DEF St, At
<1>13. ASSUME NEW q \in Flows, q \notin Children(f)
       PROVE  St(u, row, q) = St(t, row, q) /\ At(u, row, q) = At(t, row, q)
  <2>1. u.mem[q] = e.mem[q]
    BY <1>8, <1>13
  <2>2. /\ <<q, "st">> \in u.dirty <=> <<q, "st">> \in t.dirty
        /\ <<q, "at">> \in u.dirty <=> <<q, "at">> \in t.dirty
    BY <1>3, <1>8, <1>10, <1>13
  <2> QED BY <1>3, <2>1, <2>2 DEF St, At
<1>14. u.op = t.op /\ (t.acted => u.acted) /\ u.dirty = t.dirty \cup Children(f) \X {"st", "at"}
  BY <1>3, <1>4, <1>8
<1>15. ASSUME NEW q \in Flows
       PROVE  /\ <<q, "st">> \notin Children(f) \X {"st", "at"} => St(u, row, q) = St(t, row, q)
              /\ <<q, "at">> \notin Children(f) \X {"st", "at"} => At(u, row, q) = At(t, row, q)
  BY <1>9, <1>13
<1> QED BY <1>12, <1>14, <1>15 DEF Else

\* One more at the end.
LEMMA AppendedOne ==
  ASSUME NEW S, NEW e \in Seq(S), NEW l \in S, NEW c, c = e \o <<l>>, NEW n, n = Len(e)
  PROVE  DOMAIN c = 1 .. n + 1 /\ c[n + 1] = l /\ \A i \in 1 .. n : c[i] = e[i]
<1>1. n \in Nat /\ Len(c) = n + 1 /\ c \in Seq(S)
  OBVIOUS
<1>2. DOMAIN c = 1 .. n + 1
  BY <1>1
<1>3. c[n + 1] = l
  BY <1>1
<1>4. \A i \in 1 .. n : c[i] = e[i]
  BY <1>1
<1> QED BY <1>2, <1>3, <1>4

\* Each thread is called once, at its first step.
LEMMA ForkCallsIs ==
  ASSUME NEW f \in Forks, NEW c, c = ForkCalls(f)
  PROVE  /\ \A i \in DOMAIN c : c[i].do \in AtStep =>
              /\ c[i].do = "process" /\ c[i].step = 1 /\ c[i].flow \in Children(f)
              /\ \A j \in DOMAIN c : c[j].do \in AtStep /\ c[j].flow = c[i].flow => i = j
         /\ \A q \in Children(f) : On(c, q) # {}
<1>1. f \in Flows /\ Branches[f] \in Seq(Paths)
  BY Sorts, Scripts
<1>2. PICK b : b = Branches[f]
  OBVIOUS
<1>3. PICK each : each = [j \in DOMAIN b |-> Call("process", b[j], 1)]
  OBVIOUS
<1>4. PICK last : last = Call("join", f, 0)
  OBVIOUS
<1>5. c = each \o <<last>>
  BY <1>2, <1>3, <1>4 DEF ForkCalls
<1>6. b \in Seq(Paths) /\ DOMAIN b = 1 .. Len(b) /\ Len(b) \in Nat
  BY <1>1, <1>2
<1>7. PICK made : made = {each[j] : j \in 1 .. Len(b)} \cup {last}
  OBVIOUS
<1>15. each \in Seq(made) /\ Len(each) = Len(b) /\ last \in made
  BY <1>3, <1>6, <1>7
<1>8. DOMAIN c = 1 .. Len(b) + 1 /\ c[Len(b) + 1] = last /\ \A i \in 1 .. Len(b) : c[i] = each[i]
  BY <1>5, <1>6, <1>15, AppendedOne
<1>9. last.do \notin AtStep
  BY <1>4 DEF Call, AtStep
<1>10. \A i \in 1 .. Len(b) : c[i].do = "process" /\ c[i].flow = b[i] /\ c[i].step = 1
  BY <1>3, <1>6, <1>8 DEF Call
<1>11. \A i \in DOMAIN c : c[i].do \in AtStep => i \in 1 .. Len(b)
  BY <1>6, <1>8, <1>9
<1>12. \A i, j \in 1 .. Len(b) : b[i] = b[j] => i = j
  BY <1>1, <1>2, <1>6, NestingAssumption
<1>13. \A i \in 1 .. Len(b) : b[i] \in Children(f)
  BY <1>2, <1>6 DEF Children
<1>14. ASSUME NEW q \in Children(f) PROVE On(c, q) # {}
  <2>1. PICK i \in 1 .. Len(b) : q = b[i]
    BY <1>2, <1>6 DEF Children
  <2>2. i \in DOMAIN c /\ c[i].do \in AtStep /\ c[i].flow = q
    BY <1>6, <1>8, <1>10, <2>1 DEF AtStep
  <2> QED BY <2>2 DEF On
<1> QED BY <1>10, <1>11, <1>12, <1>13, <1>14

\* Nobody else has to do with threads that are not there, and s has not.
LEMMA NobodyThere ==
  ASSUME OnceInv, JoinInv, TypeOK, NEW q \in Paths, Unborn(tx[Scheduler], row, q)
  PROVE  /\ row[q].at = 0
         /\ \A w \in Sessions : ~Moves(tx[w], q) /\ On(tx[w].calls, q) = {}
<1>1. row[q].st = "none" /\ <<q, "st">> \notin tx[Scheduler].dirty /\ q \in Flows
  BY Sorts DEF Unborn
<1>2. ASSUME NEW w \in Sessions PROVE ~Moves(tx[w], q) /\ On(tx[w].calls, q) = {}
  <2>1. <<q, "st">> \notin tx[w].dirty
    <3> SUFFICES ASSUME <<q, "st">> \in tx[w].dirty PROVE FALSE
      OBVIOUS
    <3>1. Good(w, tx[w], row)
      BY DEF JoinInv
    <3>2. w = Scheduler
      BY <1>1, <3>1 DEF Good, Written, Spawns
    <3> QED BY <1>1, <3>2
  <2>2. St(tx[w], row, q) = "none"
    BY <1>1, <2>1 DEF St
  <2>3. Tidy(tx[w], row)
    BY DEF OnceInv, OnceFor
  <2> QED BY <1>1, <2>1, <2>2, <2>3 DEF Tidy, Moves
<1> QED BY <1>1, <1>2 DEF OnceInv, OnceFor

LEMMA ForkOnce ==
  ASSUME OnceInv, JoinInv, TypeOK, NEW s \in Sessions, tx[s].calls # <<>>,
         NEW t \in Transactions, Else(tx[s], t, {}), NEW f \in Forks, Free(s, f),
         s = Scheduler, \A q \in Children(f) : Unborn(tx[s], row, q),
         Returns(s, Forked(t, f), ForkCalls(f)), Kept
  PROVE  OnceInv'
<1>1. PICK k : k = IF f = Root THEN "counted" ELSE "st"
  OBVIOUS
<1>2. PICK v : v = IF f = Root THEN TRUE ELSE "forked"
  OBVIOUS
<1>3. PICK w : w = Write(t, f, k, v)
  OBVIOUS
<1>4. PICK u : u = Forked(t, f)
  OBVIOUS
<1>5. u = Spawned(w, f) /\ f \in Flows /\ k \in Columns /\ k # "at"
  BY <1>1, <1>2, <1>3, <1>4, Sorts DEF Forked, Columns
<1>6. row \in Rows /\ tx[s] \in Transactions
  BY DEF TypeOK
<1>7. u \in Transactions
  BY <1>4, <1>6, ForkedType
<1>8. w \in Transactions
  <2>1. k = "st" => v \in Status
    BY <1>1, <1>2 DEF Status
  <2>2. k = "counted" => v \in BOOLEAN
    BY <1>1, <1>2
  <2>3. k # "resolved"
    BY <1>1
  <2> QED BY <1>3, <1>5, <1>6, <2>1, <2>2, <2>3, WriteType
<1>9. Else(t, w, {<<f, k>>}) /\ (k = "st" => St(w, row, f) = v)
  BY <1>3, <1>5, <1>6, WriteElse
<1>10. PICK E : E = Children(f) \X {"st", "at"}
  OBVIOUS
<1>11. Else(w, u, E) /\ \A q \in Children(f) : St(u, row, q) = "active" /\ At(u, row, q) = 1
  BY <1>5, <1>8, <1>10, SpawnElse
<1>12. \A q \in Flows : q \notin Children(f) => <<q, "st">> \notin E /\ <<q, "at">> \notin E
  BY <1>10
<1>13. PICK c : c = ForkCalls(f)
  OBVIOUS
<1>14. c \in Seq(Calls)
  BY <1>13, ForkCallsType
<1>15. /\ \A i \in DOMAIN c : c[i].do \in AtStep =>
            /\ c[i].do = "process" /\ c[i].step = 1 /\ c[i].flow \in Children(f)
            /\ \A j \in DOMAIN c : c[j].do \in AtStep /\ c[j].flow = c[i].flow => i = j
       /\ \A q \in Children(f) : On(c, q) # {}
  BY <1>13, ForkCallsIs
<1>16. \A q \in Flows : On(c, q) # {} <=> q \in Children(f)
  BY <1>15 DEF On
<1>17. Children(f) \subseteq Paths
  BY Sorts
<1>18. \A q \in Children(f) :
         /\ row[q].at = 0
         /\ \A x \in Sessions : ~Moves(tx[x], q) /\ On(tx[x].calls, q) = {}
  BY <1>17, NobodyThere
<1>19. PICK L : L = contested'
  OBVIOUS
<1>20. ASSUME NEW q \in Flows, q \notin Children(f)
       PROVE  /\ St(tx[s], row, q) # "none" => St(u, row, q) # "none"
              /\ Moves(u, q) => Moves(tx[s], q) \/ \A x \in Sessions \ {s} : ~Moves(tx[x], q)
              /\ <<q, "at">> \in u.dirty <=> <<q, "at">> \in tx[s].dirty
              /\ At(u, row, q) = At(tx[s], row, q)
  <2>1. /\ St(u, row, q) = St(w, row, q) /\ At(u, row, q) = At(w, row, q)
        /\ <<q, "at">> \in u.dirty <=> <<q, "at">> \in w.dirty
        /\ <<q, "st">> \in u.dirty <=> <<q, "st">> \in w.dirty
    BY <1>11, <1>12, <1>20 DEF Else
  <2>2. /\ At(w, row, q) = At(tx[s], row, q)
        /\ <<q, "at">> \in w.dirty <=> <<q, "at">> \in tx[s].dirty
    BY <1>5, <1>9, <1>20 DEF Else
  <2>3. CASE q # f
    <3>1. St(w, row, q) = St(tx[s], row, q) /\ (<<q, "st">> \in w.dirty <=> <<q, "st">> \in tx[s].dirty)
      BY <1>9, <1>20, <2>3 DEF Else
    <3> QED BY <2>1, <2>2, <3>1 DEF Moves
  <2>4. CASE q = f
    <3>1. \A x \in Sessions \ {s} : ~Moves(tx[x], q)
      BY <2>4 DEF Free, Moves, Columns
    <3>2. k = "st" => St(w, row, q) # "none"
      BY <1>1, <1>2, <1>9, <2>4
    <3>3. k # "st" => St(w, row, q) = St(tx[s], row, q)
      BY <1>9, <1>20 DEF Else
    <3> QED BY <2>1, <2>2, <3>1, <3>2, <3>3
  <2> QED BY <2>3, <2>4
<1>21. ASSUME NEW q \in Children(f)
       PROVE  /\ St(u, row, q) # "none"
              /\ \A x \in Sessions \ {s} : ~Moves(tx[x], q)
              /\ <<q, "at">> \notin tx[s].dirty
  BY <1>11, <1>18, <1>21 DEF Moves
<1>22. ASSUME NEW q \in Flows \ L, On(c, q) # {} PROVE Leads(row, tx, acts, s, u, c, q, causes)
  <2>1. q \in Children(f) /\ q \in Paths /\ q \notin contested
    BY <1>16, <1>17, <1>19, <1>22 DEF Kept
  <2>2. \A i, j \in On(c, q) : i = j
    BY <1>15 DEF On
  <2>3. \A x \in Sessions : <<q, "at">> \notin tx[x].dirty /\ On(tx[x].calls, q) = {}
    BY <1>18, <2>1 DEF Moves
  <2>4. At(tx[s], row, q) = 0 /\ At(u, row, q) = 1
    BY <1>11, <1>18, <2>1, <2>3 DEF At
  <2>5. "lost" \notin causes => \A y \in Actions : y = <<q, 1>> => acts[y] = 0
    <3> SUFFICES ASSUME "lost" \notin causes, NEW y \in Actions, y = <<q, 1>> PROVE acts[y] = 0
      OBVIOUS
    <3>1. Unspent(row, tx, acts, q)
      BY <1>22, <2>1 DEF OnceInv, OnceFor
    <3>2. Unrun(acts, q, 0)
      BY <2>3, <2>4, <3>1 DEF Unspent
    <3>3. y[1] = q /\ y[2] > 0
      OBVIOUS
    <3> QED BY <3>2, <3>3 DEF Unrun
  <2>6. \A i \in On(c, q) : c[i].step = 1
    BY <1>15 DEF On
  <2>7. \A i \in On(c, q) :
          /\ c[i].step = At(u, row, q)
          /\ c[i].do \in {"process", "act"} /\ "lost" \notin causes =>
               \A y \in Actions : y = <<q, c[i].step>> => acts[y] = 0
    <3> SUFFICES ASSUME NEW i \in On(c, q)
                 PROVE  /\ c[i].step = At(u, row, q)
                        /\ "lost" \notin causes =>
                             \A y \in Actions : y = <<q, c[i].step>> => acts[y] = 0
      OBVIOUS
    <3>1. c[i].step = 1
      BY <2>6
    <3> QED BY <2>4, <2>5, <3>1
  <2>8. At(u, row, q) >= At(tx[s], row, q)
    BY <2>4
  <2>9. /\ On(tx[s].calls, q) = {}
        /\ \A x \in Sessions \ {s} : On(tx[x].calls, q) = {} /\ <<q, "at">> \notin tx[x].dirty
    BY <2>3
  <2> QED BY <2>2, <2>7, <2>8, <2>9 DEF Leads
<1>23. \A i \in DOMAIN c : i > 1 /\ c[i].do \in AtStep => c[i].do = "process" /\ c[i].step = 1
  BY <1>15
<1>24. u.op # "none" /\ (tx[s].acted => u.acted)
  <2>1. tx[s].op # "none"
    BY DEF OnceInv, OnceFor, Tidy
  <2> QED BY <1>9, <1>11, <2>1 DEF Else
<1>25. Onward(row, tx, acts, s, u, c, L, causes)
  BY <1>16, <1>20, <1>21, <1>22, <1>23, <1>24 DEF Onward
<1>26. Returns(s, u, c)
  BY <1>4, <1>13
<1>27. Onward(row, tx, acts, s, u, c, contested', causes)
  BY <1>19, <1>25
<1> QED BY <1>7, <1>14, <1>26, <1>27, CallOnce

-----------------------------------------------------------------------------
(* The calls. *)

\* A call that is in no step, or none.
Apart(c) ==
  \/ c = <<>>
  \/ \E do \in {"join", "leave", "recheck", "complete", "finish", "exit", "kill"} :
       \E f \in Flows : c = <<Call(do, f, 0)>> /\ (do \in AtFork => f \in Forks)

LEMMA ApartOf ==
  /\ Apart(<<>>)
  /\ \A do \in {"recheck", "complete", "finish", "exit", "kill"}, f \in Flows : Apart(<<Call(do, f, 0)>>)
  /\ \A do \in AtFork, f \in Forks : Apart(<<Call(do, f, 0)>>)
BY Sorts DEF Apart, AtFork

\* A call that moves nothing.
LEMMA RestOnce ==
  ASSUME OnceInv, TypeOK, NEW s \in Sessions, tx[s].calls # <<>>,
         NEW t \in Transactions, NEW D, Else(tx[s], t, D),
         \A q \in Flows : <<q, "at">> \notin D,
         \A q \in Flows : <<q, "st">> \in D => Free(s, q) /\ St(t, row, q) # "none",
         NEW c, Apart(c), Returns(s, t, c), Kept
  PROVE  OnceInv'
<1>1. c \in Seq(Calls) /\ \A i \in DOMAIN c : c[i].do \notin AtStep
  <2>1. CASE c = <<>>
    BY <2>1
  <2>2. ASSUME NEW do \in {"join", "leave", "recheck", "complete", "finish", "exit", "kill"},
               NEW f \in Flows, c = <<Call(do, f, 0)>>, do \in AtFork => f \in Forks
        PROVE  c \in Seq(Calls) /\ \A i \in DOMAIN c : c[i].do \notin AtStep
    <3>1. Call(do, f, 0) \in Calls
      BY <2>2, CallType DEF AtFork
    <3>2. \A i \in DOMAIN c : c[i].do \notin AtStep
      BY <2>2, NoStep
    <3> QED BY <2>2, <3>1, <3>2
  <2> QED BY <2>1, <2>2 DEF Apart
<1>2. Rests(s, t, c, D)
  BY <1>1 DEF Rests
<1> QED BY <1>1, <1>2, QuietOnce

\* A call that only reads.
LEMMA ReadOnce ==
  ASSUME OnceInv, TypeOK, NEW s \in Sessions, tx[s].calls # <<>>,
         NEW t \in Transactions, Else(tx[s], t, {}), NEW c, Apart(c), Returns(s, t, c), Kept
  PROVE  OnceInv'
<1>1. PICK D : D = {}
  OBVIOUS
<1>2. Else(tx[s], t, D) /\ \A q \in Flows : <<q, "at">> \notin D
  BY <1>1
<1>3. \A q \in Flows : <<q, "st">> \in D => Free(s, q) /\ St(t, row, q) # "none"
  BY <1>1
<1> QED BY <1>2, <1>3, RestOnce

LEMMA ProcessOnce ==
  ASSUME OnceInv, JoinInv, TypeOK, NEW s \in Sessions, ProcessStep(s) PROVE OnceInv'
<1>1. PICK c : c = Head(tx[s].calls)
  OBVIOUS
<1>2. /\ tx[s] \in Transactions /\ row \in Rows /\ tx[s].calls # <<>> /\ c \in Calls
      /\ c.do = "process" /\ (Entering(c) => EnterGood(s, tx[s], row, c))
  BY Zenon, <1>1, TopGood DEF ProcessStep
<1>3. Kept
  BY Zenon DEF ProcessStep, dbVars, envVars, Kept
<1>4. PICK p, i : p = c.flow /\ i = c.step
  OBVIOUS
<1>5. p \in Flows /\ i \in Nat /\ <<p, i>> \in Steps
  BY <1>2, <1>4, StepOf DEF AtStep
<1>6. PICK t : t = LookAtFunnel(tx[s])
  OBVIOUS
<1>7. t \in Transactions /\ Else(tx[s], t, {})
  BY <1>2, <1>6, LookElse
<1>8. Running(s, "process") /\ "process" \in AtStep /\ "act" \in AtStep /\ "resolve" \in AtStep
  BY DEF ProcessStep, AtStep
<1>9. \A q \in Flows : <<q, "st">> \notin {} /\ <<q, "at">> \notin {}
  OBVIOUS
<1>10. CASE Returns(s, t, <<>>)
  BY <1>2, <1>3, <1>7, <1>10, ReadOnce, ApartOf
<1>11. CASE Returns(s, t, <<Call("act", p, i)>>)
  BY <1>1, <1>3, <1>4, <1>7, <1>8, <1>9, <1>11, SameStep
<1>12. CASE Returns(s, t, <<Call("complete", Root, 0)>>)
  <2>1. PICK e : e = <<Call("complete", Root, 0)>>
    OBVIOUS
  <2>2. Apart(e)
    BY <2>1, ApartOf, Sorts
  <2> QED BY <1>2, <1>3, <1>7, <1>12, <2>1, <2>2, ReadOnce
<1>13. CASE /\ p # Root /\ Free(s, p)
            /\ Returns(s, Write(t, p, "st", "exited"), <<Call("join", Host[p], 0)>>)
  <2>1. PICK v : v = "exited"
    OBVIOUS
  <2>2. PICK u : u = Write(t, p, "st", v)
    OBVIOUS
  <2>3. u \in Transactions
    BY <1>2, <1>5, <1>7, <2>1, <2>2, WriteType DEF Columns, Status
  <2>4. PICK D : D = {<<p, "st">>}
    OBVIOUS
  <2>5. Else(t, u, D) /\ St(u, row, p) = v
    <3>1. "st" \in Columns
      BY DEF Columns
    <3> QED BY <1>2, <1>5, <1>7, <2>2, <2>4, <3>1, WriteElse
  <2>6. Else(tx[s], u, D)
    <3>1. Else(tx[s], u, {} \cup D)
      BY <1>7, <2>5, ElseElse
    <3> QED BY <3>1
  <2>7. PICK e : e = <<Call("join", Host[p], 0)>>
    OBVIOUS
  <2>8. Apart(e)
    <3>1. Host[p] \in Forks
      BY <1>5, <1>13, Sorts
    <3> QED BY <2>7, <3>1, ApartOf DEF AtFork
  <2>9. Returns(s, u, e)
    BY <1>13, <2>1, <2>2, <2>7
  <2>10. \A q \in Flows : <<q, "at">> \notin D
    BY <2>4
  <2>11. \A q \in Flows : <<q, "st">> \in D => Free(s, q) /\ St(u, row, q) # "none"
    BY <1>13, <2>1, <2>4, <2>5
  <2> QED BY <1>2, <1>3, <2>3, <2>6, <2>8, <2>9, <2>10, <2>11, RestOnce
<1>14. CASE TypeAt(p, i) = "fork" /\ Free(s, p) /\ Returns(s, Forked(t, p), ForkCalls(p))
  <2>1. p \in Forks /\ i = ForkStep
    BY <1>5, <1>14, ForkType
  <2>2. EnterGood(s, tx[s], row, c)
    BY <1>2, <1>4, <2>1 DEF Entering
  <2>3. s = Scheduler /\ \A q \in Children(p) : Unborn(tx[s], row, q)
    BY <1>4, <2>2 DEF EnterGood
  <2> QED BY <1>2, <1>3, <1>7, <1>14, <2>1, <2>3, ForkOnce
<1>15. CASE \E e \in {<<>>, <<Call("resolve", p, i)>>} :
              Returns(s, Write(t, Root, "resolved", Known(t, Root).resolved \ {<<p, i>>}), e)
  <2>1. PICK v : v = Known(t, Root).resolved \ {<<p, i>>}
    OBVIOUS
  <2>2. PICK u : u = Write(t, Root, "resolved", v)
    OBVIOUS
  <2>3. u \in Transactions
    <3>1. v \in SUBSET Steps
      BY <1>2, <1>7, <2>1, KnownType, Sorts DEF Row
    <3> QED BY <1>2, <1>7, <2>2, <3>1, WriteType, Sorts DEF Columns
  <2>4. PICK D : D = {<<Root, "resolved">>}
    OBVIOUS
  <2>5. Else(t, u, D)
    BY <1>2, <1>7, <2>2, <2>4, WriteElse, Sorts DEF Columns
  <2>6. Else(tx[s], u, D)
    <3>1. Else(tx[s], u, {} \cup D)
      BY <1>7, <2>5, ElseElse
    <3> QED BY <3>1
  <2>7. \A q \in Flows : <<q, "at">> \notin D /\ <<q, "st">> \notin D
    BY <2>4
  <2>8. CASE Returns(s, u, <<>>)
    <3>1. \A q \in Flows : <<q, "at">> \notin D
      BY <2>7
    <3>2. \A q \in Flows : <<q, "st">> \in D => Free(s, q) /\ St(u, row, q) # "none"
      BY <2>7
    <3> QED BY <1>2, <1>3, <2>3, <2>6, <2>8, <3>1, <3>2, RestOnce, ApartOf
  <2>9. CASE Returns(s, u, <<Call("resolve", p, i)>>)
    <3>1. "resolve" \notin {"process", "act"}
      OBVIOUS
    <3>2. Returns(s, u, <<Call("resolve", c.flow, c.step)>>)
      BY <1>4, <2>9
    <3> QED BY <1>1, <1>3, <1>8, <2>3, <2>6, <2>7, <3>1, <3>2, SameStep
  <2> QED BY <1>15, <2>1, <2>2, <2>8, <2>9
<1>16. \/ Returns(s, t, <<>>)
       \/ Returns(s, t, <<Call("act", p, i)>>)
       \/ Returns(s, t, <<Call("complete", Root, 0)>>)
       \/ p # Root /\ Free(s, p) /\ Returns(s, Write(t, p, "st", "exited"), <<Call("join", Host[p], 0)>>)
       \/ TypeAt(p, i) = "fork" /\ Free(s, p) /\ Returns(s, Forked(t, p), ForkCalls(p))
       \/ \E e \in {<<>>, <<Call("resolve", p, i)>>} :
            Returns(s, Write(t, Root, "resolved", Known(t, Root).resolved \ {<<p, i>>}), e)
  BY Zenon, <1>1, <1>4, <1>6 DEF ProcessStep
<1> QED BY <1>10, <1>11, <1>12, <1>13, <1>14, <1>15, <1>16

LEMMA CheckOnce ==
  ASSUME OnceInv, JoinInv, TypeOK, NEW s \in Sessions, CheckForkJoin(s) PROVE OnceInv'
<1>1. PICK f : f = Head(tx[s].calls).flow
  OBVIOUS
<1>2. /\ tx[s] \in Transactions /\ row \in Rows /\ tx[s].calls # <<>>
      /\ Head(tx[s].calls) \in Calls /\ Head(tx[s].calls).do = "join"
  BY TopGood DEF CheckForkJoin
<1>3. f \in Forks /\ f \in Flows
  BY <1>1, <1>2, Sorts DEF Calls, AtFork
<1>4. Kept
  BY DEF CheckForkJoin, dbVars, envVars, Kept
<1>5. PICK t : t = Load(tx[s], Paths)
  OBVIOUS
<1>6. t \in Transactions /\ Else(tx[s], t, {})
  BY <1>2, <1>5, LoadElse, Sorts
<1>8. CASE Returns(s, t, <<>>)
  BY <1>2, <1>4, <1>6, <1>8, ReadOnce, ApartOf
<1>9. CASE Returns(s, [t EXCEPT !.log = @ \cup {f}], <<Call("leave", f, 0)>>)
  <2>1. PICK u : u = [t EXCEPT !.log = @ \cup {f}]
    OBVIOUS
  <2>2. u \in Transactions
    BY <1>3, <1>6, <2>1 DEF Transactions
  <2>3. u.op = t.op /\ u.acted = t.acted /\ u.dirty = t.dirty /\ u.mem = t.mem
    BY <1>6, <2>1 DEF Transactions
  <2>4. Else(tx[s], u, {})
    BY <1>6, <2>3 DEF Else, St, At
  <2>5. PICK e : e = <<Call("leave", f, 0)>>
    OBVIOUS
  <2>6. Apart(e)
    BY <1>3, <2>5, ApartOf DEF AtFork
  <2> QED BY <1>2, <1>4, <1>9, <2>1, <2>2, <2>4, <2>5, <2>6, ReadOnce
<1> QED BY <1>1, <1>5, <1>8, <1>9 DEF CheckForkJoin

LEMMA EndingOnce ==
  ASSUME OnceInv, JoinInv, TypeOK, NEW s \in Sessions,
         Recheck(s) \/ CompleteEnrollment(s) \/ ExitEnrollment(s)
  PROVE  OnceInv'
<1>1. tx[s] \in Transactions /\ row \in Rows /\ tx[s].calls # <<>>
  BY DEF TypeOK, Recheck, CompleteEnrollment, ExitEnrollment, Running
<1>2. Kept
  BY DEF Recheck, CompleteEnrollment, ExitEnrollment, dbVars, ghostVars, Kept
<1>3. PICK P \in SUBSET Flows : \E c :
        (Returns(s, Load(tx[s], P), c) \/ Returns(s, tx[s], c)) /\ Apart(c)
  <2>1. CASE Recheck(s)
    <3>1. \E c : Returns(s, Load(tx[s], {Root}), c) /\ Apart(c)
      BY <2>1, ApartOf DEF Recheck, AtFork
    <3> QED BY <3>1, Sorts
  <2>2. CASE CompleteEnrollment(s)
    <3>1. \E c : Returns(s, Load(tx[s], Paths \cup {Root}), c) /\ Apart(c)
      BY <2>2, ApartOf, Sorts DEF CompleteEnrollment
    <3> QED BY <3>1, Sorts
  <2>3. CASE ExitEnrollment(s)
    <3>1. \E c : (Returns(s, Load(tx[s], Paths), c) \/ Returns(s, tx[s], c)) /\ Apart(c)
      BY <2>3, ApartOf, Sorts DEF ExitEnrollment
    <3> QED BY <3>1, Sorts
  <2> QED BY <2>1, <2>2, <2>3
<1>6. PICK c : (Returns(s, Load(tx[s], P), c) \/ Returns(s, tx[s], c)) /\ Apart(c)
  BY <1>3
<1>4. PICK t : (t = Load(tx[s], P) \/ t = tx[s]) /\ Returns(s, t, c)
  BY <1>6
<1>5. t \in Transactions /\ Else(tx[s], t, {})
  <2>1. CASE t = tx[s]
    BY <1>1, <2>1 DEF Else
  <2>2. CASE t = Load(tx[s], P)
    BY <1>1, <2>2, LoadElse
  <2> QED BY <1>4, <2>1, <2>2
<1> QED BY <1>1, <1>2, <1>4, <1>5, <1>6, ReadOnce

LEMMA FinishOnce ==
  ASSUME OnceInv, JoinInv, TypeOK, NEW s \in Sessions, Finish(s) PROVE OnceInv'
<1>1. tx[s] \in Transactions /\ row \in Rows /\ tx[s].calls # <<>> /\ Free(s, Root)
  BY DEF TypeOK, Finish, Running
<1>2. Kept
  BY DEF Finish, dbVars, ghostVars, Kept
<1>3. PICK v : v = "completed"
  OBVIOUS
<1>4. PICK t : t = Write(tx[s], Root, "st", v)
  OBVIOUS
<1>5. t \in Transactions
  BY <1>1, <1>3, <1>4, WriteType, Sorts DEF Columns, Status
<1>6. PICK D : D = {<<Root, "st">>}
  OBVIOUS
<1>7. Else(tx[s], t, D) /\ St(t, row, Root) = v
  <2>1. "st" \in Columns
    BY DEF Columns
  <2> QED BY <1>1, <1>4, <1>6, <2>1, WriteElse, Sorts
<1>8. \A q \in Flows : <<q, "at">> \notin D
  BY <1>6
<1>9. \A q \in Flows : <<q, "st">> \in D => Free(s, q) /\ St(t, row, q) # "none"
  BY <1>1, <1>3, <1>6, <1>7
<1>10. Returns(s, t, <<>>)
  BY <1>3, <1>4 DEF Finish
<1> QED BY <1>1, <1>2, <1>5, <1>7, <1>8, <1>9, <1>10, RestOnce, ApartOf

LEMMA KillOnce ==
  ASSUME OnceInv, JoinInv, TypeOK, NEW s \in Sessions, Kill(s) PROVE OnceInv'
<1>1. tx[s] \in Transactions /\ row \in Rows /\ tx[s].calls # <<>>
  BY DEF TypeOK, Kill, Running
<1>2. Kept
  BY DEF Kill, dbVars, ghostVars, Kept
<1>3. PICK t : t = tx[s]
  OBVIOUS
<1>4. PICK K : K = Doomed(t)
  OBVIOUS
<1>5. PICK u : u = [t EXCEPT
                      !.mem = [p \in Flows |-> IF p \in Doomed(t) THEN [@[p] EXCEPT !.st = "exited"]
                                               ELSE @[p]],
                      !.dirty = @ \cup Doomed(t) \X {"st"}]
  OBVIOUS
<1>6. u \in Transactions
  BY <1>1, <1>3, <1>5, DoomType
<1>7. /\ u.mem = [p \in Flows |-> IF p \in K THEN [t.mem[p] EXCEPT !.st = "exited"] ELSE t.mem[p]]
      /\ u.dirty = t.dirty \cup K \X {"st"} /\ u.op = t.op /\ u.acted = t.acted
  BY <1>1, <1>3, <1>4, <1>5 DEF Transactions
<1>8. \A p \in Flows : t.mem[p] \in Row
  BY <1>1, <1>3, MemOf, RowOf
<1>9. \A p \in Flows : /\ u.mem[p].at = t.mem[p].at
                       /\ p \in K => u.mem[p].st = "exited"
                       /\ p \notin K => u.mem[p].st = t.mem[p].st
  BY <1>7, <1>8 DEF Row
<1>10. \A p \in Flows : <<p, "st">> \in K \X {"st"} <=> p \in K
  OBVIOUS
<1>11. \A p : <<p, "at">> \notin K \X {"st"}
  OBVIOUS
<1>12. Else(t, u, K \X {"st"})
  BY <1>7, <1>9, <1>10, <1>11 DEF Else, St, At
<1>13. \A p \in K : St(u, row, p) = "exited"
  <2>1. K \subseteq Flows
    BY <1>4, Sorts DEF Doomed
  <2> QED BY <1>7, <1>9, <1>10, <2>1 DEF St
<1>14. PICK v : v = "exited"
  OBVIOUS
<1>15. PICK w : w = Write(u, Root, "st", v)
  OBVIOUS
<1>16. w \in Transactions
  BY <1>1, <1>6, <1>14, <1>15, WriteType, Sorts DEF Columns, Status
<1>17. Else(u, w, {<<Root, "st">>}) /\ St(w, row, Root) = v
  <2>1. "st" \in Columns
    BY DEF Columns
  <2> QED BY <1>1, <1>6, <1>15, <2>1, WriteElse, Sorts
<1>18. PICK D : D = K \X {"st"} \cup {<<Root, "st">>}
  OBVIOUS
<1>19. Else(t, w, D)
  BY <1>12, <1>17, <1>18, ElseElse
<1>20. \A q \in Flows : <<q, "at">> \notin D /\ (<<q, "st">> \in D => q \in K \cup {Root})
  BY <1>18
<1>21. \A q \in Flows : <<q, "st">> \in D => Free(s, q) /\ St(w, row, q) # "none"
  <2> SUFFICES ASSUME NEW q \in Flows, <<q, "st">> \in D PROVE Free(s, q) /\ St(w, row, q) # "none"
    OBVIOUS
  <2>1. Free(s, q)
    BY <1>3, <1>4, <1>20 DEF Kill
  <2>2. CASE q = Root
    BY <1>14, <1>17, <2>1, <2>2
  <2>3. CASE q # Root
    <3>1. St(w, row, q) = St(u, row, q)
      BY <1>17, <2>3 DEF Else
    <3> QED BY <1>13, <1>20, <2>1, <2>3, <3>1
  <2> QED BY <2>2, <2>3
<1>22. Returns(s, w, <<>>)
  BY <1>3, <1>5, <1>14, <1>15 DEF Kill
<1> QED BY <1>1, <1>2, <1>3, <1>16, <1>19, <1>20, <1>21, <1>22, RestOnce, ApartOf

\* What s goes on with, where it takes it to be.
LEMMA GoesOnIs ==
  ASSUME NEW s \in Sessions, NEW p \in Flows, NEW st, NEW i, GoesOn(s, p, st, i)
  PROVE  /\ contested \subseteq contested'
         /\ p \notin contested' =>
              /\ p \notin contested
              /\ St(tx[s], row, p) = st /\ At(tx[s], row, p) = i
              /\ \A w \in Sessions \ {s} : On(tx[w].calls, p) = {} /\ ~Moves(tx[w], p)
<1>1. Merged(tx[s])[p].st = St(tx[s], row, p) /\ Merged(tx[s])[p].at = At(tx[s], row, p)
  BY DEF Merged, Columns, St, At
<1>2. \A w : ~Handles(tx[w], p) => On(tx[w].calls, p) = {} /\ ~Moves(tx[w], p)
  BY DEF Handles, On, Moves
<1>3. \/ contested' = contested \cup {p}
      \/ /\ contested' = contested
         /\ ~(\E u \in Sessions \ {s} : Handles(tx[u], p))
         /\ St(tx[s], row, p) = st /\ At(tx[s], row, p) = i
  BY <1>1 DEF GoesOn
<1> QED BY <1>2, <1>3

\* A join's call is in no step, and those below it have not left the first.
LEMMA NotOnFork ==
  ASSUME OnceInv, TypeOK, NEW s \in Sessions, NEW do, do \notin AtStep, Running(s, do),
         NEW f \in Flows, f \notin contested, At(tx[s], row, f) = ForkStep
  PROVE  On(tx[s].calls, f) = {}
<1> SUFFICES ASSUME NEW i \in On(tx[s].calls, f) PROVE FALSE
  OBVIOUS
<1>1. tx[s] \in Transactions /\ row \in Rows /\ tx[s].calls # <<>>
  BY DEF Running, TypeOK
<1>2. tx[s].calls[1].do = do
  <2>1. Head(tx[s].calls) = tx[s].calls[1]
    BY <1>1 DEF Transactions
  <2> QED BY <2>1 DEF Running
<1>3. i \in Nat /\ i >= 1 /\ i \in DOMAIN tx[s].calls /\ tx[s].calls[i].do \in AtStep
  BY <1>1, TypesOf DEF On
<1>4. i > 1
  BY <1>2, <1>3
<1>5. tx[s].calls[i].step = 1
  BY <1>3, <1>4 DEF OnceInv, OnceFor, Tidy
<1>6. tx[s].calls[i].step = ForkStep
  BY DEF OnceInv, OnceFor, Single
<1> QED BY <1>5, <1>6, Sorts

LEMMA LeaveOnce ==
  ASSUME OnceInv, JoinInv, TypeOK, NEW s \in Sessions, ContinueAfterFork(s) PROVE OnceInv'
<1>1. PICK c : c = Head(tx[s].calls)
  OBVIOUS
<1>2. /\ tx[s] \in Transactions /\ row \in Rows /\ RowsGood(row, joins)
      /\ Good(s, tx[s], row) /\ tx[s].calls # <<>>
      /\ c \in Calls /\ c.do = "leave"
  BY <1>1, TopGood DEF ContinueAfterFork
<1>3. PICK f, t : f = c.flow /\ t = tx[s]
  OBVIOUS
<1>4. f \in Forks /\ f \in Flows
  BY <1>2, <1>3, Sorts DEF Calls, AtFork
<1>5. row' = row /\ acts' = acts /\ causes' = causes
  BY DEF ContinueAfterFork, dbVars
<1>6. Running(s, "leave") /\ "leave" \notin AtStep
  BY DEF ContinueAfterFork, AtStep
<1>7. PICK L : L = contested'
  OBVIOUS
<1>8. CASE Returns(s, tx[s], <<>>) /\ UNCHANGED contested
  <2>1. Kept
    BY <1>5, <1>8 DEF Kept
  <2>2. Else(tx[s], tx[s], {})
    BY DEF Else
  <2> QED BY <1>2, <1>8, <2>1, <2>2, ReadOnce, ApartOf
<1>9. CASE /\ f # Root /\ Known(t, f).st = "forked" /\ Free(s, f)
           /\ GoesOn(s, f, "forked", ForkStep)
           /\ Returns(s, Write(t, f, "st", "active"), <<Call("advance", f, ForkStep)>>)
  <2>1. PICK v : v = "active"
    OBVIOUS
  <2>2. PICK u : u = Write(t, f, "st", v)
    OBVIOUS
  <2>3. u \in Transactions
    BY <1>2, <1>3, <1>4, <2>1, <2>2, WriteType DEF Columns, Status
  <2>4. PICK D : D = {<<f, "st">>}
    OBVIOUS
  <2>5. Else(tx[s], u, D) /\ St(u, row, f) = v
    <3>1. "st" \in Columns
      BY DEF Columns
    <3> QED BY <1>2, <1>3, <1>4, <2>2, <2>4, <3>1, WriteElse
  <2>6. \A q : <<q, "at">> \notin D /\ (<<q, "st">> \in D => q = f)
    BY <2>4
  <2>7. PICK d : d = Call("advance", f, ForkStep)
    OBVIOUS
  <2>8. d.do = "advance" /\ d.flow = f /\ d.step = ForkStep /\ d \in Calls /\ d.do \in AtStep
    <3>1. <<f, ForkStep>> \in Steps
      BY <1>4, ForkAt, Scripts
    <3> QED BY <2>7, <3>1, CallType DEF Call, AtStep
  <2>9. /\ contested \subseteq contested'
        /\ f \notin contested' =>
             /\ f \notin contested /\ At(tx[s], row, f) = ForkStep
             /\ \A w \in Sessions \ {s} : On(tx[w].calls, f) = {} /\ ~Moves(tx[w], f)
    BY <1>4, <1>9, GoesOnIs
  <2>10. f \notin L => On(tx[s].calls, f) = {}
    BY <1>4, <1>6, <1>7, <2>9, NotOnFork
  <2>11. At(u, row, f) = At(tx[s], row, f) /\ At(tx[s], row, f) \in Nat
    <3>1. At(tx[s], row, f) \in Nat
      BY <1>2, <1>4, TypesOf
    <3> QED BY <1>4, <2>5, <2>6, <3>1 DEF Else
  <2>12. f \notin L =>
           /\ d.step = At(u, row, f) /\ At(u, row, f) >= At(tx[s], row, f)
           /\ On(tx[s].calls, f) \subseteq {1}
           /\ \A w \in Sessions \ {s} : On(tx[w].calls, f) = {} /\ <<f, "at">> \notin tx[w].dirty
    BY <1>7, <2>8, <2>9, <2>10, <2>11 DEF Moves
  <2>13. d.do \notin {"process", "act"}
    BY <2>8
  <2>14. St(u, row, f) # "none"
    BY <2>1, <2>5
  <2>15. \A q \in Flows : <<q, "at">> \in D \/ <<q, "st">> \in D => Free(s, q)
    BY <1>9, <2>6
  <2>16. Goes(s, u, d, f, D, L)
    BY <2>5, <2>6, <2>8, <2>12, <2>13, <2>14, <2>15 DEF Goes
  <2>17. Returns(s, u, <<d>>)
    BY <1>9, <2>1, <2>2, <2>7
  <2>18. Kept
    BY <1>5, <2>9 DEF Kept
  <2> QED BY <1>2, <1>7, <2>3, <2>8, <2>16, <2>17, <2>18, GoOnce
<1>10. ASSUME f = Root, GoesOn(s, Root, "active", ForkStep), Free(s, Root),
              NEW m, m = Write(t, Root, "counted", FALSE)
       PROVE  /\ m \in Transactions /\ Else(tx[s], m, {<<Root, "counted">>}) /\ Kept
              /\ St(tx[s], row, Root) # "none"
              /\ Root \notin L =>
                   /\ Root \notin contested /\ At(tx[s], row, Root) = ForkStep
                   /\ On(tx[s].calls, Root) = {}
                   /\ \A w \in Sessions \ {s} : On(tx[w].calls, Root) = {} /\ ~Moves(tx[w], Root)
  <2>1. m \in Transactions
    BY <1>2, <1>3, <1>10, WriteType, Sorts DEF Columns
  <2>2. Else(tx[s], m, {<<Root, "counted">>})
    BY <1>2, <1>3, <1>10, WriteElse, Sorts DEF Columns
  <2>3. /\ contested \subseteq contested'
        /\ Root \notin contested' =>
             /\ Root \notin contested /\ At(tx[s], row, Root) = ForkStep
             /\ \A w \in Sessions \ {s} : On(tx[w].calls, Root) = {} /\ ~Moves(tx[w], Root)
    BY <1>10, Sorts, GoesOnIs
  <2>4. Root \notin L => On(tx[s].calls, Root) = {}
    BY <1>6, <1>7, <2>3, Sorts, NotOnFork
  <2>5. St(tx[s], row, Root) # "none"
    BY <1>2, Sorts DEF St, Good, Written, RowsGood
  <2>6. Kept
    BY <1>5, <2>3 DEF Kept
  <2> QED BY <1>7, <2>1, <2>2, <2>3, <2>4, <2>5, <2>6
<1>11. CASE /\ f = Root /\ GoesOn(s, Root, "active", ForkStep) /\ Free(s, Root)
            /\ HasNext(Root, ForkStep)
            /\ Returns(s, Write(Write(t, Root, "counted", FALSE), Root, "at", AfterFork),
                       <<Call("process", Root, AfterFork)>>)
  <2>1. PICK m : m = Write(t, Root, "counted", FALSE)
    OBVIOUS
  <2>2. PICK v : v = AfterFork
    OBVIOUS
  <2>3. PICK u : u = Write(m, Root, "at", v)
    OBVIOUS
  <2>4. /\ m \in Transactions /\ Else(tx[s], m, {<<Root, "counted">>}) /\ Kept
        /\ St(tx[s], row, Root) # "none"
        /\ Root \notin L =>
             /\ Root \notin contested /\ At(tx[s], row, Root) = ForkStep
             /\ On(tx[s].calls, Root) = {}
             /\ \A w \in Sessions \ {s} : On(tx[w].calls, Root) = {} /\ ~Moves(tx[w], Root)
    BY <1>10, <1>11, <2>1
  <2>5. v \in 1 .. Len(Script[Root]) /\ v = 3 /\ ForkStep = 2
    BY <1>11, <2>2, Scripts, Sorts DEF HasNext, AfterFork
  <2>6. u \in Transactions
    BY <1>2, <2>3, <2>4, <2>5, WriteType, Sorts DEF Columns
  <2>7. Else(m, u, {<<Root, "at">>}) /\ At(u, row, Root) = v
    <3>1. "at" \in Columns
      BY DEF Columns
    <3>2. PICK E : E = {<<Root, "at">>}
      OBVIOUS
    <3>3. Else(m, u, E) /\ At(u, row, Root) = v
      BY <1>2, <2>3, <2>4, <3>1, <3>2, WriteElse, Sorts
    <3> QED BY <3>2, <3>3
  <2>8. PICK D : D = {<<Root, "counted">>} \cup {<<Root, "at">>}
    OBVIOUS
  <2>9. Else(tx[s], u, D)
    BY <2>4, <2>7, <2>8, ElseElse
  <2>10. \A q : <<q, "st">> \notin D /\ (<<q, "at">> \in D => q = Root)
    BY <2>8
  <2>11. PICK d : d = Call("process", Root, v)
    OBVIOUS
  <2>12. d.do = "process" /\ d.flow = Root /\ d.step = v /\ d \in Calls /\ d.do \in AtStep
    <3>1. <<Root, v>> \in Steps
      BY <2>5, Scripts
    <3> QED BY <2>11, <3>1, CallType DEF Call, AtStep
  <2>13. St(u, row, Root) # "none"
    BY <2>4, <2>9, <2>10, Sorts DEF Else
  <2>14. Root \notin L /\ "lost" \notin causes => \A y \in Actions : y = <<Root, d.step>> => acts[y] = 0
    <3> SUFFICES ASSUME Root \notin L, "lost" \notin causes, NEW y \in Actions, y = <<Root, d.step>>
                 PROVE  acts[y] = 0
      OBVIOUS
    <3>1. Unspent(row, tx, acts, Root)
      BY <2>4, Sorts DEF OnceInv, OnceFor
    <3>2. \A w \in Sessions \ {s} : <<Root, "at">> \notin tx[w].dirty
      BY <2>4 DEF Moves
    <3>3. Unrun(acts, Root, ForkStep)
      BY <2>4, <3>1, <3>2 DEF Unspent
    <3>4. y[1] = Root /\ y[2] > ForkStep
      BY <2>5, <2>12
    <3> QED BY <3>3, <3>4 DEF Unrun
  <2>15. Root \notin L =>
           /\ d.step = At(u, row, Root) /\ At(u, row, Root) >= At(tx[s], row, Root)
           /\ On(tx[s].calls, Root) \subseteq {1}
           /\ \A w \in Sessions \ {s} : On(tx[w].calls, Root) = {} /\ <<Root, "at">> \notin tx[w].dirty
    BY <2>4, <2>5, <2>7, <2>12 DEF Moves
  <2>16. \A q \in Flows : <<q, "at">> \in D \/ <<q, "st">> \in D => Free(s, q)
    BY <1>11, <2>10
  <2>17. Goes(s, u, d, Root, D, L)
    BY <2>9, <2>10, <2>12, <2>13, <2>14, <2>15, <2>16 DEF Goes
  <2>18. Returns(s, u, <<d>>)
    BY <1>11, <2>1, <2>2, <2>3, <2>11
  <2> QED BY <1>2, <1>7, <2>4, <2>6, <2>12, <2>17, <2>18, GoOnce
<1>12. CASE /\ f = Root /\ GoesOn(s, Root, "active", ForkStep) /\ Free(s, Root)
            /\ Returns(s, Write(t, Root, "counted", FALSE), <<Call("complete", Root, 0)>>)
  <2>1. PICK m : m = Write(t, Root, "counted", FALSE)
    OBVIOUS
  <2>2. PICK D : D = {<<Root, "counted">>}
    OBVIOUS
  <2>3. m \in Transactions /\ Else(tx[s], m, D) /\ Kept
    BY <1>10, <1>12, <2>1, <2>2
  <2>4. PICK e : e = <<Call("complete", Root, 0)>>
    OBVIOUS
  <2>5. Apart(e)
    BY <2>4, ApartOf, Sorts
  <2>6. Returns(s, m, e)
    BY <1>12, <2>1, <2>4
  <2>7. \A q \in Flows : <<q, "at">> \notin D
    BY <2>2
  <2>8. \A q \in Flows : <<q, "st">> \in D => Free(s, q) /\ St(m, row, q) # "none"
    BY <2>2
  <2> QED BY <1>2, <2>3, <2>5, <2>6, <2>7, <2>8, RestOnce
<1> QED BY <1>1, <1>3, <1>8, <1>9, <1>11, <1>12 DEF ContinueAfterFork

\* s makes t of its transaction and the calls c of the one on top, if there is one.
LEMMA ReturnOnce ==
  ASSUME OnceInv, TypeOK, NEW s \in Sessions, NEW t \in Transactions, NEW c \in Seq(Calls),
         NEW u, u = [t EXCEPT !.calls = Onto(tx[s].calls, c)], NEW y, y = [tx EXCEPT ![s] = u],
         NEW L, contested \subseteq L, NEW M, causes \subseteq M,
         Onward(row, tx, acts, s, t, c, L, causes)
  PROVE  u \in Transactions /\ OnceFor(row, y, acts, L, M)
<1>3. tx[s] \in Transactions /\ tx[s].calls \in Seq(Calls)
  BY DEF TypeOK, Transactions
<1>4. Onto(tx[s].calls, c) \in Seq(Calls)
  <2>1. Below(tx[s].calls) \in Seq(Calls)
    <3>1. tx[s].calls # <<>> => Tail(tx[s].calls) \in Seq(Calls)
      BY <1>3
    <3>2. <<>> \in Seq(Calls)
      OBVIOUS
    <3> QED BY <3>1, <3>2 DEF Below
  <2>2. PICK b : b = Below(tx[s].calls)
    OBVIOUS
  <2> QED BY <2>1, <2>2 DEF Onto
<1>2. PICK q : q = Onto(tx[s].calls, c)
  OBVIOUS
<1>5. u \in Transactions /\ u.calls = q
  BY <1>2, <1>4 DEF Transactions
<1>6. u.op = t.op /\ u.acted = t.acted /\ u.dirty = t.dirty /\ u.mem = t.mem
  BY DEF Transactions
<1>7. \A p : St(u, row, p) = St(t, row, p) /\ At(u, row, p) = At(t, row, p) /\ (Moves(u, p) <=> Moves(t, p))
  BY <1>6 DEF St, At, Moves
<1>8. Onward(row, tx, acts, s, u, c, L, causes)
  <2>1. \A p \in Flows \ L : On(c, p) # {} => Leads(row, tx, acts, s, u, c, p, causes)
    BY <1>7 DEF Onward, Leads
  <2> QED BY <1>6, <1>7, <2>1 DEF Onward
<1>10. row \in Rows /\ tx \in [Sessions -> Transactions]
  BY DEF TypeOK
<1>11. OnceFor(row, tx, acts, contested, causes)
  BY DEF OnceInv
<1>12. u.calls = Onto(tx[s].calls, c)
  BY <1>2, <1>5
<1> HIDE DEF Onto
<1>13. OnceFor(row, y, acts, L, M)
  <2>1. u \in Transactions
    BY <1>5
  <2> QED BY <1>8, <1>10, <1>11, <1>12, <2>1, LocalOnce
<1> QED BY <1>5, <1>13

-----------------------------------------------------------------------------
(* An action. *)

\* The enrollment is read again.
LEMMA RefreshElse ==
  ASSUME NEW t \in Transactions, row \in Rows, NEW u, u = Refreshed(t, Expire(t, t.list))
  PROVE  u \in Transactions /\ Else(t, u, {}) /\ u.acted
<1>1. PICK e : e = Expire(t, t.list)
  OBVIOUS
<1>2. PICK m : m = [e.mem EXCEPT ![Root] = Merged(t)[Root]]
  OBVIOUS
<1>3. /\ e \in Transactions /\ e.dirty = t.dirty /\ e.op = t.op
      /\ \A p \in Flows : /\ <<p, "st">> \in t.dirty => e.mem[p].st = t.mem[p].st
                          /\ <<p, "at">> \in t.dirty => e.mem[p].at = t.mem[p].at
  BY <1>1, ExpireIs
<1>4. u = [e EXCEPT !.mem = m, !.read = @ \cup {Root}, !.funnel = "unread", !.acted = TRUE]
  BY <1>1, <1>2, <1>3 DEF Refreshed, Transactions
<1>5. u.dirty = t.dirty /\ u.op = t.op /\ u.mem = m /\ u.acted
  BY <1>3, <1>4 DEF Transactions
<1>6. m[Root].st = St(t, row, Root) /\ m[Root].at = At(t, row, Root)
      /\ \A p \in Paths : m[p] = e.mem[p]
  <2>1. m[Root] = Merged(t)[Root] /\ \A p \in Paths : m[p] = e.mem[p]
    BY <1>2, <1>3, MemOf, Sorts DEF Rows
  <2>2. Merged(t)[Root].st = St(t, row, Root) /\ Merged(t)[Root].at = At(t, row, Root)
    BY Sorts DEF Merged, Columns, St, At
  <2> QED BY <2>1, <2>2
<1>7. ASSUME NEW p \in Flows PROVE St(u, row, p) = St(t, row, p) /\ At(u, row, p) = At(t, row, p)
  <2>1. CASE p = Root
    BY <1>5, <1>6, <2>1 DEF St, At
  <2>2. CASE p \in Paths
    BY <1>3, <1>5, <1>6, <2>2 DEF St, At
  <2> QED BY <2>1, <2>2, Sorts
<1>8. u \in Transactions
  BY <1>1, <1>3, RefreshedType
<1> QED BY <1>5, <1>7, <1>8 DEF Else

\* The action at step i of p, which s is in, is about to run.
Ready(s, p, i, z) ==
  /\ tx[s] \in Transactions /\ row \in Rows /\ tx[s].calls # <<>> /\ p \in Flows
  /\ tx[s].calls \in Seq(Calls) /\ tx[s].op # "none" /\ St(tx[s], row, p) # "none"
  /\ z \in Actions /\ z[1] = p /\ z[2] = i
  /\ At(tx[s], row, p) \in Nat
  /\ p \notin contested =>
       /\ On(tx[s].calls, p) = {1} /\ i = At(tx[s], row, p)
       /\ \A w \in Sessions \ {s} : On(tx[w].calls, p) = {} /\ <<p, "at">> \notin tx[w].dirty
  /\ p \notin contested /\ "lost" \notin causes => acts[z] = 0

LEMMA ActTop ==
  ASSUME OnceInv, JoinInv, TypeOK, NEW s \in Sessions, Running(s, "act"),
         NEW c, c = Head(tx[s].calls), NEW p, p = c.flow, NEW z, z = <<p, c.step>>
  PROVE  Ready(s, p, c.step, z)
<1>1. "act" \in AtStep
  BY DEF AtStep
<1>2. /\ tx[s] \in Transactions /\ row \in Rows /\ tx[s].calls # <<>>
      /\ c \in Calls /\ c.do = "act" /\ CallGood(s, tx[s], row, c)
  BY TopGood
<1>3. p \in Flows /\ <<p, c.step>> \in Steps
  BY <1>1, <1>2, StepOf
<1>4. z \in Actions /\ z[1] = p /\ z[2] = c.step
  <2>1. TypeAt(p, c.step) = "action"
    BY <1>2 DEF CallGood
  <2>2. Script[p][c.step] = "action"
    BY <2>1 DEF TypeAt
  <2> QED BY <1>3, <2>2 DEF Actions
<1>5. /\ St(tx[s], row, p) # "none"
      /\ p \notin contested =>
           /\ On(tx[s].calls, p) = {1} /\ c.step = At(tx[s], row, p)
           /\ \A w \in Sessions \ {s} : On(tx[w].calls, p) = {} /\ <<p, "at">> \notin tx[w].dirty
      /\ p \notin contested /\ "lost" \notin causes =>
           \A y \in Actions : y = <<p, c.step>> => acts[y] = 0
  <2>1. PICK do : do = "act"
    OBVIOUS
  <2>2. do \in AtStep /\ Running(s, do) /\ do \in {"process", "act"}
    BY <1>1, <2>1
  <2> QED BY <2>2, TopOn
<1>6. At(tx[s], row, p) \in Nat /\ tx[s].calls \in Seq(Calls)
  BY <1>2, <1>3, TypesOf
<1>7. tx[s].op # "none"
  BY <1>2 DEF OnceInv, OnceFor, Tidy
<1> QED BY <1>2, <1>3, <1>4, <1>5, <1>6, <1>7 DEF Ready

\* Its flow goes on from there.
LEMMA ActOnward ==
  ASSUME OnceInv, JoinInv, TypeOK, NEW s \in Sessions, Running(s, "act"),
         NEW c, c = Head(tx[s].calls), NEW d, d = Call("advance", c.flow, c.step),
         NEW t \in Transactions, Else(tx[s], t, {}), NEW e, e = <<d>>, NEW K, K = contested
  PROVE  /\ e \in Seq(Calls)
         /\ On(e, c.flow) = {1} /\ e[1].do = "advance"
         /\ Onward(row, tx, acts, s, t, e, K, causes)
<1>1. PICK p, z : p = c.flow /\ z = <<p, c.step>>
  OBVIOUS
<1>2. /\ p \in Flows /\ tx[s].op # "none" /\ St(tx[s], row, p) # "none"
      /\ z \in Actions /\ At(tx[s], row, p) \in Nat
      /\ p \notin contested =>
           /\ On(tx[s].calls, p) = {1} /\ c.step = At(tx[s], row, p)
           /\ \A w \in Sessions \ {s} : On(tx[w].calls, p) = {} /\ <<p, "at">> \notin tx[w].dirty
  <2>1. Ready(s, p, c.step, z)
    BY <1>1, ActTop
  <2> QED BY <2>1 DEF Ready
<1>3. d.do = "advance" /\ d.flow = p /\ d.step = c.step /\ d \in Calls /\ d.do \in AtStep
  <2>1. z \in Steps
    BY <1>2 DEF Actions
  <2> QED BY <1>1, <1>2, <2>1, CallType DEF Call, AtStep
<1>4. St(t, row, p) = St(tx[s], row, p) /\ At(t, row, p) = At(tx[s], row, p) /\ t.op = tx[s].op
  BY <1>2 DEF Else
<1>5. PICK D : D = {}
  OBVIOUS
<1>6. Goes(s, t, d, p, D, K)
  <2>1. p \notin K =>
           /\ d.step = At(t, row, p) /\ At(t, row, p) >= At(tx[s], row, p)
           /\ On(tx[s].calls, p) \subseteq {1}
           /\ \A w \in Sessions \ {s} : On(tx[w].calls, p) = {} /\ <<p, "at">> \notin tx[w].dirty
    BY <1>2, <1>3, <1>4
  <2>2. d.do \notin {"process", "act"}
    BY <1>3
  <2> QED BY Zenon, <1>2, <1>3, <1>4, <1>5, <2>1, <2>2 DEF Goes
<1> HIDE DEF Call
<1>7. e \in Seq(Calls) /\ e # <<>> /\ d = e[1] /\ DOMAIN e = {1}
  <2>1. d \in Calls
    BY <1>3
  <2> QED BY <2>1
<1>8. \A i \in DOMAIN e : i > 1 => e[i].do \notin AtStep
  BY <1>7
<1>9. Onward(row, tx, acts, s, t, e, K, causes)
  <2>1. Goes(s, t, e[1], p, D, K)
    BY <1>6, <1>7
  <2>2. t.op # "none"
    BY <1>2, <1>4
  <2> QED BY <1>7, <1>8, <2>1, <2>2, OnwardGo
<1>10. On(e, p) = {1}
  BY ZenonT(60), <1>3, <1>7 DEF On
<1> QED BY <1>1, <1>3, <1>7, <1>9, <1>10

\* The call that takes its place is the one in a step of p.
Advancing(q, p, K) ==
  On(q, p) # {} /\ (p \notin K => \A i \in On(q, p) : q[i].do = "advance")

LEMMA OnTop ==
  ASSUME NEW q \in Seq(Calls), NEW e \in Seq(Calls), NEW d, d = Onto(q, e), NEW p,
         On(e, p) = {1}, e[1].do = "advance", NEW K, p \in K \/ On(q, p) = {1}
  PROVE  Advancing(d, p, K)
<1>1. /\ On(e, p) \subseteq On(d, p)
      /\ On(q, p) \subseteq {1} => On(d, p) = On(e, p)
  BY OnAfter
<1>2. \A i \in DOMAIN e : d[i] = e[i]
  BY StackOn
<1>3. 1 \in DOMAIN e
  BY DEF On
<1> QED BY <1>1, <1>2, <1>3 DEF Advancing

\* It runs.
LEMMA ActOnce ==
  ASSUME OnceInv, JoinInv, TypeOK, NEW s \in Sessions, Running(s, "act"),
         NEW c, c = Head(tx[s].calls), NEW d, d = Call("advance", c.flow, c.step),
         NEW t \in Transactions, Else(tx[s], t, {}), t.acted, NEW e, e = <<d>>,
         NEW u, u = [t EXCEPT !.calls = Onto(tx[s].calls, e)],
         NEW y, y = [tx EXCEPT ![s] = u],
         NEW z, z = <<c.flow, c.step>>, NEW b, b = [acts EXCEPT ![z] = @ + 1]
  PROVE  u \in Transactions /\ OnceFor(row, y, b, contested, causes)
<1>1. PICK p, K, C : p = c.flow /\ K = contested /\ C = causes
  OBVIOUS
<1>2. /\ tx[s] \in Transactions /\ row \in Rows /\ p \in Flows
      /\ tx[s].calls \in Seq(Calls)
      /\ z \in Actions /\ z[1] = p /\ z[2] = c.step
      /\ p \notin K => On(tx[s].calls, p) = {1} /\ c.step = At(tx[s], row, p)
      /\ p \notin K /\ "lost" \notin C => acts[z] = 0
  <2>1. z = <<p, c.step>>
    BY <1>1
  <2>2. Ready(s, p, c.step, z)
    BY <1>1, <2>1, ActTop
  <2> QED BY <1>1, <2>2 DEF Ready
<1>3. e \in Seq(Calls) /\ On(e, p) = {1} /\ e[1].do = "advance"
      /\ Onward(row, tx, acts, s, t, e, K, causes)
  BY <1>1, ActOnward
<1>4. u \in Transactions /\ OnceFor(row, y, acts, K, C)
  BY Zenon, <1>1, <1>3, ReturnOnce
<1>5. u.calls = Onto(tx[s].calls, e) /\ u.acted /\ u.dirty = t.dirty /\ u.mem = t.mem
  BY DEF Transactions
<1>6. y[s] = u /\ y \in [Sessions -> Transactions]
  BY <1>4 DEF TypeOK
<1>7. PICK w, q : w = tx[s].calls /\ q = u.calls
  OBVIOUS
<1>8. On(q, p) # {} /\ (p \notin K => \A i \in On(q, p) : q[i].do = "advance")
  <2>1. w \in Seq(Calls) /\ q = Onto(w, e) /\ e \in Seq(Calls)
    BY Zenon, <1>2, <1>3, <1>5, <1>7
  <2>2. p \in K \/ On(w, p) = {1}
    BY <1>2, <1>7
  <2>3. On(e, p) = {1} /\ e[1].do = "advance"
    BY <1>3
  <2>4. Advancing(q, p, K)
    BY <2>1, <2>2, <2>3, OnTop
  <2> QED BY <2>4 DEF Advancing
<1>10. At(u, row, p) = At(tx[s], row, p)
  BY <1>2, <1>5 DEF At, Else
<1>11. acts \in [Actions -> Nat]
  BY DEF TypeOK
<1>12. /\ At(y[s], row, p) = z[2] \/ p \in K
       /\ On(y[s].calls, p) # {} /\ y[s].acted
       /\ p \notin K => \A i \in On(y[s].calls, p) : y[s].calls[i].do = "advance"
  BY ZenonT(60), <1>2, <1>5, <1>6, <1>7, <1>8, <1>10
<1>13. OnceFor(row, y, b, K, C)
  <2>1. /\ OnceFor(row, y, acts, K, C) /\ y \in [Sessions -> Transactions]
        /\ p \in Flows /\ z \in Actions /\ z[1] = p /\ row \in Rows
        /\ p \notin K /\ "lost" \notin C => acts[z] = 0
    BY <1>2, <1>4, <1>6
  <2> QED BY ZenonT(60), <1>11, <1>12, <2>1, RunOnce
<1>14. OnceFor(row, y, b, contested, causes)
  BY Zenon, <1>1, <1>13
<1> QED BY Zenon, <1>4, <1>14

LEMMA ExecuteOnce ==
  ASSUME OnceInv, JoinInv, TypeOK, NEW s \in Sessions, ExecuteAction(s) PROVE OnceInv'
<1>1. PICK c : c = Head(tx[s].calls)
  OBVIOUS
<1>2. /\ tx[s] \in Transactions /\ row \in Rows /\ Good(s, tx[s], row) /\ tx[s].calls # <<>>
  BY <1>1, TopGood DEF ExecuteAction
<1>3. PICK d : d = Call("advance", c.flow, c.step)
  OBVIOUS
<1>8. PICK z : z = <<c.flow, c.step>>
  OBVIOUS
<1>4. PICK b : b = [acts EXCEPT ![z] = @ + 1]
  OBVIOUS
<1>9. PICK e, q : e = <<d>> /\ q = Onto(tx[s].calls, e)
  OBVIOUS
<1>10. q = <<d>> \o Tail(tx[s].calls)
  BY <1>2, <1>9 DEF Onto, Below
<1>5. Running(s, "act") /\ acts' = b /\ contested' = contested /\ causes' = causes
  BY <1>1, <1>4, <1>8 DEF ExecuteAction
<1>6. CASE Returns(s, Refreshed(tx[s], Expire(tx[s], tx[s].list)), <<d>>) /\ UNCHANGED dbVars
  <2>1. PICK t : t = Refreshed(tx[s], Expire(tx[s], tx[s].list))
    OBVIOUS
  <2>2. t \in Transactions /\ Else(tx[s], t, {}) /\ t.acted
    BY <1>2, <2>1, RefreshElse
  <2>3. PICK u : u = [t EXCEPT !.calls = q]
    OBVIOUS
  <2>4. PICK y : y = [tx EXCEPT ![s] = u]
    OBVIOUS
  <2>5. OnceFor(row, y, b, contested, causes)
    BY <1>1, <1>3, <1>4, <1>5, <1>8, <1>9, <2>2, <2>3, <2>4, ActOnce
  <2>6. tx' = y /\ row' = row
    BY <1>6, <1>10, <2>1, <2>3, <2>4 DEF Returns, dbVars
  <2> QED BY <1>5, <2>5, <2>6 DEF OnceInv
<1>7. CASE /\ row' = Merged(tx[s]) /\ joins' = Logged(tx[s])
           /\ Returns(s, Refreshed(tx[s], Expire(Flushed(tx[s]), {})), <<d>>)
  <2>1. PICK t : t = [tx[s] EXCEPT !.acted = TRUE]
    OBVIOUS
  <2>2. t \in Transactions /\ t.op = tx[s].op /\ t.acted /\ t.dirty = tx[s].dirty /\ t.mem = tx[s].mem
    BY <1>2, <2>1 DEF Transactions
  <2>3. Else(tx[s], t, {})
    BY <2>2 DEF Else, St, At
  <2>4. PICK v : v = [t EXCEPT !.calls = q]
    OBVIOUS
  <2>5. PICK x : x = [tx EXCEPT ![s] = v]
    OBVIOUS
  <2>6. v \in Transactions /\ OnceFor(row, x, b, contested, causes)
    BY ZenonT(60), <1>1, <1>3, <1>4, <1>5, <1>8, <1>9, <2>2, <2>3, <2>4, <2>5, ActOnce
  <2>7. v.dirty = tx[s].dirty /\ v.mem = tx[s].mem /\ v.op = tx[s].op
        /\ v.calls = q
    BY <2>2, <2>4 DEF Transactions
  <2>8. x[s] = v /\ x \in [Sessions -> Transactions]
    BY <2>5, <2>6 DEF TypeOK
  <2>9. PICK g : g = Merged(tx[s])
    OBVIOUS
  <2>10. g \in Rows
    BY <1>2, <2>9, MergedType
  <2>11. \A p \in Flows : g[p].st = St(x[s], row, p) /\ g[p].at = At(x[s], row, p)
    BY <2>7, <2>8, <2>9 DEF Merged, Columns, St, At
  <2>12. \A p \in Flows : <<p, "st">> \in x[s].dirty => x[s].mem[p].st # "none"
    BY <1>2, <2>7, <2>8 DEF Good, Written
  <2>13. PICK w : w = Refreshed(tx[s], Expire(Flushed(tx[s]), {}))
    OBVIOUS
  <2>14. w \in Transactions /\ w.dirty = {}
    BY <2>9, <2>13, OwnCommit
  <2>16. PICK u : u = [w EXCEPT !.calls = q]
    OBVIOUS
  <2>17. q \in Seq(Calls)
    BY <2>6, <2>7 DEF Transactions
  <2>18. u \in Transactions /\ u.dirty = {} /\ u.calls = x[s].calls
    BY <2>7, <2>8, <2>14, <2>16, <2>17 DEF Transactions
  <2>19. u.op # "none"
    <3>1. w.op = tx[s].op
      <4>1. PICK h : h = Flushed(tx[s])
        OBVIOUS
      <4>2. h \in Transactions /\ h.op = tx[s].op
        BY <1>2, <4>1 DEF Flushed, Transactions
      <4>3. PICK k : k = Expire(h, {})
        OBVIOUS
      <4>4. k \in Transactions /\ k.op = tx[s].op
        BY <4>2, <4>3, ExpireIs
      <4> QED BY <2>13, <4>1, <4>3, <4>4 DEF Refreshed, Transactions
    <3>2. tx[s].op # "none"
      BY <1>2 DEF OnceInv, OnceFor, Tidy
    <3> QED BY <2>14, <2>16, <3>1, <3>2 DEF Transactions
  <2>20. PICK y : y = [x EXCEPT ![s] = u]
    OBVIOUS
  <2>21. OnceFor(g, y, b, contested, causes)
    BY <1>2, <2>6, <2>8, <2>10, <2>11, <2>12, <2>18, <2>19, <2>20, CommitOnce
  <2>22. tx' = y /\ row' = g
    BY <1>7, <1>10, <2>5, <2>9, <2>13, <2>16, <2>20 DEF Returns, TypeOK
  <2> QED BY <1>5, <2>21, <2>22 DEF OnceInv
<1> QED BY <1>1, <1>3, <1>6, <1>7 DEF ExecuteAction

-----------------------------------------------------------------------------
(* A transaction takes what it has listed, begins and ends. *)

\* s has no call, and makes t of its transaction and c of its calls.
LEMMA FreshOnce ==
  ASSUME OnceInv, TypeOK, NEW s \in Sessions, tx[s].calls = <<>>,
         NEW t \in Transactions, NEW c \in Seq(Calls), Kept,
         tx' = [tx EXCEPT ![s] = [t EXCEPT !.calls = c]],
         NEW L, L = contested', Onward(row, tx, acts, s, t, c, L, causes)
  PROVE  OnceInv'
<1>1. PICK u : u = [t EXCEPT !.calls = Onto(tx[s].calls, c)]
  OBVIOUS
<1>2. Onto(tx[s].calls, c) = c
  BY DEF Onto, Below
<1>3. PICK y : y = [tx EXCEPT ![s] = u]
  OBVIOUS
<1>4. tx' = y
  BY <1>1, <1>2, <1>3
<1>5. PICK M : M = causes'
  OBVIOUS
<1>6. contested \subseteq L /\ causes \subseteq M /\ row' = row /\ acts' = acts
  BY <1>5 DEF Kept
<1>7. OnceFor(row, y, acts, L, M)
  BY <1>1, <1>3, <1>6, ReturnOnce
<1> QED BY <1>4, <1>5, <1>6, <1>7 DEF OnceInv

\* What it has listed has begun.
LEMMA ListedIs ==
  ASSUME JoinInv, TypeOK, NEW s \in Sessions, NEW p \in tx[s].todo
  PROVE  p \in Flows /\ St(tx[s], row, p) # "none"
<1>1. tx[s] \in Transactions /\ Good(s, tx[s], row) /\ RowsGood(row, joins)
  BY DEF JoinInv, TypeOK
<1>2. p \in tx[s].list /\ p \in Flows
  BY <1>1 DEF Good, Passing, Transactions
<1>3. row[p].st # "none"
  <2>1. CASE p = Root
    BY <1>1, <2>1 DEF RowsGood
  <2>2. CASE p \in Paths
    BY <1>1, <1>2, <2>2 DEF Good, Passing
  <2> QED BY <1>2, <2>1, <2>2, Sorts
<1> QED BY <1>1, <1>2, <1>3 DEF Good, Written, St

\* d leads p on from i.
Leading(d, p, i) == d.do \in {"advance", "resolve"} /\ d.flow = p /\ d.step = i

\* The calls c begin with d, the only one in a step.
Begins(c, d) ==
  c \in Seq(Calls) /\ c # <<>> /\ c[1] = d /\ \A j \in DOMAIN c : j > 1 => c[j].do \notin AtStep

Same == UNCHANGED <<row, acts, causes>>

LEMMA TakenGoes ==
  ASSUME OnceInv, JoinInv, TypeOK, NEW s \in Sessions, tx[s].calls = <<>>,
         NEW p \in tx[s].todo, NEW t, Else(tx[s], t, {}),
         NEW i, NEW d, Leading(d, p, i), GoesOn(s, p, "active", i), NEW L, L = contested'
  PROVE  Goes(s, t, d, p, {}, L) /\ contested \subseteq contested'
<1>1. p \in Flows /\ St(tx[s], row, p) # "none"
  BY ListedIs
<1>3. /\ contested \subseteq L
      /\ p \notin L =>
           /\ At(tx[s], row, p) = i
           /\ \A w \in Sessions \ {s} : On(tx[w].calls, p) = {} /\ ~Moves(tx[w], p)
  BY <1>1, GoesOnIs
<1>5. St(t, row, p) = St(tx[s], row, p) /\ At(t, row, p) = At(tx[s], row, p)
  BY <1>1 DEF Else
<1>6. At(tx[s], row, p) \in Nat
  <2>1. tx[s] \in Transactions /\ row \in Rows
    BY DEF TypeOK
  <2> QED BY <1>1, <2>1, TypesOf
<1>7. On(tx[s].calls, p) = {}
  BY DEF On
<1>9. d.do \in AtStep /\ d.do \notin {"process", "act"} /\ d.flow = p /\ d.step = i
  BY DEF AtStep, Leading
<1>10. p \notin L =>
         /\ d.step = At(t, row, p) /\ At(t, row, p) >= At(tx[s], row, p)
         /\ On(tx[s].calls, p) \subseteq {1}
         /\ \A w \in Sessions \ {s} : On(tx[w].calls, p) = {} /\ <<p, "at">> \notin tx[w].dirty
  <2>1. ASSUME p \notin L
        PROVE  /\ d.step = At(t, row, p) /\ At(t, row, p) >= At(tx[s], row, p)
               /\ \A w \in Sessions \ {s} : On(tx[w].calls, p) = {} /\ <<p, "at">> \notin tx[w].dirty
    <3>1. At(t, row, p) = i /\ At(tx[s], row, p) = i /\ i \in Nat
      BY <1>3, <1>5, <1>6, <2>1
    <3>2. At(t, row, p) >= At(tx[s], row, p)
      BY <3>1
    <3>3. \A w \in Sessions \ {s} : On(tx[w].calls, p) = {} /\ <<p, "at">> \notin tx[w].dirty
      BY <1>3, <2>1 DEF Moves
    <3> QED BY <1>9, <3>1, <3>2, <3>3
  <2>2. On(tx[s].calls, p) \subseteq {1}
    BY <1>7
  <2> QED BY <2>1, <2>2
<1> QED BY <1>1, <1>3, <1>5, <1>9, <1>10 DEF Goes

LEMMA TakenOnce ==
  ASSUME OnceInv, JoinInv, TypeOK, NEW s \in Sessions, tx[s].op # "none", tx[s].calls = <<>>,
         NEW p \in tx[s].todo, NEW t \in Transactions, Else(tx[s], t, {}),
         NEW i, NEW d, Leading(d, p, i), NEW c, Begins(c, d),
         tx' = [tx EXCEPT ![s] = [t EXCEPT !.calls = c]], GoesOn(s, p, "active", i), Same
  PROVE  OnceInv'
<1>1. PICK L : L = contested'
  OBVIOUS
<1>2. PICK D : D = {}
  OBVIOUS
<1>3. Goes(s, t, d, p, D, L) /\ contested \subseteq contested'
  BY <1>1, <1>2, TakenGoes
<1>4. Kept
  BY <1>3 DEF Kept, Same
<1>5. t.op # "none"
  BY DEF Else
<1>6. c \in Seq(Calls) /\ c # <<>> /\ \A j \in DOMAIN c : j > 1 => c[j].do \notin AtStep
  BY DEF Begins
<1>7. Goes(s, t, c[1], p, D, L)
  BY <1>3 DEF Begins
<1>8. Onward(row, tx, acts, s, t, c, L, causes)
  BY <1>5, <1>6, <1>7, OnwardGo
<1> QED BY <1>1, <1>4, <1>6, <1>8, FreshOnce

LEMMA SkippedOnce ==
  ASSUME OnceInv, JoinInv, TypeOK, NEW s \in Sessions, tx[s].op # "none", tx[s].calls = <<>>,
         NEW t \in Transactions, Else(tx[s], t, {}), NEW c, c = <<>>,
         tx' = [tx EXCEPT ![s] = [t EXCEPT !.calls = c]], UNCHANGED <<row, acts, contested, causes>>
  PROVE  OnceInv'
<1>1. PICK L : L = contested'
  OBVIOUS
<1>2. Kept
  BY DEF Kept
<1>3. PICK D : D = {}
  OBVIOUS
<1>4. Rests(s, t, c, D)
  BY <1>3 DEF Rests
<1>5. t.op # "none"
  BY DEF Else
<1>6. Onward(row, tx, acts, s, t, c, L, causes)
  BY <1>4, <1>5, OnwardQuiet
<1>7. c \in Seq(Calls)
  OBVIOUS
<1> QED BY <1>1, <1>2, <1>6, <1>7, FreshOnce

\* The first call comes before the caller's own check.
LEMMA FirstOnTop ==
  ASSUME NEW d \in Calls, NEW e \in Calls, e.do \notin AtStep, NEW rest, rest = <<>> \/ rest = <<e>>,
         NEW c, c = <<d>> \o rest
  PROVE  Begins(c, d)
<1>1. PICK h : h = <<d>>
  OBVIOUS
<1>2. h \in Seq(Calls) /\ Len(h) = 1 /\ h[1] = d
  BY <1>1
<1>3. rest \in Seq(Calls) /\ Len(rest) \in Nat /\ \A j \in 1 .. Len(rest) : rest[j] = e
  <2>1. CASE rest = <<>>
    BY <2>1
  <2>2. CASE rest = <<e>>
    BY <2>2
  <2> QED BY <2>1, <2>2
<1>4. c \in Seq(Calls) /\ Len(c) = 1 + Len(rest)
      /\ \A j \in 1 .. 1 + Len(rest) : c[j] = IF j <= 1 THEN h[j] ELSE rest[j - 1]
  <2>1. c = h \o rest
    BY <1>1
  <2> QED BY <1>2, <1>3, <2>1, ConcatProperties
<1>5. DOMAIN c = 1 .. 1 + Len(rest)
  BY <1>4
<1>6. c # <<>> /\ c[1] = d
  BY <1>2, <1>3, <1>4
<1>7. \A j \in DOMAIN c : j > 1 => c[j] = e
  BY <1>3, <1>4, <1>5
<1> QED BY <1>4, <1>6, <1>7 DEF Begins

LEMMA TakeOnce ==
  ASSUME OnceInv, JoinInv, TypeOK, NEW s \in Sessions, Take(s) PROVE OnceInv'
<1> DEFINE old == tx[s]
           Main(p) == old.op = "wait" /\ p = Root
           X(p) == IF Main(p) THEN LookAtFunnel(old) ELSE old
           T(p) == [Load(X(p), {Root, p}) EXCEPT !.todo = @ \ {p}]
           I(p) == T(p).mem[p].at
           D(p) == Call(IF TypeAt(p, I(p)) = "wait_until" THEN "resolve" ELSE "advance", p, I(p))
           R(p) == IF p = Root \/ TypeAt(p, I(p)) = "wait" THEN <<>> ELSE <<Call("recheck", Root, 0)>>
           Skipped(p) == \/ TypeAt(p, I(p)) # Awaits(old.op)
                         \/ Main(p) /\ KnowsStopped(old)
                         \/ /\ TypeAt(p, I(p)) = "wait_until"
                            /\ \/ <<p, I(p)>> \in T(p).mem[Root].resolved
                               \/ old.op = TypeAt(p, I(p)) /\ p # Root /\ T(p).mem[Root].st # "active"
           C(p) == IF Skipped(p) THEN <<>> ELSE <<D(p)>> \o R(p)
<1>1. PICK p \in tx[s].todo :
        /\ tx' = [tx EXCEPT ![s] = [T(p) EXCEPT !.calls = C(p)]]
        /\ IF Skipped(p) THEN contested' = contested ELSE GoesOn(s, p, "active", I(p))
  BY DEF Take
<1>2. row' = row /\ acts' = acts /\ causes' = causes /\ old.op # "none" /\ old.calls = <<>>
  BY DEF Take, Open, dbVars
<1>3. X(p) = old \/ X(p) = LookAtFunnel(old)
  OBVIOUS
<1> HIDE DEF X, I, D, R, Skipped, C
<1>4. PICK t : t = T(p)
  OBVIOUS
<1>5. p \in Flows /\ old \in Transactions /\ row \in Rows
  BY ListedIs DEF TypeOK
<1>6. t \in Transactions /\ Else(tx[s], t, {})
  <2>1. PICK l : l = X(p)
    OBVIOUS
  <2>2. l \in Transactions /\ Else(old, l, {})
    <3>1. CASE l = old
      BY <1>5, <3>1 DEF Else
    <3>2. CASE l = LookAtFunnel(old)
      BY <1>5, <3>2, LookElse
    <3> QED BY <1>3, <2>1, <3>1, <3>2
  <2>3. PICK P \in SUBSET Flows : P = {Root, p}
    BY <1>5, Sorts
  <2>4. PICK v : v = Load(l, P)
    OBVIOUS
  <2>5. v \in Transactions /\ Else(l, v, {})
    BY <1>5, <2>2, <2>4, LoadElse
  <2>6. t = [v EXCEPT !.todo = @ \ {p}]
    BY <1>4, <2>1, <2>3, <2>4
  <2>7. /\ t \in Transactions /\ t.dirty = v.dirty /\ t.op = v.op /\ t.acted = v.acted
        /\ t.mem = v.mem
    BY <2>5, <2>6 DEF Transactions
  <2>8. Else(old, t, {})
    BY <2>2, <2>5, <2>7 DEF Else, St, At
  <2> QED BY <2>7, <2>8
<1>7. PICK i, d : i = I(p) /\ d = D(p)
  OBVIOUS
<1>8. PICK rest, c : rest = R(p) /\ c = C(p)
  OBVIOUS
<1>9. PICK e : e = Call("recheck", Root, 0)
  OBVIOUS
<1>10. tx' = [tx EXCEPT ![s] = [t EXCEPT !.calls = c]]
  BY <1>1, <1>4, <1>8
<1>11. rest = <<>> \/ rest = <<e>>
  BY <1>8, <1>9 DEF R
<1>12. e \in Calls /\ e.do \notin AtStep
  <2>1. e.do = "recheck"
    BY <1>9 DEF Call
  <2> QED BY <1>9, <2>1, CallType, Sorts DEF AtStep
<1>13. d = Call("resolve", p, i) \/ d = Call("advance", p, i)
  BY <1>7 DEF D
<1>14. CASE Skipped(p)
  <2>1. c = <<>> /\ contested' = contested
    BY <1>1, <1>8, <1>14 DEF C
  <2> HIDE DEF T
  <2> QED BY <1>2, <1>6, <1>10, <2>1, SkippedOnce
<1>15. CASE ~Skipped(p)
  <2>1. TypeAt(p, i) = Awaits(old.op)
    BY <1>7, <1>15 DEF Skipped
  <2>2. Awaits(old.op) # "none"
    BY <1>2, <1>5 DEF Awaits, Transactions
  <2>3. <<p, i>> \in Steps
    BY <1>5, <2>1, <2>2, Scripts
  <2>4. d \in Calls
    BY <1>13, <2>3, CallType DEF AtStep
  <2>5. Leading(d, p, i)
    BY <1>13 DEF Call, Leading
  <2>6. c = <<d>> \o rest
    BY <1>7, <1>8, <1>15 DEF C
  <2>7. GoesOn(s, p, "active", i)
    BY <1>1, <1>7, <1>15
  <2> HIDE DEF T
  <2>8. Begins(c, d)
    BY <1>11, <1>12, <2>4, <2>6, FirstOnTop
  <2> HIDE DEF Main
  <2>9. Same
    BY <1>2 DEF Same
  <2> QED BY <1>2, <1>6, <1>10, <2>5, <2>7, <2>8, <2>9, TakenOnce
<1> QED BY <1>14, <1>15

\* A transaction begins with nothing written, and in no step.
LEMMA OpenOnce ==
  ASSUME OnceInv, TypeOK, NEW s \in Sessions, ~Open(s), NEW u \in Transactions,
         tx' = [tx EXCEPT ![s] = u], u.dirty = {}, u.op # "none",
         \A i \in DOMAIN u.calls : u.calls[i].do \notin AtStep, Kept
  PROVE  OnceInv'
<1>1. tx[s].op = "none"
  BY DEF Open
<1>2. tx[s].dirty = {} /\ tx[s].calls = <<>> /\ ~tx[s].acted
  BY <1>1 DEF OnceInv, OnceFor, Tidy
<1>3. PICK c : c = u.calls
  OBVIOUS
<1>4. c \in Seq(Calls)
  BY <1>3 DEF Transactions
<1>5. \A p : On(c, p) = {} /\ ~Moves(u, p)
  BY <1>3 DEF On, Moves
<1>6. \A p : St(u, row, p) = St(tx[s], row, p) /\ At(u, row, p) = At(tx[s], row, p)
  BY <1>2 DEF St, At
<1>7. PICK L : L = contested'
  OBVIOUS
<1>8. \A i \in DOMAIN c : c[i].do \notin AtStep
  BY <1>3
<1>9. Onward(row, tx, acts, s, u, c, L, causes)
  BY <1>2, <1>5, <1>6, <1>8 DEF Onward
<1>10. u = [u EXCEPT !.calls = c]
  BY <1>3 DEF Transactions
<1>11. tx' = [tx EXCEPT ![s] = [u EXCEPT !.calls = c]]
  BY <1>10
<1> QED BY <1>2, <1>4, <1>7, <1>9, <1>11, FreshOnce

\* A transaction begins.
LEMMA BeginKept ==
  ASSUME NEW s, NEW op, NEW t, Begin(s, op, t), UNCHANGED <<row, acts, contested>>
  PROVE  Kept /\ ~Open(s) /\ tx' = [tx EXCEPT ![s] = [t EXCEPT !.op = op]]
BY DEF Begin, Kept

LEMMA ListOnce ==
  ASSUME OnceInv, TypeOK, NEW s \in Sessions, NEW op \in Timers \cup {"event", "reply"},
         NEW L \in SUBSET Flows, Begin(s, op, List(L)), UNCHANGED <<row, acts, contested>>
  PROVE  OnceInv'
<1>1. PICK t : t = List(L)
  OBVIOUS
<1>2. PICK v : v = Load(NoTx, L)
  OBVIOUS
<1>3. v \in Transactions /\ v.dirty = {} /\ v.calls = <<>>
  BY <1>2, FirstLoad
<1>4. t = [v EXCEPT !.list = L, !.todo = L]
  BY <1>1, <1>2 DEF List
<1>5. t \in Transactions /\ t.dirty = {} /\ t.calls = <<>>
  BY <1>3, <1>4 DEF Transactions
<1>6. PICK u : u = [t EXCEPT !.op = op]
  OBVIOUS
<1>7. u \in Transactions /\ u.dirty = {} /\ u.calls = <<>> /\ u.op = op
  BY <1>5, <1>6 DEF Transactions
<1>8. Begin(s, op, t)
  BY <1>1
<1>9. Kept /\ ~Open(s) /\ tx' = [tx EXCEPT ![s] = u]
  BY <1>6, <1>8, BeginKept
<1>10. op # "none"
  BY DEF Timers
<1>11. \A i \in DOMAIN u.calls : u.calls[i].do \notin AtStep
  BY <1>7
<1> QED BY <1>7, <1>9, <1>10, <1>11, OpenOnce

LEMMA OpenPassOnce == ASSUME OnceInv, TypeOK, NEW k \in Timers, OpenPass(k) PROVE OnceInv'
<1>1. PICK L \in SUBSET Listed(k) : Begin(Scheduler, k, List(L))
  BY DEF OpenPass
<1>2. L \in SUBSET Flows
  BY DEF Listed
<1>3. Scheduler \in Sessions /\ UNCHANGED <<row, acts, contested>>
  BY DEF Sessions, OpenPass, dbVars
<1> QED BY <1>1, <1>2, <1>3, ListOnce

LEMMA OpenOtherOnce ==
  ASSUME OnceInv, TypeOK, NEW s \in Handlers, OpenEvent(s) \/ OpenReply(s) \/ OpenGoal(s)
  PROVE  OnceInv'
<1>1. s \in Sessions
  BY DEF Sessions
<1>2. UNCHANGED <<row, acts, contested>>
  BY DEF OpenEvent, OpenReply, OpenGoal, dbVars
<1>3. CASE OpenEvent(s)
  <2>1. PICK L : L = Listed("wait_until")
    OBVIOUS
  <2>2. L \in SUBSET Flows
    BY <2>1 DEF Listed
  <2>3. Begin(s, "event", List(L))
    BY <1>3, <2>1 DEF OpenEvent
  <2> QED BY <1>1, <1>2, <2>2, <2>3, ListOnce
<1>4. CASE OpenReply(s)
  <2>1. PICK p \in Paths : Begin(s, "reply", List({p}))
    BY <1>4 DEF OpenReply
  <2>2. PICK L \in SUBSET Flows : L = {p}
    BY Sorts
  <2>3. Begin(s, "reply", List(L))
    BY <2>1, <2>2
  <2> QED BY <1>1, <1>2, <2>3, ListOnce
<1>5. CASE OpenGoal(s)
  <2>1. PICK v, c : v = Load(NoTx, {Root}) /\ c = <<Call("exit", Root, 0)>>
    OBVIOUS
  <2>2. v \in Transactions /\ v.dirty = {}
    <3>1. PICK P \in SUBSET Flows : P = {Root}
      BY Sorts
    <3>2. v = Load(NoTx, P)
      BY <2>1, <3>1
    <3> QED BY <3>2, FirstLoad
  <2>3. PICK t : t = [v EXCEPT !.calls = c]
    OBVIOUS
  <2>4. c \in Seq(Calls) /\ \A i \in DOMAIN c : c[i].do \notin AtStep
    <3>1. c \in Seq(Calls)
      BY <2>1, CallType, Sorts
    <3>2. \A i \in DOMAIN c : c[i].do \notin AtStep
      BY <2>1, NoStep
    <3> QED BY <3>1, <3>2
  <2>5. t \in Transactions /\ t.dirty = {} /\ t.calls = c
    BY <2>2, <2>3, <2>4 DEF Transactions
  <2>6. PICK op : op = "goal"
    OBVIOUS
  <2>7. PICK u : u = [t EXCEPT !.op = op]
    OBVIOUS
  <2>8. u \in Transactions /\ u.dirty = {} /\ u.calls = c /\ u.op = op /\ op # "none"
    BY <2>5, <2>6, <2>7 DEF Transactions
  <2>9. Begin(s, op, t)
    BY <1>5, <2>1, <2>3, <2>6 DEF OpenGoal
  <2>10. Kept /\ ~Open(s) /\ tx' = [tx EXCEPT ![s] = u]
    BY <1>2, <2>7, <2>9, BeginKept
  <2>11. \A i \in DOMAIN u.calls : u.calls[i].do \notin AtStep
    BY <2>4, <2>8
  <2> QED BY <1>1, <2>8, <2>10, <2>11, OpenOnce
<1> QED BY <1>3, <1>4, <1>5

LEMMA EndOnce == ASSUME OnceInv, JoinInv, TypeOK, NEW s \in Sessions, Commit(s) PROVE OnceInv'
<1>1. tx[s] \in Transactions /\ row \in Rows /\ tx \in [Sessions -> Transactions] /\ Good(s, tx[s], row)
  BY DEF JoinInv, TypeOK
<1>2. PICK g : g = Merged(tx[s])
  OBVIOUS
<1>3. g \in Rows
  BY <1>1, <1>2, MergedType
<1>4. \A p \in Flows : g[p].st = St(tx[s], row, p) /\ g[p].at = At(tx[s], row, p)
  BY <1>2 DEF Merged, Columns, St, At
<1>5. \A p \in Flows : <<p, "st">> \in tx[s].dirty => tx[s].mem[p].st # "none"
  BY <1>1 DEF Good, Written
<1>6. PICK u : u = NoTx
  OBVIOUS
<1>7. u \in Transactions /\ u.dirty = {} /\ u.calls = <<>> /\ ~u.acted
  BY <1>6, NoTxType DEF NoTx
<1>8. PICK y : y = [tx EXCEPT ![s] = u]
  OBVIOUS
<1>9. OnceFor(row, tx, acts, contested, causes)
  BY DEF OnceInv
<1>10. OnceFor(g, y, acts, contested, causes)
  BY <1>1, <1>3, <1>4, <1>5, <1>7, <1>8, <1>9, CommitOnce
<1>11. row' = g /\ tx' = y /\ acts' = acts /\ contested' = contested /\ causes' = causes
  BY <1>2, <1>6, <1>8 DEF Commit, ghostVars
<1> QED BY <1>10, <1>11 DEF OnceInv

LEMMA DroppedOnce ==
  ASSUME OnceInv, TypeOK, NEW s \in Sessions, Dropped(s), UNCHANGED <<row, acts, contested>>
  PROVE  OnceInv'
<1>1. row \in Rows /\ tx \in [Sessions -> Transactions] /\ OnceFor(row, tx, acts, contested, causes)
  BY DEF OnceInv, TypeOK
<1>2. PICK y : y = tx'
  OBVIOUS
<1>3. PICK D : D = causes'
  OBVIOUS
<1>4. y = [tx EXCEPT ![s] = NoTx] /\ D = IF tx[s].acted THEN causes \cup {"lost"} ELSE causes
  BY <1>2, <1>3 DEF Dropped
<1>5. OnceFor(row, y, acts, contested, D)
  BY <1>1, <1>4, DropOnce
<1> QED BY <1>2, <1>3, <1>5 DEF OnceInv

-----------------------------------------------------------------------------
(* The invariant. *)

LEMMA EngineOnce == ASSUME OnceInv, JoinInv, TypeOK, NEW s \in Sessions, Engine(s) PROVE OnceInv'
BY TakeOnce, ResolveOnce, AdvanceOnce, ProcessOnce, ExecuteOnce, CheckOnce, LeaveOnce, EndingOnce,
   FinishOnce, KillOnce, EndOnce DEF Engine

LEMMA OnceStart == Init => OnceInv
<1> SUFFICES ASSUME Init PROVE OnceInv
  OBVIOUS
<1>1. \A s \in Sessions : tx[s] = NoTx
  BY DEF Init
<1>2. NoTx.dirty = {} /\ NoTx.calls = <<>> /\ ~NoTx.acted
  BY DEF NoTx
<1>3. \A p : On(NoTx.calls, p) = {} /\ ~Moves(NoTx, p)
  BY <1>2 DEF On, Moves
<1>4. \A y \in Actions : acts[y] = 0
  BY DEF Init
<1>5. \A p \in Flows : row[p].st = "none" => row[p].at = 0
  BY DEF Init, Blank
<1>6. \A s \in Sessions : Tidy(tx[s], row)
  BY <1>1, <1>2, <1>3 DEF Tidy
<1>7. Alone(tx)
  BY <1>1, <1>3 DEF Alone
<1>8. \A p \in Flows : Single(row, tx, p)
  BY <1>1, <1>3 DEF Single
<1>9. \A p \in Flows : Unspent(row, tx, acts, p)
  BY <1>1, <1>2, <1>3, <1>4 DEF Unspent, Unrun
<1> QED BY <1>5, <1>6, <1>7, <1>8, <1>9 DEF OnceInv, OnceFor

LEMMA OnceStay ==
  ASSUME OnceInv, UNCHANGED <<row, tx, acts, contested, causes>> PROVE OnceInv'
<1>1. row' = row /\ tx' = tx /\ acts' = acts /\ contested' = contested /\ causes' = causes
  OBVIOUS
<1> QED BY <1>1 DEF OnceInv

LEMMA OnceKept == ASSUME OnceInv, JoinInv, TypeOK, [Next]_vars PROVE OnceInv'
<1>1. CASE UNCHANGED vars
  BY <1>1, OnceStay DEF vars, dbVars, ghostVars
<1>2. CASE \E k \in Timers : OpenPass(k)
  BY <1>2, OpenPassOnce
<1>3. CASE \E s \in Handlers : OpenEvent(s) \/ OpenReply(s) \/ OpenGoal(s)
  BY <1>3, OpenOtherOnce
<1>4. CASE \E s \in Sessions : Engine(s) \/ Abort(s) \/ Victim(s)
  <2>1. PICK s \in Sessions : Engine(s) \/ Abort(s) \/ Victim(s)
    BY <1>4
  <2>2. Abort(s) \/ Victim(s) => Dropped(s) /\ UNCHANGED <<row, acts, contested>>
    BY DEF Abort, Victim, dbVars
  <2> QED BY <2>1, <2>2, EngineOnce, DroppedOnce
<1>5. CASE EventArrives \/ Stop \/ Resume
  BY <1>5, OnceStay DEF EventArrives, Stop, Resume, dbVars, ghostVars
<1> QED BY <1>1, <1>2, <1>3, <1>4, <1>5 DEF Next

\* No action of a funnel is executed twice, whether the scheduler's timeout, the event or
\* a reply ends the wait before it, however deep the forks, and whatever was read before
\* and written since, unless two transactions went on with its flow at a time or a
\* transaction was lost behind an action (_execute_action_step, _advance_to_next,
\* _advance_thread, _check_fork_join).
THEOREM EffectsAreOnce == Spec => []EffectsOnce
<1>1. Init => JoinInv /\ OnceInv
  BY JoinStart, OnceStart
<1>2. JoinInv /\ OnceInv /\ TypeOK /\ [Next]_vars => JoinInv' /\ OnceInv'
  BY JoinKept, OnceKept
<1>3. OnceInv /\ TypeOK => EffectsOnce
  <2> SUFFICES ASSUME OnceInv, TypeOK, NEW x \in Actions, acts[x] > 1,
                      x[1] \notin contested, "lost" \notin causes
               PROVE  FALSE
    BY DEF EffectsOnce
  <2>1. x[1] \in Flows
    BY DEF Actions, Steps, StepsOf
  <2>2. Unspent(row, tx, acts, x[1])
    BY <2>1 DEF OnceInv, OnceFor
  <2>3. acts[x] <= 1 /\ acts[x] \in Nat
    BY <2>2 DEF Unspent, TypeOK
  <2> QED BY <2>3
<1> QED BY <1>1, <1>2, <1>3, FunnelTypes, PTL DEF Spec
=============================================================================

---------------------------- MODULE EngineProofs ----------------------------
(***************************************************************************)
(* What a pass of an engine computes, for every file, prompt and engine.   *)
(*                                                                         *)
(* A program is annotated with the value each of its operations leaves.    *)
(* An annotation is sound if every operation reads each operand from a     *)
(* buffer in which an operation that must run before it left a value that  *)
(* nothing can overwrite first, and makes of the operands what the         *)
(* definitions of the model say; a program that is soundly annotated       *)
(* computes its annotation in whatever order its operations run.  The      *)
(* annotation comes from one numbering of the steps of a pass, which every *)
(* program of every engine is shown to follow.                             *)
(***************************************************************************)
EXTENDS Engine, SeqLemmas, FiniteSetTheorems
-----------------------------------------------------------------------------
(* Programs.  p is a program; m says whether only barriers order it.       *)

\* The buffers an operation reads or writes.
AccessesOf(o) == o.outs \cup {o.ins[j] : j \in DOMAIN o.ins}
\* A barrier.
Fenced(o) == o.op = "barrier"

\* Operation x is over when operation k begins.
OrderedIn(p, m, x, k) ==
  \/ ~m
  \/ \E y \in x + 1..k - 1 : Fenced(p[y]) /\ p[y].outs \cap AccessesOf(p[x]) \cap AccessesOf(p[k]) # {}

\* What may have run: barriers, and with an operation those it is ordered after.
Closed(p, m, R) ==
  /\ R \subseteq DOMAIN p
  /\ \A k \in DOMAIN p : Fenced(p[k]) => k \in R
  /\ \A k \in R : ~Fenced(p[k]) => \A x \in 1..k - 1 : OrderedIn(p, m, x, k) => x \in R

\* Operation x has run whenever k has; 0 stands for the embedding.
Precedes(p, m, x, k) ==
  x = 0 \/ (k # 0 /\ \A R : Closed(p, m, R) /\ k \in R => x \in R)

\* What an operation writes; the embedding writes x.
OutsOf(p, x) == IF x = 0 THEN {X} ELSE p[x].outs

\* What x leaves in b is there until an operation of K runs: another that writes b
\* writes the same, or has run before x, or runs after one of K.
Keeps(p, m, val, b, x, K) ==
  \A j \in DOMAIN p : j # x /\ ~Fenced(p[j]) /\ b \in p[j].outs =>
    val[j] = val[x] \/ Precedes(p, m, j, x) \/ \E k \in K : Precedes(p, m, k, j)

\* Operation k reads from b what x left there.
Source(p, m, val, b, x, k) ==
  /\ x = 0 \/ (x \in DOMAIN p /\ ~Fenced(p[x]) /\ (p[x].last => p[k].last))
  /\ x # k /\ b \in OutsOf(p, x) /\ Precedes(p, m, x, k) /\ Keeps(p, m, val, b, x, {k})

\* An operation that is ready comes after all that precede it.
LEMMA ReadyAfter ==
  ASSUME NEW p, NEW m, NEW R, Closed(p, m, R), NEW k \in DOMAIN p, k \in Nat \ {0},
         \A x \in (1..k - 1) \ R : ~OrderedIn(p, m, x, k)
  PROVE  /\ Closed(p, m, R \cup {k})
         /\ \A x : Precedes(p, m, x, k) /\ x # k => x \in R \cup {0}
<1>1. Closed(p, m, R \cup {k})
  BY DEF Closed
<1>2. ASSUME NEW x, Precedes(p, m, x, k), x # k PROVE x \in R \cup {0}
  <2>1. x = 0 \/ x \in R \cup {k}
    BY <1>1, <1>2 DEF Precedes
  <2> QED BY <1>2, <2>1
<1> QED BY <1>1, <1>2
-----------------------------------------------------------------------------
(* The values the operations of a pass leave.  val gives the name and the  *)
(* layer of what each leaves, the same in every row but for the position.  *)

Metal == engine.name = "metal"
\* A value in the row of a position.
ValueAt(v, q) == <<v[1], v[2], q>>

Buffers == {<<n, 0>> : n \in Temporaries} \cup (Caches \X (0..Layers - 1))
\* The cell of a row of a buffer.
CellOf(b, r) == <<b[1], b[2], IF b[1] \in Caches THEN base + r ELSE r>>

\* The rows operation x writes.
RowsOf(p, x) == IF x # 0 /\ p[x].last THEN {Rows - 1} ELSE 0..Rows - 1

\* The buffers an operation reads.
Reads(o) == {o.ins[j] : j \in DOMAIN o.ins} \cup (IF o.acc THEN o.outs ELSE {})

\* From operands u an operation makes y before it is added to what was there.
MakesRaw(o, u, y) ==
  CASE o.op \in {"quant", "copy"} -> 1 \in DOMAIN o.ins /\ y = u[o.ins[1]]
    [] o.op = "dot" ->
         /\ 1 \in DOMAIN o.ins /\ \A j \in DOMAIN o.ins : u[o.ins[j]] = u[o.ins[1]]
         /\ \A q \in Nat : Result("linear", o.how, o.w, <<ValueAt(u[o.ins[1]], q)>>) = ValueAt(y, q)
    [] o.op = "attention" -> \E l \in 0..Layers - 1 :
         /\ o.ins = <<Q, Keys(l), Values(l)>> /\ ~o.last
         /\ u[Q] = <<"qr", l>> /\ u[Keys(l)] = <<"kr", l>> /\ u[Values(l)] = <<"v", l>>
         /\ y = <<"a", l>>
    [] OTHER -> \A q \in Nat :
         Result(o.op, o.how, o.w, [j \in DOMAIN o.ins |-> ValueAt(u[o.ins[j]], q)]) = ValueAt(y, q)
\* From operands u an operation makes v.
Makes(o, u, v) ==
  \E y : /\ MakesRaw(o, u, y)
         /\ IF o.acc
            THEN \A b \in o.outs, q \in Nat :
                   Result("add", None, None, <<ValueAt(u[b], q), ValueAt(y, q)>>) = ValueAt(v, q)
            ELSE y = v

\* Operation k reads, from buffers where others left them, operands from which it makes its value.
Sound(p, m, val, k) ==
  /\ p[k].outs \subseteq Buffers /\ val[k][1] # "junk"
  /\ \E u : /\ \A b \in Reads(p[k]) : b \in Buffers /\ \E x : Source(p, m, val, b, x, k) /\ u[b] = val[x]
            /\ Makes(p[k], u, val[k])
\* Every operation of the program does.
Annotated(p, m, val) == \A k \in DOMAIN p : ~Fenced(p[k]) => Sound(p, m, val, k)

\* What the operations that have run left is there.
Holds(val) ==
  \A x \in ran \cup {0}, K \in SUBSET DOMAIN prog : (x # 0 => ~Fenced(prog[x])) /\ K \cap ran = {} =>
    \A b \in OutsOf(prog, x) : b \in Buffers /\ Keeps(prog, Metal, val, b, x, K) =>
      \A r \in RowsOf(prog, x) : mem[CellOf(b, r)] = ValueAt(val[x], base + r)

\* The caches hold the keys and the values of the earlier passes.
Past ==
  \A l \in 0..Layers - 1, t \in 0..base - 1 :
    mem[<<"keys", l, t>>] = <<"kr", l, t>> /\ mem[<<"values", l, t>>] = <<"v", l, t>>

\* A pass has rows, and room for them.
Fits == base \in Nat /\ Rows \in Nat \ {0} /\ Rows =< Len(ids) /\ base + Rows =< LastPos + 1 /\ Len(ids) \in Nat
        /\ Layers \in Nat

\* A row of a buffer is a cell of memory ...
LEMMA CellIsCell ==
  ASSUME Fits, NEW b \in Buffers, NEW r \in 0..Rows - 1
  PROVE  CellOf(b, r) \in Cells /\ <<CellOf(b, r)[1], CellOf(b, r)[2]>> = b /\ RowOf(CellOf(b, r)) = r
<1>1. CASE b \in Caches \X (0..Layers - 1)
  <2>1. PICK n \in Caches, l \in 0..Layers - 1 : b = <<n, l>>
    BY <1>1
  <2>2. CellOf(b, r) = <<n, l, base + r>>
    BY <2>1 DEF CellOf
  <2>3. base + r \in 0..LastPos
    BY DEF Fits, LastPos
  <2> QED BY <2>1, <2>2, <2>3 DEF Cells, RowOf, Fits
<1>2. CASE b \in {<<n, 0>> : n \in Temporaries}
  <2>1. PICK n \in Temporaries : b = <<n, 0>>
    BY <1>2
  <2>2. n \notin Caches
    BY DEF Temporaries, Caches
  <2>3. CellOf(b, r) = <<n, 0, r>>
    BY <2>1, <2>2 DEF CellOf
  <2>4. r \in 0..Len(ids) - 1
    BY DEF Fits
  <2> QED BY <2>1, <2>2, <2>3, <2>4 DEF Cells, RowOf
<1> QED BY <1>1, <1>2 DEF Buffers

\* ... and every cell is a row of a buffer.
LEMMA CellOfRow ==
  ASSUME Fits, NEW c \in Cells
  PROVE  RowOf(c) \in Int /\ c = CellOf(<<c[1], c[2]>>, RowOf(c))
<1>1. CASE \E n \in Temporaries, r \in 0..Len(ids) - 1 : c = <<n, 0, r>>
  <2>1. PICK n \in Temporaries, r \in 0..Len(ids) - 1 : c = <<n, 0, r>>
    BY <1>1
  <2>2. n \notin Caches
    BY DEF Temporaries, Caches
  <2> QED BY <2>1, <2>2 DEF CellOf, RowOf
<1>2. CASE \E n \in Caches, l \in 0..Layers - 1, q \in 0..LastPos : c = <<n, l, q>>
  <2>1. PICK n \in Caches, l \in 0..Layers - 1, q \in 0..LastPos : c = <<n, l, q>>
    BY <1>2
  <2>2. q \in Int /\ base \in Int /\ base + (q - base) = q
    BY DEF Fits, LastPos
  <2> QED BY <2>1, <2>2 DEF CellOf, RowOf
<1> QED BY <1>1, <1>2 DEF Cells
\* The state in which operation k of an annotated program is dispatched.
DispatchedOp(val, k) ==
  /\ Fits /\ Past /\ Holds(val) /\ Closed(prog, Metal, ran) /\ Annotated(prog, Metal, val)
  /\ DOMAIN prog \subseteq Nat \ {0}
  /\ k \in DOMAIN prog \ ran /\ Ready(k)

\* The guard of Dispatch, of the program.
LEMMA ReadyIn ==
  ASSUME NEW k
  PROVE  Ready(k) <=> \A x \in (1..k - 1) \ ran : ~OrderedIn(prog, Metal, x, k)
BY DEF Ready, Ordered, OrderedIn, Metal, IsBarrier, Fenced, Accesses, AccessesOf

\* An operand is still in its buffer when it is read.
LEMMA OperandHeld ==
  ASSUME NEW val, NEW k, DispatchedOp(val, k), NEW b \in Buffers, NEW x,
         Source(prog, Metal, val, b, x, k)
  PROVE  /\ \A r \in RowsOf(prog, k) : mem[CellOf(b, r)] = ValueAt(val[x], base + r)
         /\ ~prog[k].last => \A r \in 0..Rows - 1 : mem[CellOf(b, r)] = ValueAt(val[x], base + r)
<1>1. x \in ran \cup {0}
  BY ReadyIn, ReadyAfter DEF DispatchedOp, Source
<1>2. {k} \in SUBSET DOMAIN prog /\ {k} \cap ran = {}
  BY DEF DispatchedOp
<1>3. \A r \in RowsOf(prog, x) : mem[CellOf(b, r)] = ValueAt(val[x], base + r)
  BY <1>1, <1>2 DEF Holds, DispatchedOp, Source
<1>4. k # 0
  BY DEF DispatchedOp
<1>5. RowsOf(prog, k) \subseteq RowsOf(prog, x) /\ (~prog[k].last => RowsOf(prog, x) = 0..Rows - 1)
  BY <1>4 DEF RowsOf, Source, DispatchedOp, Fits
<1> QED BY <1>3, <1>5

\* The rows an operation writes are rows of the pass.
LEMMA RowIsRow ==
  ASSUME Fits, NEW p, NEW k, NEW r \in RowsOf(p, k)
  PROVE  r \in 0..Rows - 1 /\ base + r \in Nat
BY DEF Fits, RowsOf

\* An operation writes what the annotation says.
LEMMA WritesIt ==
  ASSUME NEW val, NEW k, DispatchedOp(val, k), ~Fenced(prog[k]),
         NEW b \in prog[k].outs, NEW r \in RowsOf(prog, k)
  PROVE  Written(prog[k], CellOf(b, r)) = ValueAt(val[k], base + r)
<1> DEFINE o == prog[k]
           c == CellOf(b, r)
<1>1. Sound(prog, Metal, val, k)
  BY DEF DispatchedOp, Annotated
<1>2. PICK u : /\ \A d \in Reads(o) : d \in Buffers /\ \E x : Source(prog, Metal, val, d, x, k) /\ u[d] = val[x]
               /\ Makes(o, u, val[k])
  BY <1>1 DEF Sound
<1>3. PICK y : /\ MakesRaw(o, u, y)
               /\ IF o.acc
                  THEN \A d \in o.outs, q \in Nat :
                         Result("add", None, None, <<ValueAt(u[d], q), ValueAt(y, q)>>) = ValueAt(val[k], q)
                  ELSE y = val[k]
  BY <1>2 DEF Makes
<1>4. Fits
  BY DEF DispatchedOp
<1>5. r \in 0..Rows - 1 /\ base + r \in Nat
  BY <1>4, RowIsRow
<1>6. b \in Buffers
  BY <1>1 DEF Sound
<1>7. RowOf(c) = r /\ mem[c] = mem[CellOf(b, r)]
  BY <1>4, <1>5, <1>6, CellIsCell
<1>8. ASSUME NEW d \in Reads(o) PROVE Held(d, r) = ValueAt(u[d], base + r)
  <2>1. PICK x : Source(prog, Metal, val, d, x, k) /\ u[d] = val[x]
    BY <1>2, <1>8
  <2>2. mem[CellOf(d, r)] = ValueAt(val[x], base + r)
    BY <1>2, <1>8, <2>1, OperandHeld
  <2> QED BY <2>1, <2>2 DEF Held, CellOf
<1>9. \A j \in DOMAIN o.ins : o.ins[j] \in Reads(o)
  BY DEF Reads
<1>10. ASSUME o.op = "attention", NEW l \in 0..Layers - 1,
              o.ins = <<Q, Keys(l), Values(l)>>, ~o.last,
              u[Q] = <<"qr", l>>, u[Keys(l)] = <<"kr", l>>, u[Values(l)] = <<"v", l>>,
              y = <<"a", l>>
       PROVE  Computed(o, r) = ValueAt(y, base + r)
  <2> DEFINE keys == [t \in 0..base + r |-> mem[<<"keys", l, t>>]]
             values == [t \in 0..base + r |-> mem[<<"values", l, t>>]]
  <2>1. /\ DOMAIN o.ins = 1..3 /\ o.ins[1] = Q /\ o.ins[2] = Keys(l) /\ o.ins[3] = Values(l)
        /\ Keys(l)[2] = l /\ Q[1] = "q" /\ Keys(l) = <<"keys", l>> /\ Values(l) = <<"values", l>>
    BY <1>10 DEF Keys, Values, Q, B
  <2>2. Held(Q, r) = <<"qr", l, base + r>>
    BY <1>8, <1>9, <1>10, <2>1 DEF ValueAt
  <2>3. ASSUME NEW t \in 0..base + r, t >= base
        PROVE  mem[<<"keys", l, t>>] = <<"kr", l, t>> /\ mem[<<"values", l, t>>] = <<"v", l, t>>
    <3>1. t - base \in 0..Rows - 1 /\ base + (t - base) = t
      BY <1>4, <1>5, <2>3 DEF Fits
    <3>2. Keys(l) \in Buffers /\ Values(l) \in Buffers /\ Keys(l) \in Reads(o) /\ Values(l) \in Reads(o)
      <4>1. o.ins[2] \in Reads(o) /\ o.ins[3] \in Reads(o)
        BY <1>9, <2>1
      <4> QED BY <1>2, <2>1, <4>1
    <3>3. /\ mem[CellOf(Keys(l), t - base)] = ValueAt(u[Keys(l)], t)
          /\ mem[CellOf(Values(l), t - base)] = ValueAt(u[Values(l)], t)
      BY <1>2, <1>10, <3>1, <3>2, OperandHeld
    <3>4. CellOf(Keys(l), t - base) = <<"keys", l, t>> /\ CellOf(Values(l), t - base) = <<"values", l, t>>
      BY <2>1, <3>1 DEF CellOf, Caches
    <3> QED BY <1>10, <3>3, <3>4 DEF ValueAt
  <2>4. \A t \in 0..base + r : keys[t] = <<"kr", l, t>> /\ values[t] = <<"v", l, t>>
    <3>1. ASSUME NEW t \in 0..base + r
          PROVE  mem[<<"keys", l, t>>] = <<"kr", l, t>> /\ mem[<<"values", l, t>>] = <<"v", l, t>>
      <4>1. CASE t >= base
        BY <2>3, <4>1
      <4>2. CASE ~(t >= base)
        <5>1. t \in 0..base - 1
          BY <1>4, <4>2 DEF Fits
        <5> QED BY <5>1 DEF Past, DispatchedOp
      <4> QED BY <4>1, <4>2
    <3> QED BY <3>1
  <2>5. Attended(<<"qr", l, base + r>>, base + r, keys, values) = <<"a", l, base + r>>
    <3> HIDE DEF keys, values
    <3> QED BY <2>4 DEF Attended
  <2> DEFINE vs == [j \in DOMAIN o.ins |-> Held(o.ins[j], r)]
  <2>6. vs[1] = <<"qr", l, base + r>> /\ o.ins[2][2] = l
    BY <2>1, <2>2
  <2>7. Computed(o, r) = Attended(vs[1], base + r, keys, values)
    BY <1>10, <2>6 DEF Computed
  <2> QED BY <1>10, <2>5, <2>6, <2>7 DEF ValueAt
<1>11. Computed(o, r) = ValueAt(y, base + r)
  <2> DEFINE vs == [j \in DOMAIN o.ins |-> Held(o.ins[j], r)]
  <2>1. \A j \in DOMAIN o.ins : vs[j] = ValueAt(u[o.ins[j]], base + r)
    BY <1>8, <1>9
  <2>2. DOMAIN vs = DOMAIN o.ins
    OBVIOUS
  <2>3. CASE o.op \in {"quant", "copy"}
    <3>1. Computed(o, r) = vs[1]
      BY <2>3 DEF Computed
    <3> QED BY <1>3, <2>1, <2>3, <3>1 DEF MakesRaw
  <2>4. CASE o.op = "dot"
    <3>1. /\ 1 \in DOMAIN o.ins /\ \A j \in DOMAIN o.ins : u[o.ins[j]] = u[o.ins[1]]
          /\ Result("linear", o.how, o.w, <<ValueAt(u[o.ins[1]], base + r)>>) = ValueAt(y, base + r)
      BY <1>3, <1>5, <2>4 DEF MakesRaw
    <3>2. Computed(o, r) = IF \E j \in DOMAIN vs : vs[j] # vs[1] THEN Junk
                           ELSE Result("linear", o.how, o.w, <<vs[1]>>)
      BY <2>4 DEF Computed
    <3> QED BY <2>1, <2>2, <3>1, <3>2
  <2>5. CASE o.op = "attention"
    <3>1. PICK l \in 0..Layers - 1 :
            /\ o.ins = <<Q, Keys(l), Values(l)>> /\ ~o.last
            /\ u[Q] = <<"qr", l>> /\ u[Keys(l)] = <<"kr", l>> /\ u[Values(l)] = <<"v", l>>
            /\ y = <<"a", l>>
      BY <1>3, <2>5 DEF MakesRaw
    <3> QED BY <1>10, <2>5, <3>1
  <2>6. CASE o.op \notin {"quant", "copy", "dot", "attention"}
    <3>1. Result(o.op, o.how, o.w, [j \in DOMAIN o.ins |-> ValueAt(u[o.ins[j]], base + r)]) = ValueAt(y, base + r)
      BY <1>3, <1>5, <2>6 DEF MakesRaw
    <3>2. Computed(o, r) = Result(o.op, o.how, o.w, vs)
      BY <2>6 DEF Computed
    <3>3. vs = [j \in DOMAIN o.ins |-> ValueAt(u[o.ins[j]], base + r)]
      BY <2>1
    <3> QED BY <3>1, <3>2, <3>3
  <2> QED BY <2>3, <2>4, <2>5, <2>6
<1>12. Written(o, c) = IF o.acc THEN Result("add", None, None, <<mem[c], ValueAt(y, base + r)>>) ELSE ValueAt(y, base + r)
  BY <1>7, <1>11 DEF Written
<1>13. CASE o.acc
  <2>1. b \in Reads(o)
    BY <1>13 DEF Reads
  <2>2. mem[c] = ValueAt(u[b], base + r)
    BY <1>8, <2>1 DEF Held, CellOf
  <2> QED BY <1>3, <1>5, <1>12, <1>13, <2>2
<1>14. CASE ~o.acc
  BY <1>3, <1>12, <1>14
<1> QED BY <1>13, <1>14
\* Nothing has been computed that no definition defines.
NoJunk == \A c \in Cells : mem[c] # Junk

\* What a pass is does not change while it runs.
LEMMA SamePass ==
  ASSUME UNCHANGED <<engine, file, ids, base>>
  PROVE  /\ Layers' = Layers /\ Rows' = Rows /\ LastPos' = LastPos /\ Metal' = Metal
         /\ Buffers' = Buffers /\ Cells' = Cells /\ Fits' = Fits
<1>1. Layers' = Layers
  BY DEF Layers, Quantized
<1>2. Rows' = Rows /\ LastPos' = LastPos
  BY DEF Rows, LastPos
<1>3. Buffers' = Buffers
  BY <1>1 DEF Buffers
<1>4. Cells' = Cells
  BY <1>1, <1>2 DEF Cells
<1> QED BY <1>1, <1>2, <1>3, <1>4 DEF Metal, Fits

\* What a dispatch does.
Runs(k) ==
  /\ mem' = [c \in Cells |->
               IF /\ <<c[1], c[2]>> \in prog[k].outs
                  /\ RowOf(c) \in (IF prog[k].last THEN Rows - 1 ELSE 0)..Rows - 1
               THEN Written(prog[k], c) ELSE mem[c]]
  /\ ran' = ran \cup {k}
  /\ UNCHANGED <<engine, file, ids, prog, base>>

\* Memory after a dispatch.
LEMMA RunWrites ==
  ASSUME NEW val, NEW k, DispatchedOp(val, k), ~Fenced(prog[k]), Runs(k),
         NEW b \in Buffers, NEW r \in 0..Rows - 1
  PROVE  mem'[CellOf(b, r)] = IF b \in prog[k].outs /\ r \in RowsOf(prog, k)
                              THEN ValueAt(val[k], base + r) ELSE mem[CellOf(b, r)]
<1> DEFINE c == CellOf(b, r)
<1>0. Fits /\ k # 0
  BY DEF DispatchedOp
<1>1. c \in Cells /\ <<c[1], c[2]>> = b /\ RowOf(c) = r
  BY <1>0, CellIsCell
<1>2. r \in (IF prog[k].last THEN Rows - 1 ELSE 0)..Rows - 1 <=> r \in RowsOf(prog, k)
  BY <1>0 DEF RowsOf, Fits
<1>3. mem'[c] = IF b \in prog[k].outs /\ r \in RowsOf(prog, k) THEN Written(prog[k], c) ELSE mem[c]
  BY <1>1, <1>2 DEF Runs
<1>4. CASE b \in prog[k].outs /\ r \in RowsOf(prog, k)
  BY <1>3, <1>4, WritesIt
<1> QED BY <1>3, <1>4

\* What a dispatch keeps.
LEMMA RunKeepsValues ==
  ASSUME NEW val, NEW k, DispatchedOp(val, k), ~Fenced(prog[k]), Runs(k)
  PROVE  Holds(val)'
<1>0. UNCHANGED <<engine, file, ids, base>> /\ prog' = prog /\ ran' = ran \cup {k}
  BY DEF Runs
<1>1. /\ Fits /\ Holds(val) /\ Closed(prog, Metal, ran) /\ k \in DOMAIN prog /\ k \notin ran /\ k # 0
      /\ 0 \notin DOMAIN prog
  BY DEF DispatchedOp
<1>2. Rows' = Rows /\ Metal' = Metal /\ Buffers' = Buffers
  BY <1>0, SamePass
<1>3. ASSUME NEW x \in ran' \cup {0}, NEW K \in SUBSET DOMAIN prog, x # 0 => ~Fenced(prog[x]),
             K \cap ran' = {}, NEW b \in OutsOf(prog, x), b \in Buffers,
             Keeps(prog, Metal, val, b, x, K), NEW r \in RowsOf(prog, x)
      PROVE  mem'[CellOf(b, r)] = ValueAt(val[x], base + r)
  <2>1. r \in 0..Rows - 1
    BY <1>1, RowIsRow
  <2>2. mem'[CellOf(b, r)] = IF b \in prog[k].outs /\ r \in RowsOf(prog, k)
                             THEN ValueAt(val[k], base + r) ELSE mem[CellOf(b, r)]
    BY <1>3, <2>1, RunWrites
  <2>3. CASE x = k
    <3>1. b \in prog[k].outs
      BY <1>1, <2>3 DEF OutsOf
    <3> QED BY <2>2, <2>3, <3>1
  <2>4. CASE x # k
    <3>1. x \in ran \cup {0} /\ K \cap ran = {}
      BY <1>0, <1>3, <2>4
    <3>2. mem[CellOf(b, r)] = ValueAt(val[x], base + r)
      BY <1>1, <1>3, <3>1 DEF Holds
    <3>3. CASE b \in prog[k].outs /\ r \in RowsOf(prog, k)
      <4>1. val[k] = val[x] \/ Precedes(prog, Metal, k, x) \/ \E j \in K : Precedes(prog, Metal, j, k)
        BY <1>1, <1>3, <2>4, <3>3 DEF Keeps
      <4>2. ~Precedes(prog, Metal, k, x)
        BY <1>1, <3>1 DEF Precedes
      <4>3. ASSUME NEW j \in K, Precedes(prog, Metal, j, k) PROVE FALSE
        <5>1. j # k
          BY <1>0, <1>3, <4>3
        <5>2. j \in ran \cup {0}
          BY <4>3, <5>1, ReadyIn, ReadyAfter DEF DispatchedOp
        <5> QED BY <1>1, <3>1, <4>3, <5>2
      <4>4. val[k] = val[x]
        BY <4>1, <4>2, <4>3
      <4> QED BY <2>2, <3>3, <4>4
    <3>4. CASE ~(b \in prog[k].outs /\ r \in RowsOf(prog, k))
      <4>1. mem'[CellOf(b, r)] = mem[CellOf(b, r)]
        BY <2>2, <3>4
      <4> QED BY <3>2, <4>1
    <3> QED BY <3>3, <3>4
  <2> QED BY <2>3, <2>4
<1>4. \A x, b, r : RowsOf(prog, x)' = RowsOf(prog, x) /\ CellOf(b, r)' = CellOf(b, r) /\ base' = base
  BY <1>0, <1>2 DEF RowsOf, CellOf
<1> QED BY <1>0, <1>2, <1>3, <1>4 DEF Holds

\* ... what may have run, the caches of earlier passes, and that nothing is junk.
LEMMA RunKeepsRest ==
  ASSUME NEW val, NEW k, DispatchedOp(val, k), ~Fenced(prog[k]), Runs(k)
  PROVE  /\ Closed(prog, Metal, ran)' /\ Past' /\ (NoJunk => NoJunk')
<1>0. UNCHANGED <<engine, file, ids, base>> /\ prog' = prog /\ ran' = ran \cup {k}
  BY DEF Runs
<1>1. /\ Fits /\ Past /\ Closed(prog, Metal, ran) /\ k \in DOMAIN prog /\ k \notin ran /\ k # 0
  BY DEF DispatchedOp
<1>2. Rows' = Rows /\ Metal' = Metal /\ Buffers' = Buffers /\ Cells' = Cells /\ Layers' = Layers
  BY <1>0, SamePass
<1>3. Closed(prog, Metal, ran \cup {k})
  BY <1>1, ReadyIn, ReadyAfter DEF DispatchedOp
<1>4. ASSUME NEW l \in 0..Layers - 1, NEW t \in 0..base - 1, NEW n \in Caches
      PROVE  mem'[<<n, l, t>>] = mem[<<n, l, t>>]
  <2> DEFINE c == <<n, l, t>>
  <2>1. t \in 0..LastPos /\ t - base < 0 /\ t - base \in Int
    BY <1>1 DEF Fits, LastPos
  <2>2. c \in Cells /\ RowOf(c) = t - base
    BY <2>1 DEF Cells, RowOf
  <2>3. RowOf(c) \notin (IF prog[k].last THEN Rows - 1 ELSE 0)..Rows - 1
    BY <1>1, <2>1, <2>2 DEF Fits
  <2> QED BY <2>2, <2>3 DEF Runs
<1>5. Past'
  <2>1. ASSUME NEW l \in 0..Layers - 1, NEW t \in 0..base - 1
        PROVE  mem'[<<"keys", l, t>>] = <<"kr", l, t>> /\ mem'[<<"values", l, t>>] = <<"v", l, t>>
    <3>1. mem[<<"keys", l, t>>] = <<"kr", l, t>> /\ mem[<<"values", l, t>>] = <<"v", l, t>>
      BY <1>1, <2>1 DEF Past, DispatchedOp
    <3>2. "keys" \in Caches /\ "values" \in Caches
      BY DEF Caches
    <3> QED BY <1>4, <3>1, <3>2
  <2> QED BY <1>0, <1>2, <2>1 DEF Past
<1>6. ASSUME NoJunk, NEW c \in Cells PROVE mem'[c] # Junk
  <2> DEFINE b == <<c[1], c[2]>>
             r == RowOf(c)
  <2>1. r \in Int /\ c = CellOf(b, r)
    BY <1>1, CellOfRow
  <2>2. CASE b \in prog[k].outs /\ r \in (IF prog[k].last THEN Rows - 1 ELSE 0)..Rows - 1
    <3>1. Sound(prog, Metal, val, k)
      BY <1>1 DEF DispatchedOp, Annotated
    <3>2. b \in Buffers /\ val[k][1] # "junk"
      BY <2>2, <3>1 DEF Sound
    <3>3. r \in RowsOf(prog, k) /\ r \in 0..Rows - 1
      BY <1>1, <2>2 DEF RowsOf, Fits
    <3> HIDE DEF b, r
    <3>4. mem'[CellOf(b, r)] = ValueAt(val[k], base + r)
      BY <2>2, <3>2, <3>3, RunWrites
    <3> QED BY <2>1, <3>2, <3>4 DEF ValueAt, Junk
  <2>3. CASE ~(b \in prog[k].outs /\ r \in (IF prog[k].last THEN Rows - 1 ELSE 0)..Rows - 1)
    BY <1>6, <2>3 DEF Runs, NoJunk
  <2> QED BY <2>2, <2>3
<1> QED BY <1>0, <1>2, <1>3, <1>5, <1>6 DEF NoJunk

-----------------------------------------------------------------------------
(* The steps of a pass.  Each has a number within its layer l, and the     *)
(* numbers are in the order of every engine's program:                     *)
(*    0 the norm; 4, 8, 12 the linears of q, k and v; 5, 9, 13 their       *)
(*    biases on the host and 15, 16, 17 on the GPUs; 19, 20 the copies of  *)
(*    k and v to the caches; 21, 22 the rotations of q and of the keys;    *)
(*    24 attention; 28 the linear of its output, 29 its addition;          *)
(*    31 the second norm; 35, 38 the linears of gate and up; 40 the        *)
(*    activation; 44 the last linear, 45 its addition.                     *)
(* Two before a linear stands the operation that quantizes for it, where   *)
(* it has one, and the numbers left are those of Metal's barriers.  After  *)
(* the last layer, l is Layers, 0 the final norm and 4 the head.           *)

Host == engine.name \in {"cpu", "float", "gemma", "conformance"}

\* The weight of the linear that step n is of.
LinWeight(l, n) ==
  IF l = Layers THEN Classifier
  ELSE CASE n \in {2, 4} -> <<"attn_q", l>>
         [] n \in {6, 8} -> <<"attn_k", l>>
         [] n \in {10, 12} -> <<"attn_v", l>>
         [] n \in {26, 28} -> <<"attn_output", l>>
         [] n \in {33, 35} -> <<"ffn_gate", l>>
         [] n \in {36, 38} -> <<"ffn_up", l>>
         [] n \in {42, 44} -> <<"ffn_down", l>>
\* A linear of two operations: the operand is quantized first.
Split(w) == ~Host /\ (Dtype(w) = "Q6_K" \/ (Dtype(w) = "Q4_K" /\ engine.regime = 3))

\* The steps that quantize an operand, and the linears themselves.
Quants == {2, 6, 10, 26, 33, 36, 42}
Dots == {4, 8, 12, 28, 35, 38, 44}

\* Where the linears of keys and values leave them: the host copies them later.
KeysOf(l) == IF Host THEN B("k") ELSE Keys(l)
ValuesOf(l) == IF Host THEN B("v") ELSE Values(l)

\* The steps of a layer, and of what follows the last layer.
Occurs(l, n) ==
  \/ /\ l \in 0..Layers - 1
     /\ \/ n \in {0, 4, 8, 12, 21, 22, 24, 28, 31, 35, 38, 40, 44}
        \/ n \in {19, 20, 29, 45} /\ Host
        \/ n \in Quants /\ Split(LinWeight(l, n))
        \/ n = (IF Host THEN 5 ELSE 15) /\ HasBias("bq", l)
        \/ n = (IF Host THEN 9 ELSE 16) /\ HasBias("bk", l)
        \/ n = (IF Host THEN 13 ELSE 17) /\ HasBias("bv", l)
  \/ l = Layers /\ (n \in {0, 4} \/ (n = 2 /\ Split(LinWeight(l, n))))

\* The buffer a step writes, but for one that quantizes.
OutBuf(l, n) ==
  CASE n \in {0, 31} -> Xb
    [] n = 4 -> IF l = Layers THEN B("logits") ELSE Q
    [] n \in {5, 15, 21} -> Q
    [] n \in {8, 9, 16} -> KeysOf(l)
    [] n \in {12, 13, 17} -> ValuesOf(l)
    [] n \in {19, 22} -> Keys(l)
    [] n = 20 -> Values(l)
    [] n = 24 -> Att
    [] n \in {28, 44} -> IF Host THEN B("xb2") ELSE X
    [] n \in {29, 45} -> X
    [] n = 35 -> B("gate")
    [] n = 38 -> B("up")
    [] n = 40 -> B("inner")
Writes(l, n, b) == IF n \in Quants THEN b \in Scratch ELSE b = OutBuf(l, n)

\* The name of what a step leaves.
NameOf(l, n) ==
  CASE n \in {0, 2} -> IF l = Layers THEN "f" ELSE "xn"
    [] n \in {6, 10} -> "xn"
    [] n = 4 -> IF l = Layers THEN "logits" ELSE Raw("bq", l)
    [] n = 8 -> Raw("bk", l)
    [] n = 12 -> Raw("bv", l)
    [] n \in {5, 15} -> "q"
    [] n \in {9, 16, 19} -> "k"
    [] n \in {13, 17, 20} -> "v"
    [] n = 21 -> "qr"
    [] n = 22 -> "kr"
    [] n \in {24, 26} -> "a"
    [] n = 28 -> IF Host THEN "o" ELSE "y"
    [] n = 29 -> "y"
    [] n \in {31, 33, 36} -> "yn"
    [] n = 35 -> "g"
    [] n = 38 -> "u"
    [] n \in {40, 42} -> "h"
    [] n = 44 -> IF Host THEN "d" ELSE "x"
    [] n = 45 -> "x"
\* ... with its layer: the last addition of a layer leaves x of the next.
ValueOf(l, n) == <<NameOf(l, n), IF NameOf(l, n) = "x" THEN l + 1 ELSE l>>

\* q, k, v and the two halves of the feed-forward are computed in tracks of their own.
Track(n) == CASE n \in {2, 4, 5, 15, 21} -> 1
              [] n \in {6, 8, 9, 16, 19, 22} -> 2
              [] n \in {10, 12, 13, 17, 20} -> 3
              [] n \in {33, 35} -> 4
              [] n \in {36, 38} -> 5
              [] OTHER -> 0
\* Steps of different tracks, which no barrier of Metal orders.
Apart(n, j) ==
  Track(n) # Track(j) /\ ((Track(n) \in 1..3 /\ Track(j) \in 1..3) \/ (Track(n) \in 4..5 /\ Track(j) \in 4..5))
\* Step n of layer l must come before step j of layer m.
Pre(l, n, m, j) == l < m \/ (l = m /\ n < j /\ ~Apart(n, j))

\* What step i of layer k leaves in b is there for step n of layer l.
Clear(l, n, b, k, i) ==
  \A m, j : Occurs(m, j) /\ Writes(m, j, b) =>
    \/ m = k /\ j = i
    \/ m = l /\ j = n
    \/ ValueOf(m, j) = ValueOf(k, i) \/ Pre(m, j, k, i) \/ Pre(l, n, m, j)

\* The numbers of the steps.
Codes == {0, 4, 8, 12, 21, 22, 24, 28, 31, 35, 38, 40, 44, 19, 20, 29, 45, 2, 6, 10, 26, 33, 36, 42,
          5, 15, 9, 16, 13, 17}

\* Only these steps occur.
LEMMA OccursCodes ==
  ASSUME Layers \in Nat, NEW l, NEW n, Occurs(l, n)
  PROVE  l \in 0..Layers /\ n \in Codes
BY DEF Occurs, Codes, Quants

-----------------------------------------------------------------------------
(* Which steps write a buffer, and that nothing overwrites a value before  *)
(* the step that reads it.                                                 *)

\* The steps that write xb.
LEMMA WritersXb ==
  ASSUME Layers \in Nat, NEW l, NEW n, Occurs(l, n), Writes(l, n, Xb)
  PROVE  n \in {0, 31}
<1>1. n \in Codes
  BY OccursCodes
<1> QED BY <1>1 DEF Codes, Writes, OutBuf, Quants, Xb, X, Q, B, Keys, Values, KeysOf, ValuesOf, Att, Scratch

\* The steps that write the key cache.
LEMMA WritersKeys ==
  ASSUME Layers \in Nat, NEW l, NEW n, Occurs(l, n), NEW k, Writes(l, n, Keys(k))
  PROVE  l = k /\ IF Host THEN n \in {19, 22} ELSE n \in {8, 16, 22} /\ (n = 16 => HasBias("bk", l))
<1>1. n \in Codes
  BY OccursCodes
<1> QED BY <1>1 DEF Codes, Writes, OutBuf, Quants, Xb, X, Q, B, Keys, Values, KeysOf, ValuesOf, Att, Scratch, Occurs
\* The steps that write x.
LEMMA WritersX ==
  ASSUME Layers \in Nat, NEW l, NEW n, Occurs(l, n), Writes(l, n, X)
  PROVE  IF Host THEN n \in {29, 45} ELSE n \in {28, 44}
<1>1. n \in Codes
  BY OccursCodes
<1> QED BY <1>1 DEF Codes, Writes, OutBuf, Quants, Xb, X, Q, B, Keys, Values, KeysOf, ValuesOf, Att, Scratch, Occurs

\* The steps that write q.
LEMMA WritersQ ==
  ASSUME Layers \in Nat, NEW l, NEW n, Occurs(l, n), Writes(l, n, Q)
  PROVE  n \in {4, 5, 15, 21} /\ (n = 5 => Host /\ HasBias("bq", l)) /\ (n = 15 => ~Host /\ HasBias("bq", l))
<1>1. n \in Codes
  BY OccursCodes
<1> QED BY <1>1 DEF Codes, Writes, OutBuf, Quants, Xb, X, Q, B, Keys, Values, KeysOf, ValuesOf, Att, Scratch, Occurs

\* The steps that write k.
LEMMA WritersK ==
  ASSUME Layers \in Nat, NEW l, NEW n, Occurs(l, n), Writes(l, n, B("k"))
  PROVE  n \in {8, 9} /\ (n = 9 => HasBias("bk", l))
<1>1. n \in Codes
  BY OccursCodes
<1> QED BY <1>1 DEF Codes, Writes, OutBuf, Quants, Xb, X, Q, B, Keys, Values, KeysOf, ValuesOf, Att, Scratch, Occurs

\* The steps that write v.
LEMMA WritersV ==
  ASSUME Layers \in Nat, NEW l, NEW n, Occurs(l, n), Writes(l, n, B("v"))
  PROVE  n \in {12, 13} /\ (n = 13 => HasBias("bv", l))
<1>1. n \in Codes
  BY OccursCodes
<1> QED BY <1>1 DEF Codes, Writes, OutBuf, Quants, Xb, X, Q, B, Keys, Values, KeysOf, ValuesOf, Att, Scratch, Occurs

\* The steps that write the value cache.
LEMMA WritersValues ==
  ASSUME Layers \in Nat, NEW l, NEW n, Occurs(l, n), NEW k, Writes(l, n, Values(k))
  PROVE  l = k /\ IF Host THEN n = 20 ELSE n \in {12, 17} /\ (n = 17 => HasBias("bv", l))
<1>1. n \in Codes
  BY OccursCodes
<1> QED BY <1>1 DEF Codes, Writes, OutBuf, Quants, Xb, X, Q, B, Keys, Values, KeysOf, ValuesOf, Att, Scratch, Occurs

\* The steps that write att.
LEMMA WritersAtt ==
  ASSUME Layers \in Nat, NEW l, NEW n, Occurs(l, n), Writes(l, n, Att)
  PROVE  n = 24
<1>1. n \in Codes
  BY OccursCodes
<1> QED BY <1>1 DEF Codes, Writes, OutBuf, Quants, Xb, X, Q, B, Keys, Values, KeysOf, ValuesOf, Att, Scratch, Occurs

\* The steps that write xb2.
LEMMA WritersXb2 ==
  ASSUME Layers \in Nat, NEW l, NEW n, Occurs(l, n), Writes(l, n, B("xb2"))
  PROVE  Host /\ n \in {28, 44}
<1>1. n \in Codes
  BY OccursCodes
<1> QED BY <1>1 DEF Codes, Writes, OutBuf, Quants, Xb, X, Q, B, Keys, Values, KeysOf, ValuesOf, Att, Scratch, Occurs

\* The steps that write gate.
LEMMA WritersGate ==
  ASSUME Layers \in Nat, NEW l, NEW n, Occurs(l, n), Writes(l, n, B("gate"))
  PROVE  n = 35
<1>1. n \in Codes
  BY OccursCodes
<1> QED BY <1>1 DEF Codes, Writes, OutBuf, Quants, Xb, X, Q, B, Keys, Values, KeysOf, ValuesOf, Att, Scratch, Occurs

\* The steps that write up.
LEMMA WritersUp ==
  ASSUME Layers \in Nat, NEW l, NEW n, Occurs(l, n), Writes(l, n, B("up"))
  PROVE  n = 38
<1>1. n \in Codes
  BY OccursCodes
<1> QED BY <1>1 DEF Codes, Writes, OutBuf, Quants, Xb, X, Q, B, Keys, Values, KeysOf, ValuesOf, Att, Scratch, Occurs

\* The steps that write inner.
LEMMA WritersInner ==
  ASSUME Layers \in Nat, NEW l, NEW n, Occurs(l, n), Writes(l, n, B("inner"))
  PROVE  n = 40
<1>1. n \in Codes
  BY OccursCodes
<1> QED BY <1>1 DEF Codes, Writes, OutBuf, Quants, Xb, X, Q, B, Keys, Values, KeysOf, ValuesOf, Att, Scratch, Occurs

\* The steps that write logits.
LEMMA WritersLogits ==
  ASSUME Layers \in Nat, NEW l, NEW n, Occurs(l, n), Writes(l, n, B("logits"))
  PROVE  n = 4 /\ l = Layers
<1>1. n \in Codes
  BY OccursCodes
<1> QED BY <1>1 DEF Codes, Writes, OutBuf, Quants, Xb, X, Q, B, Keys, Values, KeysOf, ValuesOf, Att, Scratch, Occurs

\* The steps that write the scratch of the linears.
LEMMA WritersScratch ==
  ASSUME Layers \in Nat, NEW l, NEW n, Occurs(l, n), NEW b \in Scratch, Writes(l, n, b)
  PROVE  n \in Quants
<1>1. n \in Codes
  BY OccursCodes
<1> QED BY <1>1 DEF Codes, Writes, OutBuf, Quants, Xb, X, Q, B, Keys, Values, KeysOf, ValuesOf, Att, Scratch, Occurs
\* Nothing else reaches xb between the norm and the linears of attention, or of the head.
LEMMA ClearXb1 ==
  ASSUME Layers \in Nat, NEW l \in 0..Layers, NEW n, n \in {2, 4, 6, 8, 10, 12}
  PROVE  Clear(l, n, Xb, l, 0)
<1>1. ASSUME NEW m, NEW j, Occurs(m, j), Writes(m, j, Xb), ~(m = l /\ j = n), ~(m = l /\ j = 0)
      PROVE  ValueOf(m, j) = ValueOf(l, 0) \/ Pre(m, j, l, 0) \/ Pre(l, n, m, j)
  <2>1. m \in Int /\ j \in Codes
    BY <1>1, OccursCodes
  <2> QED BY <1>1, <2>1, WritersXb DEF Pre, Apart, Track, Codes
<1> QED BY <1>1 DEF Clear

\* Nothing else reaches xb between the second norm and the linears of the feed-forward.
LEMMA ClearXb2 ==
  ASSUME Layers \in Nat, NEW l \in 0..Layers, NEW n, n \in {33, 35, 36, 38}
  PROVE  Clear(l, n, Xb, l, 31)
<1>1. ASSUME NEW m, NEW j, Occurs(m, j), Writes(m, j, Xb), ~(m = l /\ j = n), ~(m = l /\ j = 31)
      PROVE  ValueOf(m, j) = ValueOf(l, 31) \/ Pre(m, j, l, 31) \/ Pre(l, n, m, j)
  <2>1. m \in Int /\ j \in Codes
    BY <1>1, OccursCodes
  <2> QED BY <1>1, <2>1, WritersXb DEF Pre, Apart, Track, Codes
<1> QED BY <1>1 DEF Clear

\* Nothing else reaches x between the previous layer and the norm and the addition that read it.
LEMMA ClearX1 ==
  ASSUME Layers \in Nat, NEW l \in 0..Layers, NEW n, n \in {0, IF Host THEN 29 ELSE 28}
  PROVE  Clear(l, n, X, l - 1, IF Host THEN 45 ELSE 44)
<1>1. ASSUME NEW m, NEW j, Occurs(m, j), Writes(m, j, X), ~(m = l /\ j = n), ~(m = l - 1 /\ j = (IF Host THEN 45 ELSE 44))
      PROVE  ValueOf(m, j) = ValueOf(l - 1, IF Host THEN 45 ELSE 44) \/ Pre(m, j, l - 1, IF Host THEN 45 ELSE 44) \/ Pre(l, n, m, j)
  <2>1. m \in Int /\ j \in Codes
    BY <1>1, OccursCodes
  <2> QED BY <1>1, <2>1, WritersX DEF Pre, Apart, Track, Codes
<1> QED BY <1>1 DEF Clear

\* Nothing else reaches x between the addition of attention and the second norm and the second addition.
LEMMA ClearX2 ==
  ASSUME Layers \in Nat, NEW l \in 0..Layers, NEW n, n \in {31, IF Host THEN 45 ELSE 44}
  PROVE  Clear(l, n, X, l, IF Host THEN 29 ELSE 28)
<1>1. ASSUME NEW m, NEW j, Occurs(m, j), Writes(m, j, X), ~(m = l /\ j = n), ~(m = l /\ j = (IF Host THEN 29 ELSE 28))
      PROVE  ValueOf(m, j) = ValueOf(l, IF Host THEN 29 ELSE 28) \/ Pre(m, j, l, IF Host THEN 29 ELSE 28) \/ Pre(l, n, m, j)
  <2>1. m \in Int /\ j \in Codes
    BY <1>1, OccursCodes
  <2> QED BY <1>1, <2>1, WritersX DEF Pre, Apart, Track, Codes
<1> QED BY <1>1 DEF Clear

\* Nothing else reaches q between its linear and its bias.
LEMMA ClearQ1 ==
  ASSUME Layers \in Nat, NEW l \in 0..Layers, NEW n, n = (IF Host THEN 5 ELSE 15)
  PROVE  Clear(l, n, Q, l, 4)
<1>1. ASSUME NEW m, NEW j, Occurs(m, j), Writes(m, j, Q), ~(m = l /\ j = n), ~(m = l /\ j = 4)
      PROVE  ValueOf(m, j) = ValueOf(l, 4) \/ Pre(m, j, l, 4) \/ Pre(l, n, m, j)
  <2>1. m \in Int /\ j \in Codes
    BY <1>1, OccursCodes
  <2> QED BY <1>1, <2>1, WritersQ DEF Pre, Apart, Track, Codes
<1> QED BY <1>1 DEF Clear

\* Nothing else reaches q between its linear or its bias and its rotation.
LEMMA ClearQ2 ==
  ASSUME Layers \in Nat, NEW l \in 0..Layers, NEW n, n = 21
  PROVE  Clear(l, n, Q, l, IF ~HasBias("bq", l) THEN 4 ELSE IF Host THEN 5 ELSE 15)
<1>1. ASSUME NEW m, NEW j, Occurs(m, j), Writes(m, j, Q), ~(m = l /\ j = n), ~(m = l /\ j = (IF ~HasBias("bq", l) THEN 4 ELSE IF Host THEN 5 ELSE 15))
      PROVE  ValueOf(m, j) = ValueOf(l, IF ~HasBias("bq", l) THEN 4 ELSE IF Host THEN 5 ELSE 15) \/ Pre(m, j, l, IF ~HasBias("bq", l) THEN 4 ELSE IF Host THEN 5 ELSE 15) \/ Pre(l, n, m, j)
  <2>1. m \in Int /\ j \in Codes
    BY <1>1, OccursCodes
  <2> QED BY <1>1, <2>1, WritersQ DEF Pre, Apart, Track, Codes
<1> QED BY <1>1 DEF Clear

\* Nothing else reaches q between its rotation and attention.
LEMMA ClearQ3 ==
  ASSUME Layers \in Nat, NEW l \in 0..Layers, NEW n, n = 24
  PROVE  Clear(l, n, Q, l, 21)
<1>1. ASSUME NEW m, NEW j, Occurs(m, j), Writes(m, j, Q), ~(m = l /\ j = n), ~(m = l /\ j = 21)
      PROVE  ValueOf(m, j) = ValueOf(l, 21) \/ Pre(m, j, l, 21) \/ Pre(l, n, m, j)
  <2>1. m \in Int /\ j \in Codes
    BY <1>1, OccursCodes
  <2> QED BY <1>1, <2>1, WritersQ DEF Pre, Apart, Track, Codes
<1> QED BY <1>1 DEF Clear

\* Nothing else reaches k between its linear and its bias.
LEMMA ClearK1 ==
  ASSUME Layers \in Nat, NEW l \in 0..Layers, NEW n, n = 9
  PROVE  Clear(l, n, B("k"), l, 8)
<1>1. ASSUME NEW m, NEW j, Occurs(m, j), Writes(m, j, B("k")), ~(m = l /\ j = n), ~(m = l /\ j = 8)
      PROVE  ValueOf(m, j) = ValueOf(l, 8) \/ Pre(m, j, l, 8) \/ Pre(l, n, m, j)
  <2>1. m \in Int /\ j \in Codes
    BY <1>1, OccursCodes
  <2> QED BY <1>1, <2>1, WritersK DEF Pre, Apart, Track, Codes
<1> QED BY <1>1 DEF Clear

\* Nothing else reaches k between its linear or its bias and its copy to the cache.
LEMMA ClearK2 ==
  ASSUME Layers \in Nat, NEW l \in 0..Layers, NEW n, n = 19
  PROVE  Clear(l, n, B("k"), l, IF HasBias("bk", l) THEN 9 ELSE 8)
<1>1. ASSUME NEW m, NEW j, Occurs(m, j), Writes(m, j, B("k")), ~(m = l /\ j = n), ~(m = l /\ j = (IF HasBias("bk", l) THEN 9 ELSE 8))
      PROVE  ValueOf(m, j) = ValueOf(l, IF HasBias("bk", l) THEN 9 ELSE 8) \/ Pre(m, j, l, IF HasBias("bk", l) THEN 9 ELSE 8) \/ Pre(l, n, m, j)
  <2>1. m \in Int /\ j \in Codes
    BY <1>1, OccursCodes
  <2> QED BY <1>1, <2>1, WritersK DEF Pre, Apart, Track, Codes
<1> QED BY <1>1 DEF Clear

\* Nothing else reaches v between its linear and its bias.
LEMMA ClearV1 ==
  ASSUME Layers \in Nat, NEW l \in 0..Layers, NEW n, n = 13
  PROVE  Clear(l, n, B("v"), l, 12)
<1>1. ASSUME NEW m, NEW j, Occurs(m, j), Writes(m, j, B("v")), ~(m = l /\ j = n), ~(m = l /\ j = 12)
      PROVE  ValueOf(m, j) = ValueOf(l, 12) \/ Pre(m, j, l, 12) \/ Pre(l, n, m, j)
  <2>1. m \in Int /\ j \in Codes
    BY <1>1, OccursCodes
  <2> QED BY <1>1, <2>1, WritersV DEF Pre, Apart, Track, Codes
<1> QED BY <1>1 DEF Clear

\* Nothing else reaches v between its linear or its bias and its copy to the cache.
LEMMA ClearV2 ==
  ASSUME Layers \in Nat, NEW l \in 0..Layers, NEW n, n = 20
  PROVE  Clear(l, n, B("v"), l, IF HasBias("bv", l) THEN 13 ELSE 12)
<1>1. ASSUME NEW m, NEW j, Occurs(m, j), Writes(m, j, B("v")), ~(m = l /\ j = n), ~(m = l /\ j = (IF HasBias("bv", l) THEN 13 ELSE 12))
      PROVE  ValueOf(m, j) = ValueOf(l, IF HasBias("bv", l) THEN 13 ELSE 12) \/ Pre(m, j, l, IF HasBias("bv", l) THEN 13 ELSE 12) \/ Pre(l, n, m, j)
  <2>1. m \in Int /\ j \in Codes
    BY <1>1, OccursCodes
  <2> QED BY <1>1, <2>1, WritersV DEF Pre, Apart, Track, Codes
<1> QED BY <1>1 DEF Clear

\* Nothing else reaches the keys between their linear and their bias.
LEMMA ClearKeys1 ==
  ASSUME Layers \in Nat, NEW l \in 0..Layers, NEW n, n = 16, ~Host
  PROVE  Clear(l, n, Keys(l), l, 8)
<1>1. ASSUME NEW m, NEW j, Occurs(m, j), Writes(m, j, Keys(l)), ~(m = l /\ j = n), ~(m = l /\ j = 8)
      PROVE  ValueOf(m, j) = ValueOf(l, 8) \/ Pre(m, j, l, 8) \/ Pre(l, n, m, j)
  <2>1. m \in Int /\ j \in Codes
    BY <1>1, OccursCodes
  <2> QED BY <1>1, <2>1, WritersKeys DEF Pre, Apart, Track, Codes
<1> QED BY <1>1 DEF Clear

\* Nothing else reaches the keys between their copy, bias or linear and their rotation.
LEMMA ClearKeys2 ==
  ASSUME Layers \in Nat, NEW l \in 0..Layers, NEW n, n = 22
  PROVE  Clear(l, n, Keys(l), l, IF Host THEN 19 ELSE IF HasBias("bk", l) THEN 16 ELSE 8)
<1>1. ASSUME NEW m, NEW j, Occurs(m, j), Writes(m, j, Keys(l)), ~(m = l /\ j = n), ~(m = l /\ j = (IF Host THEN 19 ELSE IF HasBias("bk", l) THEN 16 ELSE 8))
      PROVE  ValueOf(m, j) = ValueOf(l, IF Host THEN 19 ELSE IF HasBias("bk", l) THEN 16 ELSE 8) \/ Pre(m, j, l, IF Host THEN 19 ELSE IF HasBias("bk", l) THEN 16 ELSE 8) \/ Pre(l, n, m, j)
  <2>1. m \in Int /\ j \in Codes
    BY <1>1, OccursCodes
  <2> QED BY <1>1, <2>1, WritersKeys DEF Pre, Apart, Track, Codes
<1> QED BY <1>1 DEF Clear

\* Nothing else reaches the keys between their rotation and attention.
LEMMA ClearKeys3 ==
  ASSUME Layers \in Nat, NEW l \in 0..Layers, NEW n, n = 24
  PROVE  Clear(l, n, Keys(l), l, 22)
<1>1. ASSUME NEW m, NEW j, Occurs(m, j), Writes(m, j, Keys(l)), ~(m = l /\ j = n), ~(m = l /\ j = 22)
      PROVE  ValueOf(m, j) = ValueOf(l, 22) \/ Pre(m, j, l, 22) \/ Pre(l, n, m, j)
  <2>1. m \in Int /\ j \in Codes
    BY <1>1, OccursCodes
  <2> QED BY <1>1, <2>1, WritersKeys DEF Pre, Apart, Track, Codes
<1> QED BY <1>1 DEF Clear

\* Nothing else reaches the values between their linear and their bias.
LEMMA ClearValues1 ==
  ASSUME Layers \in Nat, NEW l \in 0..Layers, NEW n, n = 17, ~Host
  PROVE  Clear(l, n, Values(l), l, 12)
<1>1. ASSUME NEW m, NEW j, Occurs(m, j), Writes(m, j, Values(l)), ~(m = l /\ j = n), ~(m = l /\ j = 12)
      PROVE  ValueOf(m, j) = ValueOf(l, 12) \/ Pre(m, j, l, 12) \/ Pre(l, n, m, j)
  <2>1. m \in Int /\ j \in Codes
    BY <1>1, OccursCodes
  <2> QED BY <1>1, <2>1, WritersValues DEF Pre, Apart, Track, Codes
<1> QED BY <1>1 DEF Clear

\* Nothing else reaches the values between their copy, bias or linear and attention.
LEMMA ClearValues2 ==
  ASSUME Layers \in Nat, NEW l \in 0..Layers, NEW n, n = 24
  PROVE  Clear(l, n, Values(l), l, IF Host THEN 20 ELSE IF HasBias("bv", l) THEN 17 ELSE 12)
<1>1. ASSUME NEW m, NEW j, Occurs(m, j), Writes(m, j, Values(l)), ~(m = l /\ j = n), ~(m = l /\ j = (IF Host THEN 20 ELSE IF HasBias("bv", l) THEN 17 ELSE 12))
      PROVE  ValueOf(m, j) = ValueOf(l, IF Host THEN 20 ELSE IF HasBias("bv", l) THEN 17 ELSE 12) \/ Pre(m, j, l, IF Host THEN 20 ELSE IF HasBias("bv", l) THEN 17 ELSE 12) \/ Pre(l, n, m, j)
  <2>1. m \in Int /\ j \in Codes
    BY <1>1, OccursCodes
  <2> QED BY <1>1, <2>1, WritersValues DEF Pre, Apart, Track, Codes
<1> QED BY <1>1 DEF Clear

\* Nothing else reaches att between attention and the linear of its output.
LEMMA ClearAtt ==
  ASSUME Layers \in Nat, NEW l \in 0..Layers, NEW n, n \in {26, 28}
  PROVE  Clear(l, n, Att, l, 24)
<1>1. ASSUME NEW m, NEW j, Occurs(m, j), Writes(m, j, Att), ~(m = l /\ j = n), ~(m = l /\ j = 24)
      PROVE  ValueOf(m, j) = ValueOf(l, 24) \/ Pre(m, j, l, 24) \/ Pre(l, n, m, j)
  <2>1. m \in Int /\ j \in Codes
    BY <1>1, OccursCodes
  <2> QED BY <1>1, <2>1, WritersAtt DEF Pre, Apart, Track, Codes
<1> QED BY <1>1 DEF Clear

\* Nothing else reaches xb2 between the linear of attention and its addition.
LEMMA ClearXb21 ==
  ASSUME Layers \in Nat, NEW l \in 0..Layers, NEW n, n = 29
  PROVE  Clear(l, n, B("xb2"), l, 28)
<1>1. ASSUME NEW m, NEW j, Occurs(m, j), Writes(m, j, B("xb2")), ~(m = l /\ j = n), ~(m = l /\ j = 28)
      PROVE  ValueOf(m, j) = ValueOf(l, 28) \/ Pre(m, j, l, 28) \/ Pre(l, n, m, j)
  <2>1. m \in Int /\ j \in Codes
    BY <1>1, OccursCodes
  <2> QED BY <1>1, <2>1, WritersXb2 DEF Pre, Apart, Track, Codes
<1> QED BY <1>1 DEF Clear

\* Nothing else reaches xb2 between the linear of the feed-forward and its addition.
LEMMA ClearXb22 ==
  ASSUME Layers \in Nat, NEW l \in 0..Layers, NEW n, n = 45
  PROVE  Clear(l, n, B("xb2"), l, 44)
<1>1. ASSUME NEW m, NEW j, Occurs(m, j), Writes(m, j, B("xb2")), ~(m = l /\ j = n), ~(m = l /\ j = 44)
      PROVE  ValueOf(m, j) = ValueOf(l, 44) \/ Pre(m, j, l, 44) \/ Pre(l, n, m, j)
  <2>1. m \in Int /\ j \in Codes
    BY <1>1, OccursCodes
  <2> QED BY <1>1, <2>1, WritersXb2 DEF Pre, Apart, Track, Codes
<1> QED BY <1>1 DEF Clear

\* Nothing else reaches gate between its linear and the activation.
LEMMA ClearGate ==
  ASSUME Layers \in Nat, NEW l \in 0..Layers, NEW n, n = 40
  PROVE  Clear(l, n, B("gate"), l, 35)
<1>1. ASSUME NEW m, NEW j, Occurs(m, j), Writes(m, j, B("gate")), ~(m = l /\ j = n), ~(m = l /\ j = 35)
      PROVE  ValueOf(m, j) = ValueOf(l, 35) \/ Pre(m, j, l, 35) \/ Pre(l, n, m, j)
  <2>1. m \in Int /\ j \in Codes
    BY <1>1, OccursCodes
  <2> QED BY <1>1, <2>1, WritersGate DEF Pre, Apart, Track, Codes
<1> QED BY <1>1 DEF Clear

\* Nothing else reaches up between its linear and the activation.
LEMMA ClearUp ==
  ASSUME Layers \in Nat, NEW l \in 0..Layers, NEW n, n = 40
  PROVE  Clear(l, n, B("up"), l, 38)
<1>1. ASSUME NEW m, NEW j, Occurs(m, j), Writes(m, j, B("up")), ~(m = l /\ j = n), ~(m = l /\ j = 38)
      PROVE  ValueOf(m, j) = ValueOf(l, 38) \/ Pre(m, j, l, 38) \/ Pre(l, n, m, j)
  <2>1. m \in Int /\ j \in Codes
    BY <1>1, OccursCodes
  <2> QED BY <1>1, <2>1, WritersUp DEF Pre, Apart, Track, Codes
<1> QED BY <1>1 DEF Clear

\* Nothing else reaches inner between the activation and the last linear.
LEMMA ClearInner ==
  ASSUME Layers \in Nat, NEW l \in 0..Layers, NEW n, n \in {42, 44}
  PROVE  Clear(l, n, B("inner"), l, 40)
<1>1. ASSUME NEW m, NEW j, Occurs(m, j), Writes(m, j, B("inner")), ~(m = l /\ j = n), ~(m = l /\ j = 40)
      PROVE  ValueOf(m, j) = ValueOf(l, 40) \/ Pre(m, j, l, 40) \/ Pre(l, n, m, j)
  <2>1. m \in Int /\ j \in Codes
    BY <1>1, OccursCodes
  <2> QED BY <1>1, <2>1, WritersInner DEF Pre, Apart, Track, Codes
<1> QED BY <1>1 DEF Clear

\* Nothing else reaches the scratch between quantizing and the dots of the same linear.
LEMMA ClearScratch ==
  ASSUME Layers \in Nat, NEW l \in 0..Layers, NEW n, n \in Dots, Occurs(l, n), NEW b \in Scratch
  PROVE  Clear(l, n, b, l, n - 2)
<1>1. ASSUME NEW m, NEW j, Occurs(m, j), Writes(m, j, b), ~(m = l /\ j = n - 2)
      PROVE  ValueOf(m, j) = ValueOf(l, n - 2) \/ Pre(m, j, l, n - 2) \/ Pre(l, n, m, j)
  <2>1. m \in Int /\ j \in Quants
    BY <1>1, OccursCodes, WritersScratch
  <2>2. CASE m # l
    BY <2>1, <2>2 DEF Pre
  <2>3. CASE m = l
    <3>1. l = Layers => n = 4 /\ j = 2
      BY <1>1, <2>1, <2>3 DEF Occurs, Dots, Quants
    <3>2. CASE n \in {4, 8, 12} /\ j \in {2, 6, 10}
      <4>1. ValueOf(l, j) = ValueOf(l, n - 2)
        BY <1>1, <2>3, <3>1, <3>2 DEF ValueOf, NameOf
      <4> QED BY <2>3, <4>1
    <3>3. CASE n \in {35, 38} /\ j \in {33, 36}
      <4>1. ValueOf(l, j) = ValueOf(l, n - 2)
        BY <3>3 DEF ValueOf, NameOf
      <4> QED BY <2>3, <4>1
    <3>4. CASE ~(n \in {4, 8, 12} /\ j \in {2, 6, 10}) /\ ~(n \in {35, 38} /\ j \in {33, 36})
      BY <1>1, <2>1, <2>3, <3>4 DEF Pre, Apart, Track, Dots, Quants
    <3> QED BY <3>2, <3>3, <3>4
  <2> QED BY <2>2, <2>3
<1> QED BY <1>1 DEF Clear

-----------------------------------------------------------------------------
(* Programs that do the steps.                                             *)

\* The barriers of Metal, numbered between the steps they stand between ...
Fence(l, n) ==
  /\ Metal
  /\ \/ /\ l \in 0..Layers - 1
        /\ \/ n \in {1, 14, 23, 25, 30, 32, 39, 41, 46}
           \/ n - 1 \in Quants /\ Split(LinWeight(l, n - 1))
           \/ n = 18 /\ HasBias("bq", l)
     \/ l = Layers /\ (n = 1 \/ (n = 3 /\ Split(LinWeight(l, 2))))
\* ... and buffers they name.
FenceOuts(l, n) ==
  CASE n \in {1, 32} -> {Xb}
    [] n \in {3, 7, 11, 27, 34, 37, 43} -> {B("dx")}
    [] n \in {14, 18} -> {Q, Keys(l), Values(l)}
    [] n = 23 -> {Q, Keys(l)}
    [] n = 25 -> {Att}
    [] n \in {30, 46} -> {X}
    [] n = 39 -> {B("gate"), B("up")}
    [] n = 41 -> {B("inner")}

\* The operand of a linear.
From(l, n) ==
  CASE n \in {2, 4, 6, 8, 10, 12, 33, 35, 36, 38} -> Xb
    [] n \in {26, 28} -> Att
    [] n \in {42, 44} -> B("inner")

\* The fields of an operation.
OpIs(o, op, how, w, ins, outs, acc) ==
  o.op = op /\ o.how = how /\ o.w = w /\ o.ins = ins /\ o.outs = outs /\ o.acc = acc
\* The steps of a batched prefill that compute the last row only.
OnlyLast(l, n) == engine.name = "prefill" /\ base = 0 /\ l = Layers /\ n \in {2, 4}
\* The linears whose result is added to x, on the GPUs.
Adds(n) == n \in {28, 44} /\ ~Host
\* What the dots of a linear read.
Ins(l, n) ==
  IF ~Split(LinWeight(l, n)) THEN <<From(l, n)>>
  ELSE IF Dtype(LinWeight(l, n)) = "Q4_K" THEN <<B("dx"), B("qs"), B("bs")>> ELSE <<B("dx"), B("qs")>>

\* The operation of a step ...
IsAt(o, l, n) ==
  /\ n = 0 => OpIs(o, "norm", Norm, IF l = Layers THEN FinalNorm ELSE <<"attn_norm", l>>, <<X>>, {Xb}, FALSE)
  /\ n = 31 => OpIs(o, "norm", Norm, <<"ffn_norm", l>>, <<X>>, {Xb}, FALSE)
  /\ n \in Quants => /\ OpIs(o, "quant", None, None, <<From(l, n)>>, o.outs, FALSE)
                     /\ o.outs \in {Scratch, {B("dx"), B("qs")}}
                     /\ Dtype(LinWeight(l, n)) = "Q4_K" => o.outs = Scratch
  /\ n \in Dots => OpIs(o, IF Split(LinWeight(l, n)) THEN "dot" ELSE "linear", Product(LinWeight(l, n)),
                      LinWeight(l, n), Ins(l, n), {OutBuf(l, n)}, Adds(n))
  /\ n \in {5, 15} => OpIs(o, "bias", None, <<"attn_q.bias", l>>, <<Q>>, {Q}, FALSE)
  /\ n \in {9, 16} => OpIs(o, "bias", None, <<"attn_k.bias", l>>, <<KeysOf(l)>>, {KeysOf(l)}, FALSE)
  /\ n \in {13, 17} => OpIs(o, "bias", None, <<"attn_v.bias", l>>, <<ValuesOf(l)>>, {ValuesOf(l)}, FALSE)
  /\ n = 19 => OpIs(o, "copy", None, None, <<B("k")>>, {Keys(l)}, FALSE)
  /\ n = 20 => OpIs(o, "copy", None, None, <<B("v")>>, {Values(l)}, FALSE)
  /\ n = 21 => OpIs(o, "rope", Rotation, None, <<Q>>, {Q}, FALSE)
  /\ n = 22 => OpIs(o, "rope", Rotation, None, <<Keys(l)>>, {Keys(l)}, FALSE)
  /\ n = 24 => OpIs(o, "attention", None, None, <<Q, Keys(l), Values(l)>>, {Att}, FALSE)
  /\ n \in {29, 45} => OpIs(o, "add", None, None, <<X, B("xb2")>>, {X}, FALSE)
  /\ n = 40 => OpIs(o, "act", Act, None, <<B("gate"), B("up")>>, {B("inner")}, FALSE)
\* ... and the rows it runs on.
OpAt(o, l, n) == o.last = OnlyLast(l, n) /\ IsAt(o, l, n)

\* An operation that does step n of layer l, or a barrier that stands there.
LabelOK(o, l, n) ==
  IF Fenced(o) THEN Fence(l, n) /\ FenceOuts(l, n) \subseteq o.outs ELSE Occurs(l, n) /\ OpAt(o, l, n)

\* Order of the steps.
Earlier(s, t) == s[1] < t[1] \/ (s[1] = t[1] /\ s[2] < t[2])
\* The program does every step of the pass once, in order.
Labelled(p, lab) ==
  /\ \E h \in Nat : DOMAIN p = 1..h
  /\ \A k \in DOMAIN p : lab[k] \in Int \X Int /\ LabelOK(p[k], lab[k][1], lab[k][2])
  /\ \A i, k \in DOMAIN p : i < k => Earlier(lab[i], lab[k])
  /\ \A l, n : Occurs(l, n) \/ Fence(l, n) => \E k \in DOMAIN p : lab[k] = <<l, n>>
\* Its steps run after those that must come before them.
Chained(p, lab) ==
  \A x, k \in DOMAIN p : ~Fenced(p[x]) /\ ~Fenced(p[k]) /\ Pre(lab[x][1], lab[x][2], lab[k][1], lab[k][2])
    => Precedes(p, Metal, x, k)
\* The values the steps leave; place 0 is the embedding.
ValuesFrom(lab, p, val) == val[0] = <<"x", 0>> /\ \A k \in DOMAIN p : val[k] = ValueOf(lab[k][1], lab[k][2])

\* The table of OutBuf, row by row.
LEMMA OutBufIs ==
  ASSUME NEW l
  PROVE  /\ OutBuf(l, 0) = Xb /\ OutBuf(l, 31) = Xb /\ OutBuf(l, 5) = Q /\ OutBuf(l, 15) = Q
         /\ OutBuf(l, 21) = Q /\ OutBuf(l, 8) = KeysOf(l) /\ OutBuf(l, 9) = KeysOf(l)
         /\ OutBuf(l, 16) = KeysOf(l) /\ OutBuf(l, 12) = ValuesOf(l) /\ OutBuf(l, 13) = ValuesOf(l)
         /\ OutBuf(l, 17) = ValuesOf(l) /\ OutBuf(l, 19) = Keys(l) /\ OutBuf(l, 22) = Keys(l)
         /\ OutBuf(l, 20) = Values(l) /\ OutBuf(l, 24) = Att /\ OutBuf(l, 29) = X /\ OutBuf(l, 45) = X
         /\ OutBuf(l, 35) = B("gate") /\ OutBuf(l, 38) = B("up") /\ OutBuf(l, 40) = B("inner")
         /\ OutBuf(l, 28) = (IF Host THEN B("xb2") ELSE X) /\ OutBuf(l, 44) = (IF Host THEN B("xb2") ELSE X)
         /\ OutBuf(l, 4) = (IF l = Layers THEN B("logits") ELSE Q)
BY DEF OutBuf

\* An operation writes the buffers of its step.
LEMMA OutsWritten ==
  ASSUME Layers \in Nat, NEW o, NEW l, NEW n, Occurs(l, n), IsAt(o, l, n), NEW b \in o.outs
  PROVE  Writes(l, n, b)
<1>1. n \in Codes
  BY OccursCodes
<1>2. CASE n \in Quants
  BY <1>2 DEF IsAt, OpIs, Writes, Quants, Scratch
<1>3. CASE n \in Dots
  BY <1>3 DEF IsAt, OpIs, Writes, Quants, Dots
<1>4. CASE n \notin Quants /\ n \notin Dots
  <2>1. n \in {0, 31, 5, 15, 9, 16, 13, 17, 19, 20, 21, 22, 24, 29, 45, 40}
    BY <1>1, <1>4 DEF Codes, Quants, Dots
  <2>2. n \in {0} => o.outs = {OutBuf(l, n)}
    BY OutBufIs DEF IsAt, OpIs
  <2>3. n \in {31} => o.outs = {OutBuf(l, n)}
    BY OutBufIs DEF IsAt, OpIs
  <2>4. n \in {5, 15} => o.outs = {OutBuf(l, n)}
    BY OutBufIs DEF IsAt, OpIs
  <2>5. n \in {21} => o.outs = {OutBuf(l, n)}
    BY OutBufIs DEF IsAt, OpIs
  <2>6. n \in {9, 16} => o.outs = {OutBuf(l, n)}
    <3>1. n \in {9, 16} => o.outs = {KeysOf(l)}
      BY DEF IsAt, OpIs
    <3>2. n \in {9, 16} => OutBuf(l, n) = KeysOf(l)
      BY OutBufIs
    <3> QED BY <3>1, <3>2
  <2>7. n \in {13, 17} => o.outs = {OutBuf(l, n)}
    <3>1. n \in {13, 17} => o.outs = {ValuesOf(l)}
      BY DEF IsAt, OpIs
    <3>2. n \in {13, 17} => OutBuf(l, n) = ValuesOf(l)
      BY OutBufIs
    <3> QED BY <3>1, <3>2
  <2>8. n \in {19} => o.outs = {OutBuf(l, n)}
    BY OutBufIs DEF IsAt, OpIs
  <2>9. n \in {20} => o.outs = {OutBuf(l, n)}
    BY OutBufIs DEF IsAt, OpIs
  <2>10. n \in {22} => o.outs = {OutBuf(l, n)}
    BY OutBufIs DEF IsAt, OpIs
  <2>11. n \in {24} => o.outs = {OutBuf(l, n)}
    BY OutBufIs DEF IsAt, OpIs
  <2>12. n \in {29, 45} => o.outs = {OutBuf(l, n)}
    BY OutBufIs DEF IsAt, OpIs
  <2>13. n \in {40} => o.outs = {OutBuf(l, n)}
    BY OutBufIs DEF IsAt, OpIs
  <2> QED BY <1>4, <2>1, <2>2, <2>3, <2>4, <2>5, <2>6, <2>7, <2>8, <2>9, <2>10, <2>11, <2>12, <2>13 DEF Writes
<1> QED BY <1>2, <1>3, <1>4

\* The operation of a step is no barrier.
LEMMA NotFenced ==
  ASSUME Layers \in Nat, NEW o, NEW l, NEW n, Occurs(l, n), LabelOK(o, l, n)
  PROVE  ~Fenced(o) /\ OpAt(o, l, n)
<1>1. n \in Codes
  BY OccursCodes
<1>2. ~Fence(l, n)
  BY <1>1 DEF Fence, Codes, Quants
<1> QED BY <1>2 DEF LabelOK

\* A step is done once.
LEMMA LabelOnce ==
  ASSUME NEW p, NEW lab, Labelled(p, lab), NEW i \in DOMAIN p, NEW k \in DOMAIN p, lab[i] = lab[k]
  PROVE  i = k
<1>1. lab[i] \in Int \X Int /\ i \in Int /\ k \in Int
  BY DEF Labelled
<1>2. ~Earlier(lab[i], lab[k]) /\ ~Earlier(lab[k], lab[i])
  BY <1>1 DEF Earlier
<1> QED BY <1>1, <1>2 DEF Labelled

\* A step that leaves its result in a buffer nothing else reaches is what is read there.
LEMMA SourceAt ==
  ASSUME Layers \in Nat, NEW p, NEW lab, Labelled(p, lab), Chained(p, lab), NEW val, ValuesFrom(lab, p, val),
         NEW k \in DOMAIN p, ~Fenced(p[k]), NEW l, NEW n, lab[k] = <<l, n>>,
         NEW b, NEW l2, NEW n2, Clear(l, n, b, l2, n2), Pre(l2, n2, l, n),
         \/ l2 = -1 /\ b = X /\ ValueOf(l2, n2) = <<"x", 0>>
         \/ /\ Occurs(l2, n2) /\ (OnlyLast(l2, n2) => OnlyLast(l, n))
            /\ \A o : IsAt(o, l2, n2) => b \in o.outs
  PROVE  \E x : Source(p, Metal, val, b, x, k) /\ val[x] = ValueOf(l2, n2)
<1>0. \A j \in DOMAIN p : ~Fenced(p[j]) => Occurs(lab[j][1], lab[j][2]) /\ OpAt(p[j], lab[j][1], lab[j][2])
  BY DEF Labelled, LabelOK
<1>1. PICK h \in Nat : DOMAIN p = 1..h
  BY DEF Labelled
<1>2. ASSUME NEW x, val[x] = ValueOf(l2, n2), x = 0 \/ x \in DOMAIN p,
             \A j \in DOMAIN p : lab[j] = <<l2, n2>> => j = x,
             \A j \in DOMAIN p : ~Fenced(p[j]) /\ Pre(lab[j][1], lab[j][2], l2, n2) => Precedes(p, Metal, j, x)
      PROVE  Keeps(p, Metal, val, b, x, {k})
  <2>1. ASSUME NEW j \in DOMAIN p, j # x, ~Fenced(p[j]), b \in p[j].outs
        PROVE  val[j] = val[x] \/ Precedes(p, Metal, j, x) \/ Precedes(p, Metal, k, j)
    <3>1. PICK m, i : lab[j] = <<m, i>> /\ lab[j][1] = m /\ lab[j][2] = i
      BY DEF Labelled
    <3>2. Occurs(m, i) /\ IsAt(p[j], m, i)
      BY <1>0, <2>1, <3>1 DEF OpAt
    <3>3. Writes(m, i, b)
      BY <2>1, <3>2, OutsWritten
    <3>4. val[j] = ValueOf(m, i)
      BY <3>1 DEF ValuesFrom
    <3>5. \/ (m = l2 /\ i = n2) \/ (m = l /\ i = n)
          \/ ValueOf(m, i) = ValueOf(l2, n2) \/ Pre(m, i, l2, n2) \/ Pre(l, n, m, i)
      BY <3>2, <3>3 DEF Clear
    <3>6. CASE m = l2 /\ i = n2
      BY <1>2, <2>1, <3>1, <3>6
    <3>7. CASE m = l /\ i = n
      <4>1. j = k
        BY <3>1, <3>7, LabelOnce
      <4> QED BY <1>1, <4>1 DEF Precedes
    <3>8. CASE ValueOf(m, i) = ValueOf(l2, n2)
      BY <1>2, <3>4, <3>8
    <3>9. CASE Pre(m, i, l2, n2)
      BY <1>2, <2>1, <3>1, <3>9
    <3>10. CASE Pre(l, n, m, i)
      <4>1. lab[k][1] = l /\ lab[k][2] = n
        OBVIOUS
      <4> QED BY <2>1, <3>1, <3>10, <4>1 DEF Chained
    <3> QED BY <3>5, <3>6, <3>7, <3>8, <3>9, <3>10
  <2> QED BY <2>1 DEF Keeps
<1>3. CASE l2 = -1 /\ b = X /\ ValueOf(l2, n2) = <<"x", 0>>
  <2>1. \A j \in DOMAIN p : ~Fenced(p[j]) => lab[j][1] >= 0 /\ lab[j][1] \in Int
    BY <1>0, OccursCodes
  <2>2. \A j \in DOMAIN p : lab[j] = <<l2, n2>> => Fenced(p[j])
    BY <1>3, <2>1
  <2>3. \A j \in DOMAIN p : lab[j] # <<l2, n2>>
    <3>1. \A j \in DOMAIN p : Fenced(p[j]) => lab[j][1] \in 0..Layers
      BY DEF Labelled, LabelOK, Fence
    <3> QED BY <1>3, <2>1, <3>1
  <2>4. \A j \in DOMAIN p : ~Fenced(p[j]) => ~Pre(lab[j][1], lab[j][2], l2, n2)
    BY <1>3, <2>1 DEF Pre
  <2>5. val[0] = ValueOf(l2, n2)
    BY <1>3 DEF ValuesFrom
  <2>6. Keeps(p, Metal, val, b, 0, {k})
    BY <1>2, <2>3, <2>4, <2>5
  <2> QED BY <1>1, <1>3, <2>5, <2>6 DEF Source, OutsOf, Precedes
<1>4. CASE /\ Occurs(l2, n2) /\ (OnlyLast(l2, n2) => OnlyLast(l, n))
           /\ \A o : IsAt(o, l2, n2) => b \in o.outs
  <2>1. PICK x \in DOMAIN p : lab[x] = <<l2, n2>>
    BY <1>4 DEF Labelled
  <2>2. lab[x][1] = l2 /\ lab[x][2] = n2 /\ lab[k][1] = l /\ lab[k][2] = n
    BY <2>1
  <2>3. ~Fenced(p[x]) /\ OpAt(p[x], l2, n2)
    BY <1>4, <2>2, NotFenced DEF Labelled
  <2>4. Precedes(p, Metal, x, k)
    BY <2>2, <2>3 DEF Chained
  <2>5. val[x] = ValueOf(l2, n2)
    BY <2>2 DEF ValuesFrom
  <2>6. \A j \in DOMAIN p : lab[j] = <<l2, n2>> => j = x
    BY <2>1, LabelOnce
  <2>7. \A j \in DOMAIN p : ~Fenced(p[j]) /\ Pre(lab[j][1], lab[j][2], l2, n2) => Precedes(p, Metal, j, x)
    BY <2>2, <2>3 DEF Chained
  <2>8. Keeps(p, Metal, val, b, x, {k})
    BY <1>2, <2>5, <2>6, <2>7
  <2>9. x # k
    <3>1. OpAt(p[k], l, n) /\ l2 \in 0..Layers
      BY <1>0, <1>4, <2>2, OccursCodes
    <3>2. n2 \in Int
      BY <1>4, OccursCodes DEF Codes
    <3> QED BY <2>2, <3>1, <3>2 DEF Pre
  <2>10. p[x].last => p[k].last
    BY <1>0, <1>4, <2>2, <2>3 DEF OpAt
  <2>11. b \in OutsOf(p, x)
    BY <1>1, <1>4, <2>3 DEF OutsOf, OpAt
  <2> QED BY <2>3, <2>4, <2>5, <2>8, <2>9, <2>10, <2>11 DEF Source
<1> QED BY <1>3, <1>4

-----------------------------------------------------------------------------
(* What an operation is defined to make of its operands.                   *)

\* The definitions name one result for an operation, and it is this.
Defined(defs, op, how, w, ins, to) ==
  /\ <<op, how, w, ins, to>> \in defs
  /\ \A d \in defs : d[1] = op /\ d[2] = how /\ d[3] = w /\ d[4] = ins => d[5] = to

DefsOf(l) == IF l = Layers THEN FinalDefinitions ELSE Definitions(l)

\* The operands of Result, for one ...
LEMMA NamesOne ==
  ASSUME NEW x, NEW l, NEW q
  PROVE  LET vs == <<<<x, l, q>>>> IN
         /\ vs[1][2] = l /\ vs[1][1] = x /\ vs[1][3] = q
         /\ [k \in DOMAIN vs |-> vs[k][1]] = <<x>>
         /\ \A k \in DOMAIN vs : vs[k][2] = l /\ vs[k][3] = vs[1][3]
OBVIOUS

\* ... and for two.
LEMMA NamesTwo ==
  ASSUME NEW x, NEW y, NEW l, NEW q
  PROVE  LET vs == <<<<x, l, q>>, <<y, l, q>>>> IN
         /\ vs[1][2] = l /\ vs[1][1] = x /\ vs[1][3] = q
         /\ [k \in DOMAIN vs |-> vs[k][1]] = <<x, y>>
         /\ \A k \in DOMAIN vs : vs[k][2] = l /\ vs[k][3] = vs[1][3]
OBVIOUS

\* Result, where the operation is defined.
LEMMA ResultIs ==
  ASSUME NEW op, NEW how, NEW w, NEW vs, NEW ins, NEW to, NEW l, NEW q,
         vs[1][2] = l, vs[1][3] = q, [k \in DOMAIN vs |-> vs[k][1]] = ins,
         \A k \in DOMAIN vs : vs[k][2] = l /\ vs[k][3] = vs[1][3],
         Defined(DefsOf(l), op, how, w, ins, to)
  PROVE  Result(op, how, w, vs) = <<to, IF op = "add" /\ vs[1][1] = "y" THEN l + 1 ELSE l, q>>
<1> DEFINE of == {d \in DefsOf(l) : /\ d[1] = op /\ d[2] = how /\ d[3] = w
                                    /\ d[4] = [k \in DOMAIN vs |-> vs[k][1]]}
           e == CHOOSE d \in of : TRUE
           t == <<op, how, w, ins, to>>
<1>1. t \in of
  <2>1. t[1] = op /\ t[2] = how /\ t[3] = w /\ t[4] = ins
    OBVIOUS
  <2> QED BY <2>1 DEF Defined
<1>2. e \in of
  BY <1>1
<1>3. e[5] = to
  BY <1>2 DEF Defined
<1>4. ~\E k \in DOMAIN vs : vs[k][2] # l \/ vs[k][3] # vs[1][3]
  OBVIOUS
<1>5. Result(op, how, w, vs) =
        IF \E k \in DOMAIN vs : vs[k][2] # l \/ vs[k][3] # vs[1][3] THEN Junk
        ELSE IF of = {} THEN Junk
        ELSE <<e[5], IF op = "add" /\ vs[1][1] = "y" THEN l + 1 ELSE l, vs[1][3]>>
  BY DEF Result, DefsOf
<1> QED BY <1>1, <1>3, <1>4, <1>5

\* The definitions of a layer determine their results ...
LEMMA LayerDefined ==
  ASSUME NEW l, l # Layers
  PROVE  /\ Defined(DefsOf(l), "norm", Norm, <<"attn_norm", l>>, <<"x">>, "xn")
         /\ Defined(DefsOf(l), "linear", Product(<<"attn_q", l>>), <<"attn_q", l>>, <<"xn">>, Raw("bq", l))
         /\ Defined(DefsOf(l), "linear", Product(<<"attn_k", l>>), <<"attn_k", l>>, <<"xn">>, Raw("bk", l))
         /\ Defined(DefsOf(l), "linear", Product(<<"attn_v", l>>), <<"attn_v", l>>, <<"xn">>, Raw("bv", l))
         /\ Defined(DefsOf(l), "bias", None, <<"attn_q.bias", l>>, <<"q0">>, "q")
         /\ Defined(DefsOf(l), "bias", None, <<"attn_k.bias", l>>, <<"k0">>, "k")
         /\ Defined(DefsOf(l), "bias", None, <<"attn_v.bias", l>>, <<"v0">>, "v")
         /\ Defined(DefsOf(l), "rope", Rotation, None, <<"q">>, "qr")
         /\ Defined(DefsOf(l), "rope", Rotation, None, <<"k">>, "kr")
         /\ Defined(DefsOf(l), "linear", Product(<<"attn_output", l>>), <<"attn_output", l>>, <<"a">>, "o")
         /\ Defined(DefsOf(l), "add", None, None, <<"x", "o">>, "y")
         /\ Defined(DefsOf(l), "norm", Norm, <<"ffn_norm", l>>, <<"y">>, "yn")
         /\ Defined(DefsOf(l), "linear", Product(<<"ffn_gate", l>>), <<"ffn_gate", l>>, <<"yn">>, "g")
         /\ Defined(DefsOf(l), "linear", Product(<<"ffn_up", l>>), <<"ffn_up", l>>, <<"yn">>, "u")
         /\ Defined(DefsOf(l), "act", Act, None, <<"g", "u">>, "h")
         /\ Defined(DefsOf(l), "linear", Product(<<"ffn_down", l>>), <<"ffn_down", l>>, <<"h">>, "d")
         /\ Defined(DefsOf(l), "add", None, None, <<"y", "d">>, "x")
<1>0. DefsOf(l) = Definitions(l)
  BY DEF DefsOf
<1>1. Defined(Definitions(l), "norm", Norm, <<"attn_norm", l>>, <<"x">>, "xn")
  BY DEF Defined, Definitions, Linear, None
<1>2. Defined(Definitions(l), "linear", Product(<<"attn_q", l>>), <<"attn_q", l>>, <<"xn">>, Raw("bq", l))
  BY DEF Defined, Definitions, Linear, None
<1>3. Defined(Definitions(l), "linear", Product(<<"attn_k", l>>), <<"attn_k", l>>, <<"xn">>, Raw("bk", l))
  BY DEF Defined, Definitions, Linear, None
<1>4. Defined(Definitions(l), "linear", Product(<<"attn_v", l>>), <<"attn_v", l>>, <<"xn">>, Raw("bv", l))
  BY DEF Defined, Definitions, Linear, None
<1>5. Defined(Definitions(l), "bias", None, <<"attn_q.bias", l>>, <<"q0">>, "q")
  BY DEF Defined, Definitions, Linear, None
<1>6. Defined(Definitions(l), "bias", None, <<"attn_k.bias", l>>, <<"k0">>, "k")
  BY DEF Defined, Definitions, Linear, None
<1>7. Defined(Definitions(l), "bias", None, <<"attn_v.bias", l>>, <<"v0">>, "v")
  BY DEF Defined, Definitions, Linear, None
<1>8. Defined(Definitions(l), "rope", Rotation, None, <<"q">>, "qr")
  BY DEF Defined, Definitions, Linear, None
<1>9. Defined(Definitions(l), "rope", Rotation, None, <<"k">>, "kr")
  BY DEF Defined, Definitions, Linear, None
<1>10. Defined(Definitions(l), "linear", Product(<<"attn_output", l>>), <<"attn_output", l>>, <<"a">>, "o")
  BY DEF Defined, Definitions, Linear, None
<1>11. Defined(Definitions(l), "add", None, None, <<"x", "o">>, "y")
  BY DEF Defined, Definitions, Linear, None
<1>12. Defined(Definitions(l), "norm", Norm, <<"ffn_norm", l>>, <<"y">>, "yn")
  BY DEF Defined, Definitions, Linear, None
<1>13. Defined(Definitions(l), "linear", Product(<<"ffn_gate", l>>), <<"ffn_gate", l>>, <<"yn">>, "g")
  BY DEF Defined, Definitions, Linear, None
<1>14. Defined(Definitions(l), "linear", Product(<<"ffn_up", l>>), <<"ffn_up", l>>, <<"yn">>, "u")
  BY DEF Defined, Definitions, Linear, None
<1>15. Defined(Definitions(l), "act", Act, None, <<"g", "u">>, "h")
  BY DEF Defined, Definitions, Linear, None
<1>16. Defined(Definitions(l), "linear", Product(<<"ffn_down", l>>), <<"ffn_down", l>>, <<"h">>, "d")
  BY DEF Defined, Definitions, Linear, None
<1>17. Defined(Definitions(l), "add", None, None, <<"y", "d">>, "x")
  BY DEF Defined, Definitions, Linear, None
<1> QED BY <1>0, <1>1, <1>2, <1>3, <1>4, <1>5, <1>6, <1>7, <1>8, <1>9, <1>10, <1>11, <1>12, <1>13, <1>14, <1>15, <1>16, <1>17

\* ... and so do those after the last layer.
LEMMA FinalDefined ==
  /\ Defined(DefsOf(Layers), "norm", Norm, FinalNorm, <<"x">>, "f")
  /\ Defined(DefsOf(Layers), "linear", Product(Classifier), Classifier, <<"f">>, "logits")
BY DEF Defined, DefsOf, FinalDefinitions, Linear, FinalNorm

-----------------------------------------------------------------------------
(* What a step reads, and what it makes of it.                             *)

\* Operation k of a program that does the steps, in an order they allow, does step n of layer l.
AtStep(p, lab, val, k, l, n) ==
  /\ Layers \in Nat /\ Labelled(p, lab) /\ Chained(p, lab) /\ ValuesFrom(lab, p, val)
  /\ k \in DOMAIN p /\ ~Fenced(p[k]) /\ lab[k] = <<l, n>>
\* Operation k finds v in b.
ReadsAs(p, val, b, k, v) == b \in Buffers /\ \E x : Source(p, Metal, val, b, x, k) /\ v = val[x]

\* What a step of a labelled program is.
LEMMA StepIs ==
  ASSUME NEW p, NEW lab, NEW val, NEW k, NEW l, NEW n, AtStep(p, lab, val, k, l, n)
  PROVE  /\ Occurs(l, n) /\ OpAt(p[k], l, n) /\ IsAt(p[k], l, n) /\ val[k] = ValueOf(l, n)
         /\ l \in 0..Layers /\ n \in Codes /\ Layers \in Nat
<1>1. lab[k][1] = l /\ lab[k][2] = n
  BY DEF AtStep
<1>2. Occurs(l, n) /\ OpAt(p[k], l, n)
  BY <1>1 DEF AtStep, Labelled, LabelOK
<1>3. val[k] = ValueOf(l, n)
  BY <1>1 DEF AtStep, ValuesFrom
<1> QED BY <1>2, <1>3, OccursCodes DEF OpAt, AtStep

\* The names of the buffers.
LEMMA BufferNames ==
  /\ X \in Buffers /\ Xb \in Buffers /\ Q \in Buffers /\ Att \in Buffers /\ Scratch \subseteq Buffers
  /\ \A n \in {"k", "v", "xb2", "gate", "up", "inner", "logits"} : B(n) \in Buffers
  /\ \A l \in 0..Layers - 1 : Keys(l) \in Buffers /\ Values(l) \in Buffers
<1>1. \A n \in Temporaries : B(n) \in Buffers
  BY DEF Buffers, B
<1>2. X \in Buffers /\ Xb \in Buffers /\ Q \in Buffers /\ Att \in Buffers
  BY <1>1 DEF X, Xb, Q, Att, Temporaries
<1>3. Scratch \subseteq Buffers
  BY <1>1 DEF Scratch, Temporaries
<1>4. \A n \in {"k", "v", "xb2", "gate", "up", "inner", "logits"} : B(n) \in Buffers
  BY <1>1 DEF Temporaries
<1>5. \A l \in 0..Layers - 1 : Keys(l) \in Buffers /\ Values(l) \in Buffers
  BY DEF Buffers, Keys, Values, Caches
<1> QED BY <1>2, <1>3, <1>4, <1>5

\* Steps write buffers.
LEMMA WrittenBuffers ==
  ASSUME Layers \in Nat, NEW l, NEW n, Occurs(l, n), NEW b, Writes(l, n, b)
  PROVE  b \in Buffers
<1>1. l \in 0..Layers /\ n \in Codes
  BY OccursCodes
<1>2. CASE n \in Quants
  BY <1>2, BufferNames DEF Writes
<1>3. CASE n = 4
  BY <1>3, BufferNames, OutBufIs DEF Writes, Quants
<1>4. CASE n \notin Quants /\ n # 4
  <2>1. b = OutBuf(l, n)
    BY <1>4 DEF Writes
  <2>2. CASE n \in {0, 31, 5, 15, 21, 24, 28, 29, 44, 45, 35, 38, 40}
    BY <2>1, <2>2, BufferNames, OutBufIs
  <2>3. CASE n \in {8, 9, 16, 12, 13, 17, 19, 22, 20}
    <3>1. l \in 0..Layers - 1
      BY <1>1, <2>3 DEF Occurs
    <3>2. KeysOf(l) \in Buffers /\ ValuesOf(l) \in Buffers /\ Keys(l) \in Buffers /\ Values(l) \in Buffers
      BY <3>1, BufferNames DEF KeysOf, ValuesOf
    <3> HIDE DEF KeysOf, ValuesOf
    <3> QED BY <2>1, <2>3, <3>2, OutBufIs
  <2> QED BY <1>1, <1>4, <2>2, <2>3 DEF Codes, Quants
<1> QED BY <1>2, <1>3, <1>4

\* No step is defined as junk.
LEMMA NoJunkName ==
  ASSUME NEW l, NEW n \in Codes
  PROVE  ValueOf(l, n)[1] # "junk"
BY DEF Codes, ValueOf, NameOf, Raw

\* An operation is sound if it makes its result from what it reads.
LEMMA SoundBy ==
  ASSUME NEW p, NEW lab, NEW val, NEW k, NEW l, NEW n, AtStep(p, lab, val, k, l, n), NEW u,
         \A b \in Reads(p[k]) : ReadsAs(p, val, b, k, u[b]),
         Makes(p[k], u, ValueOf(l, n))
  PROVE  Sound(p, Metal, val, k)
<1>1. p[k].outs \subseteq Buffers
  BY StepIs, OutsWritten, WrittenBuffers
<1>2. val[k] = ValueOf(l, n) /\ val[k][1] # "junk"
  BY StepIs, NoJunkName
<1> QED BY <1>1, <1>2 DEF Sound, ReadsAs

\* What is read from a buffer nothing else reaches.
LEMMA ReadIs ==
  ASSUME NEW p, NEW lab, NEW val, NEW k, NEW l, NEW n, AtStep(p, lab, val, k, l, n),
         NEW b, NEW l2, NEW n2, Clear(l, n, b, l2, n2), Pre(l2, n2, l, n),
         Occurs(l2, n2), OnlyLast(l2, n2) => OnlyLast(l, n), \A o : IsAt(o, l2, n2) => b \in o.outs,
         NEW v, v = ValueOf(l2, n2)
  PROVE  ReadsAs(p, val, b, k, v)
<1>1. \E x : Source(p, Metal, val, b, x, k) /\ val[x] = ValueOf(l2, n2)
  BY SourceAt DEF AtStep
<1>2. b \in Buffers
  <2>1. PICK i \in DOMAIN p : lab[i] = <<l2, n2>>
    BY DEF AtStep, Labelled
  <2>2. OpAt(p[i], l2, n2) /\ Layers \in Nat
    BY <2>1, NotFenced DEF AtStep, Labelled
  <2>3. b \in p[i].outs
    BY <2>2 DEF OpAt
  <2> QED BY <2>2, <2>3, OutsWritten, WrittenBuffers DEF OpAt
<1> QED BY <1>1, <1>2 DEF ReadsAs
-----------------------------------------------------------------------------
\* An operation on one operand makes what its definition says.
LEMMA MakesOne ==
  ASSUME NEW o, NEW u, NEW b, NEW x, NEW j, NEW to, ~o.acc, o.ins = <<b>>, u[b] = <<x, j>>,
         o.op \notin {"quant", "copy", "dot", "attention", "add"},
         Defined(DefsOf(j), o.op, o.how, o.w, <<x>>, to)
  PROVE  Makes(o, u, <<to, j>>)
<1>1. ASSUME NEW q \in Nat
      PROVE  Result(o.op, o.how, o.w, [i \in DOMAIN o.ins |-> ValueAt(u[o.ins[i]], q)]) = ValueAt(<<to, j>>, q)
  <2> DEFINE vs == [i \in DOMAIN o.ins |-> ValueAt(u[o.ins[i]], q)]
  <2>1. vs = <<<<x, j, q>>>>
    BY DEF ValueAt
  <2> HIDE DEF vs
  <2>2. /\ vs[1][2] = j /\ vs[1][3] = q /\ [i \in DOMAIN vs |-> vs[i][1]] = <<x>>
        /\ \A i \in DOMAIN vs : vs[i][2] = j /\ vs[i][3] = vs[1][3]
    BY <2>1, NamesOne
  <2>3. Result(o.op, o.how, o.w, vs) = <<to, IF o.op = "add" /\ vs[1][1] = "y" THEN j + 1 ELSE j, q>>
    BY <2>2, ResultIs
  <2> QED BY <2>3 DEF ValueAt, vs
<1> QED BY <1>1 DEF Makes, MakesRaw

\* The result of an operation on two operands.
LEMMA ResultTwo ==
  ASSUME NEW op, NEW how, NEW w, NEW x, NEW y, NEW j, NEW to, NEW q,
         Defined(DefsOf(j), op, how, w, <<x, y>>, to)
  PROVE  Result(op, how, w, <<<<x, j, q>>, <<y, j, q>>>>) = <<to, IF op = "add" /\ x = "y" THEN j + 1 ELSE j, q>>
<1> DEFINE vs == <<<<x, j, q>>, <<y, j, q>>>>
<1>1. /\ vs[1][1] = x /\ vs[1][2] = j /\ vs[1][3] = q /\ [i \in DOMAIN vs |-> vs[i][1]] = <<x, y>>
      /\ \A i \in DOMAIN vs : vs[i][2] = j /\ vs[i][3] = vs[1][3]
  BY NamesTwo
<1> HIDE DEF vs
<1>2. Result(op, how, w, vs) = <<to, IF op = "add" /\ vs[1][1] = "y" THEN j + 1 ELSE j, q>>
  BY <1>1, ResultIs
<1> QED BY <1>1, <1>2 DEF vs

\* So does one on two.
LEMMA MakesTwo ==
  ASSUME NEW o, NEW u, NEW b, NEW c, NEW x, NEW y, NEW j, NEW to, ~o.acc, o.ins = <<b, c>>,
         u[b] = <<x, j>>, u[c] = <<y, j>>, o.op \in {"add", "act"},
         Defined(DefsOf(j), o.op, o.how, o.w, <<x, y>>, to)
  PROVE  Makes(o, u, <<to, IF o.op = "add" /\ x = "y" THEN j + 1 ELSE j>>)
<1> DEFINE v == <<to, IF o.op = "add" /\ x = "y" THEN j + 1 ELSE j>>
<1>1. ASSUME NEW q \in Nat
      PROVE  Result(o.op, o.how, o.w, [i \in DOMAIN o.ins |-> ValueAt(u[o.ins[i]], q)]) = ValueAt(v, q)
  <2>1. [i \in DOMAIN o.ins |-> ValueAt(u[o.ins[i]], q)] = <<<<x, j, q>>, <<y, j, q>>>>
    BY DEF ValueAt
  <2> QED BY <2>1, ResultTwo DEF ValueAt
<1> HIDE DEF v
<1>2. MakesRaw(o, u, v)
  BY <1>1 DEF MakesRaw
<1> QED BY <1>2 DEF Makes, v

\* A copy, and quantizing, make what they read.
LEMMA MakesCopy ==
  ASSUME NEW o, NEW u, NEW b, NEW v, ~o.acc, o.ins = <<b>>, u[b] = v, o.op \in {"quant", "copy"}
  PROVE  Makes(o, u, v)
BY DEF Makes, MakesRaw

\* A linear, in one operation or two.
LEMMA MakesLinear ==
  ASSUME NEW o, NEW u, NEW x, NEW j, NEW to, 1 \in DOMAIN o.ins,
         \A i \in DOMAIN o.ins : u[o.ins[i]] = <<x, j>>,
         o.op = "dot" \/ (o.op = "linear" /\ DOMAIN o.ins = {1}),
         Defined(DefsOf(j), "linear", o.how, o.w, <<x>>, to)
  PROVE  MakesRaw(o, u, <<to, j>>)
<1>1. ASSUME NEW q PROVE Result("linear", o.how, o.w, <<<<x, j, q>>>>) = <<to, j, q>>
  <2> DEFINE vs == <<<<x, j, q>>>>
  <2>1. /\ vs[1][2] = j /\ vs[1][3] = q /\ [i \in DOMAIN vs |-> vs[i][1]] = <<x>>
        /\ \A i \in DOMAIN vs : vs[i][2] = j /\ vs[i][3] = vs[1][3]
    BY NamesOne
  <2> HIDE DEF vs
  <2>2. PICK op : op = "linear"
    OBVIOUS
  <2>3. Defined(DefsOf(j), op, o.how, o.w, <<x>>, to)
    BY <2>2
  <2>4. Result(op, o.how, o.w, vs) = <<to, IF op = "add" /\ vs[1][1] = "y" THEN j + 1 ELSE j, q>>
    BY <2>1, <2>3, ResultIs
  <2> QED BY <2>2, <2>4 DEF vs
<1>2. CASE o.op = "dot"
  BY <1>1, <1>2, SMTT(40) DEF MakesRaw, ValueAt
<1>3. CASE o.op = "linear" /\ DOMAIN o.ins = {1}
  <2>1. ASSUME NEW q \in Nat
        PROVE  Result(o.op, o.how, o.w, [i \in DOMAIN o.ins |-> ValueAt(u[o.ins[i]], q)]) = ValueAt(<<to, j>>, q)
    <3>1. [i \in DOMAIN o.ins |-> ValueAt(u[o.ins[i]], q)] = <<<<x, j, q>>>>
      BY <1>3 DEF ValueAt
    <3> QED BY <1>1, <1>3, <3>1 DEF ValueAt
  <2> QED BY <1>3, <2>1 DEF MakesRaw
<1> QED BY <1>2, <1>3

\* The result of an addition.
LEMMA AddTwo ==
  ASSUME NEW x, NEW y, NEW j, NEW to, NEW q, Defined(DefsOf(j), "add", None, None, <<x, y>>, to)
  PROVE  Result("add", None, None, <<<<x, j, q>>, <<y, j, q>>>>) = <<to, IF x = "y" THEN j + 1 ELSE j, q>>
<1>1. ASSUME NEW op, NEW how, NEW w, Defined(DefsOf(j), op, how, w, <<x, y>>, to)
      PROVE  Result(op, how, w, <<<<x, j, q>>, <<y, j, q>>>>) = <<to, IF op = "add" /\ x = "y" THEN j + 1 ELSE j, q>>
  BY <1>1, ResultTwo
<1>2. Result("add", None, None, <<<<x, j, q>>, <<y, j, q>>>>) = <<to, IF "add" = "add" /\ x = "y" THEN j + 1 ELSE j, q>>
  BY <1>1
<1> QED BY <1>2

\* A value at a position.
LEMMA PairAt ==
  ASSUME NEW x, NEW j, NEW q
  PROVE  ValueAt(<<x, j>>, q) = <<x, j, q>>
BY DEF ValueAt

\* An operation that adds to its buffer makes a sum.
LEMMA MakesSum ==
  ASSUME NEW o, NEW u, NEW b, NEW x, NEW y, NEW j, NEW to, o.acc, o.outs = {b}, u[b] = <<x, j>>,
         MakesRaw(o, u, <<y, j>>), Defined(DefsOf(j), "add", None, None, <<x, y>>, to)
  PROVE  Makes(o, u, <<to, IF x = "y" THEN j + 1 ELSE j>>)
<1> DEFINE v == <<to, IF x = "y" THEN j + 1 ELSE j>>
<1>1. ASSUME NEW q PROVE Result("add", None, None, <<ValueAt(u[b], q), ValueAt(<<y, j>>, q)>>) = ValueAt(v, q)
  <2>1. Result("add", None, None, <<<<x, j, q>>, <<y, j, q>>>>) = <<to, IF x = "y" THEN j + 1 ELSE j, q>>
    BY AddTwo
  <2>2. ValueAt(u[b], q) = <<x, j, q>> /\ ValueAt(<<y, j>>, q) = <<y, j, q>>
    BY PairAt
  <2>3. ValueAt(v, q) = <<to, IF x = "y" THEN j + 1 ELSE j, q>>
    BY PairAt
  <2> QED BY <2>1, <2>2, <2>3
<1> HIDE DEF v
<1>2. Makes(o, u, v)
  BY <1>1 DEF Makes
<1> QED BY <1>2 DEF v

\* What the dots of a linear write.
LEMMA DotWrites ==
  ASSUME NEW o, NEW l, NEW n \in Dots, IsAt(o, l, n)
  PROVE  o.outs = {OutBuf(l, n)}
BY DEF IsAt, OpIs, Dots

\* When a step occurs.
LEMMA StepFacts ==
  ASSUME NEW l, NEW n, Occurs(l, n), Layers \in Nat
  PROVE  /\ n \notin {0, 2, 4} => l \in 0..Layers - 1 /\ l # Layers /\ l \in 0..Layers
         /\ n \in {5, 9, 13, 19, 20, 29, 45} => Host
         /\ n \in {15, 16, 17} => ~Host
         /\ n \in {5, 15} => HasBias("bq", l)
         /\ n \in {9, 16} => HasBias("bk", l)
         /\ n \in {13, 17} => HasBias("bv", l)
<1>1. /\ n \notin {0, 2, 4} => l \in 0..Layers - 1
      /\ n \in {5, 9, 13, 19, 20, 29, 45} => Host
  BY DEF Occurs, Quants
<1>2. l \in 0..Layers - 1 => l # Layers /\ l \in 0..Layers
  BY DEF Occurs
<1>3. n \in {15, 16, 17} => ~Host
  BY DEF Occurs, Quants
<1>4. /\ n \in {5, 15} => HasBias("bq", l)
      /\ n \in {9, 16} => HasBias("bk", l)
      /\ n \in {13, 17} => HasBias("bv", l)
  BY DEF Occurs, Quants
<1> QED BY <1>1, <1>2, <1>3, <1>4

\* A step that reads x: the sum with the output of attention.
LEMMA ReadX2 ==
  ASSUME NEW p, NEW lab, NEW val, NEW k, NEW l, NEW n, AtStep(p, lab, val, k, l, n), n \in {31, IF Host THEN 45 ELSE 44}
  PROVE  ReadsAs(p, val, X, k, <<"y", l>>)
<1>1. l \in 0..Layers /\ Layers \in Nat /\ Occurs(l, n) /\ n \in Codes
  BY StepIs
<1>0. /\ n \notin {0, 2, 4} => l \in 0..Layers - 1 /\ l # Layers
      /\ n \in {5, 9, 13, 19, 20, 29, 45} => Host
      /\ n \in {15, 16, 17} => ~Host
      /\ n \in {5, 15} => HasBias("bq", l)
      /\ n \in {9, 16} => HasBias("bk", l)
      /\ n \in {13, 17} => HasBias("bv", l)
  BY <1>1, StepFacts
<1>2. Clear(l, n, X, l, IF Host THEN 29 ELSE 28)
  BY <1>0, <1>1, ClearX2
<1>3. Occurs(l, IF Host THEN 29 ELSE 28)
  BY <1>0, <1>1 DEF Occurs, Quants
<1>4. Pre(l, IF Host THEN 29 ELSE 28, l, n) /\ (OnlyLast(l, IF Host THEN 29 ELSE 28) => OnlyLast(l, n))
  BY <1>0, <1>1 DEF Pre, Apart, Track, OnlyLast
<1>5. ASSUME NEW o, IsAt(o, l, IF Host THEN 29 ELSE 28) PROVE X \in o.outs
  <2>1. CASE Host
    <3>1. IsAt(o, l, 29)
      BY <1>5, <2>1
    <3>2. X \in o.outs
      BY <1>0, <2>1, <3>1, OutBufIs DEF IsAt, OpIs, KeysOf, ValuesOf
    <3> QED BY <3>2
  <2>2. CASE ~Host
    <3>1. IsAt(o, l, 28)
      BY <1>5, <2>2
    <3>2. X \in o.outs
      BY <1>0, <2>2, <3>1, OutBufIs, DotWrites DEF Dots, KeysOf, ValuesOf
    <3> QED BY <3>2
  <2> QED BY <2>1, <2>2
<1>6. <<"y", l>> = ValueOf(l, IF Host THEN 29 ELSE 28)
  BY <1>0, <1>1, <1>3 DEF ValueOf, NameOf, Raw
<1> QED BY <1>2, <1>3, <1>4, <1>5, <1>6, ReadIs

\* A step that reads xb: the normed vector.
LEMMA ReadXb1 ==
  ASSUME NEW p, NEW lab, NEW val, NEW k, NEW l, NEW n, AtStep(p, lab, val, k, l, n), n \in {2, 4, 6, 8, 10, 12}
  PROVE  ReadsAs(p, val, Xb, k, <<IF l = Layers THEN "f" ELSE "xn", l>>)
<1>1. l \in 0..Layers /\ Layers \in Nat /\ Occurs(l, n) /\ n \in Codes
  BY StepIs
<1>0. /\ n \notin {0, 2, 4} => l \in 0..Layers - 1 /\ l # Layers
      /\ n \in {5, 9, 13, 19, 20, 29, 45} => Host
      /\ n \in {15, 16, 17} => ~Host
      /\ n \in {5, 15} => HasBias("bq", l)
      /\ n \in {9, 16} => HasBias("bk", l)
      /\ n \in {13, 17} => HasBias("bv", l)
  BY <1>1, StepFacts
<1>2. Clear(l, n, Xb, l, 0)
  BY <1>0, <1>1, ClearXb1
<1>3. Occurs(l, 0)
  BY <1>0, <1>1 DEF Occurs, Quants
<1>4. Pre(l, 0, l, n) /\ (OnlyLast(l, 0) => OnlyLast(l, n))
  BY <1>0, <1>1 DEF Pre, Apart, Track, OnlyLast
<1>5. \A o : IsAt(o, l, 0) => Xb \in o.outs
  BY DEF IsAt, OpIs
<1>6. <<IF l = Layers THEN "f" ELSE "xn", l>> = ValueOf(l, 0)
  BY <1>0, <1>1, <1>3 DEF ValueOf, NameOf, Raw
<1> QED BY <1>2, <1>3, <1>4, <1>5, <1>6, ReadIs

\* A step that reads xb: the vector normed again.
LEMMA ReadXb2 ==
  ASSUME NEW p, NEW lab, NEW val, NEW k, NEW l, NEW n, AtStep(p, lab, val, k, l, n), n \in {33, 35, 36, 38}
  PROVE  ReadsAs(p, val, Xb, k, <<"yn", l>>)
<1>1. l \in 0..Layers /\ Layers \in Nat /\ Occurs(l, n) /\ n \in Codes
  BY StepIs
<1>0. /\ n \notin {0, 2, 4} => l \in 0..Layers - 1 /\ l # Layers
      /\ n \in {5, 9, 13, 19, 20, 29, 45} => Host
      /\ n \in {15, 16, 17} => ~Host
      /\ n \in {5, 15} => HasBias("bq", l)
      /\ n \in {9, 16} => HasBias("bk", l)
      /\ n \in {13, 17} => HasBias("bv", l)
  BY <1>1, StepFacts
<1>2. Clear(l, n, Xb, l, 31)
  BY <1>0, <1>1, ClearXb2
<1>3. Occurs(l, 31)
  BY <1>0, <1>1 DEF Occurs, Quants
<1>4. Pre(l, 31, l, n) /\ (OnlyLast(l, 31) => OnlyLast(l, n))
  BY <1>0, <1>1 DEF Pre, Apart, Track, OnlyLast
<1>5. \A o : IsAt(o, l, 31) => Xb \in o.outs
  BY DEF IsAt, OpIs
<1>6. <<"yn", l>> = ValueOf(l, 31)
  BY <1>0, <1>1, <1>3 DEF ValueOf, NameOf, Raw
<1> QED BY <1>2, <1>3, <1>4, <1>5, <1>6, ReadIs

\* A step that reads q before its bias.
LEMMA ReadQ1 ==
  ASSUME NEW p, NEW lab, NEW val, NEW k, NEW l, NEW n, AtStep(p, lab, val, k, l, n), n = (IF Host THEN 5 ELSE 15)
  PROVE  ReadsAs(p, val, Q, k, <<"q0", l>>)
<1>1. l \in 0..Layers /\ Layers \in Nat /\ Occurs(l, n) /\ n \in Codes
  BY StepIs
<1>0. /\ n \notin {0, 2, 4} => l \in 0..Layers - 1 /\ l # Layers
      /\ n \in {5, 9, 13, 19, 20, 29, 45} => Host
      /\ n \in {15, 16, 17} => ~Host
      /\ n \in {5, 15} => HasBias("bq", l)
      /\ n \in {9, 16} => HasBias("bk", l)
      /\ n \in {13, 17} => HasBias("bv", l)
  BY <1>1, StepFacts
<1>2. Clear(l, n, Q, l, 4)
  BY <1>0, <1>1, ClearQ1
<1>3. Occurs(l, 4)
  BY <1>0, <1>1 DEF Occurs, Quants
<1>4. Pre(l, 4, l, n) /\ (OnlyLast(l, 4) => OnlyLast(l, n))
  BY <1>0, <1>1 DEF Pre, Apart, Track, OnlyLast
<1>5. ASSUME NEW o, IsAt(o, l, 4) PROVE Q \in o.outs
  <2>1. CASE TRUE
    <3>1. IsAt(o, l, 4)
      BY <1>5, <2>1
    <3>2. Q \in o.outs
      BY <1>0, <2>1, <3>1, OutBufIs, DotWrites DEF Dots, KeysOf, ValuesOf
    <3> QED BY <3>2
  <2> QED BY <2>1
<1>6. <<"q0", l>> = ValueOf(l, 4)
  BY <1>0, <1>1, <1>3 DEF ValueOf, NameOf, Raw
<1> QED BY <1>2, <1>3, <1>4, <1>5, <1>6, ReadIs

\* A step that reads q before its rotation.
LEMMA ReadQ2 ==
  ASSUME NEW p, NEW lab, NEW val, NEW k, NEW l, NEW n, AtStep(p, lab, val, k, l, n), n = 21
  PROVE  ReadsAs(p, val, Q, k, <<"q", l>>)
<1>1. l \in 0..Layers /\ Layers \in Nat /\ Occurs(l, n) /\ n \in Codes
  BY StepIs
<1>0. /\ n \notin {0, 2, 4} => l \in 0..Layers - 1 /\ l # Layers
      /\ n \in {5, 9, 13, 19, 20, 29, 45} => Host
      /\ n \in {15, 16, 17} => ~Host
      /\ n \in {5, 15} => HasBias("bq", l)
      /\ n \in {9, 16} => HasBias("bk", l)
      /\ n \in {13, 17} => HasBias("bv", l)
  BY <1>1, StepFacts
<1>2. Clear(l, n, Q, l, IF ~HasBias("bq", l) THEN 4 ELSE IF Host THEN 5 ELSE 15)
  BY <1>0, <1>1, ClearQ2
<1>3. Occurs(l, IF ~HasBias("bq", l) THEN 4 ELSE IF Host THEN 5 ELSE 15)
  BY <1>0, <1>1 DEF Occurs, Quants
<1>4. Pre(l, IF ~HasBias("bq", l) THEN 4 ELSE IF Host THEN 5 ELSE 15, l, n) /\ (OnlyLast(l, IF ~HasBias("bq", l) THEN 4 ELSE IF Host THEN 5 ELSE 15) => OnlyLast(l, n))
  BY <1>0, <1>1 DEF Pre, Apart, Track, OnlyLast
<1>5. ASSUME NEW o, IsAt(o, l, IF ~HasBias("bq", l) THEN 4 ELSE IF Host THEN 5 ELSE 15) PROVE Q \in o.outs
  <2>1. CASE ~HasBias("bq", l)
    <3>1. IsAt(o, l, 4)
      BY <1>5, <2>1
    <3>2. Q \in o.outs
      BY <1>0, <2>1, <3>1, OutBufIs, DotWrites DEF Dots, KeysOf, ValuesOf
    <3> QED BY <3>2
  <2>2. CASE HasBias("bq", l) /\ Host
    <3>1. IsAt(o, l, 5)
      BY <1>5, <2>2
    <3>2. Q \in o.outs
      BY <1>0, <2>2, <3>1, OutBufIs DEF IsAt, OpIs, KeysOf, ValuesOf
    <3> QED BY <3>2
  <2>3. CASE HasBias("bq", l) /\ ~Host
    <3>1. IsAt(o, l, 15)
      BY <1>5, <2>3
    <3>2. Q \in o.outs
      BY <1>0, <2>3, <3>1, OutBufIs DEF IsAt, OpIs, KeysOf, ValuesOf
    <3> QED BY <3>2
  <2> QED BY <2>1, <2>2, <2>3
<1>6. <<"q", l>> = ValueOf(l, IF ~HasBias("bq", l) THEN 4 ELSE IF Host THEN 5 ELSE 15)
  BY <1>0, <1>1, <1>3 DEF ValueOf, NameOf, Raw
<1> QED BY <1>2, <1>3, <1>4, <1>5, <1>6, ReadIs

\* A step that reads q after it.
LEMMA ReadQ3 ==
  ASSUME NEW p, NEW lab, NEW val, NEW k, NEW l, NEW n, AtStep(p, lab, val, k, l, n), n = 24
  PROVE  ReadsAs(p, val, Q, k, <<"qr", l>>)
<1>1. l \in 0..Layers /\ Layers \in Nat /\ Occurs(l, n) /\ n \in Codes
  BY StepIs
<1>0. /\ n \notin {0, 2, 4} => l \in 0..Layers - 1 /\ l # Layers
      /\ n \in {5, 9, 13, 19, 20, 29, 45} => Host
      /\ n \in {15, 16, 17} => ~Host
      /\ n \in {5, 15} => HasBias("bq", l)
      /\ n \in {9, 16} => HasBias("bk", l)
      /\ n \in {13, 17} => HasBias("bv", l)
  BY <1>1, StepFacts
<1>2. Clear(l, n, Q, l, 21)
  BY <1>0, <1>1, ClearQ3
<1>3. Occurs(l, 21)
  BY <1>0, <1>1 DEF Occurs, Quants
<1>4. Pre(l, 21, l, n) /\ (OnlyLast(l, 21) => OnlyLast(l, n))
  BY <1>0, <1>1 DEF Pre, Apart, Track, OnlyLast
<1>5. \A o : IsAt(o, l, 21) => Q \in o.outs
  BY DEF IsAt, OpIs
<1>6. <<"qr", l>> = ValueOf(l, 21)
  BY <1>0, <1>1, <1>3 DEF ValueOf, NameOf, Raw
<1> QED BY <1>2, <1>3, <1>4, <1>5, <1>6, ReadIs

\* A step that reads k before its bias.
LEMMA ReadK1 ==
  ASSUME NEW p, NEW lab, NEW val, NEW k, NEW l, NEW n, AtStep(p, lab, val, k, l, n), n = 9
  PROVE  ReadsAs(p, val, B("k"), k, <<"k0", l>>)
<1>1. l \in 0..Layers /\ Layers \in Nat /\ Occurs(l, n) /\ n \in Codes
  BY StepIs
<1>0. /\ n \notin {0, 2, 4} => l \in 0..Layers - 1 /\ l # Layers
      /\ n \in {5, 9, 13, 19, 20, 29, 45} => Host
      /\ n \in {15, 16, 17} => ~Host
      /\ n \in {5, 15} => HasBias("bq", l)
      /\ n \in {9, 16} => HasBias("bk", l)
      /\ n \in {13, 17} => HasBias("bv", l)
  BY <1>1, StepFacts
<1>2. Clear(l, n, B("k"), l, 8)
  BY <1>0, <1>1, ClearK1
<1>3. Occurs(l, 8)
  BY <1>0, <1>1 DEF Occurs, Quants
<1>4. Pre(l, 8, l, n) /\ (OnlyLast(l, 8) => OnlyLast(l, n))
  BY <1>0, <1>1 DEF Pre, Apart, Track, OnlyLast
<1>5. ASSUME NEW o, IsAt(o, l, 8) PROVE B("k") \in o.outs
  <2>1. CASE TRUE
    <3>1. IsAt(o, l, 8)
      BY <1>5, <2>1
    <3>2. B("k") \in o.outs
      BY <1>0, <2>1, <3>1, OutBufIs, DotWrites DEF Dots, KeysOf, ValuesOf
    <3> QED BY <3>2
  <2> QED BY <2>1
<1>6. <<"k0", l>> = ValueOf(l, 8)
  BY <1>0, <1>1, <1>3 DEF ValueOf, NameOf, Raw
<1> QED BY <1>2, <1>3, <1>4, <1>5, <1>6, ReadIs

\* A step that reads k with its bias.
LEMMA ReadK2 ==
  ASSUME NEW p, NEW lab, NEW val, NEW k, NEW l, NEW n, AtStep(p, lab, val, k, l, n), n = 19
  PROVE  ReadsAs(p, val, B("k"), k, <<"k", l>>)
<1>1. l \in 0..Layers /\ Layers \in Nat /\ Occurs(l, n) /\ n \in Codes
  BY StepIs
<1>0. /\ n \notin {0, 2, 4} => l \in 0..Layers - 1 /\ l # Layers
      /\ n \in {5, 9, 13, 19, 20, 29, 45} => Host
      /\ n \in {15, 16, 17} => ~Host
      /\ n \in {5, 15} => HasBias("bq", l)
      /\ n \in {9, 16} => HasBias("bk", l)
      /\ n \in {13, 17} => HasBias("bv", l)
  BY <1>1, StepFacts
<1>2. Clear(l, n, B("k"), l, IF HasBias("bk", l) THEN 9 ELSE 8)
  BY <1>0, <1>1, ClearK2
<1>3. Occurs(l, IF HasBias("bk", l) THEN 9 ELSE 8)
  BY <1>0, <1>1 DEF Occurs, Quants
<1>4. Pre(l, IF HasBias("bk", l) THEN 9 ELSE 8, l, n) /\ (OnlyLast(l, IF HasBias("bk", l) THEN 9 ELSE 8) => OnlyLast(l, n))
  BY <1>0, <1>1 DEF Pre, Apart, Track, OnlyLast
<1>5. ASSUME NEW o, IsAt(o, l, IF HasBias("bk", l) THEN 9 ELSE 8) PROVE B("k") \in o.outs
  <2>1. CASE HasBias("bk", l)
    <3>1. IsAt(o, l, 9)
      BY <1>5, <2>1
    <3>2. B("k") \in o.outs
      BY <1>0, <2>1, <3>1, OutBufIs DEF IsAt, OpIs, KeysOf, ValuesOf
    <3> QED BY <3>2
  <2>2. CASE ~HasBias("bk", l)
    <3>1. IsAt(o, l, 8)
      BY <1>5, <2>2
    <3>2. B("k") \in o.outs
      BY <1>0, <2>2, <3>1, OutBufIs, DotWrites DEF Dots, KeysOf, ValuesOf
    <3> QED BY <3>2
  <2> QED BY <2>1, <2>2
<1>6. <<"k", l>> = ValueOf(l, IF HasBias("bk", l) THEN 9 ELSE 8)
  BY <1>0, <1>1, <1>3 DEF ValueOf, NameOf, Raw
<1> QED BY <1>2, <1>3, <1>4, <1>5, <1>6, ReadIs

\* A step that reads v before its bias.
LEMMA ReadV1 ==
  ASSUME NEW p, NEW lab, NEW val, NEW k, NEW l, NEW n, AtStep(p, lab, val, k, l, n), n = 13
  PROVE  ReadsAs(p, val, B("v"), k, <<"v0", l>>)
<1>1. l \in 0..Layers /\ Layers \in Nat /\ Occurs(l, n) /\ n \in Codes
  BY StepIs
<1>0. /\ n \notin {0, 2, 4} => l \in 0..Layers - 1 /\ l # Layers
      /\ n \in {5, 9, 13, 19, 20, 29, 45} => Host
      /\ n \in {15, 16, 17} => ~Host
      /\ n \in {5, 15} => HasBias("bq", l)
      /\ n \in {9, 16} => HasBias("bk", l)
      /\ n \in {13, 17} => HasBias("bv", l)
  BY <1>1, StepFacts
<1>2. Clear(l, n, B("v"), l, 12)
  BY <1>0, <1>1, ClearV1
<1>3. Occurs(l, 12)
  BY <1>0, <1>1 DEF Occurs, Quants
<1>4. Pre(l, 12, l, n) /\ (OnlyLast(l, 12) => OnlyLast(l, n))
  BY <1>0, <1>1 DEF Pre, Apart, Track, OnlyLast
<1>5. ASSUME NEW o, IsAt(o, l, 12) PROVE B("v") \in o.outs
  <2>1. CASE TRUE
    <3>1. IsAt(o, l, 12)
      BY <1>5, <2>1
    <3>2. B("v") \in o.outs
      BY <1>0, <2>1, <3>1, OutBufIs, DotWrites DEF Dots, KeysOf, ValuesOf
    <3> QED BY <3>2
  <2> QED BY <2>1
<1>6. <<"v0", l>> = ValueOf(l, 12)
  BY <1>0, <1>1, <1>3 DEF ValueOf, NameOf, Raw
<1> QED BY <1>2, <1>3, <1>4, <1>5, <1>6, ReadIs

\* A step that reads v with its bias.
LEMMA ReadV2 ==
  ASSUME NEW p, NEW lab, NEW val, NEW k, NEW l, NEW n, AtStep(p, lab, val, k, l, n), n = 20
  PROVE  ReadsAs(p, val, B("v"), k, <<"v", l>>)
<1>1. l \in 0..Layers /\ Layers \in Nat /\ Occurs(l, n) /\ n \in Codes
  BY StepIs
<1>0. /\ n \notin {0, 2, 4} => l \in 0..Layers - 1 /\ l # Layers
      /\ n \in {5, 9, 13, 19, 20, 29, 45} => Host
      /\ n \in {15, 16, 17} => ~Host
      /\ n \in {5, 15} => HasBias("bq", l)
      /\ n \in {9, 16} => HasBias("bk", l)
      /\ n \in {13, 17} => HasBias("bv", l)
  BY <1>1, StepFacts
<1>2. Clear(l, n, B("v"), l, IF HasBias("bv", l) THEN 13 ELSE 12)
  BY <1>0, <1>1, ClearV2
<1>3. Occurs(l, IF HasBias("bv", l) THEN 13 ELSE 12)
  BY <1>0, <1>1 DEF Occurs, Quants
<1>4. Pre(l, IF HasBias("bv", l) THEN 13 ELSE 12, l, n) /\ (OnlyLast(l, IF HasBias("bv", l) THEN 13 ELSE 12) => OnlyLast(l, n))
  BY <1>0, <1>1 DEF Pre, Apart, Track, OnlyLast
<1>5. ASSUME NEW o, IsAt(o, l, IF HasBias("bv", l) THEN 13 ELSE 12) PROVE B("v") \in o.outs
  <2>1. CASE HasBias("bv", l)
    <3>1. IsAt(o, l, 13)
      BY <1>5, <2>1
    <3>2. B("v") \in o.outs
      BY <1>0, <2>1, <3>1, OutBufIs DEF IsAt, OpIs, KeysOf, ValuesOf
    <3> QED BY <3>2
  <2>2. CASE ~HasBias("bv", l)
    <3>1. IsAt(o, l, 12)
      BY <1>5, <2>2
    <3>2. B("v") \in o.outs
      BY <1>0, <2>2, <3>1, OutBufIs, DotWrites DEF Dots, KeysOf, ValuesOf
    <3> QED BY <3>2
  <2> QED BY <2>1, <2>2
<1>6. <<"v", l>> = ValueOf(l, IF HasBias("bv", l) THEN 13 ELSE 12)
  BY <1>0, <1>1, <1>3 DEF ValueOf, NameOf, Raw
<1> QED BY <1>2, <1>3, <1>4, <1>5, <1>6, ReadIs

\* A step that reads the keys before their bias.
LEMMA ReadKeys1 ==
  ASSUME NEW p, NEW lab, NEW val, NEW k, NEW l, NEW n, AtStep(p, lab, val, k, l, n), n = 16
  PROVE  ReadsAs(p, val, Keys(l), k, <<"k0", l>>)
<1>1. l \in 0..Layers /\ Layers \in Nat /\ Occurs(l, n) /\ n \in Codes
  BY StepIs
<1>0. /\ n \notin {0, 2, 4} => l \in 0..Layers - 1 /\ l # Layers
      /\ n \in {5, 9, 13, 19, 20, 29, 45} => Host
      /\ n \in {15, 16, 17} => ~Host
      /\ n \in {5, 15} => HasBias("bq", l)
      /\ n \in {9, 16} => HasBias("bk", l)
      /\ n \in {13, 17} => HasBias("bv", l)
  BY <1>1, StepFacts
<1>2. Clear(l, n, Keys(l), l, 8)
  BY <1>0, <1>1, ClearKeys1
<1>3. Occurs(l, 8)
  BY <1>0, <1>1 DEF Occurs, Quants
<1>4. Pre(l, 8, l, n) /\ (OnlyLast(l, 8) => OnlyLast(l, n))
  BY <1>0, <1>1 DEF Pre, Apart, Track, OnlyLast
<1>5. ASSUME NEW o, IsAt(o, l, 8) PROVE Keys(l) \in o.outs
  <2>1. CASE TRUE
    <3>1. IsAt(o, l, 8)
      BY <1>5, <2>1
    <3>2. Keys(l) \in o.outs
      BY <1>0, <2>1, <3>1, OutBufIs, DotWrites DEF Dots, KeysOf, ValuesOf
    <3> QED BY <3>2
  <2> QED BY <2>1
<1>6. <<"k0", l>> = ValueOf(l, 8)
  BY <1>0, <1>1, <1>3 DEF ValueOf, NameOf, Raw
<1> QED BY <1>2, <1>3, <1>4, <1>5, <1>6, ReadIs

\* A step that reads the keys before their rotation.
LEMMA ReadKeys2 ==
  ASSUME NEW p, NEW lab, NEW val, NEW k, NEW l, NEW n, AtStep(p, lab, val, k, l, n), n = 22
  PROVE  ReadsAs(p, val, Keys(l), k, <<"k", l>>)
<1>1. l \in 0..Layers /\ Layers \in Nat /\ Occurs(l, n) /\ n \in Codes
  BY StepIs
<1>0. /\ n \notin {0, 2, 4} => l \in 0..Layers - 1 /\ l # Layers
      /\ n \in {5, 9, 13, 19, 20, 29, 45} => Host
      /\ n \in {15, 16, 17} => ~Host
      /\ n \in {5, 15} => HasBias("bq", l)
      /\ n \in {9, 16} => HasBias("bk", l)
      /\ n \in {13, 17} => HasBias("bv", l)
  BY <1>1, StepFacts
<1>2. Clear(l, n, Keys(l), l, IF Host THEN 19 ELSE IF HasBias("bk", l) THEN 16 ELSE 8)
  BY <1>0, <1>1, ClearKeys2
<1>3. Occurs(l, IF Host THEN 19 ELSE IF HasBias("bk", l) THEN 16 ELSE 8)
  BY <1>0, <1>1 DEF Occurs, Quants
<1>4. Pre(l, IF Host THEN 19 ELSE IF HasBias("bk", l) THEN 16 ELSE 8, l, n) /\ (OnlyLast(l, IF Host THEN 19 ELSE IF HasBias("bk", l) THEN 16 ELSE 8) => OnlyLast(l, n))
  BY <1>0, <1>1 DEF Pre, Apart, Track, OnlyLast
<1>5. ASSUME NEW o, IsAt(o, l, IF Host THEN 19 ELSE IF HasBias("bk", l) THEN 16 ELSE 8) PROVE Keys(l) \in o.outs
  <2>1. CASE Host
    <3>1. IsAt(o, l, 19)
      BY <1>5, <2>1
    <3>2. Keys(l) \in o.outs
      BY <1>0, <2>1, <3>1, OutBufIs DEF IsAt, OpIs, KeysOf, ValuesOf
    <3> QED BY <3>2
  <2>2. CASE ~Host /\ HasBias("bk", l)
    <3>1. IsAt(o, l, 16)
      BY <1>5, <2>2
    <3>2. Keys(l) \in o.outs
      BY <1>0, <2>2, <3>1, OutBufIs DEF IsAt, OpIs, KeysOf, ValuesOf
    <3> QED BY <3>2
  <2>3. CASE ~Host /\ ~HasBias("bk", l)
    <3>1. IsAt(o, l, 8)
      BY <1>5, <2>3
    <3>2. Keys(l) \in o.outs
      BY <1>0, <2>3, <3>1, OutBufIs, DotWrites DEF Dots, KeysOf, ValuesOf
    <3> QED BY <3>2
  <2> QED BY <2>1, <2>2, <2>3
<1>6. <<"k", l>> = ValueOf(l, IF Host THEN 19 ELSE IF HasBias("bk", l) THEN 16 ELSE 8)
  BY <1>0, <1>1, <1>3 DEF ValueOf, NameOf, Raw
<1> QED BY <1>2, <1>3, <1>4, <1>5, <1>6, ReadIs

\* A step that reads the keys after it.
LEMMA ReadKeys3 ==
  ASSUME NEW p, NEW lab, NEW val, NEW k, NEW l, NEW n, AtStep(p, lab, val, k, l, n), n = 24
  PROVE  ReadsAs(p, val, Keys(l), k, <<"kr", l>>)
<1>1. l \in 0..Layers /\ Layers \in Nat /\ Occurs(l, n) /\ n \in Codes
  BY StepIs
<1>0. /\ n \notin {0, 2, 4} => l \in 0..Layers - 1 /\ l # Layers
      /\ n \in {5, 9, 13, 19, 20, 29, 45} => Host
      /\ n \in {15, 16, 17} => ~Host
      /\ n \in {5, 15} => HasBias("bq", l)
      /\ n \in {9, 16} => HasBias("bk", l)
      /\ n \in {13, 17} => HasBias("bv", l)
  BY <1>1, StepFacts
<1>2. Clear(l, n, Keys(l), l, 22)
  BY <1>0, <1>1, ClearKeys3
<1>3. Occurs(l, 22)
  BY <1>0, <1>1 DEF Occurs, Quants
<1>4. Pre(l, 22, l, n) /\ (OnlyLast(l, 22) => OnlyLast(l, n))
  BY <1>0, <1>1 DEF Pre, Apart, Track, OnlyLast
<1>5. \A o : IsAt(o, l, 22) => Keys(l) \in o.outs
  BY DEF IsAt, OpIs
<1>6. <<"kr", l>> = ValueOf(l, 22)
  BY <1>0, <1>1, <1>3 DEF ValueOf, NameOf, Raw
<1> QED BY <1>2, <1>3, <1>4, <1>5, <1>6, ReadIs

\* A step that reads the values before their bias.
LEMMA ReadValues1 ==
  ASSUME NEW p, NEW lab, NEW val, NEW k, NEW l, NEW n, AtStep(p, lab, val, k, l, n), n = 17
  PROVE  ReadsAs(p, val, Values(l), k, <<"v0", l>>)
<1>1. l \in 0..Layers /\ Layers \in Nat /\ Occurs(l, n) /\ n \in Codes
  BY StepIs
<1>0. /\ n \notin {0, 2, 4} => l \in 0..Layers - 1 /\ l # Layers
      /\ n \in {5, 9, 13, 19, 20, 29, 45} => Host
      /\ n \in {15, 16, 17} => ~Host
      /\ n \in {5, 15} => HasBias("bq", l)
      /\ n \in {9, 16} => HasBias("bk", l)
      /\ n \in {13, 17} => HasBias("bv", l)
  BY <1>1, StepFacts
<1>2. Clear(l, n, Values(l), l, 12)
  BY <1>0, <1>1, ClearValues1
<1>3. Occurs(l, 12)
  BY <1>0, <1>1 DEF Occurs, Quants
<1>4. Pre(l, 12, l, n) /\ (OnlyLast(l, 12) => OnlyLast(l, n))
  BY <1>0, <1>1 DEF Pre, Apart, Track, OnlyLast
<1>5. ASSUME NEW o, IsAt(o, l, 12) PROVE Values(l) \in o.outs
  <2>1. CASE TRUE
    <3>1. IsAt(o, l, 12)
      BY <1>5, <2>1
    <3>2. Values(l) \in o.outs
      BY <1>0, <2>1, <3>1, OutBufIs, DotWrites DEF Dots, KeysOf, ValuesOf
    <3> QED BY <3>2
  <2> QED BY <2>1
<1>6. <<"v0", l>> = ValueOf(l, 12)
  BY <1>0, <1>1, <1>3 DEF ValueOf, NameOf, Raw
<1> QED BY <1>2, <1>3, <1>4, <1>5, <1>6, ReadIs

\* A step that reads the values with their bias.
LEMMA ReadValues2 ==
  ASSUME NEW p, NEW lab, NEW val, NEW k, NEW l, NEW n, AtStep(p, lab, val, k, l, n), n = 24
  PROVE  ReadsAs(p, val, Values(l), k, <<"v", l>>)
<1>1. l \in 0..Layers /\ Layers \in Nat /\ Occurs(l, n) /\ n \in Codes
  BY StepIs
<1>0. /\ n \notin {0, 2, 4} => l \in 0..Layers - 1 /\ l # Layers
      /\ n \in {5, 9, 13, 19, 20, 29, 45} => Host
      /\ n \in {15, 16, 17} => ~Host
      /\ n \in {5, 15} => HasBias("bq", l)
      /\ n \in {9, 16} => HasBias("bk", l)
      /\ n \in {13, 17} => HasBias("bv", l)
  BY <1>1, StepFacts
<1>2. Clear(l, n, Values(l), l, IF Host THEN 20 ELSE IF HasBias("bv", l) THEN 17 ELSE 12)
  BY <1>0, <1>1, ClearValues2
<1>3. Occurs(l, IF Host THEN 20 ELSE IF HasBias("bv", l) THEN 17 ELSE 12)
  BY <1>0, <1>1 DEF Occurs, Quants
<1>4. Pre(l, IF Host THEN 20 ELSE IF HasBias("bv", l) THEN 17 ELSE 12, l, n) /\ (OnlyLast(l, IF Host THEN 20 ELSE IF HasBias("bv", l) THEN 17 ELSE 12) => OnlyLast(l, n))
  BY <1>0, <1>1 DEF Pre, Apart, Track, OnlyLast
<1>5. ASSUME NEW o, IsAt(o, l, IF Host THEN 20 ELSE IF HasBias("bv", l) THEN 17 ELSE 12) PROVE Values(l) \in o.outs
  <2>1. CASE Host
    <3>1. IsAt(o, l, 20)
      BY <1>5, <2>1
    <3>2. Values(l) \in o.outs
      BY <1>0, <2>1, <3>1, OutBufIs DEF IsAt, OpIs, KeysOf, ValuesOf
    <3> QED BY <3>2
  <2>2. CASE ~Host /\ HasBias("bv", l)
    <3>1. IsAt(o, l, 17)
      BY <1>5, <2>2
    <3>2. Values(l) \in o.outs
      BY <1>0, <2>2, <3>1, OutBufIs DEF IsAt, OpIs, KeysOf, ValuesOf
    <3> QED BY <3>2
  <2>3. CASE ~Host /\ ~HasBias("bv", l)
    <3>1. IsAt(o, l, 12)
      BY <1>5, <2>3
    <3>2. Values(l) \in o.outs
      BY <1>0, <2>3, <3>1, OutBufIs, DotWrites DEF Dots, KeysOf, ValuesOf
    <3> QED BY <3>2
  <2> QED BY <2>1, <2>2, <2>3
<1>6. <<"v", l>> = ValueOf(l, IF Host THEN 20 ELSE IF HasBias("bv", l) THEN 17 ELSE 12)
  BY <1>0, <1>1, <1>3 DEF ValueOf, NameOf, Raw
<1> QED BY <1>2, <1>3, <1>4, <1>5, <1>6, ReadIs

\* A step that reads att: the output of attention.
LEMMA ReadAtt ==
  ASSUME NEW p, NEW lab, NEW val, NEW k, NEW l, NEW n, AtStep(p, lab, val, k, l, n), n \in {26, 28}
  PROVE  ReadsAs(p, val, Att, k, <<"a", l>>)
<1>1. l \in 0..Layers /\ Layers \in Nat /\ Occurs(l, n) /\ n \in Codes
  BY StepIs
<1>0. /\ n \notin {0, 2, 4} => l \in 0..Layers - 1 /\ l # Layers
      /\ n \in {5, 9, 13, 19, 20, 29, 45} => Host
      /\ n \in {15, 16, 17} => ~Host
      /\ n \in {5, 15} => HasBias("bq", l)
      /\ n \in {9, 16} => HasBias("bk", l)
      /\ n \in {13, 17} => HasBias("bv", l)
  BY <1>1, StepFacts
<1>2. Clear(l, n, Att, l, 24)
  BY <1>0, <1>1, ClearAtt
<1>3. Occurs(l, 24)
  BY <1>0, <1>1 DEF Occurs, Quants
<1>4. Pre(l, 24, l, n) /\ (OnlyLast(l, 24) => OnlyLast(l, n))
  BY <1>0, <1>1 DEF Pre, Apart, Track, OnlyLast
<1>5. \A o : IsAt(o, l, 24) => Att \in o.outs
  BY DEF IsAt, OpIs
<1>6. <<"a", l>> = ValueOf(l, 24)
  BY <1>0, <1>1, <1>3 DEF ValueOf, NameOf, Raw
<1> QED BY <1>2, <1>3, <1>4, <1>5, <1>6, ReadIs

\* A step that reads xb2: the output of the linear of attention.
LEMMA ReadXb21 ==
  ASSUME NEW p, NEW lab, NEW val, NEW k, NEW l, NEW n, AtStep(p, lab, val, k, l, n), n = 29
  PROVE  ReadsAs(p, val, B("xb2"), k, <<"o", l>>)
<1>1. l \in 0..Layers /\ Layers \in Nat /\ Occurs(l, n) /\ n \in Codes
  BY StepIs
<1>0. /\ n \notin {0, 2, 4} => l \in 0..Layers - 1 /\ l # Layers
      /\ n \in {5, 9, 13, 19, 20, 29, 45} => Host
      /\ n \in {15, 16, 17} => ~Host
      /\ n \in {5, 15} => HasBias("bq", l)
      /\ n \in {9, 16} => HasBias("bk", l)
      /\ n \in {13, 17} => HasBias("bv", l)
  BY <1>1, StepFacts
<1>2. Clear(l, n, B("xb2"), l, 28)
  BY <1>0, <1>1, ClearXb21
<1>3. Occurs(l, 28)
  BY <1>0, <1>1 DEF Occurs, Quants
<1>4. Pre(l, 28, l, n) /\ (OnlyLast(l, 28) => OnlyLast(l, n))
  BY <1>0, <1>1 DEF Pre, Apart, Track, OnlyLast
<1>5. ASSUME NEW o, IsAt(o, l, 28) PROVE B("xb2") \in o.outs
  <2>1. CASE TRUE
    <3>1. IsAt(o, l, 28)
      BY <1>5, <2>1
    <3>2. B("xb2") \in o.outs
      BY <1>0, <2>1, <3>1, OutBufIs, DotWrites DEF Dots, KeysOf, ValuesOf
    <3> QED BY <3>2
  <2> QED BY <2>1
<1>6. <<"o", l>> = ValueOf(l, 28)
  BY <1>0, <1>1, <1>3 DEF ValueOf, NameOf, Raw
<1> QED BY <1>2, <1>3, <1>4, <1>5, <1>6, ReadIs

\* A step that reads xb2: that of the feed-forward.
LEMMA ReadXb22 ==
  ASSUME NEW p, NEW lab, NEW val, NEW k, NEW l, NEW n, AtStep(p, lab, val, k, l, n), n = 45
  PROVE  ReadsAs(p, val, B("xb2"), k, <<"d", l>>)
<1>1. l \in 0..Layers /\ Layers \in Nat /\ Occurs(l, n) /\ n \in Codes
  BY StepIs
<1>0. /\ n \notin {0, 2, 4} => l \in 0..Layers - 1 /\ l # Layers
      /\ n \in {5, 9, 13, 19, 20, 29, 45} => Host
      /\ n \in {15, 16, 17} => ~Host
      /\ n \in {5, 15} => HasBias("bq", l)
      /\ n \in {9, 16} => HasBias("bk", l)
      /\ n \in {13, 17} => HasBias("bv", l)
  BY <1>1, StepFacts
<1>2. Clear(l, n, B("xb2"), l, 44)
  BY <1>0, <1>1, ClearXb22
<1>3. Occurs(l, 44)
  BY <1>0, <1>1 DEF Occurs, Quants
<1>4. Pre(l, 44, l, n) /\ (OnlyLast(l, 44) => OnlyLast(l, n))
  BY <1>0, <1>1 DEF Pre, Apart, Track, OnlyLast
<1>5. ASSUME NEW o, IsAt(o, l, 44) PROVE B("xb2") \in o.outs
  <2>1. CASE TRUE
    <3>1. IsAt(o, l, 44)
      BY <1>5, <2>1
    <3>2. B("xb2") \in o.outs
      BY <1>0, <2>1, <3>1, OutBufIs, DotWrites DEF Dots, KeysOf, ValuesOf
    <3> QED BY <3>2
  <2> QED BY <2>1
<1>6. <<"d", l>> = ValueOf(l, 44)
  BY <1>0, <1>1, <1>3 DEF ValueOf, NameOf, Raw
<1> QED BY <1>2, <1>3, <1>4, <1>5, <1>6, ReadIs

\* A step that reads gate.
LEMMA ReadGate ==
  ASSUME NEW p, NEW lab, NEW val, NEW k, NEW l, NEW n, AtStep(p, lab, val, k, l, n), n = 40
  PROVE  ReadsAs(p, val, B("gate"), k, <<"g", l>>)
<1>1. l \in 0..Layers /\ Layers \in Nat /\ Occurs(l, n) /\ n \in Codes
  BY StepIs
<1>0. /\ n \notin {0, 2, 4} => l \in 0..Layers - 1 /\ l # Layers
      /\ n \in {5, 9, 13, 19, 20, 29, 45} => Host
      /\ n \in {15, 16, 17} => ~Host
      /\ n \in {5, 15} => HasBias("bq", l)
      /\ n \in {9, 16} => HasBias("bk", l)
      /\ n \in {13, 17} => HasBias("bv", l)
  BY <1>1, StepFacts
<1>2. Clear(l, n, B("gate"), l, 35)
  BY <1>0, <1>1, ClearGate
<1>3. Occurs(l, 35)
  BY <1>0, <1>1 DEF Occurs, Quants
<1>4. Pre(l, 35, l, n) /\ (OnlyLast(l, 35) => OnlyLast(l, n))
  BY <1>0, <1>1 DEF Pre, Apart, Track, OnlyLast
<1>5. ASSUME NEW o, IsAt(o, l, 35) PROVE B("gate") \in o.outs
  <2>1. CASE TRUE
    <3>1. IsAt(o, l, 35)
      BY <1>5, <2>1
    <3>2. B("gate") \in o.outs
      BY <1>0, <2>1, <3>1, OutBufIs, DotWrites DEF Dots, KeysOf, ValuesOf
    <3> QED BY <3>2
  <2> QED BY <2>1
<1>6. <<"g", l>> = ValueOf(l, 35)
  BY <1>0, <1>1, <1>3 DEF ValueOf, NameOf, Raw
<1> QED BY <1>2, <1>3, <1>4, <1>5, <1>6, ReadIs

\* A step that reads up.
LEMMA ReadUp ==
  ASSUME NEW p, NEW lab, NEW val, NEW k, NEW l, NEW n, AtStep(p, lab, val, k, l, n), n = 40
  PROVE  ReadsAs(p, val, B("up"), k, <<"u", l>>)
<1>1. l \in 0..Layers /\ Layers \in Nat /\ Occurs(l, n) /\ n \in Codes
  BY StepIs
<1>0. /\ n \notin {0, 2, 4} => l \in 0..Layers - 1 /\ l # Layers
      /\ n \in {5, 9, 13, 19, 20, 29, 45} => Host
      /\ n \in {15, 16, 17} => ~Host
      /\ n \in {5, 15} => HasBias("bq", l)
      /\ n \in {9, 16} => HasBias("bk", l)
      /\ n \in {13, 17} => HasBias("bv", l)
  BY <1>1, StepFacts
<1>2. Clear(l, n, B("up"), l, 38)
  BY <1>0, <1>1, ClearUp
<1>3. Occurs(l, 38)
  BY <1>0, <1>1 DEF Occurs, Quants
<1>4. Pre(l, 38, l, n) /\ (OnlyLast(l, 38) => OnlyLast(l, n))
  BY <1>0, <1>1 DEF Pre, Apart, Track, OnlyLast
<1>5. ASSUME NEW o, IsAt(o, l, 38) PROVE B("up") \in o.outs
  <2>1. CASE TRUE
    <3>1. IsAt(o, l, 38)
      BY <1>5, <2>1
    <3>2. B("up") \in o.outs
      BY <1>0, <2>1, <3>1, OutBufIs, DotWrites DEF Dots, KeysOf, ValuesOf
    <3> QED BY <3>2
  <2> QED BY <2>1
<1>6. <<"u", l>> = ValueOf(l, 38)
  BY <1>0, <1>1, <1>3 DEF ValueOf, NameOf, Raw
<1> QED BY <1>2, <1>3, <1>4, <1>5, <1>6, ReadIs

\* A step that reads inner: the activation.
LEMMA ReadInner ==
  ASSUME NEW p, NEW lab, NEW val, NEW k, NEW l, NEW n, AtStep(p, lab, val, k, l, n), n \in {42, 44}
  PROVE  ReadsAs(p, val, B("inner"), k, <<"h", l>>)
<1>1. l \in 0..Layers /\ Layers \in Nat /\ Occurs(l, n) /\ n \in Codes
  BY StepIs
<1>0. /\ n \notin {0, 2, 4} => l \in 0..Layers - 1 /\ l # Layers
      /\ n \in {5, 9, 13, 19, 20, 29, 45} => Host
      /\ n \in {15, 16, 17} => ~Host
      /\ n \in {5, 15} => HasBias("bq", l)
      /\ n \in {9, 16} => HasBias("bk", l)
      /\ n \in {13, 17} => HasBias("bv", l)
  BY <1>1, StepFacts
<1>2. Clear(l, n, B("inner"), l, 40)
  BY <1>0, <1>1, ClearInner
<1>3. Occurs(l, 40)
  BY <1>0, <1>1 DEF Occurs, Quants
<1>4. Pre(l, 40, l, n) /\ (OnlyLast(l, 40) => OnlyLast(l, n))
  BY <1>0, <1>1 DEF Pre, Apart, Track, OnlyLast
<1>5. \A o : IsAt(o, l, 40) => B("inner") \in o.outs
  BY DEF IsAt, OpIs
<1>6. <<"h", l>> = ValueOf(l, 40)
  BY <1>0, <1>1, <1>3 DEF ValueOf, NameOf, Raw
<1> QED BY <1>2, <1>3, <1>4, <1>5, <1>6, ReadIs

\* A step that reads x: what the previous layer left.
LEMMA ReadX1 ==
  ASSUME NEW p, NEW lab, NEW val, NEW k, NEW l, NEW n, AtStep(p, lab, val, k, l, n), n \in {0, IF Host THEN 29 ELSE 28}
  PROVE  ReadsAs(p, val, X, k, <<"x", l>>)
<1> DEFINE i == IF Host THEN 45 ELSE 44
<1>1. l \in 0..Layers /\ Layers \in Nat /\ Occurs(l, n) /\ n \in Codes
  BY StepIs
<1>2. Clear(l, n, X, l - 1, i)
  BY <1>1, ClearX1
<1>3. Pre(l - 1, i, l, n) /\ (OnlyLast(l - 1, i) => OnlyLast(l, n))
  BY <1>1 DEF Pre, Apart, Track, OnlyLast
<1>4. <<"x", l>> = ValueOf(l - 1, i)
  BY <1>1 DEF ValueOf, NameOf
<1>5. CASE l = 0
  <2>1. l - 1 = -1
    BY <1>5
  <2>2. \E x : Source(p, Metal, val, X, x, k) /\ val[x] = ValueOf(l - 1, i)
    BY <1>2, <1>3, <1>4, <1>5, <2>1, SourceAt DEF AtStep
  <2> QED BY <1>4, <2>2, BufferNames DEF ReadsAs
<1>6. CASE l # 0
  <2>1. Occurs(l - 1, i)
    BY <1>1, <1>6 DEF Occurs
  <2>2. ASSUME NEW o, IsAt(o, l - 1, i) PROVE X \in o.outs
    <3>1. CASE Host
      BY <2>2, <3>1 DEF IsAt, OpIs
    <3>2. CASE ~Host
      BY <2>2, <3>2, DotWrites, OutBufIs DEF Dots
    <3> QED BY <3>1, <3>2
  <2> QED BY <1>2, <1>3, <1>4, <2>1, <2>2, ReadIs
<1> QED BY <1>5, <1>6

\* Quantizing is for the weight of the dots.
LEMMA WeightTwo ==
  ASSUME NEW l, NEW n \in Dots
  PROVE  LinWeight(l, n - 2) = LinWeight(l, n)
BY DEF LinWeight, Dots

\* A step that reads the scratch: the operand of the same linear, quantized.
LEMMA ReadScratch ==
  ASSUME NEW p, NEW lab, NEW val, NEW k, NEW l, NEW n, AtStep(p, lab, val, k, l, n), n \in Dots,
         Split(LinWeight(l, n)), NEW b \in Scratch, b \in {B("dx"), B("qs")} \/ Dtype(LinWeight(l, n)) = "Q4_K"
  PROVE  ReadsAs(p, val, b, k, ValueOf(l, n - 2))
<1>1. l \in 0..Layers /\ Layers \in Nat /\ Occurs(l, n) /\ n \in Codes
  BY StepIs
<1>2. Clear(l, n, b, l, n - 2)
  BY <1>1, ClearScratch
<1>3. LinWeight(l, n - 2) = LinWeight(l, n)
  BY WeightTwo
<1>4. n - 2 \in Quants
  BY DEF Dots, Quants
<1>5. Occurs(l, n - 2)
  <2>1. CASE l = Layers
    <3>1. n = 4
      BY <1>1, <2>1 DEF Occurs, Dots
    <3> QED BY <1>3, <2>1, <3>1 DEF Occurs
  <2>2. CASE l # Layers
    BY <1>1, <1>3, <1>4, <2>2 DEF Occurs
  <2> QED BY <2>1, <2>2
<1>6. Pre(l, n - 2, l, n) /\ (OnlyLast(l, n - 2) => OnlyLast(l, n))
  BY <1>1, <1>4 DEF Pre, Apart, Track, OnlyLast, Dots, Quants
<1>7. ASSUME NEW o, IsAt(o, l, n - 2) PROVE b \in o.outs
  <2>1. o.outs \in {Scratch, {B("dx"), B("qs")}} /\ (Dtype(LinWeight(l, n - 2)) = "Q4_K" => o.outs = Scratch)
    BY <1>4, <1>7 DEF IsAt
  <2> QED BY <1>3, <2>1
<1> QED BY <1>2, <1>5, <1>6, <1>7, ReadIs
-----------------------------------------------------------------------------
\* Soundness of an operation on one operand ...
LEMMA SoundOne ==
  ASSUME NEW p, NEW lab, NEW val, NEW k, NEW l, NEW n, AtStep(p, lab, val, k, l, n),
         NEW b, NEW op, NEW how, NEW w, NEW outs, NEW x, NEW to, OpIs(p[k], op, how, w, <<b>>, outs, FALSE),
         ReadsAs(p, val, b, k, <<x, l>>), op \in {"norm", "linear", "bias", "rope"},
         Defined(DefsOf(l), op, how, w, <<x>>, to), ValueOf(l, n) = <<to, l>>
  PROVE  Sound(p, Metal, val, k)
<1> DEFINE u == [c \in {b} |-> <<x, l>>]
           o == p[k]
<1>1. o.op = op /\ o.how = how /\ o.w = w /\ o.ins = <<b>> /\ ~o.acc
  BY DEF OpIs
<1>2. Reads(o) = {b} /\ u[b] = <<x, l>>
  BY <1>1 DEF Reads
<1> HIDE DEF u, o
<1>3. Makes(o, u, <<to, l>>)
  BY <1>1, <1>2, MakesOne
<1>4. \A c \in Reads(o) : ReadsAs(p, val, c, k, u[c])
  BY <1>2
<1> QED BY <1>3, <1>4, SoundBy DEF o

\* ... of a copy ...
LEMMA SoundCopy ==
  ASSUME NEW p, NEW lab, NEW val, NEW k, NEW l, NEW n, AtStep(p, lab, val, k, l, n),
         NEW b, NEW op, NEW outs, OpIs(p[k], op, None, None, <<b>>, outs, FALSE),
         ReadsAs(p, val, b, k, ValueOf(l, n)), op \in {"quant", "copy"}
  PROVE  Sound(p, Metal, val, k)
<1> DEFINE v == ValueOf(l, n)
           u == [c \in {b} |-> v]
           o == p[k]
<1>1. o.op = op /\ o.ins = <<b>> /\ ~o.acc
  BY DEF OpIs
<1>2. Reads(o) = {b} /\ u[b] = v
  BY <1>1 DEF Reads
<1> HIDE DEF u, o, v
<1>3. Makes(o, u, v)
  BY <1>1, <1>2, MakesCopy
<1>4. \A c \in Reads(o) : ReadsAs(p, val, c, k, u[c])
  BY <1>2 DEF v
<1> QED BY <1>3, <1>4, SoundBy DEF o, v

\* ... on two operands ...
LEMMA SoundTwo ==
  ASSUME NEW p, NEW lab, NEW val, NEW k, NEW l, NEW n, AtStep(p, lab, val, k, l, n),
         NEW b, NEW c, b # c, NEW op, NEW how, NEW w, NEW outs, NEW x, NEW y, NEW to,
         OpIs(p[k], op, how, w, <<b, c>>, outs, FALSE),
         ReadsAs(p, val, b, k, <<x, l>>), ReadsAs(p, val, c, k, <<y, l>>), op \in {"add", "act"},
         Defined(DefsOf(l), op, how, w, <<x, y>>, to), ValueOf(l, n) = <<to, IF op = "add" /\ x = "y" THEN l + 1 ELSE l>>
  PROVE  Sound(p, Metal, val, k)
<1> DEFINE u == [d \in {b, c} |-> IF d = b THEN <<x, l>> ELSE <<y, l>>]
           o == p[k]
<1>1. o.op = op /\ o.how = how /\ o.w = w /\ o.ins = <<b, c>> /\ ~o.acc
  BY DEF OpIs
<1>2. Reads(o) = {b, c} /\ u[b] = <<x, l>> /\ u[c] = <<y, l>>
  BY <1>1 DEF Reads
<1> HIDE DEF u, o
<1>3. Makes(o, u, <<to, IF op = "add" /\ x = "y" THEN l + 1 ELSE l>>)
  BY <1>1, <1>2, MakesTwo
<1>4. \A d \in Reads(o) : ReadsAs(p, val, d, k, u[d])
  BY <1>2
<1> QED BY <1>3, <1>4, SoundBy DEF o

\* ... and of attention.
LEMMA SoundAttention ==
  ASSUME NEW p, NEW lab, NEW val, NEW k, NEW l, AtStep(p, lab, val, k, l, 24)
  PROVE  Sound(p, Metal, val, k)
<1> DEFINE u == [d \in {Q, Keys(l), Values(l)} |->
                  IF d = Q THEN <<"qr", l>> ELSE IF d = Keys(l) THEN <<"kr", l>> ELSE <<"v", l>>]
           o == p[k]
<1>1. IsAt(o, l, 24) /\ o.last = OnlyLast(l, 24)
  BY StepIs DEF OpAt
<1>11. OpIs(o, "attention", None, None, <<Q, Keys(l), Values(l)>>, {Att}, FALSE)
  BY <1>1 DEF IsAt
<1>12. ~OnlyLast(l, 24)
  BY DEF OnlyLast
<1>2. o.op = "attention" /\ o.ins = <<Q, Keys(l), Values(l)>> /\ ~o.acc /\ ~o.last
  <2>1. ~o.last
    BY <1>1, <1>12
  <2>2. o.op = "attention" /\ o.ins = <<Q, Keys(l), Values(l)>> /\ o.acc = FALSE
    BY <1>11 DEF OpIs
  <2> QED BY <2>1, <2>2
<1>3. l \in 0..Layers - 1
  BY StepIs, StepFacts
<1>4. Q # Keys(l) /\ Q # Values(l) /\ Keys(l) # Values(l)
  BY DEF Q, B, Keys, Values
<1>5. Reads(o) = {Q, Keys(l), Values(l)}
  BY <1>2 DEF Reads
<1>6. u[Q] = <<"qr", l>> /\ u[Keys(l)] = <<"kr", l>> /\ u[Values(l)] = <<"v", l>>
  BY <1>4
<1> HIDE DEF u, o
<1>7. Makes(o, u, <<"a", l>>)
  <2>1. MakesRaw(o, u, <<"a", l>>)
    BY <1>2, <1>3, <1>6 DEF MakesRaw
  <2> QED BY <1>2, <2>1 DEF Makes
<1>8. ReadsAs(p, val, Q, k, <<"qr", l>>) /\ ReadsAs(p, val, Keys(l), k, <<"kr", l>>) /\ ReadsAs(p, val, Values(l), k, <<"v", l>>)
  BY ReadQ3, ReadKeys3, ReadValues2
<1>9. \A d \in Reads(o) : ReadsAs(p, val, d, k, u[d])
  BY <1>5, <1>6, <1>8
<1>10. ValueOf(l, 24) = <<"a", l>>
  BY DEF ValueOf, NameOf
<1> QED BY <1>7, <1>9, <1>10, SoundBy DEF o

\* The operands of a linear.
LEMMA InsAre ==
  ASSUME NEW l, NEW n
  PROVE  /\ 1 \in DOMAIN Ins(l, n)
         /\ ~Split(LinWeight(l, n)) => DOMAIN Ins(l, n) = {1} /\ \A i \in DOMAIN Ins(l, n) : Ins(l, n)[i] = From(l, n)
         /\ Split(LinWeight(l, n)) => \A i \in DOMAIN Ins(l, n) :
              /\ Ins(l, n)[i] \in Scratch
              /\ Ins(l, n)[i] \in {B("dx"), B("qs")} \/ Dtype(LinWeight(l, n)) = "Q4_K"
BY DEF Ins, Scratch

\* What a linear reads is what its definition names.
LEMMA FromRead ==
  ASSUME NEW p, NEW lab, NEW val, NEW k, NEW l, NEW n, AtStep(p, lab, val, k, l, n), n \in Dots \cup Quants
  PROVE  LET m == IF n \in Dots THEN n - 2 ELSE n IN
         ReadsAs(p, val, From(l, n), k, ValueOf(l, m)) /\ ValueOf(l, m) = <<NameOf(l, m), l>>
<1>0. l \in 0..Layers /\ (n \notin {2, 4} => l # Layers)
  <2>1. n # 0 /\ Occurs(l, n) /\ Layers \in Nat /\ l \in 0..Layers
    BY StepIs DEF Dots, Quants
  <2> QED BY <2>1, StepFacts
<1>1. CASE n \in {2, 4, 6, 8, 10, 12}
  <2>1. ReadsAs(p, val, Xb, k, <<IF l = Layers THEN "f" ELSE "xn", l>>)
    BY <1>1, ReadXb1
  <2> QED BY <1>0, <1>1, <2>1 DEF From, ValueOf, NameOf, Dots, Quants
<1>2. CASE n \in {33, 35, 36, 38}
  <2>1. ReadsAs(p, val, Xb, k, <<"yn", l>>)
    BY <1>2, ReadXb2
  <2> QED BY <1>2, <2>1 DEF From, ValueOf, NameOf, Dots, Quants
<1>3. CASE n \in {26, 28}
  <2>1. ReadsAs(p, val, Att, k, <<"a", l>>)
    BY <1>3, ReadAtt
  <2> QED BY <1>3, <2>1 DEF From, ValueOf, NameOf, Dots, Quants
<1>4. CASE n \in {42, 44}
  <2>1. ReadsAs(p, val, B("inner"), k, <<"h", l>>)
    BY <1>4, ReadInner
  <2> QED BY <1>4, <2>1 DEF From, ValueOf, NameOf, Dots, Quants
<1> QED BY <1>1, <1>2, <1>3, <1>4 DEF Dots, Quants

\* Quantizing leaves the operand of its linear.
LEMMA SoundQuant ==
  ASSUME NEW p, NEW lab, NEW val, NEW k, NEW l, NEW n \in Quants, AtStep(p, lab, val, k, l, n)
  PROVE  Sound(p, Metal, val, k)
<1>1. IsAt(p[k], l, n)
  BY StepIs
<1>2. OpIs(p[k], "quant", None, None, <<From(l, n)>>, p[k].outs, FALSE)
  BY <1>1 DEF IsAt
<1>3. ReadsAs(p, val, From(l, n), k, ValueOf(l, n))
  BY FromRead DEF Dots, Quants
<1> QED BY <1>2, <1>3, SoundCopy

\* What the dots read is that operand.
LEMMA DotReads ==
  ASSUME NEW p, NEW lab, NEW val, NEW k, NEW l, NEW n \in Dots, AtStep(p, lab, val, k, l, n)
  PROVE  \A i \in DOMAIN Ins(l, n) : ReadsAs(p, val, Ins(l, n)[i], k, <<NameOf(l, n - 2), l>>)
<1>1. ReadsAs(p, val, From(l, n), k, ValueOf(l, n - 2)) /\ ValueOf(l, n - 2) = <<NameOf(l, n - 2), l>>
  BY FromRead
<1>2. CASE ~Split(LinWeight(l, n))
  BY <1>1, <1>2, InsAre
<1>3. CASE Split(LinWeight(l, n))
  BY <1>1, <1>3, InsAre, ReadScratch
<1> QED BY <1>2, <1>3

\* A linear that replaces what its buffer held.
LEMMA SoundDot ==
  ASSUME NEW p, NEW lab, NEW val, NEW k, NEW l, NEW n \in Dots, AtStep(p, lab, val, k, l, n), ~Adds(n),
         NEW to, ValueOf(l, n) = <<to, l>>,
         Defined(DefsOf(l), "linear", Product(LinWeight(l, n)), LinWeight(l, n), <<NameOf(l, n - 2)>>, to)
  PROVE  Sound(p, Metal, val, k)
<1> DEFINE x == NameOf(l, n - 2)
           o == p[k]
           s == Split(LinWeight(l, n))
           u == [c \in Reads(o) |-> <<x, l>>]
<1>1. IsAt(o, l, n)
  BY StepIs
<1>2. OpIs(o, IF s THEN "dot" ELSE "linear", Product(LinWeight(l, n)), LinWeight(l, n), Ins(l, n), {OutBuf(l, n)}, Adds(n))
  BY <1>1 DEF IsAt
<1>3. o.op = (IF s THEN "dot" ELSE "linear") /\ o.how = Product(LinWeight(l, n)) /\ o.w = LinWeight(l, n)
      /\ o.ins = Ins(l, n) /\ ~o.acc
  BY <1>2 DEF OpIs
<1>4. Reads(o) = {o.ins[i] : i \in DOMAIN o.ins}
  BY <1>3 DEF Reads
<1>5. 1 \in DOMAIN o.ins /\ (~s => DOMAIN o.ins = {1})
  BY <1>3, InsAre
<1>6. \A i \in DOMAIN o.ins : u[o.ins[i]] = <<x, l>>
  BY <1>4
<1>7. \A c \in Reads(o) : ReadsAs(p, val, c, k, u[c])
  BY <1>3, <1>4, DotReads
<1> HIDE DEF o, u, x, s
<1>8. MakesRaw(o, u, <<to, l>>)
  BY <1>3, <1>5, <1>6, MakesLinear DEF x
<1>9. Makes(o, u, <<to, l>>)
  BY <1>3, <1>8 DEF Makes
<1> QED BY <1>7, <1>9, SoundBy DEF o

\* A linear that adds to it.
LEMMA SoundAdding ==
  ASSUME NEW p, NEW lab, NEW val, NEW k, NEW l, NEW n \in {28, 44}, AtStep(p, lab, val, k, l, n), ~Host,
         NEW x, NEW y, NEW to, ReadsAs(p, val, X, k, <<x, l>>),
         Defined(DefsOf(l), "linear", Product(LinWeight(l, n)), LinWeight(l, n), <<NameOf(l, n - 2)>>, y),
         Defined(DefsOf(l), "add", None, None, <<x, y>>, to), ValueOf(l, n) = <<to, IF x = "y" THEN l + 1 ELSE l>>
  PROVE  Sound(p, Metal, val, k)
<1> DEFINE z == NameOf(l, n - 2)
           o == p[k]
           s == Split(LinWeight(l, n))
           u == [c \in Reads(o) |-> IF c = X THEN <<x, l>> ELSE <<z, l>>]
<1>0. n \in Dots /\ Adds(n)
  BY DEF Dots, Adds
<1>1. IsAt(o, l, n)
  BY StepIs
<1>2. OpIs(o, IF s THEN "dot" ELSE "linear", Product(LinWeight(l, n)), LinWeight(l, n), Ins(l, n), {OutBuf(l, n)}, Adds(n))
  BY <1>0, <1>1 DEF IsAt
<1>3. o.op = (IF s THEN "dot" ELSE "linear") /\ o.how = Product(LinWeight(l, n)) /\ o.w = LinWeight(l, n)
      /\ o.ins = Ins(l, n) /\ o.acc /\ o.outs = {X}
  BY <1>0, <1>2, OutBufIs DEF OpIs
<1>4. Reads(o) = {o.ins[i] : i \in DOMAIN o.ins} \cup {X}
  BY <1>3 DEF Reads
<1>5. 1 \in DOMAIN o.ins /\ (~s => DOMAIN o.ins = {1})
  BY <1>3, InsAre
<1>10. \A i \in DOMAIN o.ins : o.ins[i] # X
  <2>1. From(l, n) # X
    BY DEF From, X, Att, B
  <2>2. X \notin Scratch
    BY DEF X, B, Scratch
  <2> QED BY <1>3, <2>1, <2>2, InsAre
<1>6. (\A i \in DOMAIN o.ins : u[o.ins[i]] = <<z, l>>) /\ u[X] = <<x, l>>
  BY <1>4, <1>10
<1>7. \A c \in Reads(o) : ReadsAs(p, val, c, k, u[c])
  <2>1. \A i \in DOMAIN o.ins : ReadsAs(p, val, o.ins[i], k, <<z, l>>)
    BY <1>0, <1>3, DotReads
  <2> QED BY <1>4, <1>6, <2>1
<1> HIDE DEF o, u, z, s
<1>11. Defined(DefsOf(l), "linear", o.how, o.w, <<z>>, y)
  BY <1>3 DEF z
<1>12. o.op = "dot" \/ (o.op = "linear" /\ DOMAIN o.ins = {1})
  BY <1>3, <1>5
<1>8. MakesRaw(o, u, <<y, l>>)
  BY <1>5, <1>6, <1>11, <1>12, MakesLinear
<1>9. Makes(o, u, <<to, IF x = "y" THEN l + 1 ELSE l>>)
  BY <1>3, <1>6, <1>8, MakesSum
<1> QED BY <1>7, <1>9, SoundBy DEF o

\* Every step is sound: the norms.
LEMMA SoundNorm ==
  ASSUME NEW p, NEW lab, NEW val, NEW k, NEW l, NEW n \in {0, 31}, AtStep(p, lab, val, k, l, n)
  PROVE  Sound(p, Metal, val, k)
<1>1. IsAt(p[k], l, n) /\ (n = 31 => l # Layers)
  BY StepIs, StepFacts
<1>2. CASE n = 31
  <2>1. OpIs(p[k], "norm", Norm, <<"ffn_norm", l>>, <<X>>, {Xb}, FALSE)
    BY <1>1, <1>2 DEF IsAt
  <2>2. ReadsAs(p, val, X, k, <<"y", l>>)
    BY <1>2, ReadX2
  <2>3. Defined(DefsOf(l), "norm", Norm, <<"ffn_norm", l>>, <<"y">>, "yn")
    BY <1>1, <1>2, LayerDefined
  <2>4. ValueOf(l, n) = <<"yn", l>>
    BY <1>2 DEF ValueOf, NameOf
  <2> QED BY <2>1, <2>2, <2>3, <2>4, SoundOne
<1>3. CASE n = 0 /\ l # Layers
  <2>1. OpIs(p[k], "norm", Norm, <<"attn_norm", l>>, <<X>>, {Xb}, FALSE)
    BY <1>1, <1>3 DEF IsAt
  <2>2. ReadsAs(p, val, X, k, <<"x", l>>)
    BY <1>3, ReadX1
  <2>3. Defined(DefsOf(l), "norm", Norm, <<"attn_norm", l>>, <<"x">>, "xn")
    BY <1>3, LayerDefined
  <2>4. ValueOf(l, n) = <<"xn", l>>
    BY <1>3 DEF ValueOf, NameOf
  <2> QED BY <2>1, <2>2, <2>3, <2>4, SoundOne
<1>4. CASE n = 0 /\ l = Layers
  <2>1. OpIs(p[k], "norm", Norm, FinalNorm, <<X>>, {Xb}, FALSE)
    BY <1>1, <1>4 DEF IsAt
  <2>2. ReadsAs(p, val, X, k, <<"x", l>>)
    BY <1>4, ReadX1
  <2>3. Defined(DefsOf(l), "norm", Norm, FinalNorm, <<"x">>, "f")
    BY <1>4, FinalDefined
  <2>4. ValueOf(l, n) = <<"f", l>>
    BY <1>4 DEF ValueOf, NameOf
  <2> QED BY <2>1, <2>2, <2>3, <2>4, SoundOne
<1> QED BY <1>2, <1>3, <1>4

\* Every step is sound: the biases.
LEMMA SoundBias ==
  ASSUME NEW p, NEW lab, NEW val, NEW k, NEW l, NEW n \in {5, 15, 9, 16, 13, 17}, AtStep(p, lab, val, k, l, n)
  PROVE  Sound(p, Metal, val, k)
<1>1. IsAt(p[k], l, n) /\ l # Layers
  BY StepIs, StepFacts
<1>2. n \in {5, 9, 13} => Host
  BY StepIs, StepFacts
<1>3. n \in {15, 16, 17} => ~Host
  BY StepIs, StepFacts
<1>4. CASE n \in {5, 15}
  <2>1. OpIs(p[k], "bias", None, <<"attn_q.bias", l>>, <<Q>>, {Q}, FALSE)
    BY <1>1, <1>4 DEF IsAt
  <2>2. ReadsAs(p, val, Q, k, <<"q0", l>>)
    BY <1>2, <1>3, <1>4, ReadQ1
  <2>3. Defined(DefsOf(l), "bias", None, <<"attn_q.bias", l>>, <<"q0">>, "q")
    BY <1>1, LayerDefined
  <2>4. ValueOf(l, n) = <<"q", l>>
    BY <1>4 DEF ValueOf, NameOf
  <2> QED BY <2>1, <2>2, <2>3, <2>4, SoundOne
<1>5. CASE n \in {9, 16}
  <2>1. OpIs(p[k], "bias", None, <<"attn_k.bias", l>>, <<KeysOf(l)>>, {KeysOf(l)}, FALSE)
    BY <1>1, <1>5 DEF IsAt
  <2>2. ReadsAs(p, val, KeysOf(l), k, <<"k0", l>>)
    BY <1>2, <1>3, <1>5, ReadK1, ReadKeys1 DEF KeysOf
  <2>3. Defined(DefsOf(l), "bias", None, <<"attn_k.bias", l>>, <<"k0">>, "k")
    BY <1>1, LayerDefined
  <2>4. ValueOf(l, n) = <<"k", l>>
    BY <1>5 DEF ValueOf, NameOf
  <2> QED BY <2>1, <2>2, <2>3, <2>4, SoundOne
<1>6. CASE n \in {13, 17}
  <2>1. OpIs(p[k], "bias", None, <<"attn_v.bias", l>>, <<ValuesOf(l)>>, {ValuesOf(l)}, FALSE)
    BY <1>1, <1>6 DEF IsAt
  <2>2. ReadsAs(p, val, ValuesOf(l), k, <<"v0", l>>)
    BY <1>2, <1>3, <1>6, ReadV1, ReadValues1 DEF ValuesOf
  <2>3. Defined(DefsOf(l), "bias", None, <<"attn_v.bias", l>>, <<"v0">>, "v")
    BY <1>1, LayerDefined
  <2>4. ValueOf(l, n) = <<"v", l>>
    BY <1>6 DEF ValueOf, NameOf
  <2> QED BY <2>1, <2>2, <2>3, <2>4, SoundOne
<1> QED BY <1>4, <1>5, <1>6

\* Every step is sound: the copies to the caches and rotations.
LEMMA SoundMoves ==
  ASSUME NEW p, NEW lab, NEW val, NEW k, NEW l, NEW n \in {19, 20, 21, 22}, AtStep(p, lab, val, k, l, n)
  PROVE  Sound(p, Metal, val, k)
<1>1. IsAt(p[k], l, n) /\ l # Layers
  BY StepIs, StepFacts
<1>2. CASE n = 19
  <2>1. OpIs(p[k], "copy", None, None, <<B("k")>>, {Keys(l)}, FALSE)
    BY <1>1, <1>2 DEF IsAt
  <2>2. ValueOf(l, n) = <<"k", l>>
    BY <1>2 DEF ValueOf, NameOf
  <2>3. ReadsAs(p, val, B("k"), k, <<"k", l>>)
    BY <1>2, ReadK2
  <2> QED BY <2>1, <2>2, <2>3, SoundCopy
<1>3. CASE n = 20
  <2>1. OpIs(p[k], "copy", None, None, <<B("v")>>, {Values(l)}, FALSE)
    BY <1>1, <1>3 DEF IsAt
  <2>2. ValueOf(l, n) = <<"v", l>>
    BY <1>3 DEF ValueOf, NameOf
  <2>3. ReadsAs(p, val, B("v"), k, <<"v", l>>)
    BY <1>3, ReadV2
  <2> QED BY <2>1, <2>2, <2>3, SoundCopy
<1>4. CASE n = 21
  <2>1. OpIs(p[k], "rope", Rotation, None, <<Q>>, {Q}, FALSE)
    BY <1>1, <1>4 DEF IsAt
  <2>2. ValueOf(l, n) = <<"qr", l>>
    BY <1>4 DEF ValueOf, NameOf
  <2>3. ReadsAs(p, val, Q, k, <<"q", l>>)
    BY <1>4, ReadQ2
  <2>4. Defined(DefsOf(l), "rope", Rotation, None, <<"q">>, "qr")
    BY <1>1, LayerDefined
  <2> QED BY <2>1, <2>2, <2>3, <2>4, SoundOne
<1>5. CASE n = 22
  <2>1. OpIs(p[k], "rope", Rotation, None, <<Keys(l)>>, {Keys(l)}, FALSE)
    BY <1>1, <1>5 DEF IsAt
  <2>2. ValueOf(l, n) = <<"kr", l>>
    BY <1>5 DEF ValueOf, NameOf
  <2>3. ReadsAs(p, val, Keys(l), k, <<"k", l>>)
    BY <1>5, ReadKeys2
  <2>4. Defined(DefsOf(l), "rope", Rotation, None, <<"k">>, "kr")
    BY <1>1, LayerDefined
  <2> QED BY <2>1, <2>2, <2>3, <2>4, SoundOne
<1> QED BY <1>2, <1>3, <1>4, <1>5

\* Every step is sound: the additions and the activation.
LEMMA SoundAdds ==
  ASSUME NEW p, NEW lab, NEW val, NEW k, NEW l, NEW n \in {29, 45, 40}, AtStep(p, lab, val, k, l, n)
  PROVE  Sound(p, Metal, val, k)
<1>1. IsAt(p[k], l, n) /\ l # Layers
  BY StepIs, StepFacts
<1>2. n \in {29, 45} => Host
  BY StepIs, StepFacts
<1>3. CASE n = 29
  <2>1. OpIs(p[k], "add", None, None, <<X, B("xb2")>>, {X}, FALSE)
    BY <1>1, <1>3 DEF IsAt
  <2>2. ReadsAs(p, val, X, k, <<"x", l>>)
    BY <1>2, <1>3, ReadX1
  <2>3. ReadsAs(p, val, B("xb2"), k, <<"o", l>>)
    BY <1>3, ReadXb21
  <2>4. Defined(DefsOf(l), "add", None, None, <<"x", "o">>, "y")
    BY <1>1, LayerDefined
  <2>5. ValueOf(l, n) = <<"y", l>>
    BY <1>3 DEF ValueOf, NameOf
  <2>6. X # B("xb2")
    BY DEF X, B
  <2> QED BY <2>1, <2>2, <2>3, <2>4, <2>5, <2>6, SoundTwo
<1>4. CASE n = 45
  <2>1. OpIs(p[k], "add", None, None, <<X, B("xb2")>>, {X}, FALSE)
    BY <1>1, <1>4 DEF IsAt
  <2>2. ReadsAs(p, val, X, k, <<"y", l>>)
    BY <1>2, <1>4, ReadX2
  <2>3. ReadsAs(p, val, B("xb2"), k, <<"d", l>>)
    BY <1>4, ReadXb22
  <2>4. Defined(DefsOf(l), "add", None, None, <<"y", "d">>, "x")
    BY <1>1, LayerDefined
  <2>5. ValueOf(l, n) = <<"x", l + 1>>
    BY <1>4 DEF ValueOf, NameOf
  <2>6. X # B("xb2")
    BY DEF X, B
  <2> QED BY <2>1, <2>2, <2>3, <2>4, <2>5, <2>6, SoundTwo
<1>5. CASE n = 40
  <2>1. OpIs(p[k], "act", Act, None, <<B("gate"), B("up")>>, {B("inner")}, FALSE)
    BY <1>1, <1>5 DEF IsAt
  <2>2. ReadsAs(p, val, B("gate"), k, <<"g", l>>)
    BY <1>5, ReadGate
  <2>3. ReadsAs(p, val, B("up"), k, <<"u", l>>)
    BY <1>5, ReadUp
  <2>4. Defined(DefsOf(l), "act", Act, None, <<"g", "u">>, "h")
    BY <1>1, LayerDefined
  <2>5. ValueOf(l, n) = <<"h", l>>
    BY <1>5 DEF ValueOf, NameOf
  <2>6. B("gate") # B("up")
    BY DEF B
  <2> QED BY <2>1, <2>2, <2>3, <2>4, <2>5, <2>6, SoundTwo
<1> QED BY <1>3, <1>4, <1>5

\* What the linear of each weight is defined to make.
LEMMA DotDefined ==
  ASSUME NEW l \in 0..Layers, Layers \in Nat, NEW n \in Dots, l = Layers => n = 4
  PROVE  Defined(DefsOf(l), "linear", Product(LinWeight(l, n)), LinWeight(l, n), <<NameOf(l, n - 2)>>,
                 CASE n = 28 -> "o" [] n = 44 -> "d" [] OTHER -> NameOf(l, n))
<1>1. CASE l = Layers
  <2>1. LinWeight(l, n) = Classifier /\ NameOf(l, n - 2) = "f" /\ NameOf(l, n) = "logits" /\ n # 28 /\ n # 44
    BY <1>1 DEF LinWeight, NameOf
  <2> QED BY <1>1, <2>1, FinalDefined
<1>2. CASE l # Layers
  <2> DEFINE to == CASE n = 28 -> "o" [] n = 44 -> "d" [] OTHER -> NameOf(l, n)
             w == LinWeight(l, n)
             x == NameOf(l, n - 2)
  <2>1. CASE n = 4
    <3>1. w = <<"attn_q", l>> /\ x = "xn" /\ to = Raw("bq", l)
      BY <1>2, <2>1 DEF LinWeight, NameOf
    <3>2. Defined(DefsOf(l), "linear", Product(<<"attn_q", l>>), <<"attn_q", l>>, <<"xn">>, Raw("bq", l))
      BY <1>2, LayerDefined
    <3> HIDE DEF w, x, to
    <3>3. Defined(DefsOf(l), "linear", Product(w), w, <<x>>, to)
      BY <3>1, <3>2
    <3> QED BY <3>3 DEF w, x, to
  <2>2. CASE n = 8
    <3>1. w = <<"attn_k", l>> /\ x = "xn" /\ to = Raw("bk", l)
      BY <1>2, <2>2 DEF LinWeight, NameOf
    <3>2. Defined(DefsOf(l), "linear", Product(<<"attn_k", l>>), <<"attn_k", l>>, <<"xn">>, Raw("bk", l))
      BY <1>2, LayerDefined
    <3> HIDE DEF w, x, to
    <3>3. Defined(DefsOf(l), "linear", Product(w), w, <<x>>, to)
      BY <3>1, <3>2
    <3> QED BY <3>3 DEF w, x, to
  <2>3. CASE n = 12
    <3>1. w = <<"attn_v", l>> /\ x = "xn" /\ to = Raw("bv", l)
      BY <1>2, <2>3 DEF LinWeight, NameOf
    <3>2. Defined(DefsOf(l), "linear", Product(<<"attn_v", l>>), <<"attn_v", l>>, <<"xn">>, Raw("bv", l))
      BY <1>2, LayerDefined
    <3> HIDE DEF w, x, to
    <3>3. Defined(DefsOf(l), "linear", Product(w), w, <<x>>, to)
      BY <3>1, <3>2
    <3> QED BY <3>3 DEF w, x, to
  <2>4. CASE n = 28
    <3>1. w = <<"attn_output", l>> /\ x = "a" /\ to = "o"
      BY <1>2, <2>4 DEF LinWeight, NameOf
    <3>2. Defined(DefsOf(l), "linear", Product(<<"attn_output", l>>), <<"attn_output", l>>, <<"a">>, "o")
      BY <1>2, LayerDefined
    <3> HIDE DEF w, x, to
    <3>3. Defined(DefsOf(l), "linear", Product(w), w, <<x>>, to)
      BY <3>1, <3>2
    <3> QED BY <3>3 DEF w, x, to
  <2>5. CASE n = 35
    <3>1. w = <<"ffn_gate", l>> /\ x = "yn" /\ to = "g"
      BY <1>2, <2>5 DEF LinWeight, NameOf
    <3>2. Defined(DefsOf(l), "linear", Product(<<"ffn_gate", l>>), <<"ffn_gate", l>>, <<"yn">>, "g")
      BY <1>2, LayerDefined
    <3> HIDE DEF w, x, to
    <3>3. Defined(DefsOf(l), "linear", Product(w), w, <<x>>, to)
      BY <3>1, <3>2
    <3> QED BY <3>3 DEF w, x, to
  <2>6. CASE n = 38
    <3>1. w = <<"ffn_up", l>> /\ x = "yn" /\ to = "u"
      BY <1>2, <2>6 DEF LinWeight, NameOf
    <3>2. Defined(DefsOf(l), "linear", Product(<<"ffn_up", l>>), <<"ffn_up", l>>, <<"yn">>, "u")
      BY <1>2, LayerDefined
    <3> HIDE DEF w, x, to
    <3>3. Defined(DefsOf(l), "linear", Product(w), w, <<x>>, to)
      BY <3>1, <3>2
    <3> QED BY <3>3 DEF w, x, to
  <2>7. CASE n = 44
    <3>1. w = <<"ffn_down", l>> /\ x = "h" /\ to = "d"
      BY <1>2, <2>7 DEF LinWeight, NameOf
    <3>2. Defined(DefsOf(l), "linear", Product(<<"ffn_down", l>>), <<"ffn_down", l>>, <<"h">>, "d")
      BY <1>2, LayerDefined
    <3> HIDE DEF w, x, to
    <3>3. Defined(DefsOf(l), "linear", Product(w), w, <<x>>, to)
      BY <3>1, <3>2
    <3> QED BY <3>3 DEF w, x, to
  <2> QED BY <2>1, <2>2, <2>3, <2>4, <2>5, <2>6, <2>7 DEF Dots
<1> QED BY <1>1, <1>2

\* Every step is sound: the linears.
LEMMA SoundDots ==
  ASSUME NEW p, NEW lab, NEW val, NEW k, NEW l, NEW n \in Dots, AtStep(p, lab, val, k, l, n)
  PROVE  Sound(p, Metal, val, k)
<1>1. l \in 0..Layers /\ Layers \in Nat /\ (l = Layers => n = 4)
  BY StepIs, StepFacts DEF Dots
<1> DEFINE to == CASE n = 28 -> "o" [] n = 44 -> "d" [] OTHER -> NameOf(l, n)
<1>2. Defined(DefsOf(l), "linear", Product(LinWeight(l, n)), LinWeight(l, n), <<NameOf(l, n - 2)>>, to)
  BY <1>1, DotDefined
<1>3. CASE ~Adds(n)
  <2>1. ValueOf(l, n) = <<to, l>>
    BY <1>3 DEF ValueOf, NameOf, Adds, Dots, Raw
  <2> HIDE DEF to
  <2> QED BY <1>2, <1>3, <2>1, SoundDot
<1>4. CASE Adds(n) /\ n = 28
  <2>1. to = "o" /\ ~Host
    BY <1>4 DEF Adds
  <2> HIDE DEF to
  <2>2. Defined(DefsOf(l), "linear", Product(LinWeight(l, n)), LinWeight(l, n), <<NameOf(l, n - 2)>>, "o")
    BY <1>2, <2>1
  <2>6. l # Layers
    BY <1>1, <1>4
  <2>3. Defined(DefsOf(l), "add", None, None, <<"x", "o">>, "y")
    BY <2>6, LayerDefined
  <2>4. ReadsAs(p, val, X, k, <<"x", l>>)
    BY <1>4, <2>1, ReadX1
  <2>5. ValueOf(l, n) = <<"y", l>>
    BY <1>4, <2>1 DEF ValueOf, NameOf
  <2> QED BY <1>4, <2>1, <2>2, <2>3, <2>4, <2>5, SoundAdding
<1>5. CASE Adds(n) /\ n = 44
  <2>1. to = "d" /\ ~Host
    BY <1>5 DEF Adds
  <2> HIDE DEF to
  <2>2. Defined(DefsOf(l), "linear", Product(LinWeight(l, n)), LinWeight(l, n), <<NameOf(l, n - 2)>>, "d")
    BY <1>2, <2>1
  <2>6. l # Layers
    BY <1>1, <1>5
  <2>3. Defined(DefsOf(l), "add", None, None, <<"y", "d">>, "x")
    BY <2>6, LayerDefined
  <2>4. ReadsAs(p, val, X, k, <<"y", l>>)
    BY <1>5, <2>1, ReadX2
  <2>5. ValueOf(l, n) = <<"x", l + 1>>
    BY <1>5, <2>1 DEF ValueOf, NameOf
  <2> QED BY <1>5, <2>1, <2>2, <2>3, <2>4, <2>5, SoundAdding
<1> QED BY <1>3, <1>4, <1>5 DEF Adds

\* A program that does the steps in an order they allow computes what they define.
LEMMA LabelsAnnotate ==
  ASSUME NEW p, NEW lab, NEW val, Layers \in Nat, Labelled(p, lab), Chained(p, lab), ValuesFrom(lab, p, val)
  PROVE  Annotated(p, Metal, val)
<1>1. ASSUME NEW k \in DOMAIN p, ~Fenced(p[k]) PROVE Sound(p, Metal, val, k)
  <2>1. PICK l, n : lab[k] = <<l, n>>
    BY DEF Labelled
  <2>2. AtStep(p, lab, val, k, l, n)
    BY <1>1, <2>1 DEF AtStep
  <2>3. n \in Codes
    BY <2>2, StepIs
  <2> QED BY <2>2, <2>3, SoundNorm, SoundBias, SoundMoves, SoundAdds, SoundDots, SoundQuant, SoundAttention DEF Codes, Dots, Quants
<1> QED BY <1>1 DEF Annotated

-----------------------------------------------------------------------------
(* What a pass leaves.                                                     *)

\* Step n of layer l is the last to write b.
Settled(l, n, b) ==
  \A m, j : Occurs(m, j) /\ Writes(m, j, b) => (m = l /\ j = n) \/ Pre(m, j, l, n)

\* What the last writer of a buffer left is there when all has run.
LEMMA SettledKept ==
  ASSUME Layers \in Nat, NEW p, NEW lab, Labelled(p, lab), Chained(p, lab), NEW val, ValuesFrom(lab, p, val),
         NEW l, NEW n, Occurs(l, n), NEW b, Settled(l, n, b), \A o : IsAt(o, l, n) => b \in o.outs
  PROVE  \E x \in DOMAIN p : /\ ~Fenced(p[x]) /\ b \in p[x].outs /\ val[x] = ValueOf(l, n)
                             /\ p[x].last = OnlyLast(l, n) /\ Keeps(p, Metal, val, b, x, {})
<1>1. PICK x \in DOMAIN p : lab[x] = <<l, n>>
  BY DEF Labelled
<1>2. lab[x][1] = l /\ lab[x][2] = n
  BY <1>1
<1>3. ~Fenced(p[x]) /\ OpAt(p[x], l, n)
  BY <1>2, NotFenced DEF Labelled
<1>4. val[x] = ValueOf(l, n)
  BY <1>2 DEF ValuesFrom
<1>5. ASSUME NEW j \in DOMAIN p, j # x, ~Fenced(p[j]), b \in p[j].outs
      PROVE  Precedes(p, Metal, j, x)
  <2>1. PICK m, i : lab[j] = <<m, i>> /\ lab[j][1] = m /\ lab[j][2] = i
    BY DEF Labelled
  <2>2. Occurs(m, i) /\ IsAt(p[j], m, i)
    BY <1>5, <2>1 DEF Labelled, LabelOK, OpAt
  <2>3. Writes(m, i, b)
    BY <1>5, <2>2, OutsWritten
  <2>4. (m = l /\ i = n) \/ Pre(m, i, l, n)
    BY <2>2, <2>3 DEF Settled
  <2>5. ~(m = l /\ i = n)
    BY <1>1, <1>5, <2>1, LabelOnce
  <2>6. Pre(lab[j][1], lab[j][2], lab[x][1], lab[x][2])
    BY <1>2, <2>1, <2>4, <2>5
  <2> QED BY <1>3, <1>5, <2>6 DEF Chained
<1>6. Keeps(p, Metal, val, b, x, {})
  BY <1>5 DEF Keeps
<1> QED BY <1>3, <1>4, <1>6 DEF OpAt

\* The last writer of the logits ...
LEMMA SettledLogits ==
  ASSUME Layers \in Nat
  PROVE  Settled(Layers, 4, B("logits")) /\ Occurs(Layers, 4) /\ ValueOf(Layers, 4) = <<"logits", Layers>>
         /\ \A o : IsAt(o, Layers, 4) => B("logits") \in o.outs
<1>1. Settled(Layers, 4, B("logits"))
  BY WritersLogits DEF Settled
<1>2. Occurs(Layers, 4)
  BY DEF Occurs
<1>3. ValueOf(Layers, 4) = <<"logits", Layers>>
  BY DEF ValueOf, NameOf
<1>4. \A o : IsAt(o, Layers, 4) => B("logits") \in o.outs
  BY DotWrites, OutBufIs DEF Dots
<1> QED BY <1>1, <1>2, <1>3, <1>4

\* ... of the keys of a layer ...
LEMMA SettledKeys ==
  ASSUME Layers \in Nat, NEW l \in 0..Layers - 1
  PROVE  Settled(l, 22, Keys(l)) /\ Occurs(l, 22) /\ ValueOf(l, 22) = <<"kr", l>>
         /\ \A o : IsAt(o, l, 22) => Keys(l) \in o.outs
<1>1. ASSUME NEW m, NEW j, Occurs(m, j), Writes(m, j, Keys(l))
      PROVE  (m = l /\ j = 22) \/ Pre(m, j, l, 22)
  <2>1. m = l /\ j \in {8, 16, 19, 22}
    BY <1>1, WritersKeys
  <2> QED BY <2>1 DEF Pre, Apart, Track
<1>2. Occurs(l, 22)
  BY DEF Occurs
<1>3. ValueOf(l, 22) = <<"kr", l>>
  BY DEF ValueOf, NameOf
<1>4. \A o : IsAt(o, l, 22) => Keys(l) \in o.outs
  BY DEF IsAt, OpIs
<1> QED BY <1>1, <1>2, <1>3, <1>4 DEF Settled

\* ... and of its values.
LEMMA SettledValues ==
  ASSUME Layers \in Nat, NEW l \in 0..Layers - 1
  PROVE  LET n == IF Host THEN 20 ELSE IF HasBias("bv", l) THEN 17 ELSE 12 IN
         /\ Settled(l, n, Values(l)) /\ Occurs(l, n) /\ ValueOf(l, n) = <<"v", l>> /\ n \notin {2, 4}
         /\ \A o : IsAt(o, l, n) => Values(l) \in o.outs
<1> DEFINE n == IF Host THEN 20 ELSE IF HasBias("bv", l) THEN 17 ELSE 12
<1>1. ASSUME NEW m, NEW j, Occurs(m, j), Writes(m, j, Values(l))
      PROVE  (m = l /\ j = n) \/ Pre(m, j, l, n)
  <2>1. m = l /\ IF Host THEN j = 20 ELSE j \in {12, 17} /\ (j = 17 => HasBias("bv", l))
    BY <1>1, WritersValues
  <2> QED BY <2>1 DEF Pre, Apart, Track
<1>2. Occurs(l, n)
  BY DEF Occurs
<1>3. ValueOf(l, n) = <<"v", l>>
  BY DEF ValueOf, NameOf, Raw
<1>4. ASSUME NEW o, IsAt(o, l, n) PROVE Values(l) \in o.outs
  <2>1. CASE Host
    BY <1>4, <2>1 DEF IsAt, OpIs
  <2>2. CASE ~Host /\ HasBias("bv", l)
    BY <1>4, <2>2 DEF IsAt, OpIs, ValuesOf
  <2>3. CASE ~Host /\ ~HasBias("bv", l)
    BY <1>4, <2>3, DotWrites, OutBufIs DEF Dots, ValuesOf
  <2> QED BY <2>1, <2>2, <2>3
<1> QED BY <1>1, <1>2, <1>3, <1>4 DEF Settled

-----------------------------------------------------------------------------
(* Fragments of a program.                                                 *)

\* Steps in order of one number.
OrderKey(t) == 100 * t[1] + t[2]
Step == Int \X (0..99)
\* A step or a barrier.
Happens(l, n) == Occurs(l, n) \/ Fence(l, n)

\* p does all the steps from lo to hi.
Fills(p, lab, h, lo, hi) ==
  /\ h \in Nat /\ IsTable(p, h)
  /\ \A k \in 1..h : lab[k] \in Step /\ LabelOK(p[k], lab[k][1], lab[k][2]) /\ OrderKey(lab[k]) \in lo..hi - 1
  /\ \A i, k \in 1..h : i < k => OrderKey(lab[i]) < OrderKey(lab[k])
  /\ \A t \in Step : Happens(t[1], t[2]) /\ OrderKey(t) \in lo..hi - 1 => \E k \in 1..h : lab[k] = t
Frag(p, lo, hi) == \E lab, h : Fills(p, lab, h, lo, hi)

\* r is p and then q.
Joins(r, p, q) == r = p \o q

\* The operations of two fragments in a row.
LEMMA JoinAt ==
  ASSUME NEW g \in Nat, NEW h \in Nat, NEW p, IsTable(p, g), NEW q, IsTable(q, h),
         NEW r, Joins(r, p, q)
  PROVE  /\ IsTable(r, g + h)
         /\ \A k \in 1..g : r[k] = p[k]
         /\ \A k \in g + 1..g + h : r[k] = q[k - g]
<1> DEFINE S == {p[k] : k \in 1..g} \cup {q[k] : k \in 1..h}
<1>1. p \in Seq(S) /\ q \in Seq(S)
  <2>1. p \in [1..g -> S] /\ q \in [1..h -> S]
    BY DEF S, IsTable
  <2> QED BY <2>1, SeqDef
<1>2. Len(p) = g /\ Len(q) = h
  BY LenTable
<1> HIDE DEF S
<1>3. r \in Seq(S) /\ Len(r) = g + h
  BY <1>1, <1>2, ConcatProperties DEF Joins
<1>4. \A k \in 1..g + h : r[k] = IF k <= g THEN p[k] ELSE q[k - g]
  BY <1>1, <1>2, ConcatProperties DEF Joins
<1>5. IsTable(r, g + h)
  BY <1>3 DEF IsTable
<1>6. ASSUME NEW k \in 1..g PROVE r[k] = p[k]
  <2>1. k \in 1..g + h /\ k <= g
    OBVIOUS
  <2> QED BY <1>4, <2>1
<1>7. ASSUME NEW k \in g + 1..g + h PROVE r[k] = q[k - g]
  <2>1. k \in 1..g + h /\ ~(k <= g)
    OBVIOUS
  <2> QED BY <1>4, <2>1
<1> QED BY <1>5, <1>6, <1>7

\* Fragments that follow one another make one.
LEMMA Join ==
  ASSUME NEW p, NEW q, NEW lo \in Int, NEW mid \in Int, NEW hi \in Int, lo <= mid, mid <= hi, Frag(p, lo, mid), Frag(q, mid, hi)
  PROVE  Frag(p \o q, lo, hi)
<1>10. PICK r : Joins(r, p, q)
  BY DEF Joins
<1>1. PICK la, g : Fills(p, la, g, lo, mid)
  BY DEF Frag
<1>2. PICK lb, h : Fills(q, lb, h, mid, hi)
  BY DEF Frag
<1> DEFINE lab == [k \in 1..g + h |-> IF k <= g THEN la[k] ELSE lb[k - g]]
<1>0. g \in Nat /\ h \in Nat /\ IsTable(p, g) /\ IsTable(q, h)
  BY <1>1, <1>2 DEF Fills
<1>3. IsTable(r, g + h) /\ (\A k \in 1..g : r[k] = p[k]) /\ (\A k \in g + 1..g + h : r[k] = q[k - g])
  BY <1>0, <1>10, JoinAt
<1>4. (\A k \in 1..g : lab[k] = la[k]) /\ (\A k \in g + 1..g + h : lab[k] = lb[k - g])
  BY <1>0
<1> HIDE DEF lab
<1>5. \A k \in g + 1..g + h : k - g \in 1..h
  BY <1>0
<1>6. ASSUME NEW k \in 1..g + h
      PROVE  lab[k] \in Step /\ LabelOK(r[k], lab[k][1], lab[k][2]) /\ OrderKey(lab[k]) \in lo..hi - 1
  <2>1. CASE k <= g
    <3>1. k \in 1..g
      BY <1>0, <2>1
    <3>2. lab[k] \in Step /\ LabelOK(r[k], lab[k][1], lab[k][2]) /\ OrderKey(lab[k]) \in lo..mid - 1
      BY <1>1, <1>3, <1>4, <3>1 DEF Fills
    <3> QED BY <3>2
  <2>2. CASE ~(k <= g)
    <3>1. k \in g + 1..g + h
      BY <1>0, <2>2
    <3>2. lab[k] \in Step /\ LabelOK(r[k], lab[k][1], lab[k][2]) /\ OrderKey(lab[k]) \in mid..hi - 1
      BY <1>2, <1>3, <1>4, <1>5, <3>1 DEF Fills
    <3> QED BY <3>2
  <2> QED BY <2>1, <2>2
<1>7. ASSUME NEW i \in 1..g + h, NEW k \in 1..g + h, i < k PROVE OrderKey(lab[i]) < OrderKey(lab[k])
  <2>1. CASE k <= g
    <3>1. k \in 1..g /\ i \in 1..g
      BY <1>0, <1>7, <2>1
    <3> QED BY <1>1, <1>4, <1>7, <3>1 DEF Fills
  <2>2. CASE ~(i <= g)
    <3>1. k \in g + 1..g + h /\ i \in g + 1..g + h /\ i - g < k - g
      BY <1>0, <1>7, <2>2
    <3> QED BY <1>2, <1>4, <1>5, <1>7, <3>1 DEF Fills
  <2>3. CASE i <= g /\ ~(k <= g)
    <3>1. k \in g + 1..g + h /\ i \in 1..g
      BY <1>0, <1>7, <2>3
    <3>2. OrderKey(lab[i]) \in lo..mid - 1
      BY <1>1, <1>4, <3>1 DEF Fills
    <3>3. OrderKey(lab[k]) \in mid..hi - 1
      BY <1>2, <1>4, <1>5, <3>1 DEF Fills
    <3> QED BY <3>2, <3>3
  <2> QED BY <2>1, <2>2, <2>3
<1>8. ASSUME NEW t \in Step, Happens(t[1], t[2]), OrderKey(t) \in lo..hi - 1 PROVE \E k \in 1..g + h : lab[k] = t
  <2>1. CASE OrderKey(t) < mid
    <3>1. OrderKey(t) \in lo..mid - 1
      BY <1>8, <2>1
    <3>2. PICK k \in 1..g : la[k] = t
      BY <1>1, <1>8, <3>1 DEF Fills
    <3> QED BY <1>0, <1>4, <3>2
  <2>2. CASE ~(OrderKey(t) < mid)
    <3>1. OrderKey(t) \in mid..hi - 1
      BY <1>8, <2>2
    <3>2. PICK k \in 1..h : lb[k] = t
      BY <1>2, <1>8, <3>1 DEF Fills
    <3>3. k + g \in g + 1..g + h /\ k + g - g = k
      BY <1>0, <3>2
    <3> QED BY <1>0, <1>4, <3>2, <3>3
  <2> QED BY <2>1, <2>2
<1>9. Fills(r, lab, g + h, lo, hi)
  BY <1>0, <1>3, <1>6, <1>7, <1>8 DEF Fills
<1>11. Frag(r, lo, hi)
  BY <1>9 DEF Frag
<1> QED BY <1>10, <1>11 DEF Joins

\* Steps of one layer in a row.
LEMMA InLayer ==
  ASSUME NEW l \in Int, NEW h \in Nat, NEW p, IsTable(p, h), NEW f, NEW lo \in 0..100, NEW hi \in 0..100,
         \A k \in 1..h : f[k] \in lo..hi - 1 /\ LabelOK(p[k], l, f[k]),
         \A i, k \in 1..h : i < k => f[i] < f[k],
         \A n \in lo..hi - 1 : Happens(l, n) => \E k \in 1..h : f[k] = n
  PROVE  Frag(p, 100 * l + lo, 100 * l + hi)
<1> DEFINE lab == [k \in 1..h |-> <<l, f[k]>>]
<1>1. \A k \in 1..h : lab[k] = <<l, f[k]>> /\ lab[k][1] = l /\ lab[k][2] = f[k] /\ f[k] \in 0..99
  OBVIOUS
<1> HIDE DEF lab
<1>2. ASSUME NEW k \in 1..h
      PROVE  /\ lab[k] \in Step /\ LabelOK(p[k], lab[k][1], lab[k][2])
             /\ OrderKey(lab[k]) = 100 * l + f[k] /\ OrderKey(lab[k]) \in 100 * l + lo..100 * l + hi - 1
  <2>1. lab[k] = <<l, f[k]>> /\ lab[k][1] = l /\ lab[k][2] = f[k] /\ f[k] \in 0..99
    BY <1>1
  <2>2. OrderKey(lab[k]) = 100 * l + f[k]
    BY <2>1 DEF OrderKey
  <2>3. lab[k] \in Step
    BY <2>1 DEF Step
  <2> QED BY <2>1, <2>2, <2>3
<1>3. ASSUME NEW i \in 1..h, NEW k \in 1..h, i < k PROVE OrderKey(lab[i]) < OrderKey(lab[k])
  <2>1. OrderKey(lab[i]) = 100 * l + f[i] /\ OrderKey(lab[k]) = 100 * l + f[k] /\ f[i] \in Int /\ f[k] \in Int
    BY <1>1, <1>2
  <2>2. f[i] < f[k]
    BY <1>3
  <2> QED BY <2>1, <2>2
<1>4. ASSUME NEW t \in Step, Happens(t[1], t[2]), OrderKey(t) \in 100 * l + lo..100 * l + hi - 1
      PROVE  \E k \in 1..h : lab[k] = t
  <2>1. t = <<t[1], t[2]>> /\ t[1] \in Int /\ t[2] \in 0..99
    BY DEF Step
  <2>2. t[1] = l /\ t[2] \in lo..hi - 1
    <3>1. PICK a \in Int, c \in 0..99 : a = t[1] /\ c = t[2]
      BY <2>1
    <3>2. 100 * a + c \in 100 * l + lo..100 * l + hi - 1
      BY <1>4, <3>1 DEF OrderKey
    <3>3. a = l
      BY <3>2
    <3> QED BY <3>1, <3>2, <3>3
  <2>3. PICK k \in 1..h : f[k] = t[2]
    BY <1>4, <2>2
  <2> QED BY <1>1, <2>1, <2>2, <2>3
<1>5. Fills(p, lab, h, 100 * l + lo, 100 * l + hi)
  BY <1>2, <1>3, <1>4 DEF Fills
<1> QED BY <1>5 DEF Frag

\* One step makes a fragment ...
LEMMA OneStep ==
  ASSUME NEW l \in Int, NEW o, NEW n, NEW lo \in 0..100, NEW hi \in 0..100, n \in lo..hi - 1, LabelOK(o, l, n),
         \A i \in lo..hi - 1 : Happens(l, i) => i = n
  PROVE  Frag(<<o>>, 100 * l + lo, 100 * l + hi)
<1> DEFINE p == <<o>>
           f == <<n>>
<1>6. PICK h \in Nat : h = 1
  OBVIOUS
<1>1. IsTable(p, h) /\ \A k \in 1..h : k = 1 /\ f[k] = n /\ p[k] = o
  BY <1>6 DEF IsTable
<1> HIDE DEF p, f
<1>2. \A k \in 1..h : f[k] \in lo..hi - 1 /\ LabelOK(p[k], l, f[k])
  BY <1>1
<1>3. \A i, k \in 1..h : i < k => f[i] < f[k]
  BY <1>6
<1>4. \A i \in lo..hi - 1 : Happens(l, i) => \E k \in 1..h : f[k] = i
  BY <1>1, <1>6
<1>5. Frag(p, 100 * l + lo, 100 * l + hi)
  BY <1>1, <1>2, <1>3, <1>4, InLayer, ZenonT(60)
<1> QED BY <1>5 DEF p

\* ... and so does none.
LEMMA NoStep ==
  ASSUME NEW l \in Int, NEW lo \in 0..100, NEW hi \in 0..100, \A i \in lo..hi - 1 : ~Happens(l, i)
  PROVE  Frag(<< >>, 100 * l + lo, 100 * l + hi)
<1> DEFINE p == << >>
<1>6. PICK h \in Nat : h = 0
  OBVIOUS
<1>1. IsTable(p, h) /\ \A k \in 1..h : FALSE
  BY <1>6 DEF IsTable
<1> HIDE DEF p
<1>3. PICK f : f = <<0>>
  OBVIOUS
<1>4. \A k \in 1..h : f[k] \in lo..hi - 1 /\ LabelOK(p[k], l, f[k])
  BY <1>1
<1>5. \A i, k \in 1..h : i < k => f[i] < f[k]
  BY <1>1
<1>7. \A n \in lo..hi - 1 : Happens(l, n) => \E k \in 1..h : f[k] = n
  OBVIOUS
<1>2. Frag(p, 100 * l + lo, 100 * l + hi)
  BY <1>1, <1>4, <1>5, <1>7, InLayer
<1> QED BY <1>2 DEF p

\* p does the steps from a to b of layer l.
Part(p, l, a, b) == Frag(p, 100 * l + a, 100 * l + b)

\* Parts of a layer that follow one another.
LEMMA JoinParts ==
  ASSUME NEW l \in Int, NEW a \in 0..100, NEW b \in 0..100, NEW c \in 0..100, a <= b, b <= c,
         NEW p, NEW q, Part(p, l, a, b), Part(q, l, b, c)
  PROVE  Part(p \o q, l, a, c)
<1>1. PICK x \in Int, y \in Int, z \in Int : x = 100 * l + a /\ y = 100 * l + b /\ z = 100 * l + c
  OBVIOUS
<1>2. x <= y /\ y <= z /\ Frag(p, x, y) /\ Frag(q, y, z)
  BY <1>1 DEF Part
<1>3. Frag(p \o q, x, z)
  BY <1>2, Join
<1> QED BY <1>1, <1>3 DEF Part

\* Which steps there are.
LEMMA HappensOnly ==
  ASSUME Layers \in Nat, NEW l, NEW n, Happens(l, n)
  PROVE  /\ l \in 0..Layers /\ n \in 0..46
         /\ l = Layers => n \in {0, 1, 2, 3, 4}
         /\ n \in {5, 9, 13, 19, 20, 29, 45} => Host
         /\ n \in {15, 16, 17} => ~Host
         /\ n \in {5, 15} => HasBias("bq", l)
         /\ n \in {9, 16} => HasBias("bk", l)
         /\ n \in {13, 17} => HasBias("bv", l)
         /\ n \in {1, 14, 23, 25, 30, 32, 39, 41, 46, 18, 3, 7, 11, 27, 34, 37, 43} => Metal
         /\ n = 18 => HasBias("bq", l)
         /\ n \in {2, 6, 10, 26, 33, 36, 42} => Split(LinWeight(l, n))
         /\ n \in {3, 7, 11, 27, 34, 37, 43} => Split(LinWeight(l, n - 1))
<1>1. CASE Occurs(l, n)
  <2>1. l \in 0..Layers /\ n \in Codes
    BY <1>1, OccursCodes
  <2>2. /\ n \notin {0, 2, 4} => l # Layers
        /\ n \in {5, 9, 13, 19, 20, 29, 45} => Host
        /\ n \in {15, 16, 17} => ~Host
        /\ n \in {5, 15} => HasBias("bq", l)
        /\ n \in {9, 16} => HasBias("bk", l)
        /\ n \in {13, 17} => HasBias("bv", l)
    BY <1>1, StepFacts
  <2>3. n \in {2, 6, 10, 26, 33, 36, 42} => Split(LinWeight(l, n))
    BY <1>1, <2>1 DEF Occurs, Quants
  <2>4. n \in 0..46 /\ n \notin {1, 14, 23, 25, 30, 32, 39, 41, 46, 18, 3, 7, 11, 27, 34, 37, 43}
    BY <2>1 DEF Codes
  <2> QED BY <2>1, <2>2, <2>3, <2>4
<1>2. CASE Fence(l, n)
  <2>1. Metal /\ l \in 0..Layers
    BY <1>2 DEF Fence
  <2>2. n \in {1, 14, 23, 25, 30, 32, 39, 41, 46, 18} \/ (n - 1 \in Quants /\ Split(LinWeight(l, n - 1))) \/ (n = 3 /\ Split(LinWeight(l, 2)))
    BY <1>2 DEF Fence
  <2>3. n \in {1, 14, 23, 25, 30, 32, 39, 41, 46, 18} \/ (n \in {3, 7, 11, 27, 34, 37, 43} /\ Split(LinWeight(l, n - 1)))
    <3>1. ASSUME n - 1 \in Quants PROVE n \in {3, 7, 11, 27, 34, 37, 43}
      BY <3>1 DEF Quants
    <3> QED BY <2>2, <3>1
  <2>4. l = Layers => n \in {0, 1, 2, 3, 4}
    BY <1>2 DEF Fence
  <2>5. n = 18 => HasBias("bq", l)
    BY <1>2 DEF Fence, Quants
  <2>6. n \in 0..46 /\ n \notin {5, 9, 13, 19, 20, 29, 45, 15, 16, 17, 2, 6, 10, 26, 33, 36, 42}
    BY <2>3
  <2> QED BY <2>1, <2>3, <2>4, <2>5, <2>6
<1> QED BY <1>1, <1>2 DEF Happens

\* A linear of a layer: in one operation, or quantize and dot with a barrier between on Metal.
Ok(o, l, n) == OpAt(o, l, n) /\ ~Fenced(o)
LinShape(p, l, n) ==
  IF ~Split(LinWeight(l, n)) THEN IsTable(p, 1) /\ Ok(p[1], l, n)
  ELSE IF Metal THEN /\ IsTable(p, 3) /\ Ok(p[1], l, n - 2) /\ Ok(p[3], l, n)
                     /\ Fenced(p[2]) /\ B("dx") \in p[2].outs
  ELSE IsTable(p, 2) /\ Ok(p[1], l, n - 2) /\ Ok(p[2], l, n)

\* The steps of a linear.
LEMMA DotOccurs ==
  ASSUME Layers \in Nat, NEW l \in 0..Layers, NEW n \in Dots, l = Layers => n = 4
  PROVE  /\ Occurs(l, n)
         /\ Split(LinWeight(l, n)) => Occurs(l, n - 2) /\ (Metal => Fence(l, n - 1) /\ FenceOuts(l, n - 1) = {B("dx")})
<1>1. Occurs(l, n)
  BY DEF Occurs, Dots
<1>2. LinWeight(l, n - 2) = LinWeight(l, n) /\ n - 2 \in Quants
  BY WeightTwo DEF Dots, Quants
<1>3. ASSUME Split(LinWeight(l, n)) PROVE Occurs(l, n - 2)
  BY <1>2, <1>3 DEF Occurs
<1>4. ASSUME Split(LinWeight(l, n)), Metal PROVE Fence(l, n - 1)
  <2>1. n - 1 - 1 = n - 2
    BY DEF Dots
  <2>2. CASE l = Layers
    BY <1>2, <1>4, <2>1, <2>2 DEF Fence
  <2>3. CASE l # Layers
    BY <1>2, <1>4, <2>1, <2>3 DEF Fence
  <2> QED BY <2>2, <2>3
<1>5. FenceOuts(l, n - 1) = {B("dx")}
  BY DEF FenceOuts, Dots
<1> QED BY <1>1, <1>3, <1>4, <1>5

\* They are a part of the layer.
LEMMA LinPart ==
  ASSUME Layers \in Nat, NEW l \in 0..Layers, NEW n \in Dots, l = Layers => n = 4, NEW p, LinShape(p, l, n),
         NEW hi \in n + 1..100, \A i \in n + 1..hi - 1 : ~Happens(l, i)
  PROVE  Part(p, l, n - 2, hi)
<1>0. n \in 4..44 /\ n - 2 \in 0..100 /\ hi \in 0..100 /\ l \in Int /\ n - 2 \in {2, 6, 10, 26, 33, 36, 42}
      /\ n - 1 \in {3, 7, 11, 27, 34, 37, 43}
  BY DEF Dots
<1>1. /\ Occurs(l, n)
      /\ Split(LinWeight(l, n)) => Occurs(l, n - 2) /\ (Metal => Fence(l, n - 1) /\ FenceOuts(l, n - 1) = {B("dx")})
  BY DotOccurs
<1>2. \A i \in n - 2..hi - 1 : Happens(l, i) => i \in {n - 2, n - 1, n}
  BY <1>0
<1>3. Happens(l, n - 2) => Split(LinWeight(l, n))
  BY <1>0, HappensOnly, WeightTwo
<1>4. Happens(l, n - 1) => Split(LinWeight(l, n)) /\ Metal
  <2>1. Happens(l, n - 1) => Split(LinWeight(l, n - 1 - 1)) /\ Metal
    BY <1>0, HappensOnly
  <2>2. n - 1 - 1 = n - 2
    BY <1>0
  <2> QED BY <2>1, <2>2, WeightTwo
<1>5. CASE ~Split(LinWeight(l, n))
  <2>1. IsTable(p, 1) /\ OpAt(p[1], l, n) /\ ~Fenced(p[1])
    BY <1>5 DEF LinShape, Ok
  <2>2. LabelOK(p[1], l, n)
    BY <1>1, <2>1 DEF LabelOK
  <2>5. p = <<p[1]>>
    BY <2>1 DEF IsTable
  <2>3. \A i \in n - 2..hi - 1 : Happens(l, i) => i = n
    BY <1>2, <1>3, <1>4, <1>5
  <2>4. n \in n - 2..hi - 1
    BY <1>0
  <2>6. PICK o : o = p[1]
    OBVIOUS
  <2>7. Part(<<o>>, l, n - 2, hi)
    BY <1>0, <2>2, <2>3, <2>4, <2>6, OneStep DEF Part
  <2> QED BY <2>5, <2>6, <2>7
<1>6. CASE Split(LinWeight(l, n)) /\ ~Metal
  <2>1. PICK q, o : /\ IsTable(p, 2) /\ p[1] = q /\ p[2] = o
                    /\ OpAt(q, l, n - 2) /\ OpAt(o, l, n) /\ ~Fenced(q) /\ ~Fenced(o)
    BY <1>6 DEF LinShape, Ok
  <2>2. LabelOK(o, l, n) /\ LabelOK(q, l, n - 2)
    BY <1>1, <1>6, <2>1 DEF LabelOK
  <2> DEFINE c == <<n - 2, n>>
  <2>3. PICK h \in Nat : h = 2
    OBVIOUS
  <2>4. IsTable(p, h)
    BY <2>1, <2>3
  <2>5. \A k \in 1..h : (k = 1 /\ c[k] = n - 2 /\ p[k] = q) \/ (k = 2 /\ c[k] = n /\ p[k] = o)
    BY <2>1, <2>3
  <2>6. 1 \in 1..h /\ 2 \in 1..h /\ c[1] = n - 2 /\ c[2] = n
    BY <2>3
  <2> HIDE DEF c
  <2>7. \A k \in 1..h : c[k] \in n - 2..hi - 1 /\ LabelOK(p[k], l, c[k])
    BY <1>0, <2>2, <2>5
  <2>8. \A i, k \in 1..h : i < k => c[i] < c[k]
    BY <1>0, <2>5
  <2>9. \A i \in n - 2..hi - 1 : Happens(l, i) => \E k \in 1..h : c[k] = i
    BY <1>2, <1>4, <1>6, <2>6
  <2>10. Frag(p, 100 * l + (n - 2), 100 * l + hi)
    BY <1>0, <2>4, <2>7, <2>8, <2>9, InLayer, ZenonT(60)
  <2> QED BY <2>10 DEF Part
<1>7. CASE Split(LinWeight(l, n)) /\ Metal
  <2>1. PICK q, f, o : /\ IsTable(p, 3) /\ p[1] = q /\ p[2] = f /\ p[3] = o /\ OpAt(q, l, n - 2) /\ OpAt(o, l, n)
                       /\ ~Fenced(q) /\ ~Fenced(o) /\ Fenced(f) /\ B("dx") \in f.outs
    BY <1>7 DEF LinShape, Ok
  <2>2. LabelOK(o, l, n) /\ LabelOK(q, l, n - 2) /\ LabelOK(f, l, n - 1)
    BY <1>1, <1>7, <2>1 DEF LabelOK
  <2> DEFINE c == <<n - 2, n - 1, n>>
  <2>3. PICK h \in Nat : h = 3
    OBVIOUS
  <2>4. IsTable(p, h)
    BY <2>1, <2>3
  <2>5. \A k \in 1..h : \/ k = 1 /\ c[k] = n - 2 /\ p[k] = q
                        \/ k = 2 /\ c[k] = n - 1 /\ p[k] = f
                        \/ k = 3 /\ c[k] = n /\ p[k] = o
    BY <2>1, <2>3
  <2>6. 1 \in 1..h /\ 2 \in 1..h /\ 3 \in 1..h /\ c[1] = n - 2 /\ c[2] = n - 1 /\ c[3] = n
    BY <2>3
  <2> HIDE DEF c
  <2>7. \A k \in 1..h : c[k] \in n - 2..hi - 1 /\ LabelOK(p[k], l, c[k])
    BY <1>0, <2>2, <2>5
  <2>8. \A i, k \in 1..h : i < k => c[i] < c[k]
    BY <1>0, <2>5
  <2>9. \A i \in n - 2..hi - 1 : Happens(l, i) => \E k \in 1..h : c[k] = i
    BY <1>2, <2>6
  <2>10. Frag(p, 100 * l + (n - 2), 100 * l + hi)
    BY <1>0, <2>4, <2>7, <2>8, <2>9, InLayer, ZenonT(60)
  <2> QED BY <2>10 DEF Part
<1> QED BY <1>5, <1>6, <1>7

\* A barrier is a fence of its layer.
LEMMA BarrierIs ==
  ASSUME NEW bufs, NEW l, NEW n, Fence(l, n), FenceOuts(l, n) \subseteq bufs
  PROVE  \E o : Barrier(bufs) = <<o>> /\ LabelOK(o, l, n)
<1> DEFINE o == Op("barrier", None, None, << >>, bufs)
<1>1. Fenced(o) /\ o.outs = bufs
  BY DEF Fenced, Op
<1>2. Barrier(bufs) = <<o>>
  BY DEF Barrier
<1> HIDE DEF o
<1> QED BY <1>1, <1>2 DEF LabelOK

\* An operation on every row that is no barrier.
Plain(o) == o.last = FALSE /\ ~Fenced(o)

\* An operation that is not of a linear.
LEMMA PlainIs ==
  ASSUME NEW o, NEW l, NEW n, Occurs(l, n), n \notin {2, 4}, Plain(o), IsAt(o, l, n)
  PROVE  LabelOK(o, l, n)
<1>1. OnlyLast(l, n) = FALSE
  BY DEF OnlyLast
<1> QED BY <1>1 DEF LabelOK, OpAt, Plain

\* A norm is its step.
LEMMA NormIs ==
  ASSUME Layers \in Nat, NEW l \in 0..Layers, NEW n \in {0, 31}, n = 31 => l # Layers, NEW w,
         w = IF n = 31 THEN <<"ffn_norm", l>> ELSE IF l = Layers THEN FinalNorm ELSE <<"attn_norm", l>>
  PROVE  LabelOK(NormOp(Norm, w, X, Xb), l, n)
<1> DEFINE o == NormOp(Norm, w, X, Xb)
<1>1. OpIs(o, "norm", Norm, w, <<X>>, {Xb}, FALSE)
  BY DEF NormOp, Op, OpIs, Fenced
<1>10. Plain(o)
  BY DEF NormOp, Op, OpIs, Fenced, Plain
<1> HIDE DEF o
<1>2. IsAt(o, l, n)
  <2>1. CASE n = 0
    BY <1>1, <2>1 DEF IsAt, OpIs, Quants, Dots
  <2>2. CASE n = 31
    BY <1>1, <2>2 DEF IsAt, OpIs, Quants, Dots
  <2> QED BY <2>1, <2>2
<1>3. Occurs(l, n)
  BY DEF Occurs
<1>4. LabelOK(o, l, n)
  BY <1>10, <1>2, <1>3, PlainIs
<1> QED BY <1>4 DEF o

\* A bias is its step.
LEMMA BiasIs ==
  ASSUME Layers \in Nat, NEW l \in 0..Layers - 1, NEW s, NEW n, NEW to, HasBias(s, l),
         \/ s = "bq" /\ n = (IF Host THEN 5 ELSE 15) /\ to = Q
         \/ s = "bk" /\ n = (IF Host THEN 9 ELSE 16) /\ to = KeysOf(l)
         \/ s = "bv" /\ n = (IF Host THEN 13 ELSE 17) /\ to = ValuesOf(l)
  PROVE  LabelOK(BiasOp(s, l, to), l, n)
<1> DEFINE o == BiasOp(s, l, to)
<1>1. OpIs(o, "bias", None, <<Biases[s], l>>, <<to>>, {to}, FALSE)
  BY DEF BiasOp, Op, OpIs, Fenced
<1>10. Plain(o)
  BY DEF BiasOp, Op, OpIs, Fenced, Plain
<1> HIDE DEF o
<1>2. Biases["bq"] = "attn_q.bias" /\ Biases["bk"] = "attn_k.bias" /\ Biases["bv"] = "attn_v.bias"
  BY DEF Biases
<1>4. CASE s = "bq" /\ n = (IF Host THEN 5 ELSE 15) /\ to = Q
  <2>1. OpIs(o, "bias", None, <<"attn_q.bias", l>>, <<Q>>, {Q}, FALSE)
    BY <1>1, <1>2, <1>4
  <2>2. n \in {5, 15}
    BY <1>4
  <2>3. IsAt(o, l, n)
    BY <2>1, <2>2 DEF IsAt, OpIs, Quants, Dots
  <2>4. Occurs(l, n)
    BY <1>4 DEF Occurs
  <2>5. LabelOK(o, l, n)
    BY <1>10, <2>2, <2>3, <2>4, PlainIs
  <2> QED BY <2>5 DEF o
<1>5. CASE s = "bk" /\ n = (IF Host THEN 9 ELSE 16) /\ to = KeysOf(l)
  <2>1. OpIs(o, "bias", None, <<"attn_k.bias", l>>, <<KeysOf(l)>>, {KeysOf(l)}, FALSE)
    BY <1>1, <1>2, <1>5
  <2>2. n \in {9, 16}
    BY <1>5
  <2>3. IsAt(o, l, n)
    BY <2>1, <2>2 DEF IsAt, OpIs, Quants, Dots
  <2>4. Occurs(l, n)
    BY <1>5 DEF Occurs
  <2>5. LabelOK(o, l, n)
    BY <1>10, <2>2, <2>3, <2>4, PlainIs
  <2> QED BY <2>5 DEF o
<1>6. CASE s = "bv" /\ n = (IF Host THEN 13 ELSE 17) /\ to = ValuesOf(l)
  <2>1. OpIs(o, "bias", None, <<"attn_v.bias", l>>, <<ValuesOf(l)>>, {ValuesOf(l)}, FALSE)
    BY <1>1, <1>2, <1>6
  <2>2. n \in {13, 17}
    BY <1>6
  <2>3. IsAt(o, l, n)
    BY <2>1, <2>2 DEF IsAt, OpIs, Quants, Dots
  <2>4. Occurs(l, n)
    BY <1>6 DEF Occurs
  <2>5. LabelOK(o, l, n)
    BY <1>10, <2>2, <2>3, <2>4, PlainIs
  <2> QED BY <2>5 DEF o
<1> QED BY <1>4, <1>5, <1>6

\* Copies, rotations, attention, additions and the activation are theirs.
LEMMA MovesAre ==
  ASSUME Layers \in Nat, NEW l \in 0..Layers - 1
  PROVE  /\ Host => LabelOK(CopyOp(B("k"), Keys(l)), l, 19) /\ LabelOK(CopyOp(B("v"), Values(l)), l, 20)
         /\ LabelOK(RopeOp(Rotation, Q), l, 21) /\ LabelOK(RopeOp(Rotation, Keys(l)), l, 22)
         /\ LabelOK(AttentionOp(l), l, 24) /\ LabelOK(ActOp(Act), l, 40)
         /\ Host => LabelOK(AddOp(X, B("xb2")), l, 29) /\ LabelOK(AddOp(X, B("xb2")), l, 45)
<1>1. ASSUME Host PROVE LabelOK(CopyOp(B("k"), Keys(l)), l, 19) /\ LabelOK(CopyOp(B("v"), Values(l)), l, 20)
  <2> DEFINE c == CopyOp(B("k"), Keys(l))
             d == CopyOp(B("v"), Values(l))
  <2>1. OpIs(c, "copy", None, None, <<B("k")>>, {Keys(l)}, FALSE)
    BY DEF CopyOp, Op, OpIs, Fenced
  <2>10. Plain(c)
    BY DEF CopyOp, Op, OpIs, Fenced, Plain
  <2>2. OpIs(d, "copy", None, None, <<B("v")>>, {Values(l)}, FALSE)
    BY DEF CopyOp, Op, OpIs, Fenced
  <2>20. Plain(d)
    BY DEF CopyOp, Op, OpIs, Fenced, Plain
  <2>3. Occurs(l, 19) /\ Occurs(l, 20)
    BY <1>1 DEF Occurs
  <2> HIDE DEF c, d
  <2>4. IsAt(c, l, 19)
    BY <2>1 DEF IsAt, OpIs, Quants, Dots
  <2>5. IsAt(d, l, 20)
    BY <2>2 DEF IsAt, OpIs, Quants, Dots
  <2>6. LabelOK(c, l, 19) /\ LabelOK(d, l, 20)
    BY <2>10, <2>20, <2>3, <2>4, <2>5, PlainIs
  <2> QED BY <2>6 DEF c, d
<1>2. LabelOK(RopeOp(Rotation, Q), l, 21) /\ LabelOK(RopeOp(Rotation, Keys(l)), l, 22)
  <2> DEFINE c == RopeOp(Rotation, Q)
             d == RopeOp(Rotation, Keys(l))
  <2>1. OpIs(c, "rope", Rotation, None, <<Q>>, {Q}, FALSE)
    BY DEF RopeOp, Op, OpIs, Fenced
  <2>10. Plain(c)
    BY DEF RopeOp, Op, OpIs, Fenced, Plain
  <2>2. OpIs(d, "rope", Rotation, None, <<Keys(l)>>, {Keys(l)}, FALSE)
    BY DEF RopeOp, Op, OpIs, Fenced
  <2>20. Plain(d)
    BY DEF RopeOp, Op, OpIs, Fenced, Plain
  <2>3. Occurs(l, 21) /\ Occurs(l, 22)
    BY DEF Occurs
  <2> HIDE DEF c, d
  <2>4. IsAt(c, l, 21)
    BY <2>1 DEF IsAt, OpIs, Quants, Dots
  <2>5. IsAt(d, l, 22)
    BY <2>2 DEF IsAt, OpIs, Quants, Dots
  <2>6. LabelOK(c, l, 21) /\ LabelOK(d, l, 22)
    BY <2>10, <2>20, <2>3, <2>4, <2>5, PlainIs
  <2> QED BY <2>6 DEF c, d
<1>3. LabelOK(AttentionOp(l), l, 24) /\ LabelOK(ActOp(Act), l, 40)
  <2> DEFINE c == AttentionOp(l)
             d == ActOp(Act)
  <2>1. OpIs(c, "attention", None, None, <<Q, Keys(l), Values(l)>>, {Att}, FALSE)
    BY DEF AttentionOp, Op, OpIs, Fenced
  <2>10. Plain(c)
    BY DEF AttentionOp, Op, OpIs, Fenced, Plain
  <2>2. OpIs(d, "act", Act, None, <<B("gate"), B("up")>>, {B("inner")}, FALSE)
    BY DEF ActOp, Op, OpIs, Fenced
  <2>20. Plain(d)
    BY DEF ActOp, Op, OpIs, Fenced, Plain
  <2>3. Occurs(l, 24) /\ Occurs(l, 40)
    BY DEF Occurs
  <2> HIDE DEF c, d
  <2>4. IsAt(c, l, 24)
    BY <2>1 DEF IsAt, OpIs, Quants, Dots
  <2>5. IsAt(d, l, 40)
    BY <2>2 DEF IsAt, OpIs, Quants, Dots
  <2>6. LabelOK(c, l, 24) /\ LabelOK(d, l, 40)
    BY <2>10, <2>20, <2>3, <2>4, <2>5, PlainIs
  <2> QED BY <2>6 DEF c, d
<1>4. ASSUME Host PROVE LabelOK(AddOp(X, B("xb2")), l, 29) /\ LabelOK(AddOp(X, B("xb2")), l, 45)
  <2> DEFINE c == AddOp(X, B("xb2"))
  <2>1. OpIs(c, "add", None, None, <<X, B("xb2")>>, {X}, FALSE)
    BY DEF AddOp, Op, OpIs, Fenced
  <2>10. Plain(c)
    BY DEF AddOp, Op, OpIs, Fenced, Plain
  <2>3. Occurs(l, 29) /\ Occurs(l, 45)
    BY <1>4 DEF Occurs
  <2> HIDE DEF c
  <2>4. IsAt(c, l, 29)
    BY <2>1 DEF IsAt, OpIs, Quants, Dots
  <2>5. IsAt(c, l, 45)
    BY <2>1 DEF IsAt, OpIs, Quants, Dots
  <2>6. LabelOK(c, l, 29) /\ LabelOK(c, l, 45)
    BY <2>10, <2>3, <2>4, <2>5, PlainIs
  <2> QED BY <2>6 DEF c
<1> QED BY <1>1, <1>2, <1>3, <1>4

-----------------------------------------------------------------------------
(* Linears.                                                                *)

\* The operation of a linear is its step ...
LEMMA LinearBuilt ==
  ASSUME NEW l, NEW n \in Dots, NEW o,
         o.op = (IF Split(LinWeight(l, n)) THEN "dot" ELSE "linear"), o.how = Product(LinWeight(l, n)),
         o.w = LinWeight(l, n), o.ins = Ins(l, n), o.outs = {OutBuf(l, n)},
         o.acc = Adds(n), o.last = OnlyLast(l, n)
  PROVE  OpAt(o, l, n) /\ ~Fenced(o)
<1>1. ~Fenced(o)
  BY DEF Fenced
<1>2. n \notin {0, 31, 5, 15, 9, 16, 13, 17, 19, 20, 21, 22, 24, 29, 45, 40} /\ n \notin Quants
  BY DEF Dots, Quants
<1>3. IsAt(o, l, n)
  BY <1>2 DEF IsAt, OpIs
<1> QED BY <1>1, <1>3 DEF OpAt

\* ... and so is that which quantizes for it.
LEMMA QuantBuilt ==
  ASSUME NEW l, NEW n \in Quants, NEW o, o.op = "quant", o.how = None, o.w = None, o.ins = <<From(l, n)>>,
         o.outs = Scratch \/ (o.outs = {B("dx"), B("qs")} /\ Dtype(LinWeight(l, n)) # "Q4_K"),
         o.acc = FALSE, o.last = OnlyLast(l, n)
  PROVE  OpAt(o, l, n) /\ ~Fenced(o)
<1>1. ~Fenced(o)
  BY DEF Fenced
<1>2. n \notin {0, 31, 5, 15, 9, 16, 13, 17, 19, 20, 21, 22, 24, 29, 45, 40} /\ n \notin Dots
  BY DEF Dots, Quants
<1>3. IsAt(o, l, n)
  BY <1>2 DEF IsAt, OpIs
<1> QED BY <1>1, <1>3 DEF OpAt

\* An operation of a linear as it is before a change of its acc or last.
Built(o, op, how, w, ins, outs) == o.op = op /\ o.how = how /\ o.w = w /\ o.ins = ins /\ o.outs = outs

\* Op builds an operation that replaces, on every row.
LEMMA OpBuilt ==
  ASSUME NEW op, NEW how, NEW w, NEW ins, NEW outs
  PROVE  Built(Op(op, how, w, ins, outs), op, how, w, ins, outs)
         /\ Op(op, how, w, ins, outs).acc = FALSE /\ Op(op, how, w, ins, outs).last = FALSE
BY DEF Built, Op

\* An operation with its acc or its last changed.
Added(o) == [o EXCEPT !.acc = TRUE]
Kept(o) == [o EXCEPT !.acc = FALSE]
Lasting(o) == [o EXCEPT !.last = TRUE]

\* An operation made to add ...
LEMMA AddedBuilt ==
  ASSUME NEW op, NEW how, NEW w, NEW ins, NEW outs, NEW o, o = Op(op, how, w, ins, outs), NEW r, r = Added(o)
  PROVE  Built(r, op, how, w, ins, outs) /\ r.acc = TRUE /\ r.last = FALSE
BY DEF Built, Op, Added

\* ... left to replace ...
LEMMA KeptBuilt ==
  ASSUME NEW op, NEW how, NEW w, NEW ins, NEW outs, NEW o, o = Op(op, how, w, ins, outs), NEW r, r = Kept(o)
  PROVE  Built(r, op, how, w, ins, outs) /\ r.acc = FALSE /\ r.last = FALSE
BY DEF Built, Op, Kept

\* ... or made to run on the last row.
LEMMA LastingBuilt ==
  ASSUME NEW op, NEW how, NEW w, NEW ins, NEW outs, NEW o, o = Op(op, how, w, ins, outs), NEW r, r = Lasting(o)
  PROVE  Built(r, op, how, w, ins, outs) /\ r.acc = FALSE /\ r.last = TRUE
BY DEF Built, Op, Lasting

\* Accumulating changes the last operation.
LEMMA AccTable ==
  ASSUME NEW h \in Nat \ {0}, NEW p, IsTable(p, h)
  PROVE  /\ IsTable(Accumulating(p), h) /\ \A k \in 1..h - 1 : Accumulating(p)[k] = Kept(p[k])
         /\ Accumulating(p)[h] = Added(p[h])
<1>1. Len(p) = h /\ DOMAIN p = 1..h
  BY LenTable DEF IsTable
<1>2. Accumulating(p) = [k \in 1..h |-> [p[k] EXCEPT !.acc = k = h]]
  BY <1>1 DEF Accumulating
<1>3. IsTable(Accumulating(p), h)
  BY <1>2 DEF IsTable
<1>4. ASSUME NEW k \in 1..h - 1 PROVE Accumulating(p)[k] = Kept(p[k])
  <2>1. k \in 1..h /\ (k = h) = FALSE
    OBVIOUS
  <2>2. Accumulating(p)[k] = [p[k] EXCEPT !.acc = k = h]
    BY <1>2, <2>1
  <2> QED BY <2>1, <2>2, Zenon DEF Kept
<1>5. Accumulating(p)[h] = Added(p[h])
  <2>1. h \in 1..h /\ (h = h) = TRUE
    OBVIOUS
  <2>2. Accumulating(p)[h] = [p[h] EXCEPT !.acc = h = h]
    BY <1>2, <2>1
  <2> QED BY <2>1, <2>2, Zenon DEF Added
<1> QED BY <1>3, <1>4, <1>5

\* OnLastRow changes each.
LEMMA LastTable ==
  ASSUME NEW h \in Nat, NEW p, IsTable(p, h)
  PROVE  IsTable(OnLastRow(p), h) /\ \A k \in 1..h : OnLastRow(p)[k] = Lasting(p[k])
<1>1. DOMAIN p = 1..h
  BY DEF IsTable
<1>2. OnLastRow(p) = [k \in 1..h |-> Lasting(p[k])]
  BY <1>1 DEF OnLastRow, Lasting
<1> QED BY <1>2 DEF IsTable

\* Quantizing and the dots of a linear agree on weight and operand.
LEMMA FromTwo ==
  ASSUME NEW l, NEW n \in Dots
  PROVE  From(l, n - 2) = From(l, n) /\ LinWeight(l, n - 2) = LinWeight(l, n) /\ n - 2 \in Quants
         /\ (OnlyLast(l, n - 2) <=> OnlyLast(l, n))
<1>1. From(l, n - 2) = From(l, n)
  BY DEF From, Dots
<1>2. n - 2 \in Quants
  BY DEF Dots, Quants
<1>3. n - 2 \in {2, 4} <=> n \in {2, 4}
  BY DEF Dots
<1>4. OnlyLast(l, n - 2) <=> OnlyLast(l, n)
  <2>1. CASE n = 4
    BY <2>1 DEF OnlyLast
  <2>2. CASE n # 4
    <3>1. n \notin {2, 4} /\ n - 2 \notin {2, 4}
      BY <2>2 DEF Dots
    <3> QED BY <3>1 DEF OnlyLast
  <2> QED BY <2>1, <2>2
<1> QED BY <1>1, <1>2, <1>4, WeightTwo

\* An operation that quantizes the operand of w, with room for the sums of a Q4_K.
QuantOf(o, w, from) ==
  \E outs : /\ o = Op("quant", None, None, <<from>>, outs)
            /\ outs = Scratch \/ (outs = {B("dx"), B("qs")} /\ Dtype(w) # "Q4_K")
\* What the dots of a weight read.
Operands(w) == IF Dtype(w) = "Q4_K" THEN <<B("dx"), B("qs"), B("bs")>> ELSE <<B("dx"), B("qs")>>
\* The dots of a weight.
DotOf(o, w, to) == o = Op("dot", Product(w), w, Operands(w), {to})
\* A barrier between the two.
FenceOf(o) == \E bufs : B("dx") \in bufs /\ o = Op("barrier", None, None, << >>, bufs)

\* The operations of a linear of w.
LinOf(p, w, from, to) ==
  IF ~Split(w) THEN IsTable(p, 1) /\ p[1] = Op("linear", Product(w), w, <<from>>, {to})
  ELSE IF Metal THEN IsTable(p, 3) /\ QuantOf(p[1], w, from) /\ FenceOf(p[2]) /\ DotOf(p[3], w, to)
  ELSE IsTable(p, 2) /\ QuantOf(p[1], w, from) /\ DotOf(p[2], w, to)

\* A linear in one operation ...
LEMMA LinOne ==
  ASSUME NEW p, NEW o, NEW w, NEW from, NEW to, ~Split(w), p = <<o>>, o = Op("linear", Product(w), w, <<from>>, {to})
  PROVE  LinOf(p, w, from, to)
<1>1. IsTable(p, 1) /\ p[1] = o
  BY DEF IsTable
<1> QED BY <1>1 DEF LinOf

\* ... in two ...
LEMMA LinTwo ==
  ASSUME NEW p, NEW q, NEW o, NEW w, NEW from, NEW to, Split(w), ~Metal, p = <<q, o>>,
         QuantOf(q, w, from), DotOf(o, w, to)
  PROVE  LinOf(p, w, from, to)
<1>1. IsTable(p, 2) /\ p[1] = q /\ p[2] = o
  BY DEF IsTable
<1> QED BY <1>1 DEF LinOf

\* Three operations in a row.
LEMMA ThreeJoined ==
  ASSUME NEW a, NEW b, NEW c
  PROVE  <<a>> \o <<b>> \o <<c>> = <<a, b, c>>
<1>0. PICK x, y, z, r, t : /\ x = <<a>> /\ y = <<b>> /\ z = <<c>> /\ Joins(r, x, y) /\ Joins(t, r, z)
                           /\ t = <<a>> \o <<b>> \o <<c>>
  BY DEF Joins
<1>1. PICK g \in Nat, h \in Nat : g = 1 /\ h = 2
  OBVIOUS
<1>2. IsTable(x, g) /\ IsTable(y, g) /\ IsTable(z, g) /\ x[1] = a /\ y[1] = b /\ z[1] = c
  BY <1>0, <1>1 DEF IsTable
<1>3. IsTable(r, g + g) /\ (\A k \in 1..g : r[k] = x[k]) /\ (\A k \in g + 1..g + g : r[k] = y[k - g])
  <2>1. Joins(r, x, y) /\ IsTable(x, g) /\ IsTable(y, g)
    BY <1>0, <1>2
  <2> QED BY <2>1, JoinAt
<1>4. IsTable(r, h) /\ r[1] = a /\ r[2] = b
  BY <1>1, <1>2, <1>3
<1>5. IsTable(t, h + g) /\ (\A k \in 1..h : t[k] = r[k]) /\ (\A k \in h + 1..h + g : t[k] = z[k - h])
  <2>1. Joins(t, r, z) /\ IsTable(r, h) /\ IsTable(z, g)
    BY <1>0, <1>2, <1>4
  <2> QED BY <2>1, JoinAt
<1>6. h + g = 3 /\ 3 \in h + 1..h + g /\ 3 - h = 1 /\ 1 \in 1..h /\ 2 \in 1..h
  BY <1>1
<1>7. IsTable(t, 3) /\ t[1] = a /\ t[2] = b /\ t[3] = c
  BY <1>2, <1>4, <1>5, <1>6
<1>8. t = <<a, b, c>>
  BY <1>7 DEF IsTable
<1> QED BY <1>0, <1>8

\* ... and in two with a barrier between.
LEMMA LinThree ==
  ASSUME NEW p, NEW q, NEW f, NEW o, NEW w, NEW from, NEW to, Split(w), Metal, p = <<q>> \o <<f>> \o <<o>>,
         QuantOf(q, w, from), FenceOf(f), DotOf(o, w, to)
  PROVE  LinOf(p, w, from, to)
<1>2. p = <<q, f, o>>
  BY ThreeJoined
<1>1. IsTable(p, 3) /\ p[1] = q /\ p[2] = f /\ p[3] = o
  BY <1>2 DEF IsTable
<1> QED BY <1>1 DEF LinOf

\* The kernel of a type that has one is that of the type.
LEMMA KindIs ==
  ASSUME NEW w, Ported(w), engine.name # "conformance", Quantized
  PROVE  /\ Kind(w) \in 0..3 /\ KernelTypes[Kind(w) + 1] = file.dtype[w] /\ Dtype(w) = file.dtype[w]
         /\ Kind(w) = 0 <=> Dtype(w) = "Q4_K"
         /\ Kind(w) = 1 <=> Dtype(w) = "Q6_K"
         /\ Kind(w) \in {2, 3} <=> Dtype(w) \in {"Q8_0", "Q5_0"}
<1>1. Kind(w) \in 0..3 /\ KernelTypes[Kind(w) + 1] = file.dtype[w]
  BY DEF Kind, KindOf, Ported
<1>2. Dtype(w) = file.dtype[w]
  BY DEF Dtype
<1>3. /\ Kind(w) = 0 => file.dtype[w] = "Q4_K"
      /\ Kind(w) = 1 => file.dtype[w] = "Q6_K"
      /\ Kind(w) = 2 => file.dtype[w] = "Q8_0"
      /\ Kind(w) = 3 => file.dtype[w] = "Q5_0"
  BY <1>1 DEF KernelTypes
<1> QED BY <1>1, <1>2, <1>3

\* Product, of the type alone.
LEMMA ProductIs ==
  ASSUME NEW w
  PROVE  Product(w) = IF engine.regime = 3 /\ Dtype(w) \in {"Q4_K", "Q6_K"} THEN <<Dtype(w), "running sum">>
                      ELSE <<Dtype(w), "canonical">>
BY DEF Product

\* lin of CUDA is a linear ...
LEMMA CudaLinIs ==
  ASSUME NEW w, NEW from, NEW to, engine.name \in {"cuda", "prefill"}, Ported(w)
  PROVE  LinOf(CudaLin(w, from, to), w, from, to)
<1>0. ~Host /\ ~Metal /\ Quantized /\ engine.name # "conformance"
  BY DEF Host, Metal, Quantized
<1>1. /\ Kind(w) \in 0..3 /\ KernelTypes[Kind(w) + 1] = file.dtype[w] /\ Dtype(w) = file.dtype[w]
      /\ Kind(w) = 0 <=> Dtype(w) = "Q4_K"
      /\ Kind(w) = 1 <=> Dtype(w) = "Q6_K"
      /\ Kind(w) \in {2, 3} <=> Dtype(w) \in {"Q8_0", "Q5_0"}
  BY <1>0, KindIs
<1>2. CASE engine.regime = 3 /\ Kind(w) = 0
  <2>1. Dtype(w) = "Q4_K" /\ Split(w)
    BY <1>0, <1>1, <1>2 DEF Split
  <2>2. Product(w) = <<"Q4_K", "running sum">>
    BY <1>2, <2>1 DEF Product
  <2> DEFINE q == QuantOp(from, Scratch)
             o == DotOp(<<"Q4_K", "running sum">>, w, <<B("dx"), B("qs"), B("bs")>>, to)
  <2>3. QuantOf(q, w, from) /\ DotOf(o, w, to)
    BY <2>1, <2>2 DEF QuantOf, DotOf, QuantOp, DotOp, Operands
  <2>4. CudaLin(w, from, to) = <<q, o>>
    BY <1>2 DEF CudaLin
  <2> HIDE DEF q, o
  <2> QED BY <1>0, <2>1, <2>3, <2>4, LinTwo
<1>3. CASE Kind(w) = 1
  <2>1. Dtype(w) = "Q6_K" /\ Split(w)
    BY <1>0, <1>1, <1>3 DEF Split
  <2>2. Product(w) = <<"Q6_K", IF engine.regime = 3 THEN "running sum" ELSE "canonical">>
    BY <1>2, <2>1 DEF Product
  <2> DEFINE q == QuantOp(from, {B("dx"), B("qs")})
             o == DotOp(<<"Q6_K", IF engine.regime = 3 THEN "running sum" ELSE "canonical">>, w,
                        <<B("dx"), B("qs")>>, to)
  <2>3. QuantOf(q, w, from) /\ DotOf(o, w, to)
    BY <2>1, <2>2 DEF QuantOf, DotOf, QuantOp, DotOp, Operands
  <2>4. CudaLin(w, from, to) = <<q, o>>
    BY <1>3 DEF CudaLin
  <2> HIDE DEF q, o
  <2> QED BY <1>0, <2>1, <2>3, <2>4, LinTwo
<1>4. CASE ~(engine.regime = 3 /\ Kind(w) = 0) /\ Kind(w) # 1
  <2>1. ~Split(w)
    BY <1>1, <1>4 DEF Split
  <2>2. Product(w) = <<KernelTypes[Kind(w) + 1], "canonical">>
    BY <1>1, <1>4 DEF Product
  <2>4. CudaLin(w, from, to) = <<LinearOp(<<KernelTypes[Kind(w) + 1], "canonical">>, w, from, to)>>
    BY <1>4 DEF CudaLin
  <2>5. LinearOp(<<KernelTypes[Kind(w) + 1], "canonical">>, w, from, to) = Op("linear", Product(w), w, <<from>>, {to})
    BY <2>2 DEF LinearOp
  <2> QED BY <2>1, <2>4, <2>5, LinOne
<1> QED BY <1>2, <1>3, <1>4

\* ... so is pg, in regime 3 ...
LEMMA PgIs ==
  ASSUME NEW w, NEW from, NEW to, engine.name = "prefill", engine.regime = 3, Ported(w)
  PROVE  LinOf(Pg(w, from, to), w, from, to)
<1>0. ~Host /\ ~Metal /\ Quantized /\ engine.name # "conformance"
  BY DEF Host, Metal, Quantized
<1>1. /\ Kind(w) \in 0..3 /\ KernelTypes[Kind(w) + 1] = file.dtype[w] /\ Dtype(w) = file.dtype[w]
      /\ Kind(w) = 0 <=> Dtype(w) = "Q4_K"
      /\ Kind(w) = 1 <=> Dtype(w) = "Q6_K"
      /\ Kind(w) \in {2, 3} <=> Dtype(w) \in {"Q8_0", "Q5_0"}
  BY <1>0, KindIs
<1> DEFINE q == QuantOp(from, Scratch)
           a == DotOp(<<"Q6_K", "running sum">>, w, <<B("dx"), B("qs")>>, to)
           b == DotOp(<<"Q4_K", "running sum">>, w, <<B("dx"), B("qs"), B("bs")>>, to)
           c == LinearOp(<<KernelTypes[Kind(w) + 1], "canonical">>, w, from, to)
<1>7. Pg(w, from, to) = IF Kind(w) \in {2, 3} THEN <<c>> ELSE <<q, IF Kind(w) = 1 THEN a ELSE b>>
  BY DEF Pg
<1>8. QuantOf(q, w, from)
  BY DEF QuantOf, QuantOp
<1>2. CASE Kind(w) = 0
  <2>1. Dtype(w) = "Q4_K" /\ Split(w)
    BY <1>0, <1>1, <1>2 DEF Split
  <2>2. Product(w) = <<"Q4_K", "running sum">>
    BY <1>2, <2>1 DEF Product
  <2>3. DotOf(b, w, to)
    BY <2>1, <2>2 DEF DotOf, DotOp, Operands
  <2> HIDE DEF q, a, b, c
  <2>4. Pg(w, from, to) = <<q, b>>
    BY <1>2, <1>7
  <2> QED BY <1>0, <1>8, <2>1, <2>3, <2>4, LinTwo
<1>3. CASE Kind(w) = 1
  <2>1. Dtype(w) = "Q6_K" /\ Split(w)
    BY <1>0, <1>1, <1>3 DEF Split
  <2>2. Product(w) = <<"Q6_K", "running sum">>
    BY <1>2, <2>1 DEF Product
  <2>3. DotOf(a, w, to)
    BY <2>1, <2>2 DEF DotOf, DotOp, Operands
  <2> HIDE DEF q, a, b, c
  <2>4. Pg(w, from, to) = <<q, a>>
    BY <1>3, <1>7
  <2> QED BY <1>0, <1>8, <2>1, <2>3, <2>4, LinTwo
<1>4. CASE Kind(w) \in {2, 3}
  <2>1. ~Split(w)
    BY <1>1, <1>4 DEF Split
  <2>2. Product(w) = <<KernelTypes[Kind(w) + 1], "canonical">>
    BY <1>1, <1>4 DEF Product
  <2>5. c = Op("linear", Product(w), w, <<from>>, {to})
    BY <2>2 DEF LinearOp
  <2> HIDE DEF q, a, b, c
  <2>4. Pg(w, from, to) = <<c>>
    BY <1>4, <1>7
  <2> QED BY <2>1, <2>4, <2>5, LinOne
<1> QED BY <1>1, <1>2, <1>3, <1>4

\* ... and lin of Metal.
LEMMA MetalLinIs ==
  ASSUME NEW w, NEW from, NEW to, engine.name = "metal", Ported(w)
  PROVE  LinOf(MetalLin(w, from, to), w, from, to)
<1>0. ~Host /\ Metal /\ Quantized /\ engine.name # "conformance"
  BY DEF Host, Metal, Quantized
<1>1. /\ Kind(w) \in 0..3 /\ KernelTypes[Kind(w) + 1] = file.dtype[w] /\ Dtype(w) = file.dtype[w]
      /\ Kind(w) = 0 <=> Dtype(w) = "Q4_K"
      /\ Kind(w) = 1 <=> Dtype(w) = "Q6_K"
      /\ Kind(w) \in {2, 3} <=> Dtype(w) \in {"Q8_0", "Q5_0"}
  BY <1>0, KindIs
<1> DEFINE q == QuantOp(from, Scratch)
           q1 == QuantOp(from, {B("dx"), B("qs")})
           f == Op("barrier", None, None, << >>, Scratch)
           f1 == Op("barrier", None, None, << >>, {B("dx"), B("qs")})
           a == DotOp(<<"Q6_K", "running sum">>, w, <<B("dx"), B("qs")>>, to)
           a1 == DotOp(<<"Q6_K", "canonical">>, w, <<B("dx"), B("qs")>>, to)
           b == DotOp(<<"Q4_K", "running sum">>, w, <<B("dx"), B("qs"), B("bs")>>, to)
           c == LinearOp(<<KernelTypes[Kind(w) + 1], "canonical">>, w, from, to)
           d == LinearOp(<<"Q4_K", "canonical">>, w, from, to)
<1>7. MetalLin(w, from, to) =
        IF Kind(w) \in {2, 3} THEN <<c>>
        ELSE IF engine.regime = 3
        THEN <<q>> \o <<f>> \o (IF Kind(w) = 1 THEN <<a>> ELSE <<b>>)
        ELSE IF Kind(w) = 1 THEN <<q1>> \o <<f1>> \o <<a1>> ELSE <<d>>
  BY DEF MetalLin, Barrier
<1>8. QuantOf(q, w, from) /\ FenceOf(f) /\ FenceOf(f1)
  BY DEF QuantOf, QuantOp, FenceOf, Scratch
<1>2. CASE Kind(w) = 0 /\ engine.regime = 3
  <2>1. Dtype(w) = "Q4_K" /\ Split(w)
    BY <1>0, <1>1, <1>2 DEF Split
  <2>2. Product(w) = <<"Q4_K", "running sum">>
    BY <1>2, <2>1 DEF Product
  <2>3. DotOf(b, w, to)
    BY <2>1, <2>2 DEF DotOf, DotOp, Operands
  <2> HIDE DEF q, q1, f, f1, a, a1, b, c, d
  <2>4. MetalLin(w, from, to) = <<q>> \o <<f>> \o <<b>>
    BY <1>2, <1>7
  <2> QED BY <1>0, <1>8, <2>1, <2>3, <2>4, LinThree
<1>3. CASE Kind(w) = 1 /\ engine.regime = 3
  <2>1. Dtype(w) = "Q6_K" /\ Split(w)
    BY <1>0, <1>1, <1>3 DEF Split
  <2>2. Product(w) = <<"Q6_K", "running sum">>
    BY <1>3, <2>1 DEF Product
  <2>3. DotOf(a, w, to)
    BY <2>1, <2>2 DEF DotOf, DotOp, Operands
  <2> HIDE DEF q, q1, f, f1, a, a1, b, c, d
  <2>4. MetalLin(w, from, to) = <<q>> \o <<f>> \o <<a>>
    BY <1>3, <1>7
  <2> QED BY <1>0, <1>8, <2>1, <2>3, <2>4, LinThree
<1>4. CASE Kind(w) \in {2, 3}
  <2>1. ~Split(w)
    BY <1>1, <1>4 DEF Split
  <2>2. Product(w) = <<KernelTypes[Kind(w) + 1], "canonical">>
    BY <1>1, <1>4 DEF Product
  <2>5. c = Op("linear", Product(w), w, <<from>>, {to})
    BY <2>2 DEF LinearOp
  <2> HIDE DEF q, q1, f, f1, a, a1, b, c, d
  <2>4. MetalLin(w, from, to) = <<c>>
    BY <1>4, <1>7
  <2> QED BY <2>1, <2>4, <2>5, LinOne
<1>5. CASE Kind(w) = 1 /\ engine.regime # 3
  <2>1. Dtype(w) = "Q6_K" /\ Split(w)
    BY <1>0, <1>1, <1>5 DEF Split
  <2>2. Product(w) = <<"Q6_K", "canonical">>
    BY <1>5, <2>1 DEF Product
  <2>3. DotOf(a1, w, to) /\ QuantOf(q1, w, from)
    BY <2>1, <2>2 DEF DotOf, DotOp, Operands, QuantOf, QuantOp
  <2> HIDE DEF q, q1, f, f1, a, a1, b, c, d
  <2>4. MetalLin(w, from, to) = <<q1>> \o <<f1>> \o <<a1>>
    BY <1>5, <1>7
  <2> QED BY <1>0, <1>8, <2>1, <2>3, <2>4, LinThree
<1>6. CASE Kind(w) = 0 /\ engine.regime # 3
  <2>1. ~Split(w)
    BY <1>1, <1>6 DEF Split
  <2>2. Product(w) = <<"Q4_K", "canonical">>
    BY <1>1, <1>6 DEF Product
  <2>5. d = Op("linear", Product(w), w, <<from>>, {to})
    BY <2>2 DEF LinearOp
  <2> HIDE DEF q, q1, f, f1, a, a1, b, c, d
  <2>4. MetalLin(w, from, to) = <<d>>
    BY <1>6, <1>7
  <2> QED BY <2>1, <2>4, <2>5, LinOne
<1> QED BY <1>1, <1>2, <1>3, <1>4, <1>5, <1>6

\* The step of the dots.
LEMMA DotOk ==
  ASSUME NEW l, NEW n \in Dots, NEW o, NEW op, op = (IF Split(LinWeight(l, n)) THEN "dot" ELSE "linear"),
         Built(o, op, Product(LinWeight(l, n)), LinWeight(l, n), Ins(l, n), {OutBuf(l, n)}),
         o.acc = Adds(n), o.last = OnlyLast(l, n)
  PROVE  Ok(o, l, n)
BY LinearBuilt DEF Ok, Built

\* The step that quantizes.
LEMMA QuantOk ==
  ASSUME NEW l, NEW n \in Dots, NEW o, NEW outs, Built(o, "quant", None, None, <<From(l, n)>>, outs),
         outs = Scratch \/ (outs = {B("dx"), B("qs")} /\ Dtype(LinWeight(l, n)) # "Q4_K"),
         o.acc = FALSE, o.last = OnlyLast(l, n)
  PROVE  Ok(o, l, n - 2)
<1>1. From(l, n - 2) = From(l, n) /\ LinWeight(l, n - 2) = LinWeight(l, n) /\ n - 2 \in Quants
      /\ (OnlyLast(l, n - 2) <=> OnlyLast(l, n))
  BY FromTwo
<1>2. PICK m \in Quants : m = n - 2
  BY <1>1
<1>3. OpAt(o, l, m) /\ ~Fenced(o)
  <2>1. /\ o.op = "quant" /\ o.how = None /\ o.w = None /\ o.ins = <<From(l, m)>>
        /\ o.outs = Scratch \/ (o.outs = {B("dx"), B("qs")} /\ Dtype(LinWeight(l, m)) # "Q4_K")
    BY <1>1, <1>2 DEF Built
  <2>2. o.last = OnlyLast(l, m)
    BY <1>1, <1>2 DEF OnlyLast
  <2> QED BY <2>1, <2>2, QuantBuilt
<1> QED BY <1>2, <1>3 DEF Ok

\* The operands of the dots.
LEMMA OperandsAre ==
  ASSUME NEW l, NEW n, Split(LinWeight(l, n))
  PROVE  Ins(l, n) = Operands(LinWeight(l, n))
BY DEF Ins, Operands

\* A linear whose result replaces what the buffer held.
LEMMA ShapeOf ==
  ASSUME NEW l, NEW n \in Dots, NEW p, LinOf(p, LinWeight(l, n), From(l, n), OutBuf(l, n)), ~Adds(n), ~OnlyLast(l, n)
  PROVE  LinShape(p, l, n)
<1> DEFINE w == LinWeight(l, n)
<1>1. ASSUME NEW o, QuantOf(o, w, From(l, n)) PROVE Ok(o, l, n - 2)
  <2>1. PICK outs : /\ o = Op("quant", None, None, <<From(l, n)>>, outs)
                    /\ outs = Scratch \/ (outs = {B("dx"), B("qs")} /\ Dtype(w) # "Q4_K")
    BY <1>1 DEF QuantOf
  <2>2. Built(o, "quant", None, None, <<From(l, n)>>, outs) /\ o.acc = FALSE /\ o.last = OnlyLast(l, n)
    <3>1. OnlyLast(l, n) = FALSE
      BY DEF OnlyLast
    <3> QED BY <2>1, <3>1, OpBuilt
  <2> QED BY <2>1, <2>2, QuantOk
<1>2. ASSUME NEW o, DotOf(o, w, OutBuf(l, n)), Split(w) PROVE Ok(o, l, n)
  <2>1. Built(o, "dot", Product(w), w, Ins(l, n), {OutBuf(l, n)}) /\ o.acc = FALSE /\ o.last = FALSE
    BY <1>2, OpBuilt, OperandsAre DEF DotOf
  <2>2. o.acc = Adds(n) /\ o.last = OnlyLast(l, n)
    BY <2>1 DEF Adds, OnlyLast
  <2> QED BY <1>2, <2>1, <2>2, DotOk
<1>3. CASE ~Split(w)
  <2>1. IsTable(p, 1) /\ p[1] = Op("linear", Product(w), w, <<From(l, n)>>, {OutBuf(l, n)})
    BY <1>3 DEF LinOf
  <2>2. Built(p[1], "linear", Product(w), w, <<From(l, n)>>, {OutBuf(l, n)}) /\ p[1].acc = FALSE /\ p[1].last = FALSE
    BY <2>1, OpBuilt
  <2>3. p[1].acc = Adds(n) /\ p[1].last = OnlyLast(l, n)
    BY <2>2 DEF Adds, OnlyLast
  <2>4. Ins(l, n) = <<From(l, n)>>
    BY <1>3 DEF Ins
  <2>5. Ok(p[1], l, n)
    BY <1>3, <2>2, <2>3, <2>4, DotOk
  <2> QED BY <1>3, <2>1, <2>5 DEF LinShape
<1>4. CASE Split(w) /\ ~Metal
  <2>1. IsTable(p, 2) /\ QuantOf(p[1], w, From(l, n)) /\ DotOf(p[2], w, OutBuf(l, n))
    BY <1>4 DEF LinOf
  <2> QED BY <1>1, <1>2, <1>4, <2>1 DEF LinShape
<1>5. CASE Split(w) /\ Metal
  <2>1. IsTable(p, 3) /\ QuantOf(p[1], w, From(l, n)) /\ FenceOf(p[2]) /\ DotOf(p[3], w, OutBuf(l, n))
    BY <1>5 DEF LinOf
  <2>2. Fenced(p[2]) /\ B("dx") \in p[2].outs
    BY <2>1 DEF FenceOf, Fenced, Op
  <2> QED BY <1>1, <1>2, <1>5, <2>1, <2>2 DEF LinShape
<1> QED BY <1>3, <1>4, <1>5

\* What changing acc or last of an operation leaves.
LEMMA ChangedAcc ==
  ASSUME NEW l, NEW n \in Dots, Adds(n), NEW a, NEW w, w = LinWeight(l, n)
  PROVE  /\ QuantOf(a, w, From(l, n)) => Ok(Kept(a), l, n - 2)
         /\ Split(w) /\ DotOf(a, w, OutBuf(l, n)) => Ok(Added(a), l, n)
         /\ ~Split(w) /\ a = Op("linear", Product(w), w, <<From(l, n)>>, {OutBuf(l, n)}) => Ok(Added(a), l, n)
         /\ FenceOf(a) => LET f == Kept(a) IN Fenced(f) /\ B("dx") \in f.outs
<1>0. n \in {28, 44}
  BY DEF Adds
<1>1. ~OnlyLast(l, n)
  BY <1>0 DEF OnlyLast
<1>2. ASSUME QuantOf(a, w, From(l, n)) PROVE Ok(Kept(a), l, n - 2)
  <2>1. PICK outs : /\ a = Op("quant", None, None, <<From(l, n)>>, outs)
                    /\ outs = Scratch \/ (outs = {B("dx"), B("qs")} /\ Dtype(w) # "Q4_K")
    BY <1>2 DEF QuantOf
  <2>2. PICK o : o = Kept(a)
    OBVIOUS
  <2>3. Built(o, "quant", None, None, <<From(l, n)>>, outs) /\ o.acc = FALSE /\ o.last = FALSE
    BY <2>1, <2>2, KeptBuilt
  <2>4. o.last = OnlyLast(l, n)
    BY <1>1, <2>3 DEF OnlyLast
  <2> QED BY <2>1, <2>2, <2>3, <2>4, QuantOk
<1>3. ASSUME Split(w), DotOf(a, w, OutBuf(l, n)) PROVE Ok(Added(a), l, n)
  <2>2. PICK o : o = Added(a)
    OBVIOUS
  <2>3. Built(o, "dot", Product(w), w, Ins(l, n), {OutBuf(l, n)}) /\ o.acc = TRUE /\ o.last = FALSE
    <3>1. a = Op("dot", Product(w), w, Ins(l, n), {OutBuf(l, n)})
      BY <1>3, OperandsAre DEF DotOf
    <3> QED BY <2>2, <3>1, AddedBuilt, ZenonT(60)
  <2>4. o.acc = Adds(n) /\ o.last = OnlyLast(l, n)
    BY <1>1, <2>3 DEF OnlyLast, Adds
  <2> QED BY <1>3, <2>2, <2>3, <2>4, DotOk
<1>4. ASSUME ~Split(w), a = Op("linear", Product(w), w, <<From(l, n)>>, {OutBuf(l, n)})
      PROVE  Ok(Added(a), l, n)
  <2>2. PICK o : o = Added(a)
    OBVIOUS
  <2>1. Ins(l, n) = <<From(l, n)>>
    BY <1>4 DEF Ins
  <2>3. Built(o, "linear", Product(w), w, Ins(l, n), {OutBuf(l, n)}) /\ o.acc = TRUE /\ o.last = FALSE
    BY <1>4, <2>1, <2>2, AddedBuilt, ZenonT(60)
  <2>4. o.acc = Adds(n) /\ o.last = OnlyLast(l, n)
    BY <1>1, <2>3 DEF OnlyLast, Adds
  <2> QED BY <1>4, <2>2, <2>3, <2>4, DotOk
<1>5. ASSUME FenceOf(a) PROVE Fenced(Kept(a)) /\ B("dx") \in Kept(a).outs
  <2>1. PICK bufs : B("dx") \in bufs /\ a = Op("barrier", None, None, << >>, bufs)
    BY <1>5 DEF FenceOf
  <2>2. PICK o : o = Kept(a)
    OBVIOUS
  <2>3. Built(o, "barrier", None, None, << >>, bufs)
    BY <2>1, <2>2, KeptBuilt
  <2> QED BY <2>1, <2>2, <2>3 DEF Built, Fenced
<1> QED BY <1>2, <1>3, <1>4, <1>5

\* A linear whose result is added.
LEMMA AddingShape ==
  ASSUME NEW l, NEW n \in Dots, NEW p, LinOf(p, LinWeight(l, n), From(l, n), OutBuf(l, n)), Adds(n)
  PROVE  LinShape(Accumulating(p), l, n)
<1>0. PICK w, r : w = LinWeight(l, n) /\ r = Accumulating(p)
  OBVIOUS
<1>1. CASE ~Split(w)
  <2>1. IsTable(p, 1) /\ p[1] = Op("linear", Product(w), w, <<From(l, n)>>, {OutBuf(l, n)})
    BY <1>0, <1>1 DEF LinOf
  <2>2. PICK h \in Nat \ {0} : h = 1
    OBVIOUS
  <2>3. IsTable(r, h) /\ (\A k \in 1..h - 1 : r[k] = Kept(p[k])) /\ r[h] = Added(p[h])
    BY <1>0, <2>1, <2>2, AccTable
  <2>4. IsTable(r, 1) /\ r[1] = Added(p[1])
    BY <2>2, <2>3
  <2>5. Ok(r[1], l, n)
    BY <1>0, <1>1, <2>1, <2>4, ChangedAcc
  <2> QED BY <1>0, <1>1, <2>4, <2>5 DEF LinShape
<1>2. CASE Split(w) /\ ~Metal
  <2>1. IsTable(p, 2) /\ QuantOf(p[1], w, From(l, n)) /\ DotOf(p[2], w, OutBuf(l, n))
    BY <1>0, <1>2 DEF LinOf
  <2>2. PICK h \in Nat \ {0} : h = 2
    OBVIOUS
  <2>3. IsTable(r, h) /\ (\A k \in 1..h - 1 : r[k] = Kept(p[k])) /\ r[h] = Added(p[h])
    BY <1>0, <2>1, <2>2, AccTable
  <2>4. IsTable(r, 2) /\ r[1] = Kept(p[1]) /\ r[2] = Added(p[2])
    BY <2>2, <2>3
  <2>5. Ok(r[1], l, n - 2) /\ Ok(r[2], l, n)
    BY <1>0, <1>2, <2>1, <2>4, ChangedAcc
  <2> QED BY <1>0, <1>2, <2>4, <2>5 DEF LinShape
<1>3. CASE Split(w) /\ Metal
  <2>1. IsTable(p, 3) /\ QuantOf(p[1], w, From(l, n)) /\ FenceOf(p[2]) /\ DotOf(p[3], w, OutBuf(l, n))
    BY <1>0, <1>3 DEF LinOf
  <2>2. PICK h \in Nat \ {0} : h = 3
    OBVIOUS
  <2>3. IsTable(r, h) /\ (\A k \in 1..h - 1 : r[k] = Kept(p[k])) /\ r[h] = Added(p[h])
    BY <1>0, <2>1, <2>2, AccTable
  <2>4. /\ IsTable(r, 3) /\ r[1] = Kept(p[1]) /\ r[2] = Kept(p[2])
        /\ r[3] = Added(p[3])
    BY <2>2, <2>3
  <2>5. Ok(r[1], l, n - 2) /\ Ok(r[3], l, n) /\ Fenced(r[2]) /\ B("dx") \in r[2].outs
    BY <1>0, <1>3, <2>1, <2>4, ChangedAcc
  <2> QED BY <1>0, <1>3, <2>4, <2>5 DEF LinShape
<1> QED BY <1>1, <1>2, <1>3

\* The linear of the last row of a batch.
LEMMA LastShape ==
  ASSUME NEW l, NEW p, LinOf(p, LinWeight(l, 4), From(l, 4), OutBuf(l, 4)), OnlyLast(l, 4), ~Metal
  PROVE  LinShape(OnLastRow(p), l, 4)
<1>0. PICK n \in Dots : n = 4
  BY DEF Dots
<1>7. PICK w, r : w = LinWeight(l, n) /\ r = OnLastRow(p)
  OBVIOUS
<1>6. ~Adds(n) /\ OnlyLast(l, n) = TRUE
  BY <1>0 DEF Adds, OnlyLast
<1>1. CASE ~Split(w)
  <2>1. IsTable(p, 1) /\ p[1] = Op("linear", Product(w), w, <<From(l, n)>>, {OutBuf(l, n)})
    BY <1>0, <1>7, <1>1 DEF LinOf
  <2>2. PICK h \in Nat \ {0} : h = 1
    OBVIOUS
  <2>3. IsTable(r, h) /\ \A k \in 1..h : r[k] = Lasting(p[k])
    BY <1>0, <1>7, <2>1, <2>2, LastTable
  <2>4. IsTable(r, 1) /\ r[1] = Lasting(p[1])
    BY <2>2, <2>3
  <2>5. Built(r[1], "linear", Product(w), w, <<From(l, n)>>, {OutBuf(l, n)}) /\ r[1].last = TRUE /\ r[1].acc = FALSE
    <3>1. PICK a, b : a = p[1] /\ b = r[1]
      OBVIOUS
    <3>2. a = Op("linear", Product(w), w, <<From(l, n)>>, {OutBuf(l, n)}) /\ b = Lasting(a)
      BY <2>1, <2>4, <3>1
    <3>3. Built(b, "linear", Product(w), w, <<From(l, n)>>, {OutBuf(l, n)}) /\ b.acc = FALSE /\ b.last = TRUE
      BY <3>2, LastingBuilt, ZenonT(60)
    <3> QED BY <3>1, <3>3
  <2>6. r[1].acc = Adds(n) /\ r[1].last = OnlyLast(l, n) /\ Ins(l, n) = <<From(l, n)>>
    BY <1>0, <1>7, <1>1, <1>6, <2>5 DEF Adds, Ins
  <2>7. Ok(r[1], l, n)
    BY <1>0, <1>7, <1>1, <2>5, <2>6, DotOk
  <2> QED BY <1>0, <1>7, <1>1, <2>4, <2>7 DEF LinShape
<1>2. CASE Split(w) /\ ~Metal
  <2>1. IsTable(p, 2) /\ QuantOf(p[1], w, From(l, n)) /\ DotOf(p[2], w, OutBuf(l, n))
    BY <1>0, <1>7, <1>2 DEF LinOf
  <2>2. PICK h \in Nat \ {0} : h = 2
    OBVIOUS
  <2>3. IsTable(r, h) /\ \A k \in 1..h : r[k] = Lasting(p[k])
    BY <1>0, <1>7, <2>1, <2>2, LastTable
  <2>4. IsTable(r, 2) /\ r[1] = Lasting(p[1]) /\ r[2] = Lasting(p[2])
    BY <2>2, <2>3
  <2>5. Ok(r[1], l, n - 2)
    <3>1. PICK outs : /\ p[1] = Op("quant", None, None, <<From(l, n)>>, outs)
                      /\ outs = Scratch \/ (outs = {B("dx"), B("qs")} /\ Dtype(w) # "Q4_K")
      BY <2>1 DEF QuantOf
    <3>2. Built(r[1], "quant", None, None, <<From(l, n)>>, outs) /\ r[1].last = TRUE /\ r[1].acc = FALSE
      <4>1. PICK a, b : a = p[1] /\ b = r[1]
        OBVIOUS
      <4>2. a = Op("quant", None, None, <<From(l, n)>>, outs) /\ b = Lasting(a)
        BY <2>4, <3>1, <4>1
      <4>3. Built(b, "quant", None, None, <<From(l, n)>>, outs) /\ b.acc = FALSE /\ b.last = TRUE
        BY <4>2, LastingBuilt
      <4> QED BY <4>1, <4>3
    <3>3. r[1].last = OnlyLast(l, n)
      BY <1>6, <3>2
    <3> QED BY <1>0, <1>7, <3>1, <3>2, <3>3, QuantOk
  <2>6. Ok(r[2], l, n)
    <3>1. Built(r[2], "dot", Product(w), w, Ins(l, n), {OutBuf(l, n)}) /\ r[2].last = TRUE /\ r[2].acc = FALSE
      <4>1. PICK a, b : a = p[2] /\ b = r[2]
        OBVIOUS
      <4>2. a = Op("dot", Product(w), w, Ins(l, n), {OutBuf(l, n)}) /\ b = Lasting(a)
        BY <1>0, <1>7, <1>2, <2>1, <2>4, <4>1, OperandsAre DEF DotOf
      <4>3. Built(b, "dot", Product(w), w, Ins(l, n), {OutBuf(l, n)}) /\ b.acc = FALSE /\ b.last = TRUE
        <5>1. PICK op, how, ins, outs : op = "dot" /\ how = Product(w) /\ ins = Ins(l, n) /\ outs = {OutBuf(l, n)}
          OBVIOUS
        <5>2. a = Op(op, how, w, ins, outs) /\ b = Lasting(a)
          BY <4>2, <5>1
        <5>3. Built(b, op, how, w, ins, outs) /\ b.acc = FALSE /\ b.last = TRUE
          BY <5>2, LastingBuilt
        <5> QED BY <5>1, <5>3
      <4> QED BY <4>1, <4>3
    <3>2. r[2].acc = Adds(n) /\ r[2].last = OnlyLast(l, n)
      BY <1>6, <3>1 DEF Adds
    <3> QED BY <1>0, <1>7, <1>2, <3>1, <3>2, DotOk
  <2>7. LinShape(r, l, n)
    BY <1>0, <1>7, <1>2, <2>4, <2>5, <2>6 DEF LinShape
  <2> QED BY <1>0, <1>7, <2>7
<1> QED BY <1>1, <1>2

-----------------------------------------------------------------------------
(* Parts of a layer.                                                       *)

\* Two steps in a row are a part of a layer.
LEMMA TwoSteps ==
  ASSUME NEW l \in Int, NEW lo \in 0..100, NEW hi \in 0..100, NEW a1, NEW a2, NEW c1, NEW c2,
         LabelOK(a1, l, c1), LabelOK(a2, l, c2),
         c1 \in lo..hi - 1, c2 \in lo..hi - 1,
         c1 < c2,
         \A i \in lo..hi - 1 : Happens(l, i) => i \in {c1, c2}
  PROVE  Part(<<a1, a2>>, l, lo, hi)
<1> DEFINE p == <<a1, a2>>
           f == <<c1, c2>>
<1>1. PICK h \in Nat : h = 2
  OBVIOUS
<1>2. IsTable(p, h)
  BY <1>1 DEF IsTable
<1>4. f[1] = c1 /\ f[2] = c2
  OBVIOUS
<1>9. p[1] = a1 /\ p[2] = a2
  OBVIOUS
<1> HIDE DEF p, f
<1>10. \A k \in 1..h : k = 1 \/ k = 2
  BY <1>1
<1>3. \A k \in 1..h : \/ k = 1 /\ p[k] = a1 /\ f[k] = c1
                      \/ k = 2 /\ p[k] = a2 /\ f[k] = c2
  BY <1>4, <1>9, <1>10
<1>5. \A k \in 1..h : f[k] \in lo..hi - 1 /\ LabelOK(p[k], l, f[k])
  BY <1>3
<1>6. \A i, k \in 1..h : i < k => f[i] < f[k]
  BY <1>3
<1>7. \A i \in lo..hi - 1 : Happens(l, i) => \E k \in 1..h : f[k] = i
  BY <1>1, <1>4
<1>8. Part(p, l, lo, hi)
  BY <1>2, <1>5, <1>6, <1>7, InLayer DEF Part
<1> QED BY <1>8 DEF p

\* Three steps in a row are a part of a layer.
LEMMA ThreeSteps ==
  ASSUME NEW l \in Int, NEW lo \in 0..100, NEW hi \in 0..100, NEW a1, NEW a2, NEW a3, NEW c1, NEW c2, NEW c3,
         LabelOK(a1, l, c1), LabelOK(a2, l, c2), LabelOK(a3, l, c3),
         c1 \in lo..hi - 1, c2 \in lo..hi - 1, c3 \in lo..hi - 1,
         c1 < c2, c2 < c3,
         \A i \in lo..hi - 1 : Happens(l, i) => i \in {c1, c2, c3}
  PROVE  Part(<<a1, a2, a3>>, l, lo, hi)
<1> DEFINE p == <<a1, a2, a3>>
           f == <<c1, c2, c3>>
<1>1. PICK h \in Nat : h = 3
  OBVIOUS
<1>2. IsTable(p, h)
  BY <1>1 DEF IsTable
<1>4. f[1] = c1 /\ f[2] = c2 /\ f[3] = c3
  OBVIOUS
<1>9. p[1] = a1 /\ p[2] = a2 /\ p[3] = a3
  OBVIOUS
<1> HIDE DEF p, f
<1>10. \A k \in 1..h : k = 1 \/ k = 2 \/ k = 3
  BY <1>1
<1>3. \A k \in 1..h : \/ k = 1 /\ p[k] = a1 /\ f[k] = c1
                      \/ k = 2 /\ p[k] = a2 /\ f[k] = c2
                      \/ k = 3 /\ p[k] = a3 /\ f[k] = c3
  BY <1>4, <1>9, <1>10
<1>5. \A k \in 1..h : f[k] \in lo..hi - 1 /\ LabelOK(p[k], l, f[k])
  BY <1>3
<1>6. \A i, k \in 1..h : i < k => f[i] < f[k]
  BY <1>3
<1>7. \A i \in lo..hi - 1 : Happens(l, i) => \E k \in 1..h : f[k] = i
  BY <1>1, <1>4
<1>8. Part(p, l, lo, hi)
  BY <1>2, <1>5, <1>6, <1>7, InLayer DEF Part
<1> QED BY <1>8 DEF p

\* Five steps in a row are a part of a layer.
LEMMA FiveSteps ==
  ASSUME NEW l \in Int, NEW lo \in 0..100, NEW hi \in 0..100, NEW a1, NEW a2, NEW a3, NEW a4, NEW a5, NEW c1, NEW c2, NEW c3, NEW c4, NEW c5,
         LabelOK(a1, l, c1), LabelOK(a2, l, c2), LabelOK(a3, l, c3), LabelOK(a4, l, c4), LabelOK(a5, l, c5),
         c1 \in lo..hi - 1, c2 \in lo..hi - 1, c3 \in lo..hi - 1, c4 \in lo..hi - 1, c5 \in lo..hi - 1,
         c1 < c2, c2 < c3, c3 < c4, c4 < c5,
         \A i \in lo..hi - 1 : Happens(l, i) => i \in {c1, c2, c3, c4, c5}
  PROVE  Part(<<a1, a2, a3, a4, a5>>, l, lo, hi)
<1> DEFINE p == <<a1, a2, a3, a4, a5>>
           f == <<c1, c2, c3, c4, c5>>
<1>1. PICK h \in Nat : h = 5
  OBVIOUS
<1>2. IsTable(p, h)
  BY <1>1 DEF IsTable
<1>4. f[1] = c1 /\ f[2] = c2 /\ f[3] = c3 /\ f[4] = c4 /\ f[5] = c5
  OBVIOUS
<1>9. p[1] = a1 /\ p[2] = a2 /\ p[3] = a3 /\ p[4] = a4 /\ p[5] = a5
  OBVIOUS
<1> HIDE DEF p, f
<1>10. \A k \in 1..h : k = 1 \/ k = 2 \/ k = 3 \/ k = 4 \/ k = 5
  BY <1>1
<1>3. \A k \in 1..h : \/ k = 1 /\ p[k] = a1 /\ f[k] = c1
                      \/ k = 2 /\ p[k] = a2 /\ f[k] = c2
                      \/ k = 3 /\ p[k] = a3 /\ f[k] = c3
                      \/ k = 4 /\ p[k] = a4 /\ f[k] = c4
                      \/ k = 5 /\ p[k] = a5 /\ f[k] = c5
  BY <1>4, <1>9, <1>10
<1>5. \A k \in 1..h : f[k] \in lo..hi - 1 /\ LabelOK(p[k], l, f[k])
  BY <1>3
<1>6. \A i, k \in 1..h : i < k => f[i] < f[k]
  BY <1>3
<1>7. \A i \in lo..hi - 1 : Happens(l, i) => \E k \in 1..h : f[k] = i
  BY <1>1, <1>4
<1>8. Part(p, l, lo, hi)
  BY <1>2, <1>5, <1>6, <1>7, InLayer DEF Part
<1> QED BY <1>8 DEF p

\* A part is appended to the start of a layer.
LEMMA JoinStart ==
  ASSUME NEW l \in Int, NEW b \in 0..100, NEW c \in 0..100, b <= c,
         NEW p, NEW q, NEW r, Part(p, l, 0, b), Part(q, l, b, c), r = p \o q
  PROVE  Part(r, l, 0, c)
<1>1. PICK a \in 0..100 : a = 0
  OBVIOUS
<1>2. a <= b /\ Part(p, l, a, b)
  BY <1>1
<1>3. Part(p \o q, l, a, c)
  BY <1>2, JoinParts
<1> QED BY <1>1, <1>3

\* One step is a part ...
LEMMA One ==
  ASSUME NEW l \in Int, NEW lo \in 0..100, NEW hi \in 0..100, NEW o, NEW n, LabelOK(o, l, n), n \in lo..hi - 1,
         \A i \in lo..hi - 1 : Happens(l, i) => i = n
  PROVE  Part(<<o>>, l, lo, hi)
BY OneStep DEF Part

\* ... and none is, where none occurs.
LEMMA Empty ==
  ASSUME NEW l \in Int, NEW lo \in 0..100, NEW hi \in 0..100, \A i \in lo..hi - 1 : ~Happens(l, i)
  PROVE  Part(<< >>, l, lo, hi)
BY NoStep DEF Part

\* The weights, operands and results of the linears of a layer.
LEMMA LinearsOf ==
  ASSUME Layers \in Nat, NEW l \in 0..Layers - 1
  PROVE  /\ LinWeight(l, 4) = Matrix("wq", l) /\ From(l, 4) = Xb /\ OutBuf(l, 4) = Q
         /\ LinWeight(l, 8) = Matrix("wk", l) /\ From(l, 8) = Xb /\ OutBuf(l, 8) = KeysOf(l)
         /\ LinWeight(l, 12) = Matrix("wv", l) /\ From(l, 12) = Xb /\ OutBuf(l, 12) = ValuesOf(l)
         /\ LinWeight(l, 28) = Matrix("wo", l) /\ From(l, 28) = Att
         /\ OutBuf(l, 28) = (IF Host THEN B("xb2") ELSE X)
         /\ LinWeight(l, 35) = Matrix("w1", l) /\ From(l, 35) = Xb /\ OutBuf(l, 35) = B("gate")
         /\ LinWeight(l, 38) = Matrix("w3", l) /\ From(l, 38) = Xb /\ OutBuf(l, 38) = B("up")
         /\ LinWeight(l, 44) = Matrix("w2", l) /\ From(l, 44) = B("inner")
         /\ OutBuf(l, 44) = (IF Host THEN B("xb2") ELSE X)
         /\ NormWeight("rms_att", l) = <<"attn_norm", l>> /\ NormWeight("rms_ffn", l) = <<"ffn_norm", l>>
<1>1. l # Layers
  OBVIOUS
<1>2. /\ Matrices["wq"] = "attn_q" /\ Matrices["wk"] = "attn_k" /\ Matrices["wv"] = "attn_v"
      /\ Matrices["wo"] = "attn_output" /\ Matrices["w1"] = "ffn_gate" /\ Matrices["w3"] = "ffn_up"
      /\ Matrices["w2"] = "ffn_down" /\ Norms["rms_att"] = "attn_norm" /\ Norms["rms_ffn"] = "ffn_norm"
  BY DEF Matrices, Norms
<1>3. /\ LinWeight(l, 4) = <<"attn_q", l>> /\ LinWeight(l, 8) = <<"attn_k", l>> /\ LinWeight(l, 12) = <<"attn_v", l>>
      /\ LinWeight(l, 28) = <<"attn_output", l>> /\ LinWeight(l, 35) = <<"ffn_gate", l>>
      /\ LinWeight(l, 38) = <<"ffn_up", l>> /\ LinWeight(l, 44) = <<"ffn_down", l>>
  BY <1>1 DEF LinWeight
<1>4. /\ From(l, 4) = Xb /\ From(l, 8) = Xb /\ From(l, 12) = Xb /\ From(l, 28) = Att /\ From(l, 35) = Xb
      /\ From(l, 38) = Xb /\ From(l, 44) = B("inner")
  BY DEF From
<1> QED BY <1>1, <1>2, <1>3, <1>4, OutBufIs DEF Matrix, NormWeight

\* The linear of the head.
LEMMA HeadLinear ==
  /\ LinWeight(Layers, 4) = Classifier /\ From(Layers, 4) = Xb /\ OutBuf(Layers, 4) = B("logits")
  /\ Quantized => Classifier = HeadTensor(file)
BY DEF LinWeight, From, OutBuf, Classifier

\* A linear within a layer or the head.
LEMMA LinIn ==
  ASSUME Layers \in Nat, NEW l \in 0..Layers, NEW n \in Dots, l = Layers => n = 4, NEW p,
         LinOf(p, LinWeight(l, n), From(l, n), OutBuf(l, n)), ~Adds(n), ~OnlyLast(l, n),
         NEW hi \in n + 1..100, \A i \in n + 1..hi - 1 : ~Happens(l, i)
  PROVE  Part(p, l, n - 2, hi)
BY ShapeOf, LinPart

\* A linear whose result is added, within a layer.
LEMMA AddingIn ==
  ASSUME Layers \in Nat, NEW l \in 0..Layers - 1, NEW n \in Dots, NEW p,
         LinOf(p, LinWeight(l, n), From(l, n), OutBuf(l, n)), Adds(n),
         NEW hi \in n + 1..100, \A i \in n + 1..hi - 1 : ~Happens(l, i)
  PROVE  Part(Accumulating(p), l, n - 2, hi)
BY AddingShape, LinPart

\* Only the head of a batched prefill runs on the last row alone.
LEMMA NotLast ==
  ASSUME NEW l \in Int, NEW n
  PROVE  l # Layers \/ engine.name # "prefill" \/ base # 0 => ~OnlyLast(l, n)
BY DEF OnlyLast

\* A bias where the file has one.
LEMMA BiasIn ==
  ASSUME Layers \in Nat, NEW l \in 0..Layers - 1, NEW s, NEW n, NEW to,
         \/ s = "bq" /\ n = (IF Host THEN 5 ELSE 15) /\ to = Q
         \/ s = "bk" /\ n = (IF Host THEN 9 ELSE 16) /\ to = KeysOf(l)
         \/ s = "bv" /\ n = (IF Host THEN 13 ELSE 17) /\ to = ValuesOf(l),
         NEW lo \in 0..100, NEW hi \in 0..100, n \in lo..hi - 1,
         \A i \in lo..hi - 1 : Happens(l, i) => i = n
  PROVE  Part(IfBias(s, l, to), l, lo, hi)
<1>0. l \in Int
  OBVIOUS
<1>1. CASE HasBias(s, l)
  <2>1. LabelOK(BiasOp(s, l, to), l, n)
    BY <1>1, BiasIs
  <2>2. IfBias(s, l, to) = <<BiasOp(s, l, to)>>
    BY <1>1 DEF IfBias
  <2>3. PICK o : o = BiasOp(s, l, to)
    OBVIOUS
  <2>4. Part(<<o>>, l, lo, hi)
    BY <1>0, <2>1, <2>3, One, ZenonT(60)
  <2> QED BY <2>2, <2>3, <2>4
<1>2. CASE ~HasBias(s, l)
  <2>1. ~Happens(l, n)
    BY <1>2, HappensOnly
  <2>2. IfBias(s, l, to) = << >>
    BY <1>2 DEF IfBias
  <2>3. \A i \in lo..hi - 1 : ~Happens(l, i)
    BY <2>1
  <2> QED BY <1>0, <2>2, <2>3, Empty, Zenon
<1> QED BY <1>1, <1>2

\* A barrier within a layer.
LEMMA BarrierIn ==
  ASSUME NEW l \in Int, NEW n, Fence(l, n), NEW bufs, FenceOuts(l, n) \subseteq bufs,
         NEW lo \in 0..100, NEW hi \in 0..100, n \in lo..hi - 1,
         \A i \in lo..hi - 1 : Happens(l, i) => i = n
  PROVE  Part(Barrier(bufs), l, lo, hi)
BY BarrierIs, One

\* A norm within a layer.
LEMMA NormIn ==
  ASSUME Layers \in Nat, NEW l \in 0..Layers, NEW n \in {0, 31}, n = 31 => l # Layers, NEW w,
         w = IF n = 31 THEN <<"ffn_norm", l>> ELSE IF l = Layers THEN FinalNorm ELSE <<"attn_norm", l>>,
         NEW lo \in 0..100, NEW hi \in 0..100, n \in lo..hi - 1,
         \A i \in lo..hi - 1 : Happens(l, i) => i = n
  PROVE  Part(<<NormOp(Norm, w, X, Xb)>>, l, lo, hi)
<1>0. l \in Int
  OBVIOUS
<1>1. PICK o : o = NormOp(Norm, w, X, Xb)
  OBVIOUS
<1>2. LabelOK(o, l, n)
  BY <1>1, NormIs
<1>3. Part(<<o>>, l, lo, hi)
  BY <1>0, <1>2, One, ZenonT(60)
<1> QED BY <1>1, <1>3

\* Which steps happen where.
LEMMA HappensHost ==
  ASSUME Layers \in Nat, Host, NEW l, NEW n, Happens(l, n)
  PROVE  n \in {0, 4, 5, 8, 9, 12, 13, 19, 20, 21, 22, 24, 28, 29, 31, 35, 38, 40, 44, 45}
         /\ (l = Layers => n \in {0, 4}) /\ (n = 5 => HasBias("bq", l)) /\ (n = 9 => HasBias("bk", l))
         /\ (n = 13 => HasBias("bv", l))
<1>1. ~Metal /\ \A w : ~Split(w)
  BY DEF Host, Metal, Split
<1> QED BY <1>1, HappensOnly

\* ... on CUDA ...
LEMMA HappensCuda ==
  ASSUME Layers \in Nat, ~Host, ~Metal, NEW l, NEW n, Happens(l, n)
  PROVE  n \in {0, 2, 4, 6, 8, 10, 12, 15, 16, 17, 21, 22, 24, 26, 28, 31, 33, 35, 36, 38, 40, 42, 44}
         /\ (l = Layers => n \in {0, 2, 4})
BY HappensOnly

\* ... and on Metal.
LEMMA HappensMetal ==
  ASSUME Layers \in Nat, Metal, NEW l, NEW n, Happens(l, n)
  PROVE  n \in (0..46) \ {5, 9, 13, 19, 20, 29, 45}
         /\ (l = Layers => n \in 0..4)
<1>1. ~Host
  BY DEF Host, Metal
<1> QED BY <1>1, HappensOnly

-----------------------------------------------------------------------------
(* The layers and the heads of the engines.                                *)

\* linear_dispatch is a linear.
LEMMA CpuLinIs ==
  ASSUME NEW w, NEW from, NEW to, engine.name = "cpu"
  PROVE  LinOf(CpuLin(w, from, to), w, from, to)
<1>1. Quantized /\ Host
  BY DEF Quantized, Host
<1>2. Dispatched(w) = Product(w)
  BY <1>1 DEF Dispatched, Product, Dtype
<1>3. PICK o : o = LinearOp(Dispatched(w), w, from, to)
  OBVIOUS
<1>4. ~Split(w)
  BY <1>1 DEF Split
<1>5. CpuLin(w, from, to) = <<o>>
  BY <1>3 DEF CpuLin
<1>6. o = Op("linear", Product(w), w, <<from>>, {to})
  BY <1>2, <1>3 DEF LinearOp
<1> QED BY <1>4, <1>5, <1>6, LinOne

\* A layer of the quantized CPU pass does the steps of a layer.
LEMMA CpuLayer ==
  ASSUME Layers \in Nat, engine.name = "cpu", NEW l \in 0..Layers - 1
  PROVE  Part(QuantizedLayer(l), l, 0, 100)
<1>z. Layers \in Nat /\ l \in 0..Layers - 1 /\ l \in 0..Layers /\ l \in Int /\ l # Layers
  OBVIOUS
<1>a. Host /\ Quantized /\ engine.name # "gemma" /\ engine.name # "float"
  BY DEF Host, Quantized
<1>s. engine.name = "cpu"
  OBVIOUS
<1>h. \A n \in Int : Happens(l, n) => n \in {0, 4, 5, 8, 9, 12, 13, 19, 20, 21, 22, 24, 28, 29, 31, 35, 38, 40, 44, 45}
  BY <1>a, HappensHost
<1>n. Norm = <<"w", Epsilon(file)>> /\ Rotation = <<IF Neox(file) THEN "neox" ELSE "interleaved", Theta(file)>> /\ Act = "silu"
  BY <1>a DEF Norm, Rotation, Act
<1>k. KeysOf(l) = B("k") /\ ValuesOf(l) = B("v")
  BY <1>a DEF KeysOf, ValuesOf
<1>w. /\ LinWeight(l, 4) = Matrix("wq", l) /\ From(l, 4) = Xb /\ OutBuf(l, 4) = Q
      /\ LinWeight(l, 8) = Matrix("wk", l) /\ From(l, 8) = Xb /\ OutBuf(l, 8) = B("k")
      /\ LinWeight(l, 12) = Matrix("wv", l) /\ From(l, 12) = Xb /\ OutBuf(l, 12) = B("v")
      /\ LinWeight(l, 28) = Matrix("wo", l) /\ From(l, 28) = Att /\ OutBuf(l, 28) = B("xb2")
      /\ LinWeight(l, 35) = Matrix("w1", l) /\ From(l, 35) = Xb /\ OutBuf(l, 35) = B("gate")
      /\ LinWeight(l, 38) = Matrix("w3", l) /\ From(l, 38) = Xb /\ OutBuf(l, 38) = B("up")
      /\ LinWeight(l, 44) = Matrix("w2", l) /\ From(l, 44) = B("inner") /\ OutBuf(l, 44) = B("xb2")
      /\ NormWeight("rms_att", l) = <<"attn_norm", l>> /\ NormWeight("rms_ffn", l) = <<"ffn_norm", l>>
  BY <1>a, <1>k, LinearsOf
<1>m. /\ LabelOK(CopyOp(B("k"), Keys(l)), l, 19) /\ LabelOK(CopyOp(B("v"), Values(l)), l, 20)
      /\ LabelOK(RopeOp(Rotation, Q), l, 21) /\ LabelOK(RopeOp(Rotation, Keys(l)), l, 22)
      /\ LabelOK(AttentionOp(l), l, 24) /\ LabelOK(ActOp("silu"), l, 40)
      /\ LabelOK(AddOp(X, B("xb2")), l, 29) /\ LabelOK(AddOp(X, B("xb2")), l, 45)
      /\ LabelOK(NormOp(Norm, NormWeight("rms_ffn", l), X, Xb), l, 31)
  <2>1. NormWeight("rms_ffn", l) = IF 31 = 31 THEN <<"ffn_norm", l>> ELSE IF l = Layers THEN FinalNorm ELSE <<"attn_norm", l>>
    BY <1>w
  <2>2. 31 \in {0, 31} /\ (31 = 31 => l # Layers)
    BY <1>z
  <2>3. LabelOK(NormOp(Norm, NormWeight("rms_ffn", l), X, Xb), l, 31)
    BY <1>z, <2>1, <2>2, NormIs, Zenon
  <2> QED BY <1>a, <1>n, <2>3, MovesAre
<1>p0. PICK p1, p2, p3, p4, p5, p6, p7, p8, p9, p10, p11, p12, p13, p14, p15 :
          /\ p1 = <<NormOp(Norm, NormWeight("rms_att", l), X, Xb)>>
          /\ p2 = CpuLin(Matrix("wq", l), Xb, Q)
          /\ p3 = IfBias("bq", l, Q)
          /\ p4 = CpuLin(Matrix("wk", l), Xb, B("k"))
          /\ p5 = IfBias("bk", l, B("k"))
          /\ p6 = CpuLin(Matrix("wv", l), Xb, B("v"))
          /\ p7 = IfBias("bv", l, B("v"))
          /\ p8 = <<CopyOp(B("k"), Keys(l)), CopyOp(B("v"), Values(l)), RopeOp(Rotation, Q), RopeOp(Rotation, Keys(l)), AttentionOp(l)>>
          /\ p9 = CpuLin(Matrix("wo", l), Att, B("xb2"))
          /\ p10 = <<AddOp(X, B("xb2")), NormOp(Norm, NormWeight("rms_ffn", l), X, Xb)>>
          /\ p11 = CpuLin(Matrix("w1", l), Xb, B("gate"))
          /\ p12 = CpuLin(Matrix("w3", l), Xb, B("up"))
          /\ p13 = <<ActOp("silu")>>
          /\ p14 = CpuLin(Matrix("w2", l), B("inner"), B("xb2"))
          /\ p15 = <<AddOp(X, B("xb2"))>>
  OBVIOUS
<1>r0. PICK r1, r2, r3, r4, r5, r6, r7, r8, r9, r10, r11, r12, r13, r14, r15 :
          /\ r1 = p1
          /\ r2 = r1 \o p2
          /\ r3 = r2 \o p3
          /\ r4 = r3 \o p4
          /\ r5 = r4 \o p5
          /\ r6 = r5 \o p6
          /\ r7 = r6 \o p7
          /\ r8 = r7 \o p8
          /\ r9 = r8 \o p9
          /\ r10 = r9 \o p10
          /\ r11 = r10 \o p11
          /\ r12 = r11 \o p12
          /\ r13 = r12 \o p13
          /\ r14 = r13 \o p14
          /\ r15 = r14 \o p15
  OBVIOUS
<1>b. 0 \in 0..100 /\ 2 \in 0..100 /\ 5 \in 0..100 /\ 6 \in 0..100 /\ 9 \in 0..100 /\ 10 \in 0..100 /\ 13 \in 0..100 /\ 14 \in 0..100 /\ 26 \in 0..100 /\ 29 \in 0..100 /\ 33 \in 0..100 /\ 36 \in 0..100 /\ 39 \in 0..100 /\ 42 \in 0..100 /\ 45 \in 0..100 /\ 100 \in 0..100
      /\ 0 <= 0 /\ 0 <= 2 /\ 0 <= 5 /\ 0 <= 6 /\ 0 <= 9 /\ 0 <= 10 /\ 0 <= 13 /\ 0 <= 14 /\ 0 <= 26 /\ 0 <= 29 /\ 0 <= 33 /\ 0 <= 36 /\ 0 <= 39 /\ 0 <= 42 /\ 0 <= 45 /\ 0 <= 100
      /\ 0 <= 2 /\ 2 <= 5 /\ 5 <= 6 /\ 6 <= 9 /\ 9 <= 10 /\ 10 <= 13 /\ 13 <= 14 /\ 14 <= 26 /\ 26 <= 29 /\ 29 <= 33 /\ 33 <= 36 /\ 36 <= 39 /\ 39 <= 42 /\ 42 <= 45 /\ 45 <= 100
  OBVIOUS
<1>p1. Part(p1, l, 0, 2)
  <2>1. \A i \in 0..2 - 1 : Happens(l, i) => i = 0
    BY <1>h
  <2>2. 0 \in {0, 31} /\ (0 = 31 => l # Layers) /\ 0 \in 0..2 - 1
    BY <1>z
  <2>3. NormWeight("rms_att", l) = IF 0 = 31 THEN <<"ffn_norm", l>> ELSE IF l = Layers THEN FinalNorm ELSE <<"attn_norm", l>>
    BY <1>w, <1>z
  <2>4. Part(<<NormOp(Norm, NormWeight("rms_att", l), X, Xb)>>, l, 0, 2)
    BY <1>z, <1>b, <2>1, <2>2, <2>3, NormIn, ZenonT(60)
  <2> QED BY <1>p0, <2>4
<1>p2. Part(p2, l, 2, 5)
  <2>1. LinOf(p2, LinWeight(l, 4), From(l, 4), OutBuf(l, 4))
    BY <1>p0, <1>w, <1>s, CpuLinIs
  <2>2. ~Adds(4) /\ ~OnlyLast(l, 4) /\ 4 \in Dots /\ (l = Layers => 4 = 4)
    BY <1>a, <1>z, NotLast DEF Adds, Dots
  <2>3. \A i \in 4 + 1..5 - 1 : ~Happens(l, i)
    BY <1>h
  <2>4. 5 \in 4 + 1..100 /\ 4 - 2 = 2
    OBVIOUS
  <2>5. Part(p2, l, 4 - 2, 5)
    BY <1>z, <2>1, <2>2, <2>3, <2>4, LinIn, ZenonT(60)
  <2> QED BY <2>4, <2>5
<1>p3. Part(p3, l, 5, 6)
  <2>1. \A i \in 5..6 - 1 : Happens(l, i) => i = 5
    BY <1>h
  <2>2. 5 \in 5..6 - 1
    OBVIOUS
  <2>3. "bq" = "bq" /\ 5 = (IF Host THEN 5 ELSE 15) /\ Q = Q
    BY <1>a, <1>k
  <2>4. Part(IfBias("bq", l, Q), l, 5, 6)
    BY <1>z, <1>b, <2>1, <2>2, <2>3, BiasIn, ZenonT(60)
  <2> QED BY <1>p0, <2>4
<1>p4. Part(p4, l, 6, 9)
  <2>1. LinOf(p4, LinWeight(l, 8), From(l, 8), OutBuf(l, 8))
    BY <1>p0, <1>w, <1>s, CpuLinIs
  <2>2. ~Adds(8) /\ ~OnlyLast(l, 8) /\ 8 \in Dots /\ (l = Layers => 8 = 4)
    BY <1>a, <1>z, NotLast DEF Adds, Dots
  <2>3. \A i \in 8 + 1..9 - 1 : ~Happens(l, i)
    BY <1>h
  <2>4. 9 \in 8 + 1..100 /\ 8 - 2 = 6
    OBVIOUS
  <2>5. Part(p4, l, 8 - 2, 9)
    BY <1>z, <2>1, <2>2, <2>3, <2>4, LinIn, ZenonT(60)
  <2> QED BY <2>4, <2>5
<1>p5. Part(p5, l, 9, 10)
  <2>1. \A i \in 9..10 - 1 : Happens(l, i) => i = 9
    BY <1>h
  <2>2. 9 \in 9..10 - 1
    OBVIOUS
  <2>3. "bk" = "bk" /\ 9 = (IF Host THEN 9 ELSE 16) /\ B("k") = KeysOf(l)
    BY <1>a, <1>k
  <2>4. Part(IfBias("bk", l, B("k")), l, 9, 10)
    BY <1>z, <1>b, <2>1, <2>2, <2>3, BiasIn, ZenonT(60)
  <2> QED BY <1>p0, <2>4
<1>p6. Part(p6, l, 10, 13)
  <2>1. LinOf(p6, LinWeight(l, 12), From(l, 12), OutBuf(l, 12))
    BY <1>p0, <1>w, <1>s, CpuLinIs
  <2>2. ~Adds(12) /\ ~OnlyLast(l, 12) /\ 12 \in Dots /\ (l = Layers => 12 = 4)
    BY <1>a, <1>z, NotLast DEF Adds, Dots
  <2>3. \A i \in 12 + 1..13 - 1 : ~Happens(l, i)
    BY <1>h
  <2>4. 13 \in 12 + 1..100 /\ 12 - 2 = 10
    OBVIOUS
  <2>5. Part(p6, l, 12 - 2, 13)
    BY <1>z, <2>1, <2>2, <2>3, <2>4, LinIn, ZenonT(60)
  <2> QED BY <2>4, <2>5
<1>p7. Part(p7, l, 13, 14)
  <2>1. \A i \in 13..14 - 1 : Happens(l, i) => i = 13
    BY <1>h
  <2>2. 13 \in 13..14 - 1
    OBVIOUS
  <2>3. "bv" = "bv" /\ 13 = (IF Host THEN 13 ELSE 17) /\ B("v") = ValuesOf(l)
    BY <1>a, <1>k
  <2>4. Part(IfBias("bv", l, B("v")), l, 13, 14)
    BY <1>z, <1>b, <2>1, <2>2, <2>3, BiasIn, ZenonT(60)
  <2> QED BY <1>p0, <2>4
<1>p8. Part(p8, l, 14, 26)
  <2>1. \A i \in 14..26 - 1 : Happens(l, i) => i \in {19, 20, 21, 22, 24}
    BY <1>h
  <2>2. 19 \in 14..26 - 1 /\ 20 \in 14..26 - 1 /\ 21 \in 14..26 - 1 /\ 22 \in 14..26 - 1 /\ 24 \in 14..26 - 1 /\ 19 < 20 /\ 20 < 21 /\ 21 < 22 /\ 22 < 24
    OBVIOUS
  <2>3. LabelOK(CopyOp(B("k"), Keys(l)), l, 19) /\ LabelOK(CopyOp(B("v"), Values(l)), l, 20) /\ LabelOK(RopeOp(Rotation, Q), l, 21) /\ LabelOK(RopeOp(Rotation, Keys(l)), l, 22) /\ LabelOK(AttentionOp(l), l, 24)
    BY <1>m
  <2>4. Part(<<CopyOp(B("k"), Keys(l)), CopyOp(B("v"), Values(l)), RopeOp(Rotation, Q), RopeOp(Rotation, Keys(l)), AttentionOp(l)>>, l, 14, 26)
    BY <1>z, <1>b, <2>1, <2>2, <2>3, FiveSteps, ZenonT(60)
  <2> QED BY <1>p0, <2>4
<1>p9. Part(p9, l, 26, 29)
  <2>1. LinOf(p9, LinWeight(l, 28), From(l, 28), OutBuf(l, 28))
    BY <1>p0, <1>w, <1>s, CpuLinIs
  <2>2. ~Adds(28) /\ ~OnlyLast(l, 28) /\ 28 \in Dots /\ (l = Layers => 28 = 4)
    BY <1>a, <1>z, NotLast DEF Adds, Dots
  <2>3. \A i \in 28 + 1..29 - 1 : ~Happens(l, i)
    BY <1>h
  <2>4. 29 \in 28 + 1..100 /\ 28 - 2 = 26
    OBVIOUS
  <2>5. Part(p9, l, 28 - 2, 29)
    BY <1>z, <2>1, <2>2, <2>3, <2>4, LinIn, ZenonT(60)
  <2> QED BY <2>4, <2>5
<1>p10. Part(p10, l, 29, 33)
  <2>1. \A i \in 29..33 - 1 : Happens(l, i) => i \in {29, 31}
    BY <1>h
  <2>2. 29 \in 29..33 - 1 /\ 31 \in 29..33 - 1 /\ 29 < 31
    OBVIOUS
  <2>3. LabelOK(AddOp(X, B("xb2")), l, 29) /\ LabelOK(NormOp(Norm, NormWeight("rms_ffn", l), X, Xb), l, 31)
    BY <1>m
  <2>4. Part(<<AddOp(X, B("xb2")), NormOp(Norm, NormWeight("rms_ffn", l), X, Xb)>>, l, 29, 33)
    BY <1>z, <1>b, <2>1, <2>2, <2>3, TwoSteps, ZenonT(60)
  <2> QED BY <1>p0, <2>4
<1>p11. Part(p11, l, 33, 36)
  <2>1. LinOf(p11, LinWeight(l, 35), From(l, 35), OutBuf(l, 35))
    BY <1>p0, <1>w, <1>s, CpuLinIs
  <2>2. ~Adds(35) /\ ~OnlyLast(l, 35) /\ 35 \in Dots /\ (l = Layers => 35 = 4)
    BY <1>a, <1>z, NotLast DEF Adds, Dots
  <2>3. \A i \in 35 + 1..36 - 1 : ~Happens(l, i)
    BY <1>h
  <2>4. 36 \in 35 + 1..100 /\ 35 - 2 = 33
    OBVIOUS
  <2>5. Part(p11, l, 35 - 2, 36)
    BY <1>z, <2>1, <2>2, <2>3, <2>4, LinIn, ZenonT(60)
  <2> QED BY <2>4, <2>5
<1>p12. Part(p12, l, 36, 39)
  <2>1. LinOf(p12, LinWeight(l, 38), From(l, 38), OutBuf(l, 38))
    BY <1>p0, <1>w, <1>s, CpuLinIs
  <2>2. ~Adds(38) /\ ~OnlyLast(l, 38) /\ 38 \in Dots /\ (l = Layers => 38 = 4)
    BY <1>a, <1>z, NotLast DEF Adds, Dots
  <2>3. \A i \in 38 + 1..39 - 1 : ~Happens(l, i)
    BY <1>h
  <2>4. 39 \in 38 + 1..100 /\ 38 - 2 = 36
    OBVIOUS
  <2>5. Part(p12, l, 38 - 2, 39)
    BY <1>z, <2>1, <2>2, <2>3, <2>4, LinIn, ZenonT(60)
  <2> QED BY <2>4, <2>5
<1>p13. Part(p13, l, 39, 42)
  <2>1. \A i \in 39..42 - 1 : Happens(l, i) => i = 40
    BY <1>h
  <2>2. 40 \in 39..42 - 1
    OBVIOUS
  <2>3. LabelOK(ActOp("silu"), l, 40)
    BY <1>m
  <2>4. Part(<<ActOp("silu")>>, l, 39, 42)
    BY <1>z, <1>b, <2>1, <2>2, <2>3, One, ZenonT(60)
  <2> QED BY <1>p0, <2>4
<1>p14. Part(p14, l, 42, 45)
  <2>1. LinOf(p14, LinWeight(l, 44), From(l, 44), OutBuf(l, 44))
    BY <1>p0, <1>w, <1>s, CpuLinIs
  <2>2. ~Adds(44) /\ ~OnlyLast(l, 44) /\ 44 \in Dots /\ (l = Layers => 44 = 4)
    BY <1>a, <1>z, NotLast DEF Adds, Dots
  <2>3. \A i \in 44 + 1..45 - 1 : ~Happens(l, i)
    BY <1>h
  <2>4. 45 \in 44 + 1..100 /\ 44 - 2 = 42
    OBVIOUS
  <2>5. Part(p14, l, 44 - 2, 45)
    BY <1>z, <2>1, <2>2, <2>3, <2>4, LinIn, ZenonT(60)
  <2> QED BY <2>4, <2>5
<1>p15. Part(p15, l, 45, 100)
  <2>1. \A i \in 45..100 - 1 : Happens(l, i) => i = 45
    BY <1>h
  <2>2. 45 \in 45..100 - 1
    OBVIOUS
  <2>3. LabelOK(AddOp(X, B("xb2")), l, 45)
    BY <1>m
  <2>4. Part(<<AddOp(X, B("xb2"))>>, l, 45, 100)
    BY <1>z, <1>b, <2>1, <2>2, <2>3, One, ZenonT(60)
  <2> QED BY <1>p0, <2>4
<1>r1. Part(r1, l, 0, 2)
  BY <1>p1, <1>r0
<1>r2. Part(r2, l, 0, 5)
  <2>1. r2 = r1 \o p2
    BY <1>r0
  <2>2. PICK b \in 0..100, c \in 0..100 : b = 2 /\ c = 5
    OBVIOUS
  <2>3. l \in Int /\ b <= c /\ Part(r1, l, 0, b) /\ Part(p2, l, b, c)
    BY <1>z, <1>r1, <1>p2, <2>2
  <2>4. Part(r2, l, 0, c)
    BY <2>1, <2>3, JoinStart
  <2> QED BY <2>2, <2>4
<1>r3. Part(r3, l, 0, 6)
  <2>1. r3 = r2 \o p3
    BY <1>r0
  <2>2. PICK b \in 0..100, c \in 0..100 : b = 5 /\ c = 6
    OBVIOUS
  <2>3. l \in Int /\ b <= c /\ Part(r2, l, 0, b) /\ Part(p3, l, b, c)
    BY <1>z, <1>r2, <1>p3, <2>2
  <2>4. Part(r3, l, 0, c)
    BY <2>1, <2>3, JoinStart
  <2> QED BY <2>2, <2>4
<1>r4. Part(r4, l, 0, 9)
  <2>1. r4 = r3 \o p4
    BY <1>r0
  <2>2. PICK b \in 0..100, c \in 0..100 : b = 6 /\ c = 9
    OBVIOUS
  <2>3. l \in Int /\ b <= c /\ Part(r3, l, 0, b) /\ Part(p4, l, b, c)
    BY <1>z, <1>r3, <1>p4, <2>2
  <2>4. Part(r4, l, 0, c)
    BY <2>1, <2>3, JoinStart
  <2> QED BY <2>2, <2>4
<1>r5. Part(r5, l, 0, 10)
  <2>1. r5 = r4 \o p5
    BY <1>r0
  <2>2. PICK b \in 0..100, c \in 0..100 : b = 9 /\ c = 10
    OBVIOUS
  <2>3. l \in Int /\ b <= c /\ Part(r4, l, 0, b) /\ Part(p5, l, b, c)
    BY <1>z, <1>r4, <1>p5, <2>2
  <2>4. Part(r5, l, 0, c)
    BY <2>1, <2>3, JoinStart
  <2> QED BY <2>2, <2>4
<1>r6. Part(r6, l, 0, 13)
  <2>1. r6 = r5 \o p6
    BY <1>r0
  <2>2. PICK b \in 0..100, c \in 0..100 : b = 10 /\ c = 13
    OBVIOUS
  <2>3. l \in Int /\ b <= c /\ Part(r5, l, 0, b) /\ Part(p6, l, b, c)
    BY <1>z, <1>r5, <1>p6, <2>2
  <2>4. Part(r6, l, 0, c)
    BY <2>1, <2>3, JoinStart
  <2> QED BY <2>2, <2>4
<1>r7. Part(r7, l, 0, 14)
  <2>1. r7 = r6 \o p7
    BY <1>r0
  <2>2. PICK b \in 0..100, c \in 0..100 : b = 13 /\ c = 14
    OBVIOUS
  <2>3. l \in Int /\ b <= c /\ Part(r6, l, 0, b) /\ Part(p7, l, b, c)
    BY <1>z, <1>r6, <1>p7, <2>2
  <2>4. Part(r7, l, 0, c)
    BY <2>1, <2>3, JoinStart
  <2> QED BY <2>2, <2>4
<1>r8. Part(r8, l, 0, 26)
  <2>1. r8 = r7 \o p8
    BY <1>r0
  <2>2. PICK b \in 0..100, c \in 0..100 : b = 14 /\ c = 26
    OBVIOUS
  <2>3. l \in Int /\ b <= c /\ Part(r7, l, 0, b) /\ Part(p8, l, b, c)
    BY <1>z, <1>r7, <1>p8, <2>2
  <2>4. Part(r8, l, 0, c)
    BY <2>1, <2>3, JoinStart
  <2> QED BY <2>2, <2>4
<1>r9. Part(r9, l, 0, 29)
  <2>1. r9 = r8 \o p9
    BY <1>r0
  <2>2. PICK b \in 0..100, c \in 0..100 : b = 26 /\ c = 29
    OBVIOUS
  <2>3. l \in Int /\ b <= c /\ Part(r8, l, 0, b) /\ Part(p9, l, b, c)
    BY <1>z, <1>r8, <1>p9, <2>2
  <2>4. Part(r9, l, 0, c)
    BY <2>1, <2>3, JoinStart
  <2> QED BY <2>2, <2>4
<1>r10. Part(r10, l, 0, 33)
  <2>1. r10 = r9 \o p10
    BY <1>r0
  <2>2. PICK b \in 0..100, c \in 0..100 : b = 29 /\ c = 33
    OBVIOUS
  <2>3. l \in Int /\ b <= c /\ Part(r9, l, 0, b) /\ Part(p10, l, b, c)
    BY <1>z, <1>r9, <1>p10, <2>2
  <2>4. Part(r10, l, 0, c)
    BY <2>1, <2>3, JoinStart
  <2> QED BY <2>2, <2>4
<1>r11. Part(r11, l, 0, 36)
  <2>1. r11 = r10 \o p11
    BY <1>r0
  <2>2. PICK b \in 0..100, c \in 0..100 : b = 33 /\ c = 36
    OBVIOUS
  <2>3. l \in Int /\ b <= c /\ Part(r10, l, 0, b) /\ Part(p11, l, b, c)
    BY <1>z, <1>r10, <1>p11, <2>2
  <2>4. Part(r11, l, 0, c)
    BY <2>1, <2>3, JoinStart
  <2> QED BY <2>2, <2>4
<1>r12. Part(r12, l, 0, 39)
  <2>1. r12 = r11 \o p12
    BY <1>r0
  <2>2. PICK b \in 0..100, c \in 0..100 : b = 36 /\ c = 39
    OBVIOUS
  <2>3. l \in Int /\ b <= c /\ Part(r11, l, 0, b) /\ Part(p12, l, b, c)
    BY <1>z, <1>r11, <1>p12, <2>2
  <2>4. Part(r12, l, 0, c)
    BY <2>1, <2>3, JoinStart
  <2> QED BY <2>2, <2>4
<1>r13. Part(r13, l, 0, 42)
  <2>1. r13 = r12 \o p13
    BY <1>r0
  <2>2. PICK b \in 0..100, c \in 0..100 : b = 39 /\ c = 42
    OBVIOUS
  <2>3. l \in Int /\ b <= c /\ Part(r12, l, 0, b) /\ Part(p13, l, b, c)
    BY <1>z, <1>r12, <1>p13, <2>2
  <2>4. Part(r13, l, 0, c)
    BY <2>1, <2>3, JoinStart
  <2> QED BY <2>2, <2>4
<1>r14. Part(r14, l, 0, 45)
  <2>1. r14 = r13 \o p14
    BY <1>r0
  <2>2. PICK b \in 0..100, c \in 0..100 : b = 42 /\ c = 45
    OBVIOUS
  <2>3. l \in Int /\ b <= c /\ Part(r13, l, 0, b) /\ Part(p14, l, b, c)
    BY <1>z, <1>r13, <1>p14, <2>2
  <2>4. Part(r14, l, 0, c)
    BY <2>1, <2>3, JoinStart
  <2> QED BY <2>2, <2>4
<1>r15. Part(r15, l, 0, 100)
  <2>1. r15 = r14 \o p15
    BY <1>r0
  <2>2. PICK b \in 0..100, c \in 0..100 : b = 45 /\ c = 100
    OBVIOUS
  <2>3. l \in Int /\ b <= c /\ Part(r14, l, 0, b) /\ Part(p15, l, b, c)
    BY <1>z, <1>r14, <1>p15, <2>2
  <2>4. Part(r15, l, 0, c)
    BY <2>1, <2>3, JoinStart
  <2> QED BY <2>2, <2>4
<1>e. QuantizedLayer(l) = r15
  BY <1>p0, <1>r0, <1>n DEF QuantizedLayer
<1> QED BY <1>r15, <1>e

\* The matrices of a layer have kernels when all that is uploaded has.
LEMMA UploadedAre ==
  ASSUME Layers \in Nat, Quantized, NEW l \in 0..Layers - 1, \A w \in Uploaded : Ported(w)
  PROVE  /\ Ported(Matrix("wq", l)) /\ Ported(Matrix("wk", l)) /\ Ported(Matrix("wv", l)) /\ Ported(Matrix("wo", l))
         /\ Ported(Matrix("w1", l)) /\ Ported(Matrix("w2", l)) /\ Ported(Matrix("w3", l))
<1>1. Layers = file.blocks
  BY DEF Layers
<1>2. \A s \in DOMAIN Matrices : Matrix(s, l) \in Uploaded
  BY <1>1 DEF Uploaded
<1>3. "wq" \in DOMAIN Matrices /\ "wk" \in DOMAIN Matrices /\ "wv" \in DOMAIN Matrices /\ "wo" \in DOMAIN Matrices
      /\ "w1" \in DOMAIN Matrices /\ "w2" \in DOMAIN Matrices /\ "w3" \in DOMAIN Matrices
  BY DEF Matrices
<1> QED BY <1>2, <1>3

\* So does one of CUDA ...
LEMMA CudaLayerPart ==
  ASSUME Layers \in Nat, engine.name \in {"cuda", "prefill"}, NEW l \in 0..Layers - 1, \A w \in Uploaded : Ported(w)
  PROVE  Part(CudaLayer(l), l, 0, 100)
<1>z. Layers \in Nat /\ l \in 0..Layers - 1 /\ l \in 0..Layers /\ l \in Int /\ l # Layers
  OBVIOUS
<1>a. ~Host /\ Quantized /\ engine.name # "gemma" /\ engine.name # "float" /\ ~Metal
  BY DEF Host, Quantized, Metal
<1>s. engine.name # "conformance" /\ Ported(Matrix("wq", l)) /\ Ported(Matrix("wk", l)) /\ Ported(Matrix("wv", l))
      /\ Ported(Matrix("wo", l)) /\ Ported(Matrix("w1", l)) /\ Ported(Matrix("w2", l)) /\ Ported(Matrix("w3", l))
      /\ engine.name \in {"cuda", "prefill"}
  BY <1>a, UploadedAre
<1>h. \A n \in Int : Happens(l, n) => n \in {0, 2, 4, 6, 8, 10, 12, 15, 16, 17, 21, 22, 24, 26, 28, 31, 33, 35, 36, 38, 40, 42, 44}
  BY <1>a, HappensCuda
<1>n. Norm = <<"w", Epsilon(file)>> /\ Rotation = <<IF Neox(file) THEN "neox" ELSE "interleaved", Theta(file)>> /\ Act = "silu"
  BY <1>a DEF Norm, Rotation, Act
<1>k. KeysOf(l) = Keys(l) /\ ValuesOf(l) = Values(l)
  BY <1>a DEF KeysOf, ValuesOf
<1>w. /\ LinWeight(l, 4) = Matrix("wq", l) /\ From(l, 4) = Xb /\ OutBuf(l, 4) = Q
      /\ LinWeight(l, 8) = Matrix("wk", l) /\ From(l, 8) = Xb /\ OutBuf(l, 8) = Keys(l)
      /\ LinWeight(l, 12) = Matrix("wv", l) /\ From(l, 12) = Xb /\ OutBuf(l, 12) = Values(l)
      /\ LinWeight(l, 28) = Matrix("wo", l) /\ From(l, 28) = Att /\ OutBuf(l, 28) = X
      /\ LinWeight(l, 35) = Matrix("w1", l) /\ From(l, 35) = Xb /\ OutBuf(l, 35) = B("gate")
      /\ LinWeight(l, 38) = Matrix("w3", l) /\ From(l, 38) = Xb /\ OutBuf(l, 38) = B("up")
      /\ LinWeight(l, 44) = Matrix("w2", l) /\ From(l, 44) = B("inner") /\ OutBuf(l, 44) = X
      /\ NormWeight("rms_att", l) = <<"attn_norm", l>> /\ NormWeight("rms_ffn", l) = <<"ffn_norm", l>>
  BY <1>a, <1>k, LinearsOf
<1>m. /\ LabelOK(RopeOp(Rotation, Q), l, 21) /\ LabelOK(RopeOp(Rotation, Keys(l)), l, 22)
      /\ LabelOK(AttentionOp(l), l, 24) /\ LabelOK(ActOp("silu"), l, 40)
  BY <1>a, <1>n, MovesAre
<1>p0. PICK p1, p2, p3, p4, p5, p6, p7, p8, p9, p10, p11, p12, p13, p14 :
          /\ p1 = <<NormOp(Norm, NormWeight("rms_att", l), X, Xb)>>
          /\ p2 = CudaLin(Matrix("wq", l), Xb, Q)
          /\ p3 = CudaLin(Matrix("wk", l), Xb, Keys(l))
          /\ p4 = CudaLin(Matrix("wv", l), Xb, Values(l))
          /\ p5 = IfBias("bq", l, Q)
          /\ p6 = IfBias("bk", l, Keys(l))
          /\ p7 = IfBias("bv", l, Values(l))
          /\ p8 = <<RopeOp(Rotation, Q), RopeOp(Rotation, Keys(l)), AttentionOp(l)>>
          /\ p9 = Accumulating(CudaLin(Matrix("wo", l), Att, X))
          /\ p10 = <<NormOp(Norm, NormWeight("rms_ffn", l), X, Xb)>>
          /\ p11 = CudaLin(Matrix("w1", l), Xb, B("gate"))
          /\ p12 = CudaLin(Matrix("w3", l), Xb, B("up"))
          /\ p13 = <<ActOp("silu")>>
          /\ p14 = Accumulating(CudaLin(Matrix("w2", l), B("inner"), X))
  OBVIOUS
<1>r0. PICK r1, r2, r3, r4, r5, r6, r7, r8, r9, r10, r11, r12, r13, r14 :
          /\ r1 = p1
          /\ r2 = r1 \o p2
          /\ r3 = r2 \o p3
          /\ r4 = r3 \o p4
          /\ r5 = r4 \o p5
          /\ r6 = r5 \o p6
          /\ r7 = r6 \o p7
          /\ r8 = r7 \o p8
          /\ r9 = r8 \o p9
          /\ r10 = r9 \o p10
          /\ r11 = r10 \o p11
          /\ r12 = r11 \o p12
          /\ r13 = r12 \o p13
          /\ r14 = r13 \o p14
  OBVIOUS
<1>b. 0 \in 0..100 /\ 2 \in 0..100 /\ 6 \in 0..100 /\ 10 \in 0..100 /\ 14 \in 0..100 /\ 16 \in 0..100 /\ 17 \in 0..100 /\ 18 \in 0..100 /\ 26 \in 0..100 /\ 29 \in 0..100 /\ 33 \in 0..100 /\ 36 \in 0..100 /\ 39 \in 0..100 /\ 42 \in 0..100 /\ 100 \in 0..100
      /\ 0 <= 0 /\ 0 <= 2 /\ 0 <= 6 /\ 0 <= 10 /\ 0 <= 14 /\ 0 <= 16 /\ 0 <= 17 /\ 0 <= 18 /\ 0 <= 26 /\ 0 <= 29 /\ 0 <= 33 /\ 0 <= 36 /\ 0 <= 39 /\ 0 <= 42 /\ 0 <= 100
      /\ 0 <= 2 /\ 2 <= 6 /\ 6 <= 10 /\ 10 <= 14 /\ 14 <= 16 /\ 16 <= 17 /\ 17 <= 18 /\ 18 <= 26 /\ 26 <= 29 /\ 29 <= 33 /\ 33 <= 36 /\ 36 <= 39 /\ 39 <= 42 /\ 42 <= 100
  OBVIOUS
<1>p1. Part(p1, l, 0, 2)
  <2>1. \A i \in 0..2 - 1 : Happens(l, i) => i = 0
    BY <1>h
  <2>2. 0 \in {0, 31} /\ (0 = 31 => l # Layers) /\ 0 \in 0..2 - 1
    BY <1>z
  <2>3. NormWeight("rms_att", l) = IF 0 = 31 THEN <<"ffn_norm", l>> ELSE IF l = Layers THEN FinalNorm ELSE <<"attn_norm", l>>
    BY <1>w, <1>z
  <2>4. Part(<<NormOp(Norm, NormWeight("rms_att", l), X, Xb)>>, l, 0, 2)
    BY <1>z, <1>b, <2>1, <2>2, <2>3, NormIn, ZenonT(60)
  <2> QED BY <1>p0, <2>4
<1>p2. Part(p2, l, 2, 6)
  <2>1. LinOf(p2, LinWeight(l, 4), From(l, 4), OutBuf(l, 4))
    BY <1>p0, <1>w, <1>s, CudaLinIs
  <2>2. ~Adds(4) /\ ~OnlyLast(l, 4) /\ 4 \in Dots /\ (l = Layers => 4 = 4)
    BY <1>a, <1>z, NotLast DEF Adds, Dots
  <2>3. \A i \in 4 + 1..6 - 1 : ~Happens(l, i)
    BY <1>h
  <2>4. 6 \in 4 + 1..100 /\ 4 - 2 = 2
    OBVIOUS
  <2>5. Part(p2, l, 4 - 2, 6)
    BY <1>z, <2>1, <2>2, <2>3, <2>4, LinIn, ZenonT(60)
  <2> QED BY <2>4, <2>5
<1>p3. Part(p3, l, 6, 10)
  <2>1. LinOf(p3, LinWeight(l, 8), From(l, 8), OutBuf(l, 8))
    BY <1>p0, <1>w, <1>s, CudaLinIs
  <2>2. ~Adds(8) /\ ~OnlyLast(l, 8) /\ 8 \in Dots /\ (l = Layers => 8 = 4)
    BY <1>a, <1>z, NotLast DEF Adds, Dots
  <2>3. \A i \in 8 + 1..10 - 1 : ~Happens(l, i)
    BY <1>h
  <2>4. 10 \in 8 + 1..100 /\ 8 - 2 = 6
    OBVIOUS
  <2>5. Part(p3, l, 8 - 2, 10)
    BY <1>z, <2>1, <2>2, <2>3, <2>4, LinIn, ZenonT(60)
  <2> QED BY <2>4, <2>5
<1>p4. Part(p4, l, 10, 14)
  <2>1. LinOf(p4, LinWeight(l, 12), From(l, 12), OutBuf(l, 12))
    BY <1>p0, <1>w, <1>s, CudaLinIs
  <2>2. ~Adds(12) /\ ~OnlyLast(l, 12) /\ 12 \in Dots /\ (l = Layers => 12 = 4)
    BY <1>a, <1>z, NotLast DEF Adds, Dots
  <2>3. \A i \in 12 + 1..14 - 1 : ~Happens(l, i)
    BY <1>h
  <2>4. 14 \in 12 + 1..100 /\ 12 - 2 = 10
    OBVIOUS
  <2>5. Part(p4, l, 12 - 2, 14)
    BY <1>z, <2>1, <2>2, <2>3, <2>4, LinIn, ZenonT(60)
  <2> QED BY <2>4, <2>5
<1>p5. Part(p5, l, 14, 16)
  <2>1. \A i \in 14..16 - 1 : Happens(l, i) => i = 15
    BY <1>h
  <2>2. 15 \in 14..16 - 1
    OBVIOUS
  <2>3. "bq" = "bq" /\ 15 = (IF Host THEN 5 ELSE 15) /\ Q = Q
    BY <1>a, <1>k
  <2>4. Part(IfBias("bq", l, Q), l, 14, 16)
    BY <1>z, <1>b, <2>1, <2>2, <2>3, BiasIn, ZenonT(60)
  <2> QED BY <1>p0, <2>4
<1>p6. Part(p6, l, 16, 17)
  <2>1. \A i \in 16..17 - 1 : Happens(l, i) => i = 16
    BY <1>h
  <2>2. 16 \in 16..17 - 1
    OBVIOUS
  <2>3. "bk" = "bk" /\ 16 = (IF Host THEN 9 ELSE 16) /\ Keys(l) = KeysOf(l)
    BY <1>a, <1>k
  <2>4. Part(IfBias("bk", l, Keys(l)), l, 16, 17)
    BY <1>z, <1>b, <2>1, <2>2, <2>3, BiasIn, ZenonT(60)
  <2> QED BY <1>p0, <2>4
<1>p7. Part(p7, l, 17, 18)
  <2>1. \A i \in 17..18 - 1 : Happens(l, i) => i = 17
    BY <1>h
  <2>2. 17 \in 17..18 - 1
    OBVIOUS
  <2>3. "bv" = "bv" /\ 17 = (IF Host THEN 13 ELSE 17) /\ Values(l) = ValuesOf(l)
    BY <1>a, <1>k
  <2>4. Part(IfBias("bv", l, Values(l)), l, 17, 18)
    BY <1>z, <1>b, <2>1, <2>2, <2>3, BiasIn, ZenonT(60)
  <2> QED BY <1>p0, <2>4
<1>p8. Part(p8, l, 18, 26)
  <2>1. \A i \in 18..26 - 1 : Happens(l, i) => i \in {21, 22, 24}
    BY <1>h
  <2>2. 21 \in 18..26 - 1 /\ 22 \in 18..26 - 1 /\ 24 \in 18..26 - 1 /\ 21 < 22 /\ 22 < 24
    OBVIOUS
  <2>3. LabelOK(RopeOp(Rotation, Q), l, 21) /\ LabelOK(RopeOp(Rotation, Keys(l)), l, 22) /\ LabelOK(AttentionOp(l), l, 24)
    BY <1>m
  <2>4. Part(<<RopeOp(Rotation, Q), RopeOp(Rotation, Keys(l)), AttentionOp(l)>>, l, 18, 26)
    BY <1>z, <1>b, <2>1, <2>2, <2>3, ThreeSteps, ZenonT(60)
  <2> QED BY <1>p0, <2>4
<1>p9. Part(p9, l, 26, 29)
  <2>1. LinOf(CudaLin(Matrix("wo", l), Att, X), LinWeight(l, 28), From(l, 28), OutBuf(l, 28))
    BY <1>p0, <1>w, <1>s, CudaLinIs
  <2>2. Adds(28) /\ ~OnlyLast(l, 28) /\ 28 \in Dots /\ (l = Layers => 28 = 4)
    BY <1>a, <1>z, NotLast DEF Adds, Dots
  <2>3. \A i \in 28 + 1..29 - 1 : ~Happens(l, i)
    BY <1>h
  <2>4. 29 \in 28 + 1..100 /\ 28 - 2 = 26
    OBVIOUS
  <2>5. Part(Accumulating(CudaLin(Matrix("wo", l), Att, X)), l, 28 - 2, 29)
    BY <1>z, <2>1, <2>2, <2>3, <2>4, AddingIn, ZenonT(60)
  <2> QED BY <1>p0, <2>4, <2>5
<1>p10. Part(p10, l, 29, 33)
  <2>1. \A i \in 29..33 - 1 : Happens(l, i) => i = 31
    BY <1>h
  <2>2. 31 \in {0, 31} /\ (31 = 31 => l # Layers) /\ 31 \in 29..33 - 1
    BY <1>z
  <2>3. NormWeight("rms_ffn", l) = IF 31 = 31 THEN <<"ffn_norm", l>> ELSE IF l = Layers THEN FinalNorm ELSE <<"attn_norm", l>>
    BY <1>w, <1>z
  <2>4. Part(<<NormOp(Norm, NormWeight("rms_ffn", l), X, Xb)>>, l, 29, 33)
    BY <1>z, <1>b, <2>1, <2>2, <2>3, NormIn, ZenonT(60)
  <2> QED BY <1>p0, <2>4
<1>p11. Part(p11, l, 33, 36)
  <2>1. LinOf(p11, LinWeight(l, 35), From(l, 35), OutBuf(l, 35))
    BY <1>p0, <1>w, <1>s, CudaLinIs
  <2>2. ~Adds(35) /\ ~OnlyLast(l, 35) /\ 35 \in Dots /\ (l = Layers => 35 = 4)
    BY <1>a, <1>z, NotLast DEF Adds, Dots
  <2>3. \A i \in 35 + 1..36 - 1 : ~Happens(l, i)
    BY <1>h
  <2>4. 36 \in 35 + 1..100 /\ 35 - 2 = 33
    OBVIOUS
  <2>5. Part(p11, l, 35 - 2, 36)
    BY <1>z, <2>1, <2>2, <2>3, <2>4, LinIn, ZenonT(60)
  <2> QED BY <2>4, <2>5
<1>p12. Part(p12, l, 36, 39)
  <2>1. LinOf(p12, LinWeight(l, 38), From(l, 38), OutBuf(l, 38))
    BY <1>p0, <1>w, <1>s, CudaLinIs
  <2>2. ~Adds(38) /\ ~OnlyLast(l, 38) /\ 38 \in Dots /\ (l = Layers => 38 = 4)
    BY <1>a, <1>z, NotLast DEF Adds, Dots
  <2>3. \A i \in 38 + 1..39 - 1 : ~Happens(l, i)
    BY <1>h
  <2>4. 39 \in 38 + 1..100 /\ 38 - 2 = 36
    OBVIOUS
  <2>5. Part(p12, l, 38 - 2, 39)
    BY <1>z, <2>1, <2>2, <2>3, <2>4, LinIn, ZenonT(60)
  <2> QED BY <2>4, <2>5
<1>p13. Part(p13, l, 39, 42)
  <2>1. \A i \in 39..42 - 1 : Happens(l, i) => i = 40
    BY <1>h
  <2>2. 40 \in 39..42 - 1
    OBVIOUS
  <2>3. LabelOK(ActOp("silu"), l, 40)
    BY <1>m
  <2>4. Part(<<ActOp("silu")>>, l, 39, 42)
    BY <1>z, <1>b, <2>1, <2>2, <2>3, One, ZenonT(60)
  <2> QED BY <1>p0, <2>4
<1>p14. Part(p14, l, 42, 100)
  <2>1. LinOf(CudaLin(Matrix("w2", l), B("inner"), X), LinWeight(l, 44), From(l, 44), OutBuf(l, 44))
    BY <1>p0, <1>w, <1>s, CudaLinIs
  <2>2. Adds(44) /\ ~OnlyLast(l, 44) /\ 44 \in Dots /\ (l = Layers => 44 = 4)
    BY <1>a, <1>z, NotLast DEF Adds, Dots
  <2>3. \A i \in 44 + 1..100 - 1 : ~Happens(l, i)
    BY <1>h
  <2>4. 100 \in 44 + 1..100 /\ 44 - 2 = 42
    OBVIOUS
  <2>5. Part(Accumulating(CudaLin(Matrix("w2", l), B("inner"), X)), l, 44 - 2, 100)
    BY <1>z, <2>1, <2>2, <2>3, <2>4, AddingIn, ZenonT(60)
  <2> QED BY <1>p0, <2>4, <2>5
<1>r1. Part(r1, l, 0, 2)
  BY <1>p1, <1>r0
<1>r2. Part(r2, l, 0, 6)
  <2>1. r2 = r1 \o p2
    BY <1>r0
  <2>2. PICK b \in 0..100, c \in 0..100 : b = 2 /\ c = 6
    OBVIOUS
  <2>3. l \in Int /\ b <= c /\ Part(r1, l, 0, b) /\ Part(p2, l, b, c)
    BY <1>z, <1>r1, <1>p2, <2>2
  <2>4. Part(r2, l, 0, c)
    BY <2>1, <2>3, JoinStart
  <2> QED BY <2>2, <2>4
<1>r3. Part(r3, l, 0, 10)
  <2>1. r3 = r2 \o p3
    BY <1>r0
  <2>2. PICK b \in 0..100, c \in 0..100 : b = 6 /\ c = 10
    OBVIOUS
  <2>3. l \in Int /\ b <= c /\ Part(r2, l, 0, b) /\ Part(p3, l, b, c)
    BY <1>z, <1>r2, <1>p3, <2>2
  <2>4. Part(r3, l, 0, c)
    BY <2>1, <2>3, JoinStart
  <2> QED BY <2>2, <2>4
<1>r4. Part(r4, l, 0, 14)
  <2>1. r4 = r3 \o p4
    BY <1>r0
  <2>2. PICK b \in 0..100, c \in 0..100 : b = 10 /\ c = 14
    OBVIOUS
  <2>3. l \in Int /\ b <= c /\ Part(r3, l, 0, b) /\ Part(p4, l, b, c)
    BY <1>z, <1>r3, <1>p4, <2>2
  <2>4. Part(r4, l, 0, c)
    BY <2>1, <2>3, JoinStart
  <2> QED BY <2>2, <2>4
<1>r5. Part(r5, l, 0, 16)
  <2>1. r5 = r4 \o p5
    BY <1>r0
  <2>2. PICK b \in 0..100, c \in 0..100 : b = 14 /\ c = 16
    OBVIOUS
  <2>3. l \in Int /\ b <= c /\ Part(r4, l, 0, b) /\ Part(p5, l, b, c)
    BY <1>z, <1>r4, <1>p5, <2>2
  <2>4. Part(r5, l, 0, c)
    BY <2>1, <2>3, JoinStart
  <2> QED BY <2>2, <2>4
<1>r6. Part(r6, l, 0, 17)
  <2>1. r6 = r5 \o p6
    BY <1>r0
  <2>2. PICK b \in 0..100, c \in 0..100 : b = 16 /\ c = 17
    OBVIOUS
  <2>3. l \in Int /\ b <= c /\ Part(r5, l, 0, b) /\ Part(p6, l, b, c)
    BY <1>z, <1>r5, <1>p6, <2>2
  <2>4. Part(r6, l, 0, c)
    BY <2>1, <2>3, JoinStart
  <2> QED BY <2>2, <2>4
<1>r7. Part(r7, l, 0, 18)
  <2>1. r7 = r6 \o p7
    BY <1>r0
  <2>2. PICK b \in 0..100, c \in 0..100 : b = 17 /\ c = 18
    OBVIOUS
  <2>3. l \in Int /\ b <= c /\ Part(r6, l, 0, b) /\ Part(p7, l, b, c)
    BY <1>z, <1>r6, <1>p7, <2>2
  <2>4. Part(r7, l, 0, c)
    BY <2>1, <2>3, JoinStart
  <2> QED BY <2>2, <2>4
<1>r8. Part(r8, l, 0, 26)
  <2>1. r8 = r7 \o p8
    BY <1>r0
  <2>2. PICK b \in 0..100, c \in 0..100 : b = 18 /\ c = 26
    OBVIOUS
  <2>3. l \in Int /\ b <= c /\ Part(r7, l, 0, b) /\ Part(p8, l, b, c)
    BY <1>z, <1>r7, <1>p8, <2>2
  <2>4. Part(r8, l, 0, c)
    BY <2>1, <2>3, JoinStart
  <2> QED BY <2>2, <2>4
<1>r9. Part(r9, l, 0, 29)
  <2>1. r9 = r8 \o p9
    BY <1>r0
  <2>2. PICK b \in 0..100, c \in 0..100 : b = 26 /\ c = 29
    OBVIOUS
  <2>3. l \in Int /\ b <= c /\ Part(r8, l, 0, b) /\ Part(p9, l, b, c)
    BY <1>z, <1>r8, <1>p9, <2>2
  <2>4. Part(r9, l, 0, c)
    BY <2>1, <2>3, JoinStart
  <2> QED BY <2>2, <2>4
<1>r10. Part(r10, l, 0, 33)
  <2>1. r10 = r9 \o p10
    BY <1>r0
  <2>2. PICK b \in 0..100, c \in 0..100 : b = 29 /\ c = 33
    OBVIOUS
  <2>3. l \in Int /\ b <= c /\ Part(r9, l, 0, b) /\ Part(p10, l, b, c)
    BY <1>z, <1>r9, <1>p10, <2>2
  <2>4. Part(r10, l, 0, c)
    BY <2>1, <2>3, JoinStart
  <2> QED BY <2>2, <2>4
<1>r11. Part(r11, l, 0, 36)
  <2>1. r11 = r10 \o p11
    BY <1>r0
  <2>2. PICK b \in 0..100, c \in 0..100 : b = 33 /\ c = 36
    OBVIOUS
  <2>3. l \in Int /\ b <= c /\ Part(r10, l, 0, b) /\ Part(p11, l, b, c)
    BY <1>z, <1>r10, <1>p11, <2>2
  <2>4. Part(r11, l, 0, c)
    BY <2>1, <2>3, JoinStart
  <2> QED BY <2>2, <2>4
<1>r12. Part(r12, l, 0, 39)
  <2>1. r12 = r11 \o p12
    BY <1>r0
  <2>2. PICK b \in 0..100, c \in 0..100 : b = 36 /\ c = 39
    OBVIOUS
  <2>3. l \in Int /\ b <= c /\ Part(r11, l, 0, b) /\ Part(p12, l, b, c)
    BY <1>z, <1>r11, <1>p12, <2>2
  <2>4. Part(r12, l, 0, c)
    BY <2>1, <2>3, JoinStart
  <2> QED BY <2>2, <2>4
<1>r13. Part(r13, l, 0, 42)
  <2>1. r13 = r12 \o p13
    BY <1>r0
  <2>2. PICK b \in 0..100, c \in 0..100 : b = 39 /\ c = 42
    OBVIOUS
  <2>3. l \in Int /\ b <= c /\ Part(r12, l, 0, b) /\ Part(p13, l, b, c)
    BY <1>z, <1>r12, <1>p13, <2>2
  <2>4. Part(r13, l, 0, c)
    BY <2>1, <2>3, JoinStart
  <2> QED BY <2>2, <2>4
<1>r14. Part(r14, l, 0, 100)
  <2>1. r14 = r13 \o p14
    BY <1>r0
  <2>2. PICK b \in 0..100, c \in 0..100 : b = 42 /\ c = 100
    OBVIOUS
  <2>3. l \in Int /\ b <= c /\ Part(r13, l, 0, b) /\ Part(p14, l, b, c)
    BY <1>z, <1>r13, <1>p14, <2>2
  <2>4. Part(r14, l, 0, c)
    BY <2>1, <2>3, JoinStart
  <2> QED BY <2>2, <2>4
<1>e. CudaLayer(l) = r14
  BY <1>p0, <1>r0, <1>n DEF CudaLayer, GpuNorm, GpuRope
<1> QED BY <1>r14, <1>e

\* ... of the batched prefill ...
LEMMA PrefillLayerPart ==
  ASSUME Layers \in Nat, engine.name = "prefill", engine.regime = 3, NEW l \in 0..Layers - 1, \A w \in Uploaded : Ported(w)
  PROVE  Part(PrefillLayer(l), l, 0, 100)
<1>z. Layers \in Nat /\ l \in 0..Layers - 1 /\ l \in 0..Layers /\ l \in Int /\ l # Layers
  OBVIOUS
<1>a. ~Host /\ Quantized /\ engine.name # "gemma" /\ engine.name # "float" /\ ~Metal
  BY DEF Host, Quantized, Metal
<1>s. engine.name = "prefill" /\ engine.regime = 3 /\ engine.name # "conformance" /\ Ported(Matrix("wq", l)) /\ Ported(Matrix("wk", l)) /\ Ported(Matrix("wv", l))
      /\ Ported(Matrix("wo", l)) /\ Ported(Matrix("w1", l)) /\ Ported(Matrix("w2", l)) /\ Ported(Matrix("w3", l))
      /\ engine.name \in {"cuda", "prefill"}
  BY <1>a, UploadedAre
<1>h. \A n \in Int : Happens(l, n) => n \in {0, 2, 4, 6, 8, 10, 12, 15, 16, 17, 21, 22, 24, 26, 28, 31, 33, 35, 36, 38, 40, 42, 44}
  BY <1>a, HappensCuda
<1>n. Norm = <<"w", Epsilon(file)>> /\ Rotation = <<IF Neox(file) THEN "neox" ELSE "interleaved", Theta(file)>> /\ Act = "silu"
  BY <1>a DEF Norm, Rotation, Act
<1>k. KeysOf(l) = Keys(l) /\ ValuesOf(l) = Values(l)
  BY <1>a DEF KeysOf, ValuesOf
<1>w. /\ LinWeight(l, 4) = Matrix("wq", l) /\ From(l, 4) = Xb /\ OutBuf(l, 4) = Q
      /\ LinWeight(l, 8) = Matrix("wk", l) /\ From(l, 8) = Xb /\ OutBuf(l, 8) = Keys(l)
      /\ LinWeight(l, 12) = Matrix("wv", l) /\ From(l, 12) = Xb /\ OutBuf(l, 12) = Values(l)
      /\ LinWeight(l, 28) = Matrix("wo", l) /\ From(l, 28) = Att /\ OutBuf(l, 28) = X
      /\ LinWeight(l, 35) = Matrix("w1", l) /\ From(l, 35) = Xb /\ OutBuf(l, 35) = B("gate")
      /\ LinWeight(l, 38) = Matrix("w3", l) /\ From(l, 38) = Xb /\ OutBuf(l, 38) = B("up")
      /\ LinWeight(l, 44) = Matrix("w2", l) /\ From(l, 44) = B("inner") /\ OutBuf(l, 44) = X
      /\ NormWeight("rms_att", l) = <<"attn_norm", l>> /\ NormWeight("rms_ffn", l) = <<"ffn_norm", l>>
  BY <1>a, <1>k, LinearsOf
<1>m. /\ LabelOK(RopeOp(Rotation, Q), l, 21) /\ LabelOK(RopeOp(Rotation, Keys(l)), l, 22)
      /\ LabelOK(AttentionOp(l), l, 24) /\ LabelOK(ActOp("silu"), l, 40)
  BY <1>a, <1>n, MovesAre
<1>p0. PICK p1, p2, p3, p4, p5, p6, p7, p8, p9, p10, p11, p12, p13, p14 :
          /\ p1 = <<NormOp(Norm, NormWeight("rms_att", l), X, Xb)>>
          /\ p2 = Pg(Matrix("wq", l), Xb, Q)
          /\ p3 = Pg(Matrix("wk", l), Xb, Keys(l))
          /\ p4 = Pg(Matrix("wv", l), Xb, Values(l))
          /\ p5 = IfBias("bq", l, Q)
          /\ p6 = IfBias("bk", l, Keys(l))
          /\ p7 = IfBias("bv", l, Values(l))
          /\ p8 = <<RopeOp(Rotation, Q), RopeOp(Rotation, Keys(l)), AttentionOp(l)>>
          /\ p9 = Accumulating(Pg(Matrix("wo", l), Att, X))
          /\ p10 = <<NormOp(Norm, NormWeight("rms_ffn", l), X, Xb)>>
          /\ p11 = Pg(Matrix("w1", l), Xb, B("gate"))
          /\ p12 = Pg(Matrix("w3", l), Xb, B("up"))
          /\ p13 = <<ActOp("silu")>>
          /\ p14 = Accumulating(Pg(Matrix("w2", l), B("inner"), X))
  OBVIOUS
<1>r0. PICK r1, r2, r3, r4, r5, r6, r7, r8, r9, r10, r11, r12, r13, r14 :
          /\ r1 = p1
          /\ r2 = r1 \o p2
          /\ r3 = r2 \o p3
          /\ r4 = r3 \o p4
          /\ r5 = r4 \o p5
          /\ r6 = r5 \o p6
          /\ r7 = r6 \o p7
          /\ r8 = r7 \o p8
          /\ r9 = r8 \o p9
          /\ r10 = r9 \o p10
          /\ r11 = r10 \o p11
          /\ r12 = r11 \o p12
          /\ r13 = r12 \o p13
          /\ r14 = r13 \o p14
  OBVIOUS
<1>b. 0 \in 0..100 /\ 2 \in 0..100 /\ 6 \in 0..100 /\ 10 \in 0..100 /\ 14 \in 0..100 /\ 16 \in 0..100 /\ 17 \in 0..100 /\ 18 \in 0..100 /\ 26 \in 0..100 /\ 29 \in 0..100 /\ 33 \in 0..100 /\ 36 \in 0..100 /\ 39 \in 0..100 /\ 42 \in 0..100 /\ 100 \in 0..100
      /\ 0 <= 0 /\ 0 <= 2 /\ 0 <= 6 /\ 0 <= 10 /\ 0 <= 14 /\ 0 <= 16 /\ 0 <= 17 /\ 0 <= 18 /\ 0 <= 26 /\ 0 <= 29 /\ 0 <= 33 /\ 0 <= 36 /\ 0 <= 39 /\ 0 <= 42 /\ 0 <= 100
      /\ 0 <= 2 /\ 2 <= 6 /\ 6 <= 10 /\ 10 <= 14 /\ 14 <= 16 /\ 16 <= 17 /\ 17 <= 18 /\ 18 <= 26 /\ 26 <= 29 /\ 29 <= 33 /\ 33 <= 36 /\ 36 <= 39 /\ 39 <= 42 /\ 42 <= 100
  OBVIOUS
<1>p1. Part(p1, l, 0, 2)
  <2>1. \A i \in 0..2 - 1 : Happens(l, i) => i = 0
    BY <1>h
  <2>2. 0 \in {0, 31} /\ (0 = 31 => l # Layers) /\ 0 \in 0..2 - 1
    BY <1>z
  <2>3. NormWeight("rms_att", l) = IF 0 = 31 THEN <<"ffn_norm", l>> ELSE IF l = Layers THEN FinalNorm ELSE <<"attn_norm", l>>
    BY <1>w, <1>z
  <2>4. Part(<<NormOp(Norm, NormWeight("rms_att", l), X, Xb)>>, l, 0, 2)
    BY <1>z, <1>b, <2>1, <2>2, <2>3, NormIn, ZenonT(60)
  <2> QED BY <1>p0, <2>4
<1>p2. Part(p2, l, 2, 6)
  <2>1. LinOf(p2, LinWeight(l, 4), From(l, 4), OutBuf(l, 4))
    BY <1>p0, <1>w, <1>s, PgIs
  <2>2. ~Adds(4) /\ ~OnlyLast(l, 4) /\ 4 \in Dots /\ (l = Layers => 4 = 4)
    BY <1>a, <1>z, NotLast DEF Adds, Dots
  <2>3. \A i \in 4 + 1..6 - 1 : ~Happens(l, i)
    BY <1>h
  <2>4. 6 \in 4 + 1..100 /\ 4 - 2 = 2
    OBVIOUS
  <2>5. Part(p2, l, 4 - 2, 6)
    BY <1>z, <2>1, <2>2, <2>3, <2>4, LinIn, ZenonT(60)
  <2> QED BY <2>4, <2>5
<1>p3. Part(p3, l, 6, 10)
  <2>1. LinOf(p3, LinWeight(l, 8), From(l, 8), OutBuf(l, 8))
    BY <1>p0, <1>w, <1>s, PgIs
  <2>2. ~Adds(8) /\ ~OnlyLast(l, 8) /\ 8 \in Dots /\ (l = Layers => 8 = 4)
    BY <1>a, <1>z, NotLast DEF Adds, Dots
  <2>3. \A i \in 8 + 1..10 - 1 : ~Happens(l, i)
    BY <1>h
  <2>4. 10 \in 8 + 1..100 /\ 8 - 2 = 6
    OBVIOUS
  <2>5. Part(p3, l, 8 - 2, 10)
    BY <1>z, <2>1, <2>2, <2>3, <2>4, LinIn, ZenonT(60)
  <2> QED BY <2>4, <2>5
<1>p4. Part(p4, l, 10, 14)
  <2>1. LinOf(p4, LinWeight(l, 12), From(l, 12), OutBuf(l, 12))
    BY <1>p0, <1>w, <1>s, PgIs
  <2>2. ~Adds(12) /\ ~OnlyLast(l, 12) /\ 12 \in Dots /\ (l = Layers => 12 = 4)
    BY <1>a, <1>z, NotLast DEF Adds, Dots
  <2>3. \A i \in 12 + 1..14 - 1 : ~Happens(l, i)
    BY <1>h
  <2>4. 14 \in 12 + 1..100 /\ 12 - 2 = 10
    OBVIOUS
  <2>5. Part(p4, l, 12 - 2, 14)
    BY <1>z, <2>1, <2>2, <2>3, <2>4, LinIn, ZenonT(60)
  <2> QED BY <2>4, <2>5
<1>p5. Part(p5, l, 14, 16)
  <2>1. \A i \in 14..16 - 1 : Happens(l, i) => i = 15
    BY <1>h
  <2>2. 15 \in 14..16 - 1
    OBVIOUS
  <2>3. "bq" = "bq" /\ 15 = (IF Host THEN 5 ELSE 15) /\ Q = Q
    BY <1>a, <1>k
  <2>4. Part(IfBias("bq", l, Q), l, 14, 16)
    BY <1>z, <1>b, <2>1, <2>2, <2>3, BiasIn, ZenonT(60)
  <2> QED BY <1>p0, <2>4
<1>p6. Part(p6, l, 16, 17)
  <2>1. \A i \in 16..17 - 1 : Happens(l, i) => i = 16
    BY <1>h
  <2>2. 16 \in 16..17 - 1
    OBVIOUS
  <2>3. "bk" = "bk" /\ 16 = (IF Host THEN 9 ELSE 16) /\ Keys(l) = KeysOf(l)
    BY <1>a, <1>k
  <2>4. Part(IfBias("bk", l, Keys(l)), l, 16, 17)
    BY <1>z, <1>b, <2>1, <2>2, <2>3, BiasIn, ZenonT(60)
  <2> QED BY <1>p0, <2>4
<1>p7. Part(p7, l, 17, 18)
  <2>1. \A i \in 17..18 - 1 : Happens(l, i) => i = 17
    BY <1>h
  <2>2. 17 \in 17..18 - 1
    OBVIOUS
  <2>3. "bv" = "bv" /\ 17 = (IF Host THEN 13 ELSE 17) /\ Values(l) = ValuesOf(l)
    BY <1>a, <1>k
  <2>4. Part(IfBias("bv", l, Values(l)), l, 17, 18)
    BY <1>z, <1>b, <2>1, <2>2, <2>3, BiasIn, ZenonT(60)
  <2> QED BY <1>p0, <2>4
<1>p8. Part(p8, l, 18, 26)
  <2>1. \A i \in 18..26 - 1 : Happens(l, i) => i \in {21, 22, 24}
    BY <1>h
  <2>2. 21 \in 18..26 - 1 /\ 22 \in 18..26 - 1 /\ 24 \in 18..26 - 1 /\ 21 < 22 /\ 22 < 24
    OBVIOUS
  <2>3. LabelOK(RopeOp(Rotation, Q), l, 21) /\ LabelOK(RopeOp(Rotation, Keys(l)), l, 22) /\ LabelOK(AttentionOp(l), l, 24)
    BY <1>m
  <2>4. Part(<<RopeOp(Rotation, Q), RopeOp(Rotation, Keys(l)), AttentionOp(l)>>, l, 18, 26)
    BY <1>z, <1>b, <2>1, <2>2, <2>3, ThreeSteps, ZenonT(60)
  <2> QED BY <1>p0, <2>4
<1>p9. Part(p9, l, 26, 29)
  <2>1. LinOf(Pg(Matrix("wo", l), Att, X), LinWeight(l, 28), From(l, 28), OutBuf(l, 28))
    BY <1>p0, <1>w, <1>s, PgIs
  <2>2. Adds(28) /\ ~OnlyLast(l, 28) /\ 28 \in Dots /\ (l = Layers => 28 = 4)
    BY <1>a, <1>z, NotLast DEF Adds, Dots
  <2>3. \A i \in 28 + 1..29 - 1 : ~Happens(l, i)
    BY <1>h
  <2>4. 29 \in 28 + 1..100 /\ 28 - 2 = 26
    OBVIOUS
  <2>5. Part(Accumulating(Pg(Matrix("wo", l), Att, X)), l, 28 - 2, 29)
    BY <1>z, <2>1, <2>2, <2>3, <2>4, AddingIn, ZenonT(60)
  <2> QED BY <1>p0, <2>4, <2>5
<1>p10. Part(p10, l, 29, 33)
  <2>1. \A i \in 29..33 - 1 : Happens(l, i) => i = 31
    BY <1>h
  <2>2. 31 \in {0, 31} /\ (31 = 31 => l # Layers) /\ 31 \in 29..33 - 1
    BY <1>z
  <2>3. NormWeight("rms_ffn", l) = IF 31 = 31 THEN <<"ffn_norm", l>> ELSE IF l = Layers THEN FinalNorm ELSE <<"attn_norm", l>>
    BY <1>w, <1>z
  <2>4. Part(<<NormOp(Norm, NormWeight("rms_ffn", l), X, Xb)>>, l, 29, 33)
    BY <1>z, <1>b, <2>1, <2>2, <2>3, NormIn, ZenonT(60)
  <2> QED BY <1>p0, <2>4
<1>p11. Part(p11, l, 33, 36)
  <2>1. LinOf(p11, LinWeight(l, 35), From(l, 35), OutBuf(l, 35))
    BY <1>p0, <1>w, <1>s, PgIs
  <2>2. ~Adds(35) /\ ~OnlyLast(l, 35) /\ 35 \in Dots /\ (l = Layers => 35 = 4)
    BY <1>a, <1>z, NotLast DEF Adds, Dots
  <2>3. \A i \in 35 + 1..36 - 1 : ~Happens(l, i)
    BY <1>h
  <2>4. 36 \in 35 + 1..100 /\ 35 - 2 = 33
    OBVIOUS
  <2>5. Part(p11, l, 35 - 2, 36)
    BY <1>z, <2>1, <2>2, <2>3, <2>4, LinIn, ZenonT(60)
  <2> QED BY <2>4, <2>5
<1>p12. Part(p12, l, 36, 39)
  <2>1. LinOf(p12, LinWeight(l, 38), From(l, 38), OutBuf(l, 38))
    BY <1>p0, <1>w, <1>s, PgIs
  <2>2. ~Adds(38) /\ ~OnlyLast(l, 38) /\ 38 \in Dots /\ (l = Layers => 38 = 4)
    BY <1>a, <1>z, NotLast DEF Adds, Dots
  <2>3. \A i \in 38 + 1..39 - 1 : ~Happens(l, i)
    BY <1>h
  <2>4. 39 \in 38 + 1..100 /\ 38 - 2 = 36
    OBVIOUS
  <2>5. Part(p12, l, 38 - 2, 39)
    BY <1>z, <2>1, <2>2, <2>3, <2>4, LinIn, ZenonT(60)
  <2> QED BY <2>4, <2>5
<1>p13. Part(p13, l, 39, 42)
  <2>1. \A i \in 39..42 - 1 : Happens(l, i) => i = 40
    BY <1>h
  <2>2. 40 \in 39..42 - 1
    OBVIOUS
  <2>3. LabelOK(ActOp("silu"), l, 40)
    BY <1>m
  <2>4. Part(<<ActOp("silu")>>, l, 39, 42)
    BY <1>z, <1>b, <2>1, <2>2, <2>3, One, ZenonT(60)
  <2> QED BY <1>p0, <2>4
<1>p14. Part(p14, l, 42, 100)
  <2>1. LinOf(Pg(Matrix("w2", l), B("inner"), X), LinWeight(l, 44), From(l, 44), OutBuf(l, 44))
    BY <1>p0, <1>w, <1>s, PgIs
  <2>2. Adds(44) /\ ~OnlyLast(l, 44) /\ 44 \in Dots /\ (l = Layers => 44 = 4)
    BY <1>a, <1>z, NotLast DEF Adds, Dots
  <2>3. \A i \in 44 + 1..100 - 1 : ~Happens(l, i)
    BY <1>h
  <2>4. 100 \in 44 + 1..100 /\ 44 - 2 = 42
    OBVIOUS
  <2>5. Part(Accumulating(Pg(Matrix("w2", l), B("inner"), X)), l, 44 - 2, 100)
    BY <1>z, <2>1, <2>2, <2>3, <2>4, AddingIn, ZenonT(60)
  <2> QED BY <1>p0, <2>4, <2>5
<1>r1. Part(r1, l, 0, 2)
  BY <1>p1, <1>r0
<1>r2. Part(r2, l, 0, 6)
  <2>1. r2 = r1 \o p2
    BY <1>r0
  <2>2. PICK b \in 0..100, c \in 0..100 : b = 2 /\ c = 6
    OBVIOUS
  <2>3. l \in Int /\ b <= c /\ Part(r1, l, 0, b) /\ Part(p2, l, b, c)
    BY <1>z, <1>r1, <1>p2, <2>2
  <2>4. Part(r2, l, 0, c)
    BY <2>1, <2>3, JoinStart
  <2> QED BY <2>2, <2>4
<1>r3. Part(r3, l, 0, 10)
  <2>1. r3 = r2 \o p3
    BY <1>r0
  <2>2. PICK b \in 0..100, c \in 0..100 : b = 6 /\ c = 10
    OBVIOUS
  <2>3. l \in Int /\ b <= c /\ Part(r2, l, 0, b) /\ Part(p3, l, b, c)
    BY <1>z, <1>r2, <1>p3, <2>2
  <2>4. Part(r3, l, 0, c)
    BY <2>1, <2>3, JoinStart
  <2> QED BY <2>2, <2>4
<1>r4. Part(r4, l, 0, 14)
  <2>1. r4 = r3 \o p4
    BY <1>r0
  <2>2. PICK b \in 0..100, c \in 0..100 : b = 10 /\ c = 14
    OBVIOUS
  <2>3. l \in Int /\ b <= c /\ Part(r3, l, 0, b) /\ Part(p4, l, b, c)
    BY <1>z, <1>r3, <1>p4, <2>2
  <2>4. Part(r4, l, 0, c)
    BY <2>1, <2>3, JoinStart
  <2> QED BY <2>2, <2>4
<1>r5. Part(r5, l, 0, 16)
  <2>1. r5 = r4 \o p5
    BY <1>r0
  <2>2. PICK b \in 0..100, c \in 0..100 : b = 14 /\ c = 16
    OBVIOUS
  <2>3. l \in Int /\ b <= c /\ Part(r4, l, 0, b) /\ Part(p5, l, b, c)
    BY <1>z, <1>r4, <1>p5, <2>2
  <2>4. Part(r5, l, 0, c)
    BY <2>1, <2>3, JoinStart
  <2> QED BY <2>2, <2>4
<1>r6. Part(r6, l, 0, 17)
  <2>1. r6 = r5 \o p6
    BY <1>r0
  <2>2. PICK b \in 0..100, c \in 0..100 : b = 16 /\ c = 17
    OBVIOUS
  <2>3. l \in Int /\ b <= c /\ Part(r5, l, 0, b) /\ Part(p6, l, b, c)
    BY <1>z, <1>r5, <1>p6, <2>2
  <2>4. Part(r6, l, 0, c)
    BY <2>1, <2>3, JoinStart
  <2> QED BY <2>2, <2>4
<1>r7. Part(r7, l, 0, 18)
  <2>1. r7 = r6 \o p7
    BY <1>r0
  <2>2. PICK b \in 0..100, c \in 0..100 : b = 17 /\ c = 18
    OBVIOUS
  <2>3. l \in Int /\ b <= c /\ Part(r6, l, 0, b) /\ Part(p7, l, b, c)
    BY <1>z, <1>r6, <1>p7, <2>2
  <2>4. Part(r7, l, 0, c)
    BY <2>1, <2>3, JoinStart
  <2> QED BY <2>2, <2>4
<1>r8. Part(r8, l, 0, 26)
  <2>1. r8 = r7 \o p8
    BY <1>r0
  <2>2. PICK b \in 0..100, c \in 0..100 : b = 18 /\ c = 26
    OBVIOUS
  <2>3. l \in Int /\ b <= c /\ Part(r7, l, 0, b) /\ Part(p8, l, b, c)
    BY <1>z, <1>r7, <1>p8, <2>2
  <2>4. Part(r8, l, 0, c)
    BY <2>1, <2>3, JoinStart
  <2> QED BY <2>2, <2>4
<1>r9. Part(r9, l, 0, 29)
  <2>1. r9 = r8 \o p9
    BY <1>r0
  <2>2. PICK b \in 0..100, c \in 0..100 : b = 26 /\ c = 29
    OBVIOUS
  <2>3. l \in Int /\ b <= c /\ Part(r8, l, 0, b) /\ Part(p9, l, b, c)
    BY <1>z, <1>r8, <1>p9, <2>2
  <2>4. Part(r9, l, 0, c)
    BY <2>1, <2>3, JoinStart
  <2> QED BY <2>2, <2>4
<1>r10. Part(r10, l, 0, 33)
  <2>1. r10 = r9 \o p10
    BY <1>r0
  <2>2. PICK b \in 0..100, c \in 0..100 : b = 29 /\ c = 33
    OBVIOUS
  <2>3. l \in Int /\ b <= c /\ Part(r9, l, 0, b) /\ Part(p10, l, b, c)
    BY <1>z, <1>r9, <1>p10, <2>2
  <2>4. Part(r10, l, 0, c)
    BY <2>1, <2>3, JoinStart
  <2> QED BY <2>2, <2>4
<1>r11. Part(r11, l, 0, 36)
  <2>1. r11 = r10 \o p11
    BY <1>r0
  <2>2. PICK b \in 0..100, c \in 0..100 : b = 33 /\ c = 36
    OBVIOUS
  <2>3. l \in Int /\ b <= c /\ Part(r10, l, 0, b) /\ Part(p11, l, b, c)
    BY <1>z, <1>r10, <1>p11, <2>2
  <2>4. Part(r11, l, 0, c)
    BY <2>1, <2>3, JoinStart
  <2> QED BY <2>2, <2>4
<1>r12. Part(r12, l, 0, 39)
  <2>1. r12 = r11 \o p12
    BY <1>r0
  <2>2. PICK b \in 0..100, c \in 0..100 : b = 36 /\ c = 39
    OBVIOUS
  <2>3. l \in Int /\ b <= c /\ Part(r11, l, 0, b) /\ Part(p12, l, b, c)
    BY <1>z, <1>r11, <1>p12, <2>2
  <2>4. Part(r12, l, 0, c)
    BY <2>1, <2>3, JoinStart
  <2> QED BY <2>2, <2>4
<1>r13. Part(r13, l, 0, 42)
  <2>1. r13 = r12 \o p13
    BY <1>r0
  <2>2. PICK b \in 0..100, c \in 0..100 : b = 39 /\ c = 42
    OBVIOUS
  <2>3. l \in Int /\ b <= c /\ Part(r12, l, 0, b) /\ Part(p13, l, b, c)
    BY <1>z, <1>r12, <1>p13, <2>2
  <2>4. Part(r13, l, 0, c)
    BY <2>1, <2>3, JoinStart
  <2> QED BY <2>2, <2>4
<1>r14. Part(r14, l, 0, 100)
  <2>1. r14 = r13 \o p14
    BY <1>r0
  <2>2. PICK b \in 0..100, c \in 0..100 : b = 42 /\ c = 100
    OBVIOUS
  <2>3. l \in Int /\ b <= c /\ Part(r13, l, 0, b) /\ Part(p14, l, b, c)
    BY <1>z, <1>r13, <1>p14, <2>2
  <2>4. Part(r14, l, 0, c)
    BY <2>1, <2>3, JoinStart
  <2> QED BY <2>2, <2>4
<1>e. PrefillLayer(l) = r14
  BY <1>p0, <1>r0, <1>n DEF PrefillLayer, GpuNorm, GpuRope
<1> QED BY <1>r14, <1>e

\* The biases of a Metal layer, with their barrier.
LEMMA MetalBiasesPart ==
  ASSUME Layers \in Nat, Metal, AllOrNoBias, NEW l \in 0..Layers - 1
  PROVE  Part(MetalBiases(l), l, 15, 19)
<1>z. Layers \in Nat /\ l \in 0..Layers - 1 /\ l \in 0..Layers /\ l \in Int /\ l # Layers
  OBVIOUS
<1>a. ~Host /\ Quantized
  BY DEF Host, Quantized, Metal
<1>k. KeysOf(l) = Keys(l) /\ ValuesOf(l) = Values(l)
  BY <1>a DEF KeysOf, ValuesOf
<1>c. HasBias("bq", l) = HasBias("bk", l) /\ HasBias("bq", l) = HasBias("bv", l)
  BY DEF AllOrNoBias
<1>b. 15 \in 0..100 /\ 18 \in 0..100 /\ 19 \in 0..100
  OBVIOUS
<1>1. CASE HasBias("bq", l)
  <2>1. HasBias("bk", l) /\ HasBias("bv", l)
    BY <1>1, <1>c
  <2>2. Layers \in Nat /\ l \in 0..Layers - 1 /\ 15 = (IF Host THEN 5 ELSE 15) /\ 16 = (IF Host THEN 9 ELSE 16)
        /\ 17 = (IF Host THEN 13 ELSE 17)
    BY <1>a
  <2>3. LabelOK(BiasOp("bq", l, Q), l, 15)
    BY <1>1, <2>2, BiasIs, Zenon
  <2>4. LabelOK(BiasOp("bk", l, Keys(l)), l, 16)
    BY <1>k, <2>1, <2>2, BiasIs, Zenon
  <2>5. LabelOK(BiasOp("bv", l, Values(l)), l, 17)
    BY <1>k, <2>1, <2>2, BiasIs, Zenon
  <2>6. Fence(l, 18) /\ FenceOuts(l, 18) = {Q, Keys(l), Values(l)}
    BY <1>1 DEF Fence, FenceOuts
  <2>7. \A i \in 15..18 - 1 : Happens(l, i) => i \in {15, 16, 17}
    OBVIOUS
  <2>8. 15 \in 15..18 - 1 /\ 16 \in 15..18 - 1 /\ 17 \in 15..18 - 1 /\ 15 < 16 /\ 16 < 17
    OBVIOUS
  <2>9. Part(<<BiasOp("bq", l, Q), BiasOp("bk", l, Keys(l)), BiasOp("bv", l, Values(l))>>, l, 15, 18)
    BY <1>z, <1>b, <2>3, <2>4, <2>5, <2>7, <2>8, ThreeSteps, ZenonT(60)
  <2>10. (\A i \in 18..19 - 1 : Happens(l, i) => i = 18) /\ 18 \in 18..19 - 1
    OBVIOUS
  <2>11. FenceOuts(l, 18) \subseteq {Q, Keys(l), Values(l)}
    BY <2>6
  <2>12. Part(Barrier({Q, Keys(l), Values(l)}), l, 18, 19)
    BY <1>z, <1>b, <2>6, <2>10, <2>11, BarrierIn, ZenonT(60)
  <2>13. PICK p, q : /\ p = <<BiasOp("bq", l, Q), BiasOp("bk", l, Keys(l)), BiasOp("bv", l, Values(l))>>
                     /\ q = Barrier({Q, Keys(l), Values(l)})
    OBVIOUS
  <2>14. PICK x \in 0..100, y \in 0..100, z \in 0..100 : x = 15 /\ y = 18 /\ z = 19
    OBVIOUS
  <2>15. x <= y /\ y <= z /\ Part(p, l, x, y) /\ Part(q, l, y, z)
    BY <2>9, <2>12, <2>13, <2>14
  <2>16. Part(p \o q, l, x, z)
    BY <1>z, <2>15, JoinParts
  <2>17. MetalBiases(l) = p \o q
    BY <1>1, <2>13 DEF MetalBiases
  <2> QED BY <2>14, <2>16, <2>17
<1>2. CASE ~HasBias("bq", l)
  <2>1. ~HasBias("bk", l) /\ ~HasBias("bv", l)
    BY <1>2, <1>c
  <2>2. \A i \in 15..19 - 1 : ~Happens(l, i)
    BY <1>2, <2>1, HappensOnly
  <2>3. Part(<< >>, l, 15, 19)
    BY <1>z, <1>b, <2>2, Empty, Zenon
  <2>4. MetalBiases(l) = << >>
    BY <1>2 DEF MetalBiases
  <2> QED BY <2>3, <2>4
<1> QED BY <1>1, <1>2

\* ... and of Metal, on files that bias all three or none.
LEMMA MetalLayerPart ==
  ASSUME Layers \in Nat, engine.name = "metal", AllOrNoBias, NEW l \in 0..Layers - 1, \A w \in Uploaded : Ported(w)
  PROVE  Part(MetalLayer(l), l, 0, 100)
<1>z. Layers \in Nat /\ l \in 0..Layers - 1 /\ l \in 0..Layers /\ l \in Int /\ l # Layers
  OBVIOUS
<1>a. ~Host /\ Quantized /\ engine.name # "gemma" /\ engine.name # "float" /\ Metal
  BY DEF Host, Quantized, Metal
<1>s. engine.name # "conformance" /\ Ported(Matrix("wq", l)) /\ Ported(Matrix("wk", l)) /\ Ported(Matrix("wv", l))
      /\ Ported(Matrix("wo", l)) /\ Ported(Matrix("w1", l)) /\ Ported(Matrix("w2", l)) /\ Ported(Matrix("w3", l))
      /\ engine.name = "metal"
  BY <1>a, UploadedAre
<1>h. \A n \in Int : Happens(l, n) => n \in (0..46) \ {5, 9, 13, 19, 20, 29, 45}
  BY <1>a, HappensMetal
<1>n. Norm = <<"w", Epsilon(file)>> /\ Rotation = <<IF Neox(file) THEN "neox" ELSE "interleaved", Theta(file)>> /\ Act = "silu"
  BY <1>a DEF Norm, Rotation, Act
<1>k. KeysOf(l) = Keys(l) /\ ValuesOf(l) = Values(l)
  BY <1>a DEF KeysOf, ValuesOf
<1>w. /\ LinWeight(l, 4) = Matrix("wq", l) /\ From(l, 4) = Xb /\ OutBuf(l, 4) = Q
      /\ LinWeight(l, 8) = Matrix("wk", l) /\ From(l, 8) = Xb /\ OutBuf(l, 8) = Keys(l)
      /\ LinWeight(l, 12) = Matrix("wv", l) /\ From(l, 12) = Xb /\ OutBuf(l, 12) = Values(l)
      /\ LinWeight(l, 28) = Matrix("wo", l) /\ From(l, 28) = Att /\ OutBuf(l, 28) = X
      /\ LinWeight(l, 35) = Matrix("w1", l) /\ From(l, 35) = Xb /\ OutBuf(l, 35) = B("gate")
      /\ LinWeight(l, 38) = Matrix("w3", l) /\ From(l, 38) = Xb /\ OutBuf(l, 38) = B("up")
      /\ LinWeight(l, 44) = Matrix("w2", l) /\ From(l, 44) = B("inner") /\ OutBuf(l, 44) = X
      /\ NormWeight("rms_att", l) = <<"attn_norm", l>> /\ NormWeight("rms_ffn", l) = <<"ffn_norm", l>>
  BY <1>a, <1>k, LinearsOf
<1>m. /\ LabelOK(RopeOp(Rotation, Q), l, 21) /\ LabelOK(RopeOp(Rotation, Keys(l)), l, 22)
      /\ LabelOK(AttentionOp(l), l, 24) /\ LabelOK(ActOp("silu"), l, 40)
  BY <1>a, <1>n, MovesAre
<1>t. Metal /\ AllOrNoBias
  BY <1>a
<1>f. /\ Fence(l, 1) /\ FenceOuts(l, 1) \subseteq {Xb}
      /\ Fence(l, 14) /\ FenceOuts(l, 14) \subseteq {Q, Keys(l), Values(l)}
      /\ Fence(l, 23) /\ FenceOuts(l, 23) \subseteq {Q, Keys(l)}
      /\ Fence(l, 25) /\ FenceOuts(l, 25) \subseteq {Att}
      /\ Fence(l, 30) /\ FenceOuts(l, 30) \subseteq {X}
      /\ Fence(l, 32) /\ FenceOuts(l, 32) \subseteq {Xb}
      /\ Fence(l, 39) /\ FenceOuts(l, 39) \subseteq {B("gate"), B("up")}
      /\ Fence(l, 41) /\ FenceOuts(l, 41) \subseteq {B("inner")}
      /\ Fence(l, 46) /\ FenceOuts(l, 46) \subseteq {X}
  BY <1>a DEF Fence, FenceOuts
<1>p0. PICK p1, p2, p3, p4, p5, p6, p7, p8, p9, p10, p11, p12, p13, p14, p15, p16, p17, p18, p19, p20, p21, p22 :
          /\ p1 = <<NormOp(Norm, NormWeight("rms_att", l), X, Xb)>>
          /\ p2 = Barrier({Xb})
          /\ p3 = MetalLin(Matrix("wq", l), Xb, Q)
          /\ p4 = MetalLin(Matrix("wk", l), Xb, Keys(l))
          /\ p5 = MetalLin(Matrix("wv", l), Xb, Values(l))
          /\ p6 = Barrier({Q, Keys(l), Values(l)})
          /\ p7 = MetalBiases(l)
          /\ p8 = <<RopeOp(Rotation, Q), RopeOp(Rotation, Keys(l))>>
          /\ p9 = Barrier({Q, Keys(l)})
          /\ p10 = <<AttentionOp(l)>>
          /\ p11 = Barrier({Att})
          /\ p12 = MetalLinAcc(Matrix("wo", l), Att, X)
          /\ p13 = Barrier({X})
          /\ p14 = <<NormOp(Norm, NormWeight("rms_ffn", l), X, Xb)>>
          /\ p15 = Barrier({Xb})
          /\ p16 = MetalLin(Matrix("w1", l), Xb, B("gate"))
          /\ p17 = MetalLin(Matrix("w3", l), Xb, B("up"))
          /\ p18 = Barrier({B("gate"), B("up")})
          /\ p19 = <<ActOp("silu")>>
          /\ p20 = Barrier({B("inner")})
          /\ p21 = MetalLinAcc(Matrix("w2", l), B("inner"), X)
          /\ p22 = Barrier({X})
  OBVIOUS
<1>r0. PICK r1, r2, r3, r4, r5, r6, r7, r8, r9, r10, r11, r12, r13, r14, r15, r16, r17, r18, r19, r20, r21, r22 :
          /\ r1 = p1
          /\ r2 = r1 \o p2
          /\ r3 = r2 \o p3
          /\ r4 = r3 \o p4
          /\ r5 = r4 \o p5
          /\ r6 = r5 \o p6
          /\ r7 = r6 \o p7
          /\ r8 = r7 \o p8
          /\ r9 = r8 \o p9
          /\ r10 = r9 \o p10
          /\ r11 = r10 \o p11
          /\ r12 = r11 \o p12
          /\ r13 = r12 \o p13
          /\ r14 = r13 \o p14
          /\ r15 = r14 \o p15
          /\ r16 = r15 \o p16
          /\ r17 = r16 \o p17
          /\ r18 = r17 \o p18
          /\ r19 = r18 \o p19
          /\ r20 = r19 \o p20
          /\ r21 = r20 \o p21
          /\ r22 = r21 \o p22
  OBVIOUS
<1>b. 0 \in 0..100 /\ 1 \in 0..100 /\ 2 \in 0..100 /\ 6 \in 0..100 /\ 10 \in 0..100 /\ 14 \in 0..100 /\ 15 \in 0..100 /\ 19 \in 0..100 /\ 23 \in 0..100 /\ 24 \in 0..100 /\ 25 \in 0..100 /\ 26 \in 0..100 /\ 30 \in 0..100 /\ 31 \in 0..100 /\ 32 \in 0..100 /\ 33 \in 0..100 /\ 36 \in 0..100 /\ 39 \in 0..100 /\ 40 \in 0..100 /\ 41 \in 0..100 /\ 42 \in 0..100 /\ 46 \in 0..100 /\ 100 \in 0..100
      /\ 0 <= 0 /\ 0 <= 1 /\ 0 <= 2 /\ 0 <= 6 /\ 0 <= 10 /\ 0 <= 14 /\ 0 <= 15 /\ 0 <= 19 /\ 0 <= 23 /\ 0 <= 24 /\ 0 <= 25 /\ 0 <= 26 /\ 0 <= 30 /\ 0 <= 31 /\ 0 <= 32 /\ 0 <= 33 /\ 0 <= 36 /\ 0 <= 39 /\ 0 <= 40 /\ 0 <= 41 /\ 0 <= 42 /\ 0 <= 46 /\ 0 <= 100
      /\ 0 <= 1 /\ 1 <= 2 /\ 2 <= 6 /\ 6 <= 10 /\ 10 <= 14 /\ 14 <= 15 /\ 15 <= 19 /\ 19 <= 23 /\ 23 <= 24 /\ 24 <= 25 /\ 25 <= 26 /\ 26 <= 30 /\ 30 <= 31 /\ 31 <= 32 /\ 32 <= 33 /\ 33 <= 36 /\ 36 <= 39 /\ 39 <= 40 /\ 40 <= 41 /\ 41 <= 42 /\ 42 <= 46 /\ 46 <= 100
  OBVIOUS
<1>p1. Part(p1, l, 0, 1)
  <2>1. \A i \in 0..1 - 1 : Happens(l, i) => i = 0
    BY <1>h
  <2>2. 0 \in {0, 31} /\ (0 = 31 => l # Layers) /\ 0 \in 0..1 - 1
    BY <1>z
  <2>3. NormWeight("rms_att", l) = IF 0 = 31 THEN <<"ffn_norm", l>> ELSE IF l = Layers THEN FinalNorm ELSE <<"attn_norm", l>>
    BY <1>w, <1>z
  <2>4. Part(<<NormOp(Norm, NormWeight("rms_att", l), X, Xb)>>, l, 0, 1)
    BY <1>z, <1>b, <2>1, <2>2, <2>3, NormIn, ZenonT(60)
  <2> QED BY <1>p0, <2>4
<1>p2. Part(p2, l, 1, 2)
  <2>1. \A i \in 1..2 - 1 : Happens(l, i) => i = 1
    BY <1>h
  <2>2. 1 \in 1..2 - 1
    OBVIOUS
  <2>3. Fence(l, 1) /\ FenceOuts(l, 1) \subseteq {Xb}
    BY <1>f
  <2>4. Part(Barrier({Xb}), l, 1, 2)
    BY <1>z, <1>b, <2>1, <2>2, <2>3, BarrierIn, ZenonT(60)
  <2> QED BY <1>p0, <2>4
<1>p3. Part(p3, l, 2, 6)
  <2>1. LinOf(p3, LinWeight(l, 4), From(l, 4), OutBuf(l, 4))
    BY <1>p0, <1>w, <1>s, MetalLinIs
  <2>2. ~Adds(4) /\ ~OnlyLast(l, 4) /\ 4 \in Dots /\ (l = Layers => 4 = 4)
    BY <1>a, <1>z, NotLast DEF Adds, Dots
  <2>3. \A i \in 4 + 1..6 - 1 : ~Happens(l, i)
    BY <1>h
  <2>4. 6 \in 4 + 1..100 /\ 4 - 2 = 2
    OBVIOUS
  <2>5. Part(p3, l, 4 - 2, 6)
    BY <1>z, <2>1, <2>2, <2>3, <2>4, LinIn, ZenonT(60)
  <2> QED BY <2>4, <2>5
<1>p4. Part(p4, l, 6, 10)
  <2>1. LinOf(p4, LinWeight(l, 8), From(l, 8), OutBuf(l, 8))
    BY <1>p0, <1>w, <1>s, MetalLinIs
  <2>2. ~Adds(8) /\ ~OnlyLast(l, 8) /\ 8 \in Dots /\ (l = Layers => 8 = 4)
    BY <1>a, <1>z, NotLast DEF Adds, Dots
  <2>3. \A i \in 8 + 1..10 - 1 : ~Happens(l, i)
    BY <1>h
  <2>4. 10 \in 8 + 1..100 /\ 8 - 2 = 6
    OBVIOUS
  <2>5. Part(p4, l, 8 - 2, 10)
    BY <1>z, <2>1, <2>2, <2>3, <2>4, LinIn, ZenonT(60)
  <2> QED BY <2>4, <2>5
<1>p5. Part(p5, l, 10, 14)
  <2>1. LinOf(p5, LinWeight(l, 12), From(l, 12), OutBuf(l, 12))
    BY <1>p0, <1>w, <1>s, MetalLinIs
  <2>2. ~Adds(12) /\ ~OnlyLast(l, 12) /\ 12 \in Dots /\ (l = Layers => 12 = 4)
    BY <1>a, <1>z, NotLast DEF Adds, Dots
  <2>3. \A i \in 12 + 1..14 - 1 : ~Happens(l, i)
    BY <1>h
  <2>4. 14 \in 12 + 1..100 /\ 12 - 2 = 10
    OBVIOUS
  <2>5. Part(p5, l, 12 - 2, 14)
    BY <1>z, <2>1, <2>2, <2>3, <2>4, LinIn, ZenonT(60)
  <2> QED BY <2>4, <2>5
<1>p6. Part(p6, l, 14, 15)
  <2>1. \A i \in 14..15 - 1 : Happens(l, i) => i = 14
    BY <1>h
  <2>2. 14 \in 14..15 - 1
    OBVIOUS
  <2>3. Fence(l, 14) /\ FenceOuts(l, 14) \subseteq {Q, Keys(l), Values(l)}
    BY <1>f
  <2>4. Part(Barrier({Q, Keys(l), Values(l)}), l, 14, 15)
    BY <1>z, <1>b, <2>1, <2>2, <2>3, BarrierIn, ZenonT(60)
  <2> QED BY <1>p0, <2>4
<1>p7. Part(p7, l, 15, 19)
  BY <1>p0, <1>t, <1>z, MetalBiasesPart
<1>p8. Part(p8, l, 19, 23)
  <2>1. \A i \in 19..23 - 1 : Happens(l, i) => i \in {21, 22}
    BY <1>h
  <2>2. 21 \in 19..23 - 1 /\ 22 \in 19..23 - 1 /\ 21 < 22
    OBVIOUS
  <2>3. LabelOK(RopeOp(Rotation, Q), l, 21) /\ LabelOK(RopeOp(Rotation, Keys(l)), l, 22)
    BY <1>m
  <2>4. Part(<<RopeOp(Rotation, Q), RopeOp(Rotation, Keys(l))>>, l, 19, 23)
    BY <1>z, <1>b, <2>1, <2>2, <2>3, TwoSteps, ZenonT(60)
  <2> QED BY <1>p0, <2>4
<1>p9. Part(p9, l, 23, 24)
  <2>1. \A i \in 23..24 - 1 : Happens(l, i) => i = 23
    BY <1>h
  <2>2. 23 \in 23..24 - 1
    OBVIOUS
  <2>3. Fence(l, 23) /\ FenceOuts(l, 23) \subseteq {Q, Keys(l)}
    BY <1>f
  <2>4. Part(Barrier({Q, Keys(l)}), l, 23, 24)
    BY <1>z, <1>b, <2>1, <2>2, <2>3, BarrierIn, ZenonT(60)
  <2> QED BY <1>p0, <2>4
<1>p10. Part(p10, l, 24, 25)
  <2>1. \A i \in 24..25 - 1 : Happens(l, i) => i = 24
    BY <1>h
  <2>2. 24 \in 24..25 - 1
    OBVIOUS
  <2>3. LabelOK(AttentionOp(l), l, 24)
    BY <1>m
  <2>4. Part(<<AttentionOp(l)>>, l, 24, 25)
    BY <1>z, <1>b, <2>1, <2>2, <2>3, One, ZenonT(60)
  <2> QED BY <1>p0, <2>4
<1>p11. Part(p11, l, 25, 26)
  <2>1. \A i \in 25..26 - 1 : Happens(l, i) => i = 25
    BY <1>h
  <2>2. 25 \in 25..26 - 1
    OBVIOUS
  <2>3. Fence(l, 25) /\ FenceOuts(l, 25) \subseteq {Att}
    BY <1>f
  <2>4. Part(Barrier({Att}), l, 25, 26)
    BY <1>z, <1>b, <2>1, <2>2, <2>3, BarrierIn, ZenonT(60)
  <2> QED BY <1>p0, <2>4
<1>p12. Part(p12, l, 26, 30)
  <2>1. LinOf(MetalLin(Matrix("wo", l), Att, X), LinWeight(l, 28), From(l, 28), OutBuf(l, 28))
    BY <1>p0, <1>w, <1>s, MetalLinIs
  <2>2. Adds(28) /\ ~OnlyLast(l, 28) /\ 28 \in Dots /\ (l = Layers => 28 = 4)
    BY <1>a, <1>z, NotLast DEF Adds, Dots
  <2>3. \A i \in 28 + 1..30 - 1 : ~Happens(l, i)
    BY <1>h
  <2>4. 30 \in 28 + 1..100 /\ 28 - 2 = 26
    OBVIOUS
  <2>5. Part(Accumulating(MetalLin(Matrix("wo", l), Att, X)), l, 28 - 2, 30)
    BY <1>z, <2>1, <2>2, <2>3, <2>4, AddingIn, ZenonT(60)
  <2> QED BY <1>p0, <2>4, <2>5 DEF MetalLinAcc
<1>p13. Part(p13, l, 30, 31)
  <2>1. \A i \in 30..31 - 1 : Happens(l, i) => i = 30
    BY <1>h
  <2>2. 30 \in 30..31 - 1
    OBVIOUS
  <2>3. Fence(l, 30) /\ FenceOuts(l, 30) \subseteq {X}
    BY <1>f
  <2>4. Part(Barrier({X}), l, 30, 31)
    BY <1>z, <1>b, <2>1, <2>2, <2>3, BarrierIn, ZenonT(60)
  <2> QED BY <1>p0, <2>4
<1>p14. Part(p14, l, 31, 32)
  <2>1. \A i \in 31..32 - 1 : Happens(l, i) => i = 31
    BY <1>h
  <2>2. 31 \in {0, 31} /\ (31 = 31 => l # Layers) /\ 31 \in 31..32 - 1
    BY <1>z
  <2>3. NormWeight("rms_ffn", l) = IF 31 = 31 THEN <<"ffn_norm", l>> ELSE IF l = Layers THEN FinalNorm ELSE <<"attn_norm", l>>
    BY <1>w, <1>z
  <2>4. Part(<<NormOp(Norm, NormWeight("rms_ffn", l), X, Xb)>>, l, 31, 32)
    BY <1>z, <1>b, <2>1, <2>2, <2>3, NormIn, ZenonT(60)
  <2> QED BY <1>p0, <2>4
<1>p15. Part(p15, l, 32, 33)
  <2>1. \A i \in 32..33 - 1 : Happens(l, i) => i = 32
    BY <1>h
  <2>2. 32 \in 32..33 - 1
    OBVIOUS
  <2>3. Fence(l, 32) /\ FenceOuts(l, 32) \subseteq {Xb}
    BY <1>f
  <2>4. Part(Barrier({Xb}), l, 32, 33)
    BY <1>z, <1>b, <2>1, <2>2, <2>3, BarrierIn, ZenonT(60)
  <2> QED BY <1>p0, <2>4
<1>p16. Part(p16, l, 33, 36)
  <2>1. LinOf(p16, LinWeight(l, 35), From(l, 35), OutBuf(l, 35))
    BY <1>p0, <1>w, <1>s, MetalLinIs
  <2>2. ~Adds(35) /\ ~OnlyLast(l, 35) /\ 35 \in Dots /\ (l = Layers => 35 = 4)
    BY <1>a, <1>z, NotLast DEF Adds, Dots
  <2>3. \A i \in 35 + 1..36 - 1 : ~Happens(l, i)
    BY <1>h
  <2>4. 36 \in 35 + 1..100 /\ 35 - 2 = 33
    OBVIOUS
  <2>5. Part(p16, l, 35 - 2, 36)
    BY <1>z, <2>1, <2>2, <2>3, <2>4, LinIn, ZenonT(60)
  <2> QED BY <2>4, <2>5
<1>p17. Part(p17, l, 36, 39)
  <2>1. LinOf(p17, LinWeight(l, 38), From(l, 38), OutBuf(l, 38))
    BY <1>p0, <1>w, <1>s, MetalLinIs
  <2>2. ~Adds(38) /\ ~OnlyLast(l, 38) /\ 38 \in Dots /\ (l = Layers => 38 = 4)
    BY <1>a, <1>z, NotLast DEF Adds, Dots
  <2>3. \A i \in 38 + 1..39 - 1 : ~Happens(l, i)
    BY <1>h
  <2>4. 39 \in 38 + 1..100 /\ 38 - 2 = 36
    OBVIOUS
  <2>5. Part(p17, l, 38 - 2, 39)
    BY <1>z, <2>1, <2>2, <2>3, <2>4, LinIn, ZenonT(60)
  <2> QED BY <2>4, <2>5
<1>p18. Part(p18, l, 39, 40)
  <2>1. \A i \in 39..40 - 1 : Happens(l, i) => i = 39
    BY <1>h
  <2>2. 39 \in 39..40 - 1
    OBVIOUS
  <2>3. Fence(l, 39) /\ FenceOuts(l, 39) \subseteq {B("gate"), B("up")}
    BY <1>f
  <2>4. Part(Barrier({B("gate"), B("up")}), l, 39, 40)
    BY <1>z, <1>b, <2>1, <2>2, <2>3, BarrierIn, ZenonT(60)
  <2> QED BY <1>p0, <2>4
<1>p19. Part(p19, l, 40, 41)
  <2>1. \A i \in 40..41 - 1 : Happens(l, i) => i = 40
    BY <1>h
  <2>2. 40 \in 40..41 - 1
    OBVIOUS
  <2>3. LabelOK(ActOp("silu"), l, 40)
    BY <1>m
  <2>4. Part(<<ActOp("silu")>>, l, 40, 41)
    BY <1>z, <1>b, <2>1, <2>2, <2>3, One, ZenonT(60)
  <2> QED BY <1>p0, <2>4
<1>p20. Part(p20, l, 41, 42)
  <2>1. \A i \in 41..42 - 1 : Happens(l, i) => i = 41
    BY <1>h
  <2>2. 41 \in 41..42 - 1
    OBVIOUS
  <2>3. Fence(l, 41) /\ FenceOuts(l, 41) \subseteq {B("inner")}
    BY <1>f
  <2>4. Part(Barrier({B("inner")}), l, 41, 42)
    BY <1>z, <1>b, <2>1, <2>2, <2>3, BarrierIn, ZenonT(60)
  <2> QED BY <1>p0, <2>4
<1>p21. Part(p21, l, 42, 46)
  <2>1. LinOf(MetalLin(Matrix("w2", l), B("inner"), X), LinWeight(l, 44), From(l, 44), OutBuf(l, 44))
    BY <1>p0, <1>w, <1>s, MetalLinIs
  <2>2. Adds(44) /\ ~OnlyLast(l, 44) /\ 44 \in Dots /\ (l = Layers => 44 = 4)
    BY <1>a, <1>z, NotLast DEF Adds, Dots
  <2>3. \A i \in 44 + 1..46 - 1 : ~Happens(l, i)
    BY <1>h
  <2>4. 46 \in 44 + 1..100 /\ 44 - 2 = 42
    OBVIOUS
  <2>5. Part(Accumulating(MetalLin(Matrix("w2", l), B("inner"), X)), l, 44 - 2, 46)
    BY <1>z, <2>1, <2>2, <2>3, <2>4, AddingIn, ZenonT(60)
  <2> QED BY <1>p0, <2>4, <2>5 DEF MetalLinAcc
<1>p22. Part(p22, l, 46, 100)
  <2>1. \A i \in 46..100 - 1 : Happens(l, i) => i = 46
    BY <1>h
  <2>2. 46 \in 46..100 - 1
    OBVIOUS
  <2>3. Fence(l, 46) /\ FenceOuts(l, 46) \subseteq {X}
    BY <1>f
  <2>4. Part(Barrier({X}), l, 46, 100)
    BY <1>z, <1>b, <2>1, <2>2, <2>3, BarrierIn, ZenonT(60)
  <2> QED BY <1>p0, <2>4
<1>r1. Part(r1, l, 0, 1)
  BY <1>p1, <1>r0
<1>r2. Part(r2, l, 0, 2)
  <2>1. r2 = r1 \o p2
    BY <1>r0
  <2>2. PICK b \in 0..100, c \in 0..100 : b = 1 /\ c = 2
    OBVIOUS
  <2>3. l \in Int /\ b <= c /\ Part(r1, l, 0, b) /\ Part(p2, l, b, c)
    BY <1>z, <1>r1, <1>p2, <2>2
  <2>4. Part(r2, l, 0, c)
    BY <2>1, <2>3, JoinStart
  <2> QED BY <2>2, <2>4
<1>r3. Part(r3, l, 0, 6)
  <2>1. r3 = r2 \o p3
    BY <1>r0
  <2>2. PICK b \in 0..100, c \in 0..100 : b = 2 /\ c = 6
    OBVIOUS
  <2>3. l \in Int /\ b <= c /\ Part(r2, l, 0, b) /\ Part(p3, l, b, c)
    BY <1>z, <1>r2, <1>p3, <2>2
  <2>4. Part(r3, l, 0, c)
    BY <2>1, <2>3, JoinStart
  <2> QED BY <2>2, <2>4
<1>r4. Part(r4, l, 0, 10)
  <2>1. r4 = r3 \o p4
    BY <1>r0
  <2>2. PICK b \in 0..100, c \in 0..100 : b = 6 /\ c = 10
    OBVIOUS
  <2>3. l \in Int /\ b <= c /\ Part(r3, l, 0, b) /\ Part(p4, l, b, c)
    BY <1>z, <1>r3, <1>p4, <2>2
  <2>4. Part(r4, l, 0, c)
    BY <2>1, <2>3, JoinStart
  <2> QED BY <2>2, <2>4
<1>r5. Part(r5, l, 0, 14)
  <2>1. r5 = r4 \o p5
    BY <1>r0
  <2>2. PICK b \in 0..100, c \in 0..100 : b = 10 /\ c = 14
    OBVIOUS
  <2>3. l \in Int /\ b <= c /\ Part(r4, l, 0, b) /\ Part(p5, l, b, c)
    BY <1>z, <1>r4, <1>p5, <2>2
  <2>4. Part(r5, l, 0, c)
    BY <2>1, <2>3, JoinStart
  <2> QED BY <2>2, <2>4
<1>r6. Part(r6, l, 0, 15)
  <2>1. r6 = r5 \o p6
    BY <1>r0
  <2>2. PICK b \in 0..100, c \in 0..100 : b = 14 /\ c = 15
    OBVIOUS
  <2>3. l \in Int /\ b <= c /\ Part(r5, l, 0, b) /\ Part(p6, l, b, c)
    BY <1>z, <1>r5, <1>p6, <2>2
  <2>4. Part(r6, l, 0, c)
    BY <2>1, <2>3, JoinStart
  <2> QED BY <2>2, <2>4
<1>r7. Part(r7, l, 0, 19)
  <2>1. r7 = r6 \o p7
    BY <1>r0
  <2>2. PICK b \in 0..100, c \in 0..100 : b = 15 /\ c = 19
    OBVIOUS
  <2>3. l \in Int /\ b <= c /\ Part(r6, l, 0, b) /\ Part(p7, l, b, c)
    BY <1>z, <1>r6, <1>p7, <2>2
  <2>4. Part(r7, l, 0, c)
    BY <2>1, <2>3, JoinStart
  <2> QED BY <2>2, <2>4
<1>r8. Part(r8, l, 0, 23)
  <2>1. r8 = r7 \o p8
    BY <1>r0
  <2>2. PICK b \in 0..100, c \in 0..100 : b = 19 /\ c = 23
    OBVIOUS
  <2>3. l \in Int /\ b <= c /\ Part(r7, l, 0, b) /\ Part(p8, l, b, c)
    BY <1>z, <1>r7, <1>p8, <2>2
  <2>4. Part(r8, l, 0, c)
    BY <2>1, <2>3, JoinStart
  <2> QED BY <2>2, <2>4
<1>r9. Part(r9, l, 0, 24)
  <2>1. r9 = r8 \o p9
    BY <1>r0
  <2>2. PICK b \in 0..100, c \in 0..100 : b = 23 /\ c = 24
    OBVIOUS
  <2>3. l \in Int /\ b <= c /\ Part(r8, l, 0, b) /\ Part(p9, l, b, c)
    BY <1>z, <1>r8, <1>p9, <2>2
  <2>4. Part(r9, l, 0, c)
    BY <2>1, <2>3, JoinStart
  <2> QED BY <2>2, <2>4
<1>r10. Part(r10, l, 0, 25)
  <2>1. r10 = r9 \o p10
    BY <1>r0
  <2>2. PICK b \in 0..100, c \in 0..100 : b = 24 /\ c = 25
    OBVIOUS
  <2>3. l \in Int /\ b <= c /\ Part(r9, l, 0, b) /\ Part(p10, l, b, c)
    BY <1>z, <1>r9, <1>p10, <2>2
  <2>4. Part(r10, l, 0, c)
    BY <2>1, <2>3, JoinStart
  <2> QED BY <2>2, <2>4
<1>r11. Part(r11, l, 0, 26)
  <2>1. r11 = r10 \o p11
    BY <1>r0
  <2>2. PICK b \in 0..100, c \in 0..100 : b = 25 /\ c = 26
    OBVIOUS
  <2>3. l \in Int /\ b <= c /\ Part(r10, l, 0, b) /\ Part(p11, l, b, c)
    BY <1>z, <1>r10, <1>p11, <2>2
  <2>4. Part(r11, l, 0, c)
    BY <2>1, <2>3, JoinStart
  <2> QED BY <2>2, <2>4
<1>r12. Part(r12, l, 0, 30)
  <2>1. r12 = r11 \o p12
    BY <1>r0
  <2>2. PICK b \in 0..100, c \in 0..100 : b = 26 /\ c = 30
    OBVIOUS
  <2>3. l \in Int /\ b <= c /\ Part(r11, l, 0, b) /\ Part(p12, l, b, c)
    BY <1>z, <1>r11, <1>p12, <2>2
  <2>4. Part(r12, l, 0, c)
    BY <2>1, <2>3, JoinStart
  <2> QED BY <2>2, <2>4
<1>r13. Part(r13, l, 0, 31)
  <2>1. r13 = r12 \o p13
    BY <1>r0
  <2>2. PICK b \in 0..100, c \in 0..100 : b = 30 /\ c = 31
    OBVIOUS
  <2>3. l \in Int /\ b <= c /\ Part(r12, l, 0, b) /\ Part(p13, l, b, c)
    BY <1>z, <1>r12, <1>p13, <2>2
  <2>4. Part(r13, l, 0, c)
    BY <2>1, <2>3, JoinStart
  <2> QED BY <2>2, <2>4
<1>r14. Part(r14, l, 0, 32)
  <2>1. r14 = r13 \o p14
    BY <1>r0
  <2>2. PICK b \in 0..100, c \in 0..100 : b = 31 /\ c = 32
    OBVIOUS
  <2>3. l \in Int /\ b <= c /\ Part(r13, l, 0, b) /\ Part(p14, l, b, c)
    BY <1>z, <1>r13, <1>p14, <2>2
  <2>4. Part(r14, l, 0, c)
    BY <2>1, <2>3, JoinStart
  <2> QED BY <2>2, <2>4
<1>r15. Part(r15, l, 0, 33)
  <2>1. r15 = r14 \o p15
    BY <1>r0
  <2>2. PICK b \in 0..100, c \in 0..100 : b = 32 /\ c = 33
    OBVIOUS
  <2>3. l \in Int /\ b <= c /\ Part(r14, l, 0, b) /\ Part(p15, l, b, c)
    BY <1>z, <1>r14, <1>p15, <2>2
  <2>4. Part(r15, l, 0, c)
    BY <2>1, <2>3, JoinStart
  <2> QED BY <2>2, <2>4
<1>r16. Part(r16, l, 0, 36)
  <2>1. r16 = r15 \o p16
    BY <1>r0
  <2>2. PICK b \in 0..100, c \in 0..100 : b = 33 /\ c = 36
    OBVIOUS
  <2>3. l \in Int /\ b <= c /\ Part(r15, l, 0, b) /\ Part(p16, l, b, c)
    BY <1>z, <1>r15, <1>p16, <2>2
  <2>4. Part(r16, l, 0, c)
    BY <2>1, <2>3, JoinStart
  <2> QED BY <2>2, <2>4
<1>r17. Part(r17, l, 0, 39)
  <2>1. r17 = r16 \o p17
    BY <1>r0
  <2>2. PICK b \in 0..100, c \in 0..100 : b = 36 /\ c = 39
    OBVIOUS
  <2>3. l \in Int /\ b <= c /\ Part(r16, l, 0, b) /\ Part(p17, l, b, c)
    BY <1>z, <1>r16, <1>p17, <2>2
  <2>4. Part(r17, l, 0, c)
    BY <2>1, <2>3, JoinStart
  <2> QED BY <2>2, <2>4
<1>r18. Part(r18, l, 0, 40)
  <2>1. r18 = r17 \o p18
    BY <1>r0
  <2>2. PICK b \in 0..100, c \in 0..100 : b = 39 /\ c = 40
    OBVIOUS
  <2>3. l \in Int /\ b <= c /\ Part(r17, l, 0, b) /\ Part(p18, l, b, c)
    BY <1>z, <1>r17, <1>p18, <2>2
  <2>4. Part(r18, l, 0, c)
    BY <2>1, <2>3, JoinStart
  <2> QED BY <2>2, <2>4
<1>r19. Part(r19, l, 0, 41)
  <2>1. r19 = r18 \o p19
    BY <1>r0
  <2>2. PICK b \in 0..100, c \in 0..100 : b = 40 /\ c = 41
    OBVIOUS
  <2>3. l \in Int /\ b <= c /\ Part(r18, l, 0, b) /\ Part(p19, l, b, c)
    BY <1>z, <1>r18, <1>p19, <2>2
  <2>4. Part(r19, l, 0, c)
    BY <2>1, <2>3, JoinStart
  <2> QED BY <2>2, <2>4
<1>r20. Part(r20, l, 0, 42)
  <2>1. r20 = r19 \o p20
    BY <1>r0
  <2>2. PICK b \in 0..100, c \in 0..100 : b = 41 /\ c = 42
    OBVIOUS
  <2>3. l \in Int /\ b <= c /\ Part(r19, l, 0, b) /\ Part(p20, l, b, c)
    BY <1>z, <1>r19, <1>p20, <2>2
  <2>4. Part(r20, l, 0, c)
    BY <2>1, <2>3, JoinStart
  <2> QED BY <2>2, <2>4
<1>r21. Part(r21, l, 0, 46)
  <2>1. r21 = r20 \o p21
    BY <1>r0
  <2>2. PICK b \in 0..100, c \in 0..100 : b = 42 /\ c = 46
    OBVIOUS
  <2>3. l \in Int /\ b <= c /\ Part(r20, l, 0, b) /\ Part(p21, l, b, c)
    BY <1>z, <1>r20, <1>p21, <2>2
  <2>4. Part(r21, l, 0, c)
    BY <2>1, <2>3, JoinStart
  <2> QED BY <2>2, <2>4
<1>r22. Part(r22, l, 0, 100)
  <2>1. r22 = r21 \o p22
    BY <1>r0
  <2>2. PICK b \in 0..100, c \in 0..100 : b = 46 /\ c = 100
    OBVIOUS
  <2>3. l \in Int /\ b <= c /\ Part(r21, l, 0, b) /\ Part(p22, l, b, c)
    BY <1>z, <1>r21, <1>p22, <2>2
  <2>4. Part(r22, l, 0, c)
    BY <2>1, <2>3, JoinStart
  <2> QED BY <2>2, <2>4
<1>e. MetalLayer(l) = r22
  BY <1>p0, <1>r0, <1>n DEF MetalLayer, GpuNorm, GpuRope
<1> QED BY <1>r22, <1>e

\* The head of the quantized CPU pass ...
LEMMA CpuHead ==
  ASSUME Layers \in Nat, engine.name = "cpu"
  PROVE  Part(QuantizedHead, Layers, 0, 100)
<1>0. PICK l \in Int : l = Layers
  OBVIOUS
<1>z. Layers \in Nat /\ l \in 0..Layers /\ l \in Int /\ l = Layers
  BY <1>0
<1>a. Host /\ Quantized /\ engine.name # "gemma" /\ engine.name # "float" /\ ~Metal
  BY DEF Host, Quantized, Metal
<1>s. engine.name = "cpu"
  BY DEF Uploaded
<1>h. \A n \in Int : Happens(l, n) => n \in {0, 4}
  BY <1>z, <1>a, HappensHost
<1>n. Norm = <<"w", Epsilon(file)>>
  BY <1>a DEF Norm
<1>w. LinWeight(l, 4) = HeadTensor(file) /\ From(l, 4) = Xb /\ OutBuf(l, 4) = B("logits")
  BY <1>z, <1>a, HeadLinear
<1>p0. PICK p1, p2 :
          /\ p1 = <<NormOp(Norm, FinalNorm, X, Xb)>>
          /\ p2 = CpuLin(HeadTensor(file), Xb, B("logits"))
  OBVIOUS
<1>r0. PICK r1, r2 :
          /\ r1 = p1
          /\ r2 = r1 \o p2
  OBVIOUS
<1>b. 0 \in 0..100 /\ 2 \in 0..100 /\ 100 \in 0..100
      /\ 0 <= 0 /\ 0 <= 2 /\ 0 <= 100
      /\ 0 <= 2 /\ 2 <= 100
  OBVIOUS
<1>p1. Part(p1, l, 0, 2)
  <2>1. \A i \in 0..2 - 1 : Happens(l, i) => i = 0
    BY <1>h
  <2>2. 0 \in {0, 31} /\ (0 = 31 => l # Layers) /\ 0 \in 0..2 - 1
    BY <1>z
  <2>3. FinalNorm = IF 0 = 31 THEN <<"ffn_norm", l>> ELSE IF l = Layers THEN FinalNorm ELSE <<"attn_norm", l>>
    BY <1>w, <1>z
  <2>4. Part(<<NormOp(Norm, FinalNorm, X, Xb)>>, l, 0, 2)
    BY <1>z, <1>b, <2>1, <2>2, <2>3, NormIn, ZenonT(60)
  <2> QED BY <1>p0, <2>4
<1>p2. Part(p2, l, 2, 100)
  <2>1. LinOf(p2, LinWeight(l, 4), From(l, 4), OutBuf(l, 4))
    BY <1>p0, <1>w, <1>s, CpuLinIs
  <2>2. ~Adds(4) /\ ~OnlyLast(l, 4) /\ 4 \in Dots /\ (l = Layers => 4 = 4)
    BY <1>a, <1>z DEF OnlyLast, Adds, Dots
  <2>3. \A i \in 4 + 1..100 - 1 : ~Happens(l, i)
    BY <1>h
  <2>4. 100 \in 4 + 1..100 /\ 4 - 2 = 2
    OBVIOUS
  <2>5. Part(p2, l, 4 - 2, 100)
    BY <1>z, <2>1, <2>2, <2>3, <2>4, LinIn, ZenonT(60)
  <2> QED BY <2>4, <2>5
<1>r1. Part(r1, l, 0, 2)
  BY <1>p1, <1>r0
<1>r2. Part(r2, l, 0, 100)
  <2>1. r2 = r1 \o p2
    BY <1>r0
  <2>2. PICK b \in 0..100, c \in 0..100 : b = 2 /\ c = 100
    OBVIOUS
  <2>3. l \in Int /\ b <= c /\ Part(r1, l, 0, b) /\ Part(p2, l, b, c)
    BY <1>z, <1>r1, <1>p2, <2>2
  <2>4. Part(r2, l, 0, c)
    BY <2>1, <2>3, JoinStart
  <2> QED BY <2>2, <2>4
<1>e. QuantizedHead = r2
  BY <1>p0, <1>r0, <1>n DEF QuantizedHead
<1> QED BY <1>r2, <1>e, <1>z

\* ... of CUDA ...
LEMMA CudaHeadPart ==
  ASSUME Layers \in Nat, engine.name \in {"cuda", "prefill"}, engine.name = "cuda" \/ base # 0, \A w \in Uploaded : Ported(w)
  PROVE  Part(CudaHead, Layers, 0, 100)
<1>0. PICK l \in Int : l = Layers
  OBVIOUS
<1>z. Layers \in Nat /\ l \in 0..Layers /\ l \in Int /\ l = Layers
  BY <1>0
<1>a. ~Host /\ Quantized /\ engine.name # "gemma" /\ engine.name # "float" /\ ~Metal
  BY DEF Host, Quantized, Metal
<1>s. engine.name \in {"cuda", "prefill"} /\ Ported(HeadTensor(file))
  BY DEF Uploaded
<1>h. \A n \in Int : Happens(l, n) => n \in {0, 2, 4}
  BY <1>z, <1>a, HappensCuda
<1>n. Norm = <<"w", Epsilon(file)>>
  BY <1>a DEF Norm
<1>w. LinWeight(l, 4) = HeadTensor(file) /\ From(l, 4) = Xb /\ OutBuf(l, 4) = B("logits")
  BY <1>z, <1>a, HeadLinear
<1>p0. PICK p1, p2 :
          /\ p1 = <<NormOp(Norm, FinalNorm, X, Xb)>>
          /\ p2 = CudaLin(HeadTensor(file), Xb, B("logits"))
  OBVIOUS
<1>r0. PICK r1, r2 :
          /\ r1 = p1
          /\ r2 = r1 \o p2
  OBVIOUS
<1>b. 0 \in 0..100 /\ 2 \in 0..100 /\ 100 \in 0..100
      /\ 0 <= 0 /\ 0 <= 2 /\ 0 <= 100
      /\ 0 <= 2 /\ 2 <= 100
  OBVIOUS
<1>p1. Part(p1, l, 0, 2)
  <2>1. \A i \in 0..2 - 1 : Happens(l, i) => i = 0
    BY <1>h
  <2>2. 0 \in {0, 31} /\ (0 = 31 => l # Layers) /\ 0 \in 0..2 - 1
    BY <1>z
  <2>3. FinalNorm = IF 0 = 31 THEN <<"ffn_norm", l>> ELSE IF l = Layers THEN FinalNorm ELSE <<"attn_norm", l>>
    BY <1>w, <1>z
  <2>4. Part(<<NormOp(Norm, FinalNorm, X, Xb)>>, l, 0, 2)
    BY <1>z, <1>b, <2>1, <2>2, <2>3, NormIn, ZenonT(60)
  <2> QED BY <1>p0, <2>4
<1>p2. Part(p2, l, 2, 100)
  <2>1. LinOf(p2, LinWeight(l, 4), From(l, 4), OutBuf(l, 4))
    BY <1>p0, <1>w, <1>s, CudaLinIs
  <2>2. ~Adds(4) /\ ~OnlyLast(l, 4) /\ 4 \in Dots /\ (l = Layers => 4 = 4)
    BY <1>a, <1>z DEF OnlyLast, Adds, Dots
  <2>3. \A i \in 4 + 1..100 - 1 : ~Happens(l, i)
    BY <1>h
  <2>4. 100 \in 4 + 1..100 /\ 4 - 2 = 2
    OBVIOUS
  <2>5. Part(p2, l, 4 - 2, 100)
    BY <1>z, <2>1, <2>2, <2>3, <2>4, LinIn, ZenonT(60)
  <2> QED BY <2>4, <2>5
<1>r1. Part(r1, l, 0, 2)
  BY <1>p1, <1>r0
<1>r2. Part(r2, l, 0, 100)
  <2>1. r2 = r1 \o p2
    BY <1>r0
  <2>2. PICK b \in 0..100, c \in 0..100 : b = 2 /\ c = 100
    OBVIOUS
  <2>3. l \in Int /\ b <= c /\ Part(r1, l, 0, b) /\ Part(p2, l, b, c)
    BY <1>z, <1>r1, <1>p2, <2>2
  <2>4. Part(r2, l, 0, c)
    BY <2>1, <2>3, JoinStart
  <2> QED BY <2>2, <2>4
<1>e. CudaHead = r2
  BY <1>p0, <1>r0, <1>n DEF CudaHead, GpuNorm
<1> QED BY <1>r2, <1>e, <1>z

\* ... of the batched prefill ...
LEMMA PrefillHeadPart ==
  ASSUME Layers \in Nat, engine.name = "prefill", engine.regime = 3, base = 0, \A w \in Uploaded : Ported(w)
  PROVE  Part(PrefillHead, Layers, 0, 100)
<1>0. PICK l \in Int : l = Layers
  OBVIOUS
<1>z. Layers \in Nat /\ l \in 0..Layers /\ l \in Int /\ l = Layers
  BY <1>0
<1>a. ~Host /\ Quantized /\ engine.name # "gemma" /\ engine.name # "float" /\ ~Metal
  BY DEF Host, Quantized, Metal
<1>s. engine.name = "prefill" /\ engine.regime = 3 /\ Ported(HeadTensor(file))
  BY DEF Uploaded
<1>h. \A n \in Int : Happens(l, n) => n \in {0, 2, 4}
  BY <1>z, <1>a, HappensCuda
<1>n. Norm = <<"w", Epsilon(file)>>
  BY <1>a DEF Norm
<1>w. LinWeight(l, 4) = HeadTensor(file) /\ From(l, 4) = Xb /\ OutBuf(l, 4) = B("logits")
  BY <1>z, <1>a, HeadLinear
<1>p0. PICK p1, p2 :
          /\ p1 = <<NormOp(Norm, FinalNorm, X, Xb)>>
          /\ p2 = OnLastRow(Pg(HeadTensor(file), Xb, B("logits")))
  OBVIOUS
<1>r0. PICK r1, r2 :
          /\ r1 = p1
          /\ r2 = r1 \o p2
  OBVIOUS
<1>b. 0 \in 0..100 /\ 2 \in 0..100 /\ 100 \in 0..100
      /\ 0 <= 0 /\ 0 <= 2 /\ 0 <= 100
      /\ 0 <= 2 /\ 2 <= 100
  OBVIOUS
<1>p1. Part(p1, l, 0, 2)
  <2>1. \A i \in 0..2 - 1 : Happens(l, i) => i = 0
    BY <1>h
  <2>2. 0 \in {0, 31} /\ (0 = 31 => l # Layers) /\ 0 \in 0..2 - 1
    BY <1>z
  <2>3. FinalNorm = IF 0 = 31 THEN <<"ffn_norm", l>> ELSE IF l = Layers THEN FinalNorm ELSE <<"attn_norm", l>>
    BY <1>w, <1>z
  <2>4. Part(<<NormOp(Norm, FinalNorm, X, Xb)>>, l, 0, 2)
    BY <1>z, <1>b, <2>1, <2>2, <2>3, NormIn, ZenonT(60)
  <2> QED BY <1>p0, <2>4
<1>p2. Part(p2, l, 2, 100)
  <2>1. LinOf(Pg(HeadTensor(file), Xb, B("logits")), LinWeight(l, 4), From(l, 4), OutBuf(l, 4))
    BY <1>w, <1>s, PgIs
  <2>2. OnlyLast(l, 4) /\ 4 \in Dots /\ (l = Layers => 4 = 4)
    BY <1>z DEF OnlyLast, Dots
  <2>3. \A i \in 4 + 1..100 - 1 : ~Happens(l, i)
    BY <1>h
  <2>4. 100 \in 4 + 1..100 /\ 4 - 2 = 2
    OBVIOUS
  <2>5. LinShape(OnLastRow(Pg(HeadTensor(file), Xb, B("logits"))), l, 4)
    BY <1>a, <2>1, <2>2, LastShape
  <2>6. Part(OnLastRow(Pg(HeadTensor(file), Xb, B("logits"))), l, 4 - 2, 100)
    BY <1>z, <2>2, <2>3, <2>4, <2>5, LinPart, Zenon
  <2> QED BY <1>p0, <2>4, <2>6
<1>r1. Part(r1, l, 0, 2)
  BY <1>p1, <1>r0
<1>r2. Part(r2, l, 0, 100)
  <2>1. r2 = r1 \o p2
    BY <1>r0
  <2>2. PICK b \in 0..100, c \in 0..100 : b = 2 /\ c = 100
    OBVIOUS
  <2>3. l \in Int /\ b <= c /\ Part(r1, l, 0, b) /\ Part(p2, l, b, c)
    BY <1>z, <1>r1, <1>p2, <2>2
  <2>4. Part(r2, l, 0, c)
    BY <2>1, <2>3, JoinStart
  <2> QED BY <2>2, <2>4
<1>e. PrefillHead = r2
  BY <1>p0, <1>r0, <1>n DEF PrefillHead, GpuNorm
<1> QED BY <1>r2, <1>e, <1>z

\* ... and of Metal.
LEMMA MetalHeadPart ==
  ASSUME Layers \in Nat, engine.name = "metal", \A w \in Uploaded : Ported(w)
  PROVE  Part(MetalHead, Layers, 0, 100)
<1>0. PICK l \in Int : l = Layers
  OBVIOUS
<1>z. Layers \in Nat /\ l \in 0..Layers /\ l \in Int /\ l = Layers
  BY <1>0
<1>a. ~Host /\ Quantized /\ engine.name # "gemma" /\ engine.name # "float" /\ Metal
  BY DEF Host, Quantized, Metal
<1>s. engine.name = "metal" /\ Ported(HeadTensor(file))
  BY DEF Uploaded
<1>h. \A n \in Int : Happens(l, n) => n \in 0..4
  BY <1>z, <1>a, HappensMetal
<1>n. Norm = <<"w", Epsilon(file)>>
  BY <1>a DEF Norm
<1>w. LinWeight(l, 4) = HeadTensor(file) /\ From(l, 4) = Xb /\ OutBuf(l, 4) = B("logits")
  BY <1>z, <1>a, HeadLinear
<1>f. Fence(l, 1) /\ FenceOuts(l, 1) \subseteq {Xb}
  BY <1>z, <1>a DEF Fence, FenceOuts
<1>p0. PICK p1, p2, p3 :
          /\ p1 = <<NormOp(Norm, FinalNorm, X, Xb)>>
          /\ p2 = Barrier({Xb})
          /\ p3 = MetalLin(HeadTensor(file), Xb, B("logits"))
  OBVIOUS
<1>r0. PICK r1, r2, r3 :
          /\ r1 = p1
          /\ r2 = r1 \o p2
          /\ r3 = r2 \o p3
  OBVIOUS
<1>b. 0 \in 0..100 /\ 1 \in 0..100 /\ 2 \in 0..100 /\ 100 \in 0..100
      /\ 0 <= 0 /\ 0 <= 1 /\ 0 <= 2 /\ 0 <= 100
      /\ 0 <= 1 /\ 1 <= 2 /\ 2 <= 100
  OBVIOUS
<1>p1. Part(p1, l, 0, 1)
  <2>1. \A i \in 0..1 - 1 : Happens(l, i) => i = 0
    BY <1>h
  <2>2. 0 \in {0, 31} /\ (0 = 31 => l # Layers) /\ 0 \in 0..1 - 1
    BY <1>z
  <2>3. FinalNorm = IF 0 = 31 THEN <<"ffn_norm", l>> ELSE IF l = Layers THEN FinalNorm ELSE <<"attn_norm", l>>
    BY <1>w, <1>z
  <2>4. Part(<<NormOp(Norm, FinalNorm, X, Xb)>>, l, 0, 1)
    BY <1>z, <1>b, <2>1, <2>2, <2>3, NormIn, ZenonT(60)
  <2> QED BY <1>p0, <2>4
<1>p2. Part(p2, l, 1, 2)
  <2>1. \A i \in 1..2 - 1 : Happens(l, i) => i = 1
    BY <1>h
  <2>2. 1 \in 1..2 - 1
    OBVIOUS
  <2>3. Fence(l, 1) /\ FenceOuts(l, 1) \subseteq {Xb}
    BY <1>f
  <2>4. Part(Barrier({Xb}), l, 1, 2)
    BY <1>z, <1>b, <2>1, <2>2, <2>3, BarrierIn, ZenonT(60)
  <2> QED BY <1>p0, <2>4
<1>p3. Part(p3, l, 2, 100)
  <2>1. LinOf(p3, LinWeight(l, 4), From(l, 4), OutBuf(l, 4))
    BY <1>p0, <1>w, <1>s, MetalLinIs
  <2>2. ~Adds(4) /\ ~OnlyLast(l, 4) /\ 4 \in Dots /\ (l = Layers => 4 = 4)
    BY <1>a, <1>z DEF OnlyLast, Adds, Dots
  <2>3. \A i \in 4 + 1..100 - 1 : ~Happens(l, i)
    BY <1>h
  <2>4. 100 \in 4 + 1..100 /\ 4 - 2 = 2
    OBVIOUS
  <2>5. Part(p3, l, 4 - 2, 100)
    BY <1>z, <2>1, <2>2, <2>3, <2>4, LinIn, ZenonT(60)
  <2> QED BY <2>4, <2>5
<1>r1. Part(r1, l, 0, 1)
  BY <1>p1, <1>r0
<1>r2. Part(r2, l, 0, 2)
  <2>1. r2 = r1 \o p2
    BY <1>r0
  <2>2. PICK b \in 0..100, c \in 0..100 : b = 1 /\ c = 2
    OBVIOUS
  <2>3. l \in Int /\ b <= c /\ Part(r1, l, 0, b) /\ Part(p2, l, b, c)
    BY <1>z, <1>r1, <1>p2, <2>2
  <2>4. Part(r2, l, 0, c)
    BY <2>1, <2>3, JoinStart
  <2> QED BY <2>2, <2>4
<1>r3. Part(r3, l, 0, 100)
  <2>1. r3 = r2 \o p3
    BY <1>r0
  <2>2. PICK b \in 0..100, c \in 0..100 : b = 2 /\ c = 100
    OBVIOUS
  <2>3. l \in Int /\ b <= c /\ Part(r2, l, 0, b) /\ Part(p3, l, b, c)
    BY <1>z, <1>r2, <1>p3, <2>2
  <2>4. Part(r3, l, 0, c)
    BY <2>1, <2>3, JoinStart
  <2> QED BY <2>2, <2>4
<1>e. MetalHead = r3
  BY <1>p0, <1>r0, <1>n DEF MetalHead, GpuNorm
<1> QED BY <1>r3, <1>e, <1>z

\* A linear in one operation is its step.
LEMMA LinLabel ==
  ASSUME Layers \in Nat, NEW l \in 0..Layers, NEW n \in Dots, l = Layers => n = 4, NEW o, ~Split(LinWeight(l, n)),
         o = Op("linear", Product(LinWeight(l, n)), LinWeight(l, n), <<From(l, n)>>, {OutBuf(l, n)}),
         ~Adds(n), ~OnlyLast(l, n)
  PROVE  LabelOK(o, l, n)
<1>1. Occurs(l, n)
  BY DotOccurs
<1>2. PICK p : p = <<o>>
  OBVIOUS
<1>3. LinOf(p, LinWeight(l, n), From(l, n), OutBuf(l, n))
  BY <1>2, LinOne
<1>4. LinShape(p, l, n)
  BY <1>3, ShapeOf
<1>5. Ok(p[1], l, n) /\ p[1] = o
  BY <1>2, <1>4 DEF LinShape
<1> QED BY <1>1, <1>5 DEF LabelOK, Ok

\* The steps of a layer of an engine that writes its keys and values through copies and has no biases.
PlainCodes == {0, 4, 8, 12, 19, 20, 21, 22, 24, 28, 29, 31, 35, 38, 40, 44, 45}

\* A layer of the engines that copy keys and values to the caches, without biases.
LEMMA PlainLayer ==
  ASSUME Layers \in Nat, Host, engine.name # "prefill", NEW l \in 0..Layers - 1,
         ~HasBias("bq", l), ~HasBias("bk", l), ~HasBias("bv", l),
         NEW wq, NEW wk, NEW wv, NEW wo, NEW w1, NEW w2, NEW w3, NEW na, NEW nf,
         na = <<"attn_norm", l>>, wq = LinWeight(l, 4), wk = LinWeight(l, 8), wv = LinWeight(l, 12), wo = LinWeight(l, 28),
         nf = <<"ffn_norm", l>>, w1 = LinWeight(l, 35), w3 = LinWeight(l, 38), w2 = LinWeight(l, 44)
  PROVE  Part(<<NormOp(Norm, na, X, Xb),
               LinearOp(Product(wq), wq, Xb, Q),
               LinearOp(Product(wk), wk, Xb, B("k")),
               LinearOp(Product(wv), wv, Xb, B("v")),
               CopyOp(B("k"), Keys(l)), CopyOp(B("v"), Values(l)),
               RopeOp(Rotation, Q), RopeOp(Rotation, Keys(l)), AttentionOp(l),
               LinearOp(Product(wo), wo, Att, B("xb2")), AddOp(X, B("xb2")),
               NormOp(Norm, nf, X, Xb),
               LinearOp(Product(w1), w1, Xb, B("gate")),
               LinearOp(Product(w3), w3, Xb, B("up")),
               ActOp(Act),
               LinearOp(Product(w2), w2, B("inner"), B("xb2")),
               AddOp(X, B("xb2"))>>, l, 0, 100)
<1>z. Layers \in Nat /\ l \in 0..Layers - 1 /\ l \in 0..Layers /\ l \in Int /\ l # Layers
  OBVIOUS
<1>a. \A w : ~Split(w)
  BY DEF Split
<1>k. KeysOf(l) = B("k") /\ ValuesOf(l) = B("v")
  BY DEF KeysOf, ValuesOf
<1>h. \A n \in Int : Happens(l, n) => n \in PlainCodes
  BY HappensHost DEF PlainCodes
<1>w. /\ From(l, 4) = Xb /\ OutBuf(l, 4) = Q /\ From(l, 8) = Xb /\ OutBuf(l, 8) = B("k")
      /\ From(l, 12) = Xb /\ OutBuf(l, 12) = B("v") /\ From(l, 28) = Att /\ OutBuf(l, 28) = B("xb2")
      /\ From(l, 35) = Xb /\ OutBuf(l, 35) = B("gate") /\ From(l, 38) = Xb /\ OutBuf(l, 38) = B("up")
      /\ From(l, 44) = B("inner") /\ OutBuf(l, 44) = B("xb2")
  BY <1>k, LinearsOf
<1>p. PICK a0, a4, a8, a12, a19, a20, a21, a22, a24, a28, a29, a31, a35, a38, a40, a44, a45 :
         /\ a0 = NormOp(Norm, na, X, Xb)
         /\ a4 = LinearOp(Product(wq), wq, Xb, Q)
         /\ a8 = LinearOp(Product(wk), wk, Xb, B("k"))
         /\ a12 = LinearOp(Product(wv), wv, Xb, B("v"))
         /\ a19 = CopyOp(B("k"), Keys(l))
         /\ a20 = CopyOp(B("v"), Values(l))
         /\ a21 = RopeOp(Rotation, Q)
         /\ a22 = RopeOp(Rotation, Keys(l))
         /\ a24 = AttentionOp(l)
         /\ a28 = LinearOp(Product(wo), wo, Att, B("xb2"))
         /\ a29 = AddOp(X, B("xb2"))
         /\ a31 = NormOp(Norm, nf, X, Xb)
         /\ a35 = LinearOp(Product(w1), w1, Xb, B("gate"))
         /\ a38 = LinearOp(Product(w3), w3, Xb, B("up"))
         /\ a40 = ActOp(Act)
         /\ a44 = LinearOp(Product(w2), w2, B("inner"), B("xb2"))
         /\ a45 = AddOp(X, B("xb2"))
  OBVIOUS
<1>4. LabelOK(a4, l, 4)
  <2>1. a4 = Op("linear", Product(LinWeight(l, 4)), LinWeight(l, 4), <<From(l, 4)>>, {OutBuf(l, 4)})
    BY <1>p, <1>w DEF LinearOp
  <2>2. 4 \in Dots /\ ~Adds(4) /\ ~OnlyLast(l, 4) /\ (l = Layers => 4 = 4) /\ ~Split(LinWeight(l, 4))
    BY <1>z, <1>a DEF Dots, Adds, OnlyLast
  <2> QED BY <1>z, <2>1, <2>2, LinLabel, ZenonT(60)
<1>8. LabelOK(a8, l, 8)
  <2>1. a8 = Op("linear", Product(LinWeight(l, 8)), LinWeight(l, 8), <<From(l, 8)>>, {OutBuf(l, 8)})
    BY <1>p, <1>w DEF LinearOp
  <2>2. 8 \in Dots /\ ~Adds(8) /\ ~OnlyLast(l, 8) /\ (l = Layers => 8 = 4) /\ ~Split(LinWeight(l, 8))
    BY <1>z, <1>a DEF Dots, Adds, OnlyLast
  <2> QED BY <1>z, <2>1, <2>2, LinLabel, ZenonT(60)
<1>12. LabelOK(a12, l, 12)
  <2>1. a12 = Op("linear", Product(LinWeight(l, 12)), LinWeight(l, 12), <<From(l, 12)>>, {OutBuf(l, 12)})
    BY <1>p, <1>w DEF LinearOp
  <2>2. 12 \in Dots /\ ~Adds(12) /\ ~OnlyLast(l, 12) /\ (l = Layers => 12 = 4) /\ ~Split(LinWeight(l, 12))
    BY <1>z, <1>a DEF Dots, Adds, OnlyLast
  <2> QED BY <1>z, <2>1, <2>2, LinLabel, ZenonT(60)
<1>28. LabelOK(a28, l, 28)
  <2>1. a28 = Op("linear", Product(LinWeight(l, 28)), LinWeight(l, 28), <<From(l, 28)>>, {OutBuf(l, 28)})
    BY <1>p, <1>w DEF LinearOp
  <2>2. 28 \in Dots /\ ~Adds(28) /\ ~OnlyLast(l, 28) /\ (l = Layers => 28 = 4) /\ ~Split(LinWeight(l, 28))
    BY <1>z, <1>a DEF Dots, Adds, OnlyLast
  <2> QED BY <1>z, <2>1, <2>2, LinLabel, ZenonT(60)
<1>35. LabelOK(a35, l, 35)
  <2>1. a35 = Op("linear", Product(LinWeight(l, 35)), LinWeight(l, 35), <<From(l, 35)>>, {OutBuf(l, 35)})
    BY <1>p, <1>w DEF LinearOp
  <2>2. 35 \in Dots /\ ~Adds(35) /\ ~OnlyLast(l, 35) /\ (l = Layers => 35 = 4) /\ ~Split(LinWeight(l, 35))
    BY <1>z, <1>a DEF Dots, Adds, OnlyLast
  <2> QED BY <1>z, <2>1, <2>2, LinLabel, ZenonT(60)
<1>38. LabelOK(a38, l, 38)
  <2>1. a38 = Op("linear", Product(LinWeight(l, 38)), LinWeight(l, 38), <<From(l, 38)>>, {OutBuf(l, 38)})
    BY <1>p, <1>w DEF LinearOp
  <2>2. 38 \in Dots /\ ~Adds(38) /\ ~OnlyLast(l, 38) /\ (l = Layers => 38 = 4) /\ ~Split(LinWeight(l, 38))
    BY <1>z, <1>a DEF Dots, Adds, OnlyLast
  <2> QED BY <1>z, <2>1, <2>2, LinLabel, ZenonT(60)
<1>44. LabelOK(a44, l, 44)
  <2>1. a44 = Op("linear", Product(LinWeight(l, 44)), LinWeight(l, 44), <<From(l, 44)>>, {OutBuf(l, 44)})
    BY <1>p, <1>w DEF LinearOp
  <2>2. 44 \in Dots /\ ~Adds(44) /\ ~OnlyLast(l, 44) /\ (l = Layers => 44 = 4) /\ ~Split(LinWeight(l, 44))
    BY <1>z, <1>a DEF Dots, Adds, OnlyLast
  <2> QED BY <1>z, <2>1, <2>2, LinLabel, ZenonT(60)
<1>0. LabelOK(a0, l, 0)
  <2>1. na = IF 0 = 31 THEN <<"ffn_norm", l>> ELSE IF l = Layers THEN FinalNorm ELSE <<"attn_norm", l>>
    BY <1>z
  <2>2. 0 \in {0, 31} /\ (0 = 31 => l # Layers)
    BY <1>z
  <2> QED BY <1>z, <1>p, <2>1, <2>2, NormIs, Zenon
<1>31. LabelOK(a31, l, 31)
  <2>1. nf = IF 31 = 31 THEN <<"ffn_norm", l>> ELSE IF l = Layers THEN FinalNorm ELSE <<"attn_norm", l>>
    BY <1>z
  <2>2. 31 \in {0, 31} /\ (31 = 31 => l # Layers)
    BY <1>z
  <2> QED BY <1>z, <1>p, <2>1, <2>2, NormIs, Zenon
<1>m. LabelOK(a19, l, 19) /\ LabelOK(a20, l, 20) /\ LabelOK(a21, l, 21) /\ LabelOK(a22, l, 22) /\ LabelOK(a24, l, 24) /\ LabelOK(a29, l, 29) /\ LabelOK(a40, l, 40) /\ LabelOK(a45, l, 45)
  BY <1>p, MovesAre
<1>c. PICK x, y, c0, c4, c8, c12, c19, c20, c21, c22, c24, c28, c29, c31, c35, c38, c40, c44, c45 : x = 0 /\ y = 100 /\ c0 = 0 /\ c4 = 4 /\ c8 = 8 /\ c12 = 12 /\ c19 = 19 /\ c20 = 20 /\ c21 = 21 /\ c22 = 22 /\ c24 = 24 /\ c28 = 28 /\ c29 = 29 /\ c31 = 31 /\ c35 = 35 /\ c38 = 38 /\ c40 = 40 /\ c44 = 44 /\ c45 = 45
  OBVIOUS
<1>b. /\ x \in 0..100 /\ y \in 0..100 /\ c0 \in x..y - 1 /\ c4 \in x..y - 1 /\ c8 \in x..y - 1 /\ c12 \in x..y - 1 /\ c19 \in x..y - 1 /\ c20 \in x..y - 1 /\ c21 \in x..y - 1 /\ c22 \in x..y - 1 /\ c24 \in x..y - 1 /\ c28 \in x..y - 1 /\ c29 \in x..y - 1 /\ c31 \in x..y - 1 /\ c35 \in x..y - 1 /\ c38 \in x..y - 1 /\ c40 \in x..y - 1 /\ c44 \in x..y - 1 /\ c45 \in x..y - 1
      /\ c0 < c4 /\ c4 < c8 /\ c8 < c12 /\ c12 < c19 /\ c19 < c20 /\ c20 < c21 /\ c21 < c22 /\ c22 < c24 /\ c24 < c28 /\ c28 < c29 /\ c29 < c31 /\ c31 < c35 /\ c35 < c38 /\ c38 < c40 /\ c40 < c44 /\ c44 < c45
  BY <1>c
<1>i. \A i \in x..y - 1 : Happens(l, i) => i \in {c0, c4, c8, c12, c19, c20, c21, c22, c24, c28, c29, c31, c35, c38, c40, c44, c45}
  BY <1>h, <1>c DEF PlainCodes
<1>l. LabelOK(a0, l, c0) /\ LabelOK(a4, l, c4) /\ LabelOK(a8, l, c8) /\ LabelOK(a12, l, c12) /\ LabelOK(a19, l, c19) /\ LabelOK(a20, l, c20) /\ LabelOK(a21, l, c21) /\ LabelOK(a22, l, c22) /\ LabelOK(a24, l, c24) /\ LabelOK(a28, l, c28) /\ LabelOK(a29, l, c29) /\ LabelOK(a31, l, c31) /\ LabelOK(a35, l, c35) /\ LabelOK(a38, l, c38) /\ LabelOK(a40, l, c40) /\ LabelOK(a44, l, c44) /\ LabelOK(a45, l, c45)
  BY <1>c, <1>m, <1>0, <1>4, <1>8, <1>12, <1>28, <1>31, <1>35, <1>38, <1>44
<1>q. Part(<<a0, a4, a8, a12, a19, a20, a21, a22, a24, a28, a29, a31, a35, a38, a40, a44, a45>>, l, x, y)
  <2> DEFINE p == <<a0, a4, a8, a12, a19, a20, a21, a22, a24, a28, a29, a31, a35, a38, a40, a44, a45>>
             f == <<c0, c4, c8, c12, c19, c20, c21, c22, c24, c28, c29, c31, c35, c38, c40, c44, c45>>
  <2>1. PICK h \in Nat : h = 17
    OBVIOUS
  <2>2. IsTable(p, h)
    BY <2>1 DEF IsTable
  <2>4. f[1] = c0 /\ f[2] = c4 /\ f[3] = c8 /\ f[4] = c12 /\ f[5] = c19 /\ f[6] = c20 /\ f[7] = c21 /\ f[8] = c22 /\ f[9] = c24 /\ f[10] = c28 /\ f[11] = c29 /\ f[12] = c31 /\ f[13] = c35 /\ f[14] = c38 /\ f[15] = c40 /\ f[16] = c44 /\ f[17] = c45
    OBVIOUS
  <2>9. p[1] = a0 /\ p[2] = a4 /\ p[3] = a8 /\ p[4] = a12 /\ p[5] = a19 /\ p[6] = a20 /\ p[7] = a21 /\ p[8] = a22 /\ p[9] = a24 /\ p[10] = a28 /\ p[11] = a29 /\ p[12] = a31 /\ p[13] = a35 /\ p[14] = a38 /\ p[15] = a40 /\ p[16] = a44 /\ p[17] = a45
    OBVIOUS
  <2> HIDE DEF p, f
  <2>10. \A k \in 1..h : k = 1 \/ k = 2 \/ k = 3 \/ k = 4 \/ k = 5 \/ k = 6 \/ k = 7 \/ k = 8 \/ k = 9 \/ k = 10 \/ k = 11 \/ k = 12 \/ k = 13 \/ k = 14 \/ k = 15 \/ k = 16 \/ k = 17
    BY <2>1
  <2>3. \A k \in 1..h : \/ k = 1 /\ p[k] = a0 /\ f[k] = c0
                        \/ k = 2 /\ p[k] = a4 /\ f[k] = c4
                        \/ k = 3 /\ p[k] = a8 /\ f[k] = c8
                        \/ k = 4 /\ p[k] = a12 /\ f[k] = c12
                        \/ k = 5 /\ p[k] = a19 /\ f[k] = c19
                        \/ k = 6 /\ p[k] = a20 /\ f[k] = c20
                        \/ k = 7 /\ p[k] = a21 /\ f[k] = c21
                        \/ k = 8 /\ p[k] = a22 /\ f[k] = c22
                        \/ k = 9 /\ p[k] = a24 /\ f[k] = c24
                        \/ k = 10 /\ p[k] = a28 /\ f[k] = c28
                        \/ k = 11 /\ p[k] = a29 /\ f[k] = c29
                        \/ k = 12 /\ p[k] = a31 /\ f[k] = c31
                        \/ k = 13 /\ p[k] = a35 /\ f[k] = c35
                        \/ k = 14 /\ p[k] = a38 /\ f[k] = c38
                        \/ k = 15 /\ p[k] = a40 /\ f[k] = c40
                        \/ k = 16 /\ p[k] = a44 /\ f[k] = c44
                        \/ k = 17 /\ p[k] = a45 /\ f[k] = c45
    BY <2>4, <2>9, <2>10
  <2>5. \A k \in 1..h : f[k] \in x..y - 1 /\ LabelOK(p[k], l, f[k])
    BY <1>l, <1>b, <2>3
  <2>6. \A i, k \in 1..h : i < k => f[i] < f[k]
    BY <1>b, <2>3
  <2>7. \A i \in x..y - 1 : Happens(l, i) => \E k \in 1..h : f[k] = i
    BY <1>i, <2>1, <2>4
  <2>8. Part(p, l, x, y)
    BY <1>z, <1>b, <2>2, <2>5, <2>6, <2>7, InLayer DEF Part
  <2> QED BY <2>8 DEF p
<1> QED BY <1>p, <1>q, <1>c

\* Their head.
LEMMA PlainHead ==
  ASSUME Layers \in Nat, Host, engine.name # "prefill"
  PROVE  Part(<<NormOp(Norm, FinalNorm, X, Xb), LinearOp(Product(Classifier), Classifier, Xb, B("logits"))>>, Layers, 0, 100)
<1>0. PICK l \in Int : l = Layers
  OBVIOUS
<1>z. Layers \in Nat /\ l \in 0..Layers /\ l \in Int /\ l = Layers
  BY <1>0
<1>a. \A w : ~Split(w)
  BY DEF Split
<1>h. \A n \in Int : Happens(l, n) => n \in {0, 4}
  BY <1>z, HappensHost
<1>p. PICK a, b : a = NormOp(Norm, FinalNorm, X, Xb) /\ b = LinearOp(Product(Classifier), Classifier, Xb, B("logits"))
  OBVIOUS
<1>1. LabelOK(a, l, 0)
  <2>1. FinalNorm = IF 0 = 31 THEN <<"ffn_norm", l>> ELSE IF l = Layers THEN FinalNorm ELSE <<"attn_norm", l>>
    BY <1>z
  <2>2. 0 \in {0, 31} /\ (0 = 31 => l # Layers)
    OBVIOUS
  <2> QED BY <1>z, <1>p, <2>1, <2>2, NormIs, Zenon
<1>2. LabelOK(b, l, 4)
  <2>1. b = Op("linear", Product(LinWeight(l, 4)), LinWeight(l, 4), <<From(l, 4)>>, {OutBuf(l, 4)})
    BY <1>p, <1>z, HeadLinear DEF LinearOp
  <2>2. 4 \in Dots /\ ~Adds(4) /\ ~OnlyLast(l, 4) /\ (l = Layers => 4 = 4) /\ ~Split(LinWeight(l, 4))
    BY <1>a DEF Dots, Adds, OnlyLast
  <2> QED BY <1>z, <2>1, <2>2, LinLabel, ZenonT(60)
<1>3. 0 \in 0..100 /\ 100 \in 0..100 /\ 0 \in 0..100 - 1 /\ 4 \in 0..100 - 1 /\ 0 < 4
  OBVIOUS
<1>4. \A i \in 0..100 - 1 : Happens(l, i) => i \in {0, 4}
  BY <1>h
<1>5. Part(<<a, b>>, l, 0, 100)
  <2>1. PICK x, y, c, d : x = 0 /\ y = 100 /\ c = 0 /\ d = 4
    OBVIOUS
  <2>2. /\ x \in 0..100 /\ y \in 0..100 /\ c \in x..y - 1 /\ d \in x..y - 1 /\ c < d
        /\ LabelOK(a, l, c) /\ LabelOK(b, l, d)
        /\ \A i \in x..y - 1 : Happens(l, i) => i \in {c, d}
    BY <1>1, <1>2, <1>4, <2>1
  <2>3. Part(<<a, b>>, l, x, y)
    BY <1>z, <2>2, TwoSteps, ZenonT(60)
  <2> QED BY <2>1, <2>3
<1> QED BY <1>z, <1>p, <1>5, Zenon

\* The conformance forward on the files it is for.
LEMMA ConformanceParts ==
  ASSUME Layers \in Nat, engine.name = "conformance", engine.regime # 3, ~Neox(file),
         \A w \in Uploaded : file.dtype[w] \in {"Q4_K", "Q6_K"},
         \A l \in 0..Layers - 1, s \in DOMAIN Biases : ~HasBias(s, l)
  PROVE  /\ \A l \in 0..Layers - 1 : Part(ConformanceLayer(l), l, 0, 100)
         /\ Part(ConformanceHead, Layers, 0, 100)
<1>a. Host /\ Quantized /\ engine.name # "prefill" /\ engine.name # "float" /\ engine.name # "gemma"
  BY DEF Host, Quantized
<1>n. GpuNorm = Norm /\ <<"interleaved", Theta(file)>> = Rotation /\ Act = "silu"
  BY <1>a DEF GpuNorm, Norm, Rotation, Act
<1>1. ASSUME NEW w \in Uploaded PROVE <<KernelTypes[Kind(w) + 1], "canonical">> = Product(w)
  <2>1. file.dtype[w] \in {"Q4_K", "Q6_K"} /\ Dtype(w) = file.dtype[w]
    BY <1>a DEF Dtype
  <2>2. KernelTypes[Kind(w) + 1] = file.dtype[w]
    BY <2>1 DEF Kind, KernelTypes
  <2> QED BY <2>1, <2>2 DEF Product
<1>2. ASSUME NEW w \in Uploaded, NEW from, NEW to PROVE ConformanceLin(w, from, to) = LinearOp(Product(w), w, from, to)
  BY <1>1 DEF ConformanceLin
<1>3. ASSUME NEW l \in 0..Layers - 1 PROVE Part(ConformanceLayer(l), l, 0, 100)
  <2>1. /\ Matrix("wq", l) \in Uploaded /\ Matrix("wk", l) \in Uploaded /\ Matrix("wv", l) \in Uploaded
        /\ Matrix("wo", l) \in Uploaded /\ Matrix("w1", l) \in Uploaded /\ Matrix("w2", l) \in Uploaded
        /\ Matrix("w3", l) \in Uploaded
    BY <1>a DEF Uploaded, Matrices, Layers
  <2>2. ~HasBias("bq", l) /\ ~HasBias("bk", l) /\ ~HasBias("bv", l)
    BY DEF Biases
  <2>p. PICK wq, wk, wv, wo, w1, w2, w3, na, nf :
          /\ wq = Matrix("wq", l) /\ wk = Matrix("wk", l) /\ wv = Matrix("wv", l) /\ wo = Matrix("wo", l)
          /\ w1 = Matrix("w1", l) /\ w2 = Matrix("w2", l) /\ w3 = Matrix("w3", l)
          /\ na = NormWeight("rms_att", l) /\ nf = NormWeight("rms_ffn", l)
    OBVIOUS
  <2>3. /\ na = <<"attn_norm", l>> /\ wq = LinWeight(l, 4) /\ wk = LinWeight(l, 8) /\ wv = LinWeight(l, 12)
        /\ wo = LinWeight(l, 28) /\ nf = <<"ffn_norm", l>> /\ w1 = LinWeight(l, 35) /\ w3 = LinWeight(l, 38)
        /\ w2 = LinWeight(l, 44)
    BY <2>p, LinearsOf
  <2>4. Part(<<NormOp(Norm, na, X, Xb),
               LinearOp(Product(wq), wq, Xb, Q),
               LinearOp(Product(wk), wk, Xb, B("k")),
               LinearOp(Product(wv), wv, Xb, B("v")),
               CopyOp(B("k"), Keys(l)), CopyOp(B("v"), Values(l)),
               RopeOp(Rotation, Q), RopeOp(Rotation, Keys(l)), AttentionOp(l),
               LinearOp(Product(wo), wo, Att, B("xb2")), AddOp(X, B("xb2")),
               NormOp(Norm, nf, X, Xb),
               LinearOp(Product(w1), w1, Xb, B("gate")),
               LinearOp(Product(w3), w3, Xb, B("up")),
               ActOp(Act),
               LinearOp(Product(w2), w2, B("inner"), B("xb2")),
               AddOp(X, B("xb2"))>>, l, 0, 100)
    BY <1>a, <2>2, <2>3, PlainLayer, ZenonT(60)
  <2>5. /\ \A from, to : ConformanceLin(wq, from, to) = LinearOp(Product(wq), wq, from, to)
        /\ \A from, to : ConformanceLin(wk, from, to) = LinearOp(Product(wk), wk, from, to)
        /\ \A from, to : ConformanceLin(wv, from, to) = LinearOp(Product(wv), wv, from, to)
        /\ \A from, to : ConformanceLin(wo, from, to) = LinearOp(Product(wo), wo, from, to)
        /\ \A from, to : ConformanceLin(w1, from, to) = LinearOp(Product(w1), w1, from, to)
        /\ \A from, to : ConformanceLin(w2, from, to) = LinearOp(Product(w2), w2, from, to)
        /\ \A from, to : ConformanceLin(w3, from, to) = LinearOp(Product(w3), w3, from, to)
    BY <1>2, <2>1, <2>p
  <2> QED BY <1>n, <2>p, <2>4, <2>5 DEF ConformanceLayer
<1>4. Part(ConformanceHead, Layers, 0, 100)
  <2>1. HeadTensor(file) \in Uploaded /\ Classifier = HeadTensor(file)
    BY <1>a DEF Uploaded, Classifier
  <2>2. ConformanceLin(HeadTensor(file), Xb, B("logits")) = LinearOp(Product(Classifier), Classifier, Xb, B("logits"))
    BY <1>2, <2>1
  <2>3. Part(<<NormOp(Norm, FinalNorm, X, Xb), LinearOp(Product(Classifier), Classifier, Xb, B("logits"))>>, Layers, 0, 100)
    BY <1>a, PlainHead
  <2> QED BY <1>n, <2>2, <2>3 DEF ConformanceHead
<1> QED BY <1>3, <1>4

\* The float engines, when what they slice is what they ask for.
SlicesAre(l) ==
  /\ Sliced("rms_att", l) = <<"attn_norm", l>> /\ Sliced("wq", l) = <<"attn_q", l>> /\ Sliced("wk", l) = <<"attn_k", l>>
  /\ Sliced("wv", l) = <<"attn_v", l>> /\ Sliced("wo", l) = <<"attn_output", l>>
  /\ Sliced("rms_ffn", l) = <<"ffn_norm", l>> /\ Sliced("w1", l) = <<"ffn_gate", l>>
  /\ Sliced("w2", l) = <<"ffn_down", l>> /\ Sliced("w3", l) = <<"ffn_up", l>>

\* The layers and the head of the float engines.
LEMMA FloatParts ==
  ASSUME Layers \in Nat, engine.name \in {"float", "gemma"}, engine.regime # 3, NEW norm, NEW act, norm = Norm, act = Act,
         \A l \in 0..Layers - 1 : SlicesAre(l),
         ArrayHolds(file.header, "rms_final") = FinalNorm, BlobHead(file.header) = Classifier
  PROVE  /\ \A l \in 0..Layers - 1 : Part(FloatLayer(l, norm, act), l, 0, 100)
         /\ Part(FloatHead(norm), Layers, 0, 100)
<1>a. Host /\ ~Quantized /\ engine.name # "prefill"
  BY DEF Host, Quantized
<1>n. <<"interleaved", "1e4">> = Rotation
  BY <1>a DEF Rotation
<1>1. \A w : Product(w) = <<"F32", "canonical">>
  BY <1>a DEF Product, Dtype
<1>2. \A w, from, to : FloatLin(w, from, to) = LinearOp(Product(w), w, from, to)
  BY <1>1 DEF FloatLin
<1>3. ASSUME NEW l \in 0..Layers - 1 PROVE Part(FloatLayer(l, norm, act), l, 0, 100)
  <2>2. ~HasBias("bq", l) /\ ~HasBias("bk", l) /\ ~HasBias("bv", l)
    BY <1>a DEF HasBias
  <2>p. PICK wq, wk, wv, wo, w1, w2, w3, na, nf :
          /\ wq = Sliced("wq", l) /\ wk = Sliced("wk", l) /\ wv = Sliced("wv", l) /\ wo = Sliced("wo", l)
          /\ w1 = Sliced("w1", l) /\ w2 = Sliced("w2", l) /\ w3 = Sliced("w3", l)
          /\ na = Sliced("rms_att", l) /\ nf = Sliced("rms_ffn", l)
    OBVIOUS
  <2>3. /\ na = <<"attn_norm", l>> /\ wq = LinWeight(l, 4) /\ wk = LinWeight(l, 8) /\ wv = LinWeight(l, 12)
        /\ wo = LinWeight(l, 28) /\ nf = <<"ffn_norm", l>> /\ w1 = LinWeight(l, 35) /\ w3 = LinWeight(l, 38)
        /\ w2 = LinWeight(l, 44)
    <3>1. l # Layers
      OBVIOUS
    <3>2. /\ LinWeight(l, 4) = <<"attn_q", l>> /\ LinWeight(l, 8) = <<"attn_k", l>> /\ LinWeight(l, 12) = <<"attn_v", l>>
          /\ LinWeight(l, 28) = <<"attn_output", l>> /\ LinWeight(l, 35) = <<"ffn_gate", l>>
          /\ LinWeight(l, 38) = <<"ffn_up", l>> /\ LinWeight(l, 44) = <<"ffn_down", l>>
      BY <3>1 DEF LinWeight
    <3>3. SlicesAre(l)
      OBVIOUS
    <3> QED BY <2>p, <3>2, <3>3 DEF SlicesAre
  <2>4. Part(<<NormOp(Norm, na, X, Xb),
               LinearOp(Product(wq), wq, Xb, Q),
               LinearOp(Product(wk), wk, Xb, B("k")),
               LinearOp(Product(wv), wv, Xb, B("v")),
               CopyOp(B("k"), Keys(l)), CopyOp(B("v"), Values(l)),
               RopeOp(Rotation, Q), RopeOp(Rotation, Keys(l)), AttentionOp(l),
               LinearOp(Product(wo), wo, Att, B("xb2")), AddOp(X, B("xb2")),
               NormOp(Norm, nf, X, Xb),
               LinearOp(Product(w1), w1, Xb, B("gate")),
               LinearOp(Product(w3), w3, Xb, B("up")),
               ActOp(Act),
               LinearOp(Product(w2), w2, B("inner"), B("xb2")),
               AddOp(X, B("xb2"))>>, l, 0, 100)
    BY <1>a, <2>2, <2>3, PlainLayer, ZenonT(60)
  <2> QED BY <1>n, <1>2, <2>p, <2>4 DEF FloatLayer
<1>4. Part(FloatHead(norm), Layers, 0, 100)
  <2>2. FloatLin(BlobHead(file.header), Xb, B("logits")) = LinearOp(Product(Classifier), Classifier, Xb, B("logits"))
    BY <1>2
  <2>3. Part(<<NormOp(Norm, FinalNorm, X, Xb), LinearOp(Product(Classifier), Classifier, Xb, B("logits"))>>, Layers, 0, 100)
    BY <1>a, PlainHead
  <2> QED BY <2>2, <2>3 DEF FloatHead
<1> QED BY <1>3, <1>4

(* Concatenations of sequences.                                            *)

\* f gives the concatenation of every prefix of s.
Concatenates(f, s, S) ==
  /\ f \in [Nat -> Seq(S)] /\ f[0] = << >>
  /\ \A n \in 1..Len(s) : f[n] = f[n - 1] \o s[n]

\* There is one for every sequence of sequences.
LEMMA ConcatenationExists ==
  ASSUME NEW S, NEW s \in Seq(Seq(S))
  PROVE  \E f : Concatenates(f, s, S)
<1> DEFINE V == Seq(S)
           D == Nat \ {0}
           h == [n \in Nat |-> IF n = 0 THEN 0 ELSE n - 1]
           zero == [n \in Nat |-> << >>]
           step == [n \in Nat |-> [v \in V |-> IF n \in 1..Len(s) THEN v \o s[n] ELSE v]]
<1>1. h \in [Nat -> Nat] /\ \A n \in D : h[n] < n
  OBVIOUS
<1>2. zero \in [Nat -> V]
  OBVIOUS
<1>3. step \in [Nat -> [V -> V]]
  <2>1. \A n \in Nat, v \in V : (IF n \in 1..Len(s) THEN v \o s[n] ELSE v) \in V
    <3>1. \A n \in 1..Len(s) : s[n] \in V
      BY ElementOfSeq
    <3> QED BY <3>1, ConcatProperties
  <2> QED BY <2>1
<1>4. D \in SUBSET Nat
  OBVIOUS
<1> HIDE DEF V, D, h, zero, step
<1>5. PICK f \in [Nat -> V] : Solves(f, D, h, zero, step)
  BY <1>1, <1>2, <1>3, <1>4, Recursion
<1>6. f[0] = << >>
  BY <1>5 DEF Solves, D, zero
<1>7. ASSUME NEW n \in 1..Len(s) PROVE f[n] = f[n - 1] \o s[n]
  <2>1. n \in D /\ h[n] = n - 1 /\ n - 1 \in Nat /\ f[n - 1] \in V
    BY <1>5 DEF D, h
  <2>2. f[n] = step[n][f[n - 1]]
    BY <1>5, <2>1 DEF Solves
  <2>3. step[n] = [v \in V |-> v \o s[n]]
    BY <2>1 DEF step, D
  <2> QED BY <2>1, <2>2, <2>3
<1> QED BY <1>5, <1>6, <1>7 DEF Concatenates, V

\* FlattenSeq computes it.
LEMMA FlattenComputes ==
  ASSUME NEW S, NEW s \in Seq(Seq(S)), NEW f, Concatenates(f, s, S)
  PROVE  FlattenSeq(s) = f[Len(s)]
<1>0. Len(s) \in Nat
  OBVIOUS
<1>1. CASE Len(s) = 0
  <2>1. s = << >>
    BY <1>1, EmptySeq
  <2> QED BY <1>1, <2>1 DEF FlattenSeq, Concatenates
<1>2. CASE Len(s) # 0
  <2> DEFINE Body(g, x) == IF x = 1 THEN s[x] ELSE g[x - 1] \o s[x]
             Is(g) == g = [x \in 1..Len(s) |-> Body(g, x)]
             g0 == [x \in 1..Len(s) |-> f[x]]
  <2>1. ASSUME NEW x \in 1..Len(s) PROVE f[x] = Body(g0, x)
    <3>1. f[x] = f[x - 1] \o s[x]
      BY DEF Concatenates
    <3>2. CASE x = 1
      <4>1. f[x - 1] = << >> /\ s[x] \in Seq(S)
        BY <3>2, ElementOfSeq DEF Concatenates
      <4> QED BY <3>1, <3>2, <4>1, ConcatEmptySeq
    <3>3. CASE x # 1
      <4>1. x - 1 \in 1..Len(s)
        BY <1>0, <3>3
      <4> QED BY <3>1, <3>3, <4>1
    <3> QED BY <3>2, <3>3
  <2>2. Is(g0)
    BY <2>1
  <2>3. ASSUME NEW g, Is(g) PROVE g[Len(s)] = f[Len(s)]
    <3> DEFINE T == {k \in Nat : k \in 1..Len(s) /\ g[k] # f[k]}
    <3>1. CASE T = {}
      BY <1>0, <1>2, <3>1
    <3>2. CASE T # {}
      <4>1. PICK m \in T : \A k \in T : m <= k
        BY <3>2, LeastElement
      <4>2. g[m] = Body(g, m)
        BY <2>3, <4>1
      <4>3. f[m] = Body(g0, m) /\ m \in 1..Len(s)
        BY <2>1, <4>1
      <4>4. CASE m = 1
        BY <4>1, <4>2, <4>3, <4>4
      <4>5. CASE m # 1
        <5>1. m - 1 \in 1..Len(s) /\ m - 1 \in Nat /\ ~(m <= m - 1)
          BY <1>0, <4>3, <4>5
        <5>2. g[m - 1] = f[m - 1] /\ g0[m - 1] = f[m - 1]
          BY <4>1, <5>1
        <5> QED BY <4>1, <4>2, <4>3, <4>5, <5>2
      <4> QED BY <4>4, <4>5
    <3> QED BY <3>1, <3>2
  <2>4. FlattenSeq(s) = (CHOOSE g : Is(g))[Len(s)]
    BY <1>2 DEF FlattenSeq
  <2> HIDE DEF Is
  <2> QED BY <2>2, <2>3, <2>4
<1> QED BY <1>1, <1>2

\* What is flattened is a sequence of the same elements ...
LEMMA FlattenType ==
  ASSUME NEW S, NEW s \in Seq(Seq(S))
  PROVE  FlattenSeq(s) \in Seq(S)
<1>1. PICK f : Concatenates(f, s, S)
  BY ConcatenationExists
<1>2. Len(s) \in Nat
  OBVIOUS
<1>3. FlattenSeq(s) = f[Len(s)]
  BY <1>1, FlattenComputes
<1>4. f[Len(s)] \in Seq(S)
  BY <1>1, <1>2 DEF Concatenates
<1> QED BY <1>3, <1>4

\* ... nothing for nothing ...
LEMMA FlattenEmpty == FlattenSeq(<< >>) = << >>
BY DEF FlattenSeq

\* ... longer by the last of them ...
LEMMA FlattenAppend ==
  ASSUME NEW S, NEW s \in Seq(Seq(S)), NEW e \in Seq(S)
  PROVE  FlattenSeq(Append(s, e)) = FlattenSeq(s) \o e
<1> DEFINE t == Append(s, e)
<1>1. t \in Seq(Seq(S)) /\ Len(t) = Len(s) + 1 /\ Len(s) \in Nat
      /\ \A x \in 1..Len(s) : t[x] = s[x]
  BY AppendProperties
<1>2. t[Len(s) + 1] = e
  BY AppendLast
<1> HIDE DEF t
<1>3. PICK f : Concatenates(f, t, S)
  BY <1>1, ConcatenationExists
<1>7. Len(s) + 1 - 1 = Len(s) /\ Len(s) + 1 \in 1..Len(t) /\ \A n \in 1..Len(s) : n \in 1..Len(t)
  BY <1>1
<1>4. Concatenates(f, s, S)
  BY <1>1, <1>3, <1>7 DEF Concatenates
<1>5. FlattenSeq(t) = f[Len(s) + 1] /\ FlattenSeq(s) = f[Len(s)]
  BY <1>1, <1>3, <1>4, FlattenComputes
<1>6. f[Len(s) + 1] = f[Len(s)] \o t[Len(s) + 1]
  <2>1. \A n \in 1..Len(t) : f[n] = f[n - 1] \o t[n]
    BY <1>3 DEF Concatenates
  <2>2. PICK k \in 1..Len(t) : k = Len(s) + 1
    BY <1>7
  <2>3. f[k] = f[k - 1] \o t[k]
    BY <2>1, Zenon
  <2>5. k - 1 = Len(s)
    BY <1>1, <2>2
  <2>4. f[k] = f[Len(s)] \o t[k]
    BY <2>3, <2>5
  <2> QED BY <2>2, <2>4
<1> QED BY <1>2, <1>5, <1>6, <1>7 DEF t

-----------------------------------------------------------------------------
\* The layers of the program ...
Layered == [k \in 1..Layers |-> Layer(k - 1)]
\* ... and the first of them.
UpTo(i) == [k \in 1..i |-> Layer(k - 1)]
\* Every layer, and the head, does its steps.
LaidOut == /\ Layers \in Nat /\ (\A l \in 0..Layers - 1 : Part(Layer(l), l, 0, 100))
           /\ Part(FinalOps, Layers, 0, 100)
\* Operations of the layers.
AllOps == {Layer(l)[k] : l \in 0..Layers - 1, k \in Nat}

\* A fragment is a sequence.
LEMMA FragSeq ==
  ASSUME NEW p, NEW lo, NEW hi, Frag(p, lo, hi), NEW S, \A k \in Nat : p[k] \in S
  PROVE  p \in Seq(S)
<1>1. PICK lab, h : Fills(p, lab, h, lo, hi)
  BY DEF Frag
<1>2. h \in Nat /\ IsTable(p, h)
  BY <1>1 DEF Fills
<1>3. p \in [1..h -> S]
  BY <1>2 DEF IsTable
<1> QED BY <1>2, <1>3, SeqDef

\* So is a layer.
LEMMA LayerSeq ==
  ASSUME LaidOut, NEW l \in 0..Layers - 1
  PROVE  Layer(l) \in Seq(AllOps)
<1>1. Frag(Layer(l), 100 * l + 0, 100 * l + 100)
  BY DEF LaidOut, Part
<1>2. \A k \in Nat : Layer(l)[k] \in AllOps
  BY DEF AllOps
<1> QED BY <1>1, <1>2, FragSeq

\* One layer more.
LEMMA UpToNext ==
  ASSUME LaidOut, NEW i \in 0..Layers - 1
  PROVE  UpTo(i) \in Seq(Seq(AllOps)) /\ UpTo(i + 1) = Append(UpTo(i), Layer(i))
<1>0. i \in Nat /\ i + 1 \in Nat /\ Layers \in Nat
  BY DEF LaidOut
<1>1. UpTo(i) \in Seq(Seq(AllOps))
  <2>1. \A k \in 1..i : Layer(k - 1) \in Seq(AllOps)
    <3>1. \A k \in 1..i : k - 1 \in 0..Layers - 1
      BY <1>0
    <3> QED BY <3>1, LayerSeq
  <2>2. UpTo(i) \in [1..i -> Seq(AllOps)]
    BY <2>1 DEF UpTo
  <2> QED BY <1>0, <2>2, SeqDef
<1>2. UpTo(i + 1) = Append(UpTo(i), Layer(i))
  <2>1. IsTable(UpTo(i), i) /\ IsTable(UpTo(i + 1), i + 1)
    BY DEF IsTable, UpTo
  <2>2. \A t \in 1..i : UpTo(i + 1)[t] = UpTo(i)[t]
    BY <1>0 DEF UpTo
  <2>3. UpTo(i + 1)[i + 1] = Layer(i)
    <3>1. i + 1 \in 1..i + 1 /\ i + 1 - 1 = i
      BY <1>0
    <3> QED BY <3>1 DEF UpTo
  <2> QED BY <1>0, <2>1, <2>2, <2>3, AppendTable
<1> QED BY <1>1, <1>2

\* No layer makes no step.
LEMMA FragNone == Frag(<< >>, 0, 0)
<1> DEFINE p == << >>
<1>6. PICK h \in Nat : h = 0
  OBVIOUS
<1>1. IsTable(p, h) /\ \A k \in 1..h : FALSE
  BY <1>6 DEF IsTable
<1> HIDE DEF p
<1>2. PICK z \in Int : z = 0
  OBVIOUS
<1>3. PICK f : f = <<0>>
  OBVIOUS
<1>4. \A k \in 1..h : f[k] \in Step /\ LabelOK(p[k], f[k][1], f[k][2]) /\ OrderKey(f[k]) \in z..z - 1
  BY <1>1
<1>5. \A i, k \in 1..h : i < k => OrderKey(f[i]) < OrderKey(f[k])
  BY <1>1
<1>7. \A t \in Step : Happens(t[1], t[2]) /\ OrderKey(t) \in z..z - 1 => \E k \in 1..h : f[k] = t
  BY <1>2
<1>8. Fills(p, f, h, z, z)
  BY <1>1, <1>4, <1>5, <1>7 DEF Fills
<1>9. Frag(p, z, z)
  BY <1>8 DEF Frag
<1> QED BY <1>2, <1>9 DEF p

\* The layers do their steps in order ...
LEMMA LayersFrag ==
  ASSUME LaidOut
  PROVE  Frag(FlattenSeq(UpTo(Layers)), 0, 100 * Layers)
<1>0. Layers \in Nat
  BY DEF LaidOut
<1> DEFINE T == {i \in 0..Layers : ~Frag(FlattenSeq(UpTo(i)), 0, 100 * i)}
<1>1. SUFFICES T = {}
  BY <1>0
<1>2. SUFFICES ASSUME T # {} PROVE FALSE
  OBVIOUS
<1>3. T \subseteq Nat
  BY <1>0
<1>4. PICK m \in T : \A i \in T : m <= i
  BY <1>2, <1>3, LeastElement
<1>5. m \in 0..Layers /\ ~Frag(FlattenSeq(UpTo(m)), 0, 100 * m)
  BY <1>4
<1>6. CASE m = 0
  <2>1. UpTo(0) = << >>
    BY DEF UpTo
  <2>2. Frag(FlattenSeq(UpTo(m)), 0, 0)
    BY <1>6, <2>1, FlattenEmpty, FragNone
  <2>3. 100 * m = 0
    BY <1>6
  <2> QED BY <1>5, <2>2, <2>3
<1>7. CASE m # 0
  <2>1. PICK i \in 0..Layers - 1 : m = i + 1
    <3>1. m - 1 \in 0..Layers - 1 /\ m = m - 1 + 1
      BY <1>0, <1>5, <1>7
    <3> QED BY <3>1
  <2>2. Frag(FlattenSeq(UpTo(i)), 0, 100 * i)
    <3>1. i \notin T /\ i \in 0..Layers
      BY <1>0, <1>4, <2>1
    <3> QED BY <3>1
  <2>3. UpTo(i) \in Seq(Seq(AllOps)) /\ UpTo(i + 1) = Append(UpTo(i), Layer(i)) /\ Layer(i) \in Seq(AllOps)
    BY UpToNext, LayerSeq
  <2>4. FlattenSeq(UpTo(i + 1)) = FlattenSeq(UpTo(i)) \o Layer(i)
    BY <2>3, FlattenAppend
  <2>5. Frag(Layer(i), 100 * i + 0, 100 * i + 100)
    BY DEF LaidOut, Part
  <2>6. PICK z \in Int, y \in Int, x \in Int : z = 0 /\ y = 100 * i /\ x = 100 * m
    BY <1>5
  <2>7. 100 * i + 0 = y /\ 100 * i + 100 = x /\ z <= y /\ y <= x
    BY <2>1, <2>6
  <2>8. Frag(FlattenSeq(UpTo(i)), z, y) /\ Frag(Layer(i), y, x)
    BY <2>2, <2>5, <2>6, <2>7
  <2>9. Frag(FlattenSeq(UpTo(i)) \o Layer(i), z, x)
    BY <2>7, <2>8, Join
  <2> QED BY <1>5, <2>1, <2>4, <2>6, <2>9
<1> QED BY <1>6, <1>7

\* ... and so does the program.
LEMMA ProgramFrag ==
  ASSUME LaidOut
  PROVE  Frag(Program, 0, 100 * Layers + 100)
<1>0. Layers \in Nat /\ Frag(FinalOps, 100 * Layers + 0, 100 * Layers + 100)
  BY DEF LaidOut, Part
<1>1. PICK z \in Int, y \in Int, x \in Int : z = 0 /\ y = 100 * Layers /\ x = 100 * Layers + 100
  BY <1>0
<1>2. z <= y /\ y <= x /\ 100 * Layers + 0 = y
  BY <1>0, <1>1
<1>3. Frag(FlattenSeq(UpTo(Layers)), z, y)
  BY <1>1, LayersFrag
<1>4. Frag(FinalOps, y, x)
  BY <1>0, <1>1, <1>2
<1>5. Frag(FlattenSeq(UpTo(Layers)) \o FinalOps, z, x)
  BY <1>2, <1>3, <1>4, Join
<1>6. Program = FlattenSeq(UpTo(Layers)) \o FinalOps
  BY DEF Program, UpTo
<1> QED BY <1>1, <1>5, <1>6

\* The program is labelled with the steps of the pass, in their order, each once.
LEMMA ProgramLabelled ==
  ASSUME LaidOut
  PROVE  \E lab, h : /\ h \in Nat /\ IsTable(Program, h) /\ Labelled(Program, lab)
                     /\ \A k \in DOMAIN Program : lab[k] \in (0..Layers) \X (0..46)
<1>0. Layers \in Nat
  BY DEF LaidOut
<1>a. PICK z \in Int, top \in Int : z = 0 /\ top = 100 * Layers + 100
  BY <1>0
<1>b. Frag(Program, z, top)
  BY <1>a, ProgramFrag
<1>1. PICK lab, h : Fills(Program, lab, h, z, top)
  BY <1>b DEF Frag
<1>2. h \in Nat /\ IsTable(Program, h) /\ DOMAIN Program = 1..h
  BY <1>1 DEF Fills, IsTable
<1>3. ASSUME NEW k \in 1..h
      PROVE  /\ lab[k] = <<lab[k][1], lab[k][2]>> /\ lab[k][1] \in 0..Layers /\ lab[k][2] \in 0..46
             /\ LabelOK(Program[k], lab[k][1], lab[k][2])
             /\ OrderKey(lab[k]) = 100 * lab[k][1] + lab[k][2]
  <2>1. lab[k] \in Step /\ LabelOK(Program[k], lab[k][1], lab[k][2])
    BY <1>1 DEF Fills
  <2>2. Happens(lab[k][1], lab[k][2])
    BY <2>1 DEF LabelOK, Happens
  <2>3. lab[k] = <<lab[k][1], lab[k][2]>>
    BY <2>1 DEF Step
  <2> QED BY <1>0, <2>1, <2>2, <2>3, HappensOnly DEF OrderKey
<1>4. ASSUME NEW i \in 1..h, NEW k \in 1..h, i < k PROVE Earlier(lab[i], lab[k])
  <2>1. OrderKey(lab[i]) < OrderKey(lab[k])
    BY <1>1, <1>4 DEF Fills
  <2>2. PICK a \in 0..Layers, b \in 0..46, c \in 0..Layers, d \in 0..46 :
          a = lab[i][1] /\ b = lab[i][2] /\ c = lab[k][1] /\ d = lab[k][2]
    BY <1>3
  <2>3. 100 * a + b < 100 * c + d
    BY <1>3, <2>1, <2>2
  <2>4. a < c \/ (a = c /\ b < d)
    BY <1>0, <2>3
  <2> QED BY <2>2, <2>4 DEF Earlier
<1>5. ASSUME NEW l, NEW n, Happens(l, n) PROVE \E k \in 1..h : lab[k] = <<l, n>>
  <2>1. l \in 0..Layers /\ n \in 0..46
    BY <1>0, <1>5, HappensOnly
  <2>2. PICK t : t = <<l, n>>
    OBVIOUS
  <2>3. t \in Step /\ t[1] = l /\ t[2] = n
    BY <1>0, <2>1, <2>2 DEF Step
  <2>4. OrderKey(t) \in z..top - 1
    BY <1>0, <1>a, <2>1, <2>3 DEF OrderKey
  <2>5. \A u \in Step : Happens(u[1], u[2]) /\ OrderKey(u) \in z..top - 1 => \E k \in 1..h : lab[k] = u
    BY <1>1 DEF Fills
  <2>6. Happens(t[1], t[2])
    BY <1>5, <2>3
  <2>7. \E k \in 1..h : lab[k] = t
    BY <2>3, <2>4, <2>5, <2>6, Zenon
  <2> QED BY <2>2, <2>7
<1>7. ASSUME NEW k \in 1..h PROVE lab[k] \in (0..Layers) \X (0..46) /\ lab[k] \in Int \X Int
  <2>1. PICK a \in 0..Layers, b \in 0..46 : lab[k] = <<a, b>>
    BY <1>3
  <2>2. a \in Int /\ b \in Int
    BY <1>0
  <2> QED BY <2>1, <2>2
<1>8. \A i, k \in DOMAIN Program : i < k => Earlier(lab[i], lab[k])
  BY <1>2, <1>4
<1>9. \A l, n : Occurs(l, n) \/ Fence(l, n) => \E k \in DOMAIN Program : lab[k] = <<l, n>>
  BY <1>2, <1>5 DEF Happens
<1>10. \A k \in DOMAIN Program : lab[k] \in Int \X Int /\ LabelOK(Program[k], lab[k][1], lab[k][2])
  BY <1>2, <1>3, <1>7
<1>6. Labelled(Program, lab)
  BY <1>2, <1>8, <1>9, <1>10 DEF Labelled
<1> QED BY <1>2, <1>6, <1>7

\* The engines there are.
KnownEngine ==
  /\ engine.name \in {"cpu", "float", "gemma", "cuda", "prefill", "metal", "conformance"}
  /\ engine.name = "prefill" => engine.regime = 3
  /\ engine.name \in {"float", "gemma", "conformance"} => engine.regime # 3

\* What the engine checked before it runs a pass.
EngineReady ==
  /\ engine.name \in {"cuda", "prefill"} => \A w \in Uploaded : Ported(w)
  /\ ~Quantized => /\ \A l \in 0..Layers - 1 : SlicesAre(l)
                   /\ ArrayHolds(file.header, "rms_final") = FinalNorm /\ BlobHead(file.header) = Classifier

\* Every engine, on the files it is for, does the steps of every layer and of the head.
LEMMA AllLaidOut ==
  ASSUME Layers \in Nat, KnownEngine, EngineReady, InScope
  PROVE  LaidOut
<1>1. CASE engine.name = "cpu"
  <2>1. FinalOps = QuantizedHead /\ \A l : Layer(l) = QuantizedLayer(l)
    BY <1>1 DEF FinalOps, Layer
  <2> QED BY <1>1, <2>1, CpuLayer, CpuHead DEF LaidOut
<1>2. CASE engine.name \in {"float", "gemma"}
  <2>0. ~Quantized /\ engine.regime # 3
    BY <1>2 DEF Quantized, KnownEngine
  <2>1. PICK norm, act : norm = Norm /\ act = Act
    OBVIOUS
  <2>2. FinalOps = FloatHead(norm) /\ \A l : Layer(l) = FloatLayer(l, norm, act)
    <3>1. CASE engine.name = "float"
      <4>1. norm = LlamaNorm /\ act = "silu"
        BY <2>1, <3>1 DEF Norm, Act, LlamaNorm
      <4> QED BY <3>1, <4>1 DEF FinalOps, Layer
    <3>2. CASE engine.name = "gemma"
      <4>1. norm = GemmaNorm /\ act = "gelu"
        BY <2>1, <3>2 DEF Norm, Act, GemmaNorm
      <4> QED BY <3>2, <4>1 DEF FinalOps, Layer, GemmaLayer, GemmaHead
    <3> QED BY <1>2, <3>1, <3>2
  <2>3. /\ \A l \in 0..Layers - 1 : SlicesAre(l)
        /\ ArrayHolds(file.header, "rms_final") = FinalNorm /\ BlobHead(file.header) = Classifier
    BY <2>0 DEF EngineReady
  <2> QED BY <1>2, <2>0, <2>1, <2>2, <2>3, FloatParts DEF LaidOut
<1>3. CASE engine.name = "prefill" /\ base = 0
  <2>1. FinalOps = PrefillHead /\ \A l : Layer(l) = PrefillLayer(l)
    BY <1>3 DEF FinalOps, Layer
  <2>2. engine.regime = 3 /\ \A w \in Uploaded : Ported(w)
    BY <1>3 DEF KnownEngine, EngineReady
  <2> QED BY <1>3, <2>1, <2>2, PrefillLayerPart, PrefillHeadPart DEF LaidOut
<1>4. CASE engine.name \in {"cuda", "prefill"} /\ (engine.name = "cuda" \/ base # 0)
  <2>1. FinalOps = CudaHead /\ \A l : Layer(l) = CudaLayer(l)
    BY <1>4 DEF FinalOps, Layer
  <2>2. \A w \in Uploaded : Ported(w)
    BY <1>4 DEF EngineReady
  <2> QED BY <1>4, <2>1, <2>2, CudaLayerPart, CudaHeadPart DEF LaidOut
<1>5. CASE engine.name = "metal"
  <2>1. FinalOps = MetalHead /\ \A l : Layer(l) = MetalLayer(l)
    BY <1>5 DEF FinalOps, Layer
  <2>2. AllOrNoBias /\ \A w \in Uploaded : Ported(w)
    BY <1>5 DEF InScope, ForMetal
  <2> QED BY <1>5, <2>1, <2>2, MetalLayerPart, MetalHeadPart DEF LaidOut
<1>6. CASE engine.name = "conformance"
  <2>1. FinalOps = ConformanceHead /\ \A l : Layer(l) = ConformanceLayer(l)
    BY <1>6 DEF FinalOps, Layer
  <2>2. /\ ~Neox(file) /\ \A w \in Uploaded : file.dtype[w] \in {"Q4_K", "Q6_K"}
        /\ \A l \in 0..Layers - 1, s \in DOMAIN Biases : ~HasBias(s, l)
        /\ engine.regime # 3
    BY <1>6 DEF InScope, ForConformance, KnownEngine
  <2> QED BY <1>6, <2>1, <2>2, ConformanceParts DEF LaidOut
<1> QED BY <1>1, <1>2, <1>3, <1>4, <1>5, <1>6 DEF KnownEngine

-----------------------------------------------------------------------------
(* The order of the operations: Metal's barriers keep every step after     *)
(* those it depends on.                                                    *)

\* An earlier step has the earlier place.
LEMMA BeforeIs ==
  ASSUME NEW p, NEW lab, Labelled(p, lab), NEW x \in DOMAIN p, NEW k \in DOMAIN p, Earlier(lab[x], lab[k])
  PROVE  x \in 1..k - 1
<1>1. PICK h \in Nat : DOMAIN p = 1..h
  BY DEF Labelled
<1>2. lab[x] \in Int \X Int /\ lab[k] \in Int \X Int
  BY DEF Labelled
<1>3. ~Earlier(lab[k], lab[x]) /\ lab[x] # lab[k]
  BY <1>2 DEF Earlier
<1>4. k < x => Earlier(lab[k], lab[x])
  BY DEF Labelled
<1> QED BY <1>1, <1>3, <1>4

\* What must come before is an earlier step.
LEMMA PreEarlier ==
  ASSUME NEW l, NEW n, NEW m, NEW j, Pre(l, n, m, j)
  PROVE  Earlier(<<l, n>>, <<m, j>>)
BY DEF Pre, Earlier

\* Where operations run in their order, steps follow one another.
LEMMA ChainedPlain ==
  ASSUME ~Metal, NEW p, NEW lab, Labelled(p, lab)
  PROVE  Chained(p, lab)
<1>1. ASSUME NEW x \in DOMAIN p, NEW k \in DOMAIN p, ~Fenced(p[x]), ~Fenced(p[k]),
             Pre(lab[x][1], lab[x][2], lab[k][1], lab[k][2])
      PROVE  Precedes(p, Metal, x, k)
  <2>1. x \in 1..k - 1
    <3>1. lab[x] = <<lab[x][1], lab[x][2]>> /\ lab[k] = <<lab[k][1], lab[k][2]>>
      BY DEF Labelled
    <3>2. Earlier(lab[x], lab[k])
      BY <1>1, <3>1, PreEarlier
    <3> QED BY <3>2, BeforeIs
  <2>2. OrderedIn(p, Metal, x, k)
    BY DEF OrderedIn
  <2>3. k # 0
    BY DEF Labelled
  <2> QED BY <1>1, <2>1, <2>2, <2>3 DEF Precedes, Closed
<1> QED BY <1>1 DEF Chained

\* A barrier that names what both access orders two operations.
LEMMA FencedOff ==
  ASSUME NEW p, NEW lab, Labelled(p, lab), NEW x \in DOMAIN p, NEW y \in DOMAIN p, NEW k \in DOMAIN p,
         Earlier(lab[x], lab[y]), Earlier(lab[y], lab[k]), ~Fenced(p[k]), Fenced(p[y]),
         NEW b \in p[y].outs, b \in AccessesOf(p[x]), b \in AccessesOf(p[k])
  PROVE  Precedes(p, Metal, x, k)
<1>1. x \in 1..y - 1
  BY BeforeIs
<1>2. y \in 1..k - 1
  BY BeforeIs
<1>3. PICK h \in Nat : DOMAIN p = 1..h
  BY DEF Labelled
<1>4. y \in x + 1..k - 1 /\ x \in 1..k - 1 /\ k # 0
  BY <1>1, <1>2, <1>3
<1>5. OrderedIn(p, Metal, x, k)
  BY <1>4 DEF OrderedIn
<1> QED BY <1>4, <1>5 DEF Precedes, Closed

\* Order is transitive.
LEMMA PrecedesOn ==
  ASSUME NEW p, NEW m, NEW x, NEW y, NEW k, Precedes(p, m, x, y), Precedes(p, m, y, k), y # 0
  PROVE  Precedes(p, m, x, k)
BY DEF Precedes

(* The barriers of Metal: step n leaves or reads b, fence c names it, step *)
\* j reads or overwrites it.
Edge(l, n, c, b, j) ==
  \/ n = 0 /\ c = 1 /\ b = Xb /\ j \in {2, 6, 10}
  \/ n = 0 /\ c = 1 /\ b = Xb /\ j \in {4, 8, 12} /\ ~Split(LinWeight(l, j))
  \/ n = j - 2 /\ c = j - 1 /\ b = B("dx") /\ j \in Dots /\ Split(LinWeight(l, j))
  \/ n = 4 /\ c = 14 /\ b = Q /\ j = 15
  \/ n = 8 /\ c = 14 /\ b = Keys(l) /\ j = 16
  \/ n = 12 /\ c = 14 /\ b = Values(l) /\ j = 17
  \/ n = 15 /\ c = 18 /\ b = Q /\ j = 21 /\ HasBias("bq", l)
  \/ n = 4 /\ c = 14 /\ b = Q /\ j = 21
  \/ n = 16 /\ c = 18 /\ b = Keys(l) /\ j = 22 /\ HasBias("bq", l)
  \/ n = 8 /\ c = 14 /\ b = Keys(l) /\ j = 22
  \/ n = 21 /\ c = 23 /\ b = Q /\ j = 24
  \/ n = 22 /\ c = 23 /\ b = Keys(l) /\ j = 24
  \/ n = 17 /\ c = 18 /\ b = Values(l) /\ j = 24 /\ HasBias("bq", l)
  \/ n = 12 /\ c = 14 /\ b = Values(l) /\ j = 24
  \/ n = 24 /\ c = 25 /\ b = Att /\ j = 26
  \/ n = 24 /\ c = 25 /\ b = Att /\ j = 28 /\ ~Split(LinWeight(l, j))
  \/ n = 28 /\ c = 30 /\ b = X /\ j = 31
  \/ n = 31 /\ c = 32 /\ b = Xb /\ j \in {33, 36}
  \/ n = 31 /\ c = 32 /\ b = Xb /\ j \in {35, 38} /\ ~Split(LinWeight(l, j))
  \/ n = 35 /\ c = 39 /\ b = B("gate") /\ j = 40
  \/ n = 38 /\ c = 39 /\ b = B("up") /\ j = 40
  \/ n = 40 /\ c = 41 /\ b = B("inner") /\ j = 42
  \/ n = 40 /\ c = 41 /\ b = B("inner") /\ j = 44 /\ ~Split(LinWeight(l, j))

\* The barrier of an edge is there, between its two steps.
LEMMA EdgeFence ==
  ASSUME Layers \in Nat, Metal, NEW l, NEW n, NEW c, NEW b, NEW j, Edge(l, n, c, b, j),
         l \in 0..Layers - 1 \/ (l = Layers /\ j \in {2, 4})
  PROVE  Fence(l, c) /\ b \in FenceOuts(l, c) /\ n < c /\ c < j /\ c \notin Codes
<1>1. CASE n = 0 /\ c = 1 /\ b = Xb /\ j \in {2, 6, 10}
  BY <1>1 DEF Fence, FenceOuts, Codes
<1>2. CASE n = 0 /\ c = 1 /\ b = Xb /\ j \in {4, 8, 12} /\ ~Split(LinWeight(l, j))
  BY <1>2 DEF Fence, FenceOuts, Codes
<1>3. CASE n = j - 2 /\ c = j - 1 /\ b = B("dx") /\ j \in Dots /\ Split(LinWeight(l, j))
  <2>1. n \in Quants /\ LinWeight(l, n) = LinWeight(l, j) /\ c = n + 1 /\ c - 1 = n /\ n < c /\ c < j
    BY <1>3, WeightTwo DEF Dots, Quants
  <2>2. Fence(l, c)
    BY <1>3, <2>1 DEF Fence
  <2>3. FenceOuts(l, c) = {B("dx")}
    BY <1>3 DEF Dots, FenceOuts
  <2>4. c \notin Codes
    BY <1>3 DEF Dots, Codes
  <2> QED BY <1>3, <2>1, <2>2, <2>3, <2>4
<1>4. CASE n = 4 /\ c = 14 /\ b = Q /\ j = 15
  BY <1>4 DEF Fence, FenceOuts, Codes
<1>5. CASE n = 8 /\ c = 14 /\ b = Keys(l) /\ j = 16
  BY <1>5 DEF Fence, FenceOuts, Codes
<1>6. CASE n = 12 /\ c = 14 /\ b = Values(l) /\ j = 17
  BY <1>6 DEF Fence, FenceOuts, Codes
<1>7. CASE n = 15 /\ c = 18 /\ b = Q /\ j = 21 /\ HasBias("bq", l)
  BY <1>7 DEF Fence, FenceOuts, Codes
<1>8. CASE n = 4 /\ c = 14 /\ b = Q /\ j = 21
  BY <1>8 DEF Fence, FenceOuts, Codes
<1>9. CASE n = 16 /\ c = 18 /\ b = Keys(l) /\ j = 22 /\ HasBias("bq", l)
  BY <1>9 DEF Fence, FenceOuts, Codes
<1>10. CASE n = 8 /\ c = 14 /\ b = Keys(l) /\ j = 22
  BY <1>10 DEF Fence, FenceOuts, Codes
<1>11. CASE n = 21 /\ c = 23 /\ b = Q /\ j = 24
  BY <1>11 DEF Fence, FenceOuts, Codes
<1>12. CASE n = 22 /\ c = 23 /\ b = Keys(l) /\ j = 24
  BY <1>12 DEF Fence, FenceOuts, Codes
<1>13. CASE n = 17 /\ c = 18 /\ b = Values(l) /\ j = 24 /\ HasBias("bq", l)
  BY <1>13 DEF Fence, FenceOuts, Codes
<1>14. CASE n = 12 /\ c = 14 /\ b = Values(l) /\ j = 24
  BY <1>14 DEF Fence, FenceOuts, Codes
<1>15. CASE n = 24 /\ c = 25 /\ b = Att /\ j = 26
  BY <1>15 DEF Fence, FenceOuts, Codes
<1>16. CASE n = 24 /\ c = 25 /\ b = Att /\ j = 28 /\ ~Split(LinWeight(l, j))
  BY <1>16 DEF Fence, FenceOuts, Codes
<1>17. CASE n = 28 /\ c = 30 /\ b = X /\ j = 31
  BY <1>17 DEF Fence, FenceOuts, Codes
<1>18. CASE n = 31 /\ c = 32 /\ b = Xb /\ j \in {33, 36}
  BY <1>18 DEF Fence, FenceOuts, Codes
<1>19. CASE n = 31 /\ c = 32 /\ b = Xb /\ j \in {35, 38} /\ ~Split(LinWeight(l, j))
  BY <1>19 DEF Fence, FenceOuts, Codes
<1>20. CASE n = 35 /\ c = 39 /\ b = B("gate") /\ j = 40
  BY <1>20 DEF Fence, FenceOuts, Codes
<1>21. CASE n = 38 /\ c = 39 /\ b = B("up") /\ j = 40
  BY <1>21 DEF Fence, FenceOuts, Codes
<1>22. CASE n = 40 /\ c = 41 /\ b = B("inner") /\ j = 42
  BY <1>22 DEF Fence, FenceOuts, Codes
<1>23. CASE n = 40 /\ c = 41 /\ b = B("inner") /\ j = 44 /\ ~Split(LinWeight(l, j))
  BY <1>23 DEF Fence, FenceOuts, Codes
<1> QED BY <1>1, <1>2, <1>3, <1>4, <1>5, <1>6, <1>7, <1>8, <1>9, <1>10, <1>11, <1>12, <1>13, <1>14, <1>15, <1>16, <1>17, <1>18, <1>19, <1>20, <1>21, <1>22, <1>23 DEF Edge

\* An operation accesses what it writes ...
LEMMA OutAccessed ==
  ASSUME NEW o, NEW b, b \in o.outs
  PROVE  b \in AccessesOf(o)
BY DEF AccessesOf

\* ... its operand ...
LEMMA InAccessed ==
  ASSUME NEW o, NEW b, o.ins = <<b>>
  PROVE  b \in AccessesOf(o)
<1>1. 1 \in DOMAIN o.ins /\ o.ins[1] = b
  OBVIOUS
<1> QED BY <1>1 DEF AccessesOf

\* ... the scratch it is given ...
LEMMA DxAccessed ==
  ASSUME NEW o, NEW b, NEW c, o.ins = <<B("dx"), b>> \/ o.ins = <<B("dx"), b, c>>
  PROVE  B("dx") \in AccessesOf(o)
<1> DEFINE a == B("dx")
<1>1. a = B("dx")
  OBVIOUS
<1>2. o.ins = <<a, b>> \/ o.ins = <<a, b, c>>
  OBVIOUS
<1> HIDE DEF a
<1>3. 1 \in DOMAIN o.ins /\ o.ins[1] = a
  BY <1>2
<1> QED BY <1>1, <1>3 DEF AccessesOf

\* ... each of three operands ...
LEMMA ThreeAccessed ==
  ASSUME NEW o, NEW a, NEW b, NEW c, o.ins = <<a, b, c>>
  PROVE  a \in AccessesOf(o) /\ b \in AccessesOf(o) /\ c \in AccessesOf(o)
<1>1. {1, 2, 3} \subseteq DOMAIN o.ins /\ o.ins[1] = a /\ o.ins[2] = b /\ o.ins[3] = c
  OBVIOUS
<1> QED BY <1>1 DEF AccessesOf

\* ... and each of two.
LEMMA TwoAccessed ==
  ASSUME NEW o, NEW a, NEW b, o.ins = <<a, b>>
  PROVE  a \in AccessesOf(o) /\ b \in AccessesOf(o)
<1>1. {1, 2} \subseteq DOMAIN o.ins /\ o.ins[1] = a /\ o.ins[2] = b
  OBVIOUS
<1> QED BY <1>1 DEF AccessesOf

\* What a step writes and reads.
LEMMA StepAccesses ==
  ASSUME Metal, NEW o, NEW l, NEW n, IsAt(o, l, n)
  PROVE  /\ n = 0 => Xb \in AccessesOf(o) /\ X \in AccessesOf(o)
         /\ n = 31 => Xb \in AccessesOf(o) /\ X \in AccessesOf(o)
         /\ n \in Quants => From(l, n) \in AccessesOf(o) /\ B("dx") \in AccessesOf(o)
         /\ n \in Dots => /\ OutBuf(l, n) \in AccessesOf(o)
                          /\ ~Split(LinWeight(l, n)) => From(l, n) \in AccessesOf(o)
                          /\ Split(LinWeight(l, n)) => B("dx") \in AccessesOf(o)
         /\ n = 15 => Q \in AccessesOf(o)
         /\ n = 16 => Keys(l) \in AccessesOf(o)
         /\ n = 17 => Values(l) \in AccessesOf(o)
         /\ n = 21 => Q \in AccessesOf(o)
         /\ n = 22 => Keys(l) \in AccessesOf(o)
         /\ n = 24 => {Q, Keys(l), Values(l), Att} \subseteq AccessesOf(o)
         /\ n = 40 => {B("gate"), B("up"), B("inner")} \subseteq AccessesOf(o)
<1>h. ~Host /\ KeysOf(l) = Keys(l) /\ ValuesOf(l) = Values(l)
  BY DEF Metal, Host, KeysOf, ValuesOf
<1>1. ASSUME n \in {0, 31}
      PROVE  Xb \in AccessesOf(o) /\ X \in AccessesOf(o)
  <2>1. o.ins = <<X>> /\ o.outs = {Xb}
    BY <1>1 DEF IsAt, OpIs
  <2> QED BY <2>1, InAccessed, OutAccessed
<1>2. ASSUME n \in Quants
      PROVE  From(l, n) \in AccessesOf(o) /\ B("dx") \in AccessesOf(o)
  <2>1. o.ins = <<From(l, n)>> /\ o.outs \in {Scratch, {B("dx"), B("qs")}}
    BY <1>2 DEF IsAt, OpIs
  <2>2. B("dx") \in o.outs
    BY <2>1 DEF Scratch
  <2> QED BY <2>1, <2>2, InAccessed, OutAccessed
<1>3. ASSUME n \in Dots
      PROVE  /\ OutBuf(l, n) \in AccessesOf(o)
             /\ ~Split(LinWeight(l, n)) => From(l, n) \in AccessesOf(o)
             /\ Split(LinWeight(l, n)) => B("dx") \in AccessesOf(o)
  <2>1. o.ins = Ins(l, n) /\ o.outs = {OutBuf(l, n)}
    BY <1>3 DEF IsAt, OpIs
  <2>2. ASSUME ~Split(LinWeight(l, n))
        PROVE  From(l, n) \in AccessesOf(o)
    BY <2>1, <2>2, InAccessed DEF Ins
  <2>3. ASSUME Split(LinWeight(l, n))
        PROVE  B("dx") \in AccessesOf(o)
    <3>1. o.ins = <<B("dx"), B("qs")>> \/ o.ins = <<B("dx"), B("qs"), B("bs")>>
      BY <2>1, <2>3 DEF Ins
    <3>2. PICK b, c : b = B("qs") /\ c = B("bs")
      OBVIOUS
    <3>3. o.ins = <<B("dx"), b>> \/ o.ins = <<B("dx"), b, c>>
      BY <3>1, <3>2
    <3> QED BY <3>3, DxAccessed
  <2> QED BY <2>1, <2>2, <2>3, OutAccessed
<1>4. (n = 15 => o.outs = {Q}) /\ (n = 16 => o.outs = {Keys(l)}) /\ (n = 17 => o.outs = {Values(l)})
      /\ (n = 21 => o.outs = {Q}) /\ (n = 22 => o.outs = {Keys(l)})
  BY <1>h DEF IsAt, OpIs
<1>5. ASSUME n = 24
      PROVE  {Q, Keys(l), Values(l), Att} \subseteq AccessesOf(o)
  <2>1. o.ins = <<Q, Keys(l), Values(l)>> /\ o.outs = {Att}
    BY <1>5 DEF IsAt, OpIs
  <2> QED BY <2>1, ThreeAccessed, OutAccessed
<1>6. ASSUME n = 40
      PROVE  {B("gate"), B("up"), B("inner")} \subseteq AccessesOf(o)
  <2>1. o.ins = <<B("gate"), B("up")>> /\ o.outs = {B("inner")}
    BY <1>6 DEF IsAt, OpIs
  <2> QED BY <2>1, TwoAccessed, OutAccessed
<1> QED BY <1>1, <1>2, <1>3, <1>4, <1>5, <1>6, OutAccessed

\* Both steps of an edge access the buffer its barrier names.
LEMMA EdgeTouches ==
  ASSUME Layers \in Nat, Metal, NEW l, NEW n, NEW c, NEW b, NEW j, Edge(l, n, c, b, j), Occurs(l, j), Occurs(l, n),
         l \in 0..Layers - 1 \/ (l = Layers /\ j \in {2, 4}),
         NEW o, IsAt(o, l, n), NEW q, IsAt(q, l, j)
  PROVE  b \in AccessesOf(o) /\ b \in AccessesOf(q)
<1>h. ~Host /\ KeysOf(l) = Keys(l) /\ ValuesOf(l) = Values(l)
  BY DEF Metal, Host, KeysOf, ValuesOf
<1>o. /\ n = 0 => Xb \in AccessesOf(o)
      /\ n = 31 => Xb \in AccessesOf(o)
      /\ n \in Quants => B("dx") \in AccessesOf(o)
      /\ n \in Dots => OutBuf(l, n) \in AccessesOf(o)
      /\ n = 15 => Q \in AccessesOf(o)
      /\ n = 16 => Keys(l) \in AccessesOf(o)
      /\ n = 17 => Values(l) \in AccessesOf(o)
      /\ n = 21 => Q \in AccessesOf(o)
      /\ n = 22 => Keys(l) \in AccessesOf(o)
      /\ n = 24 => {Q, Keys(l), Values(l), Att} \subseteq AccessesOf(o)
      /\ n = 40 => {B("gate"), B("up"), B("inner")} \subseteq AccessesOf(o)
  BY StepAccesses
<1>q. /\ j = 31 => X \in AccessesOf(q)
      /\ j \in Quants => From(l, j) \in AccessesOf(q)
      /\ j \in Dots => /\ ~Split(LinWeight(l, j)) => From(l, j) \in AccessesOf(q)
                       /\ Split(LinWeight(l, j)) => B("dx") \in AccessesOf(q)
      /\ j = 15 => Q \in AccessesOf(q)
      /\ j = 16 => Keys(l) \in AccessesOf(q)
      /\ j = 17 => Values(l) \in AccessesOf(q)
      /\ j = 21 => Q \in AccessesOf(q)
      /\ j = 22 => Keys(l) \in AccessesOf(q)
      /\ j = 24 => {Q, Keys(l), Values(l), Att} \subseteq AccessesOf(q)
      /\ j = 40 => {B("gate"), B("up"), B("inner")} \subseteq AccessesOf(q)
  BY StepAccesses
<1>l. l # Layers \/ (l = Layers /\ j \in {2, 4})
  OBVIOUS
<1>b. /\ OutBuf(l, 8) = Keys(l) /\ OutBuf(l, 12) = Values(l) /\ OutBuf(l, 28) = X
      /\ OutBuf(l, 35) = B("gate") /\ OutBuf(l, 38) = B("up")
      /\ l # Layers => OutBuf(l, 4) = Q
  BY <1>h, OutBufIs
<1>d. {4, 8, 12, 28, 35, 38, 44} = Dots /\ {2, 6, 10, 26, 33, 36, 42} = Quants
  BY DEF Dots, Quants
<1>e. j \in Dots => j - 2 \in Quants
  BY DEF Dots, Quants
<1>f. /\ j \in {2, 4, 6, 8, 10, 12, 33, 35, 36, 38} => From(l, j) = Xb
      /\ j \in {26, 28} => From(l, j) = Att
      /\ j \in {42, 44} => From(l, j) = B("inner")
  BY DEF From
<1>1. CASE n = 0 /\ c = 1 /\ b = Xb /\ j \in {2, 6, 10}
  BY <1>1, <1>o, <1>q, <1>l, <1>b, <1>d, <1>e, <1>f
<1>2. CASE n = 0 /\ c = 1 /\ b = Xb /\ j \in {4, 8, 12} /\ ~Split(LinWeight(l, j))
  BY <1>2, <1>o, <1>q, <1>l, <1>b, <1>d, <1>e, <1>f
<1>3. CASE n = j - 2 /\ c = j - 1 /\ b = B("dx") /\ j \in Dots /\ Split(LinWeight(l, j))
  BY <1>3, <1>o, <1>q, <1>l, <1>b, <1>d, <1>e, <1>f
<1>4. CASE n = 4 /\ c = 14 /\ b = Q /\ j = 15
  BY <1>4, <1>o, <1>q, <1>l, <1>b, <1>d, <1>e, <1>f
<1>5. CASE n = 8 /\ c = 14 /\ b = Keys(l) /\ j = 16
  BY <1>5, <1>o, <1>q, <1>l, <1>b, <1>d, <1>e, <1>f
<1>6. CASE n = 12 /\ c = 14 /\ b = Values(l) /\ j = 17
  BY <1>6, <1>o, <1>q, <1>l, <1>b, <1>d, <1>e, <1>f
<1>7. CASE n = 15 /\ c = 18 /\ b = Q /\ j = 21 /\ HasBias("bq", l)
  BY <1>7, <1>o, <1>q, <1>l, <1>b, <1>d, <1>e, <1>f
<1>8. CASE n = 4 /\ c = 14 /\ b = Q /\ j = 21
  BY <1>8, <1>o, <1>q, <1>l, <1>b, <1>d, <1>e, <1>f
<1>9. CASE n = 16 /\ c = 18 /\ b = Keys(l) /\ j = 22 /\ HasBias("bq", l)
  BY <1>9, <1>o, <1>q, <1>l, <1>b, <1>d, <1>e, <1>f
<1>10. CASE n = 8 /\ c = 14 /\ b = Keys(l) /\ j = 22
  BY <1>10, <1>o, <1>q, <1>l, <1>b, <1>d, <1>e, <1>f
<1>11. CASE n = 21 /\ c = 23 /\ b = Q /\ j = 24
  BY <1>11, <1>o, <1>q, <1>l, <1>b, <1>d, <1>e, <1>f
<1>12. CASE n = 22 /\ c = 23 /\ b = Keys(l) /\ j = 24
  BY <1>12, <1>o, <1>q, <1>l, <1>b, <1>d, <1>e, <1>f
<1>13. CASE n = 17 /\ c = 18 /\ b = Values(l) /\ j = 24 /\ HasBias("bq", l)
  BY <1>13, <1>o, <1>q, <1>l, <1>b, <1>d, <1>e, <1>f
<1>14. CASE n = 12 /\ c = 14 /\ b = Values(l) /\ j = 24
  BY <1>14, <1>o, <1>q, <1>l, <1>b, <1>d, <1>e, <1>f
<1>15. CASE n = 24 /\ c = 25 /\ b = Att /\ j = 26
  BY <1>15, <1>o, <1>q, <1>l, <1>b, <1>d, <1>e, <1>f
<1>16. CASE n = 24 /\ c = 25 /\ b = Att /\ j = 28 /\ ~Split(LinWeight(l, j))
  BY <1>16, <1>o, <1>q, <1>l, <1>b, <1>d, <1>e, <1>f
<1>17. CASE n = 28 /\ c = 30 /\ b = X /\ j = 31
  BY <1>17, <1>o, <1>q, <1>l, <1>b, <1>d, <1>e, <1>f
<1>18. CASE n = 31 /\ c = 32 /\ b = Xb /\ j \in {33, 36}
  BY <1>18, <1>o, <1>q, <1>l, <1>b, <1>d, <1>e, <1>f
<1>19. CASE n = 31 /\ c = 32 /\ b = Xb /\ j \in {35, 38} /\ ~Split(LinWeight(l, j))
  BY <1>19, <1>o, <1>q, <1>l, <1>b, <1>d, <1>e, <1>f
<1>20. CASE n = 35 /\ c = 39 /\ b = B("gate") /\ j = 40
  BY <1>20, <1>o, <1>q, <1>l, <1>b, <1>d, <1>e, <1>f
<1>21. CASE n = 38 /\ c = 39 /\ b = B("up") /\ j = 40
  BY <1>21, <1>o, <1>q, <1>l, <1>b, <1>d, <1>e, <1>f
<1>22. CASE n = 40 /\ c = 41 /\ b = B("inner") /\ j = 42
  BY <1>22, <1>o, <1>q, <1>l, <1>b, <1>d, <1>e, <1>f
<1>23. CASE n = 40 /\ c = 41 /\ b = B("inner") /\ j = 44 /\ ~Split(LinWeight(l, j))
  BY <1>23, <1>o, <1>q, <1>l, <1>b, <1>d, <1>e, <1>f
<1> QED BY <1>1, <1>2, <1>3, <1>4, <1>5, <1>6, <1>7, <1>8, <1>9, <1>10, <1>11, <1>12, <1>13, <1>14, <1>15, <1>16, <1>17, <1>18, <1>19, <1>20, <1>21, <1>22, <1>23 DEF Edge

\* Step i of layer a is, or must come before, the first step of an edge to step j.
Covered(l, j, a, i) ==
  \E n, c, b : Edge(l, n, c, b, j) /\ Occurs(l, n) /\ ((a = l /\ i = n) \/ Pre(a, i, l, n))

\* How a step is shown to be covered.
LEMMA CoveredBy ==
  ASSUME NEW l, NEW j, NEW a, NEW i, NEW n, NEW c, NEW b, Edge(l, n, c, b, j), Occurs(l, n),
         (a = l /\ i = n) \/ Pre(a, i, l, n)
  PROVE  Covered(l, j, a, i)
BY DEF Covered

\* The table of Track, as conditions.
LEMMA TrackIs ==
  ASSUME NEW n
  PROVE  Track(n) = IF n \in {2, 4, 5, 15, 21} THEN 1
                    ELSE IF n \in {6, 8, 9, 16, 19, 22} THEN 2
                    ELSE IF n \in {10, 12, 13, 17, 20} THEN 3
                    ELSE IF n \in {33, 35} THEN 4
                    ELSE IF n \in {36, 38} THEN 5 ELSE 0
BY DEF Track

\* The steps that may come before another within a layer.
LEMMA PreIs ==
  ASSUME NEW a \in Int, NEW l \in Int, NEW i \in Codes, NEW j \in Codes
  PROVE  Pre(a, i, l, j) <=> a < l \/ (a = l /\ i < j /\ ~(Track(i) # Track(j)
           /\ ((Track(i) \in {1, 2, 3} /\ Track(j) \in {1, 2, 3}) \/ (Track(i) \in {4, 5} /\ Track(j) \in {4, 5}))))
<1>1. Track(i) \in 0..5 /\ Track(j) \in 0..5
  BY DEF Track
<1> QED BY <1>1 DEF Pre, Apart

\* How one step is shown to come before another.
LEMMA PreBy ==
  ASSUME NEW a \in Int, NEW l \in Int, NEW i \in Codes, NEW n \in Codes,
         a < l \/ (a = l /\ i < n /\ ~(Track(i) # Track(n)
           /\ ((Track(i) \in {1, 2, 3} /\ Track(n) \in {1, 2, 3}) \/ (Track(i) \in {4, 5} /\ Track(n) \in {4, 5}))))
  PROVE  Pre(a, i, l, n)
BY PreIs

\* All that must come before a step but the first of a layer comes before an edge to it.
LEMMA EdgeCovers ==
  ASSUME Layers \in Nat, Metal, AllOrNoBias, NEW l, NEW j, Occurs(l, j), j # 0, NEW a, NEW i, Occurs(a, i), Pre(a, i, l, j)
  PROVE  Covered(l, j, a, i)
<1>h. ~Host
  BY DEF Metal, Host
<1>t. a \in 0..Layers /\ l \in 0..Layers /\ i \in Codes /\ j \in Codes /\ 0 \in Codes
  BY OccursCodes DEF Codes
<1>i. a \in Int /\ l \in Int
  BY <1>t
<1>w. j \in Dots => LinWeight(l, j - 2) = LinWeight(l, j)
  BY WeightTwo
<1>p. /\ j \notin {0, 2, 4} => l \in 0..Layers - 1 /\ l # Layers
      /\ j \notin {5, 9, 13, 19, 20, 29, 45}
      /\ i \notin {5, 9, 13, 19, 20, 29, 45}
      /\ j = 15 => HasBias("bq", l)
      /\ j = 16 => HasBias("bk", l)
      /\ j = 17 => HasBias("bv", l)
      /\ i = 15 => HasBias("bq", a)
      /\ i = 16 => HasBias("bk", a)
      /\ i = 17 => HasBias("bv", a)
  BY <1>h, StepFacts
<1>b. l # Layers => HasBias("bq", l) = HasBias("bk", l) /\ HasBias("bq", l) = HasBias("bv", l)
  BY <1>t DEF AllOrNoBias
<1>o. /\ l # Layers => \A n \in {0, 4, 8, 12, 21, 22, 24, 28, 31, 35, 38, 40, 44} : Occurs(l, n)
      /\ Occurs(l, 0)
      /\ l # Layers => (HasBias("bq", l) => Occurs(l, 15)) /\ (HasBias("bk", l) => Occurs(l, 16)) /\ (HasBias("bv", l) => Occurs(l, 17))
  BY <1>h, <1>t DEF Occurs
<1>s. /\ l = Layers => j \in {2, 4}
      /\ a = Layers => i \in {0, 2, 4}
      /\ j \in Quants => Split(LinWeight(l, j))
      /\ i \in Quants => Split(LinWeight(a, i))
  BY <1>t, <1>p DEF Occurs, Quants
<1>u. j \in Dots /\ a = l /\ i \in Quants /\ i = j - 2 => Split(LinWeight(l, j))
  BY <1>s, <1>w
<1>v. j = 0 \/ j \in {4, 8, 12, 21, 22, 24, 28, 31, 35, 38, 40, 44} \/ j \in {2, 6, 10, 26, 33, 36, 42, 15, 16, 17}
  BY <1>t, <1>p DEF Codes
<1>1. CASE j \in {2, 6, 10}
  <2> DEFINE n == 0
             c == 1
             b == Xb
  <2>1. Edge(l, n, c, b, j)
    BY <1>1 DEF Edge
  <2>2. n \in Codes
    BY DEF Codes
  <2>3. Occurs(l, n)
    BY <1>1, <1>o, <1>p, <1>b
  <2>4. (a = l /\ i = n) \/ Pre(a, i, l, n)
    <3>1. a < l \/ (a = l /\ i < j /\ ~(Track(i) # Track(j)
           /\ ((Track(i) \in {1, 2, 3} /\ Track(j) \in {1, 2, 3}) \/ (Track(i) \in {4, 5} /\ Track(j) \in {4, 5}))))
      BY <1>t, PreIs
    <3>2. a = l /\ i # n => i < n /\ ~(Track(i) # Track(n)
           /\ ((Track(i) \in {1, 2, 3} /\ Track(n) \in {1, 2, 3}) \/ (Track(i) \in {4, 5} /\ Track(n) \in {4, 5})))
      BY <1>1, <1>t, <1>p, <1>s, <1>b, <1>u, <3>1, TrackIs DEF Codes, Dots, Quants
    <3> HIDE DEF n
    <3>3. CASE a = l /\ i = n
      BY <3>3
    <3>4. CASE ~(a = l /\ i = n)
      BY <3>1, <3>2, <3>4, <2>2, <1>t, <1>i, PreBy
    <3> QED BY <3>3, <3>4
  <2> QED BY <2>1, <2>3, <2>4, CoveredBy
<1>2. CASE j \in {4, 8, 12} /\ ~Split(LinWeight(l, j))
  <2> DEFINE n == 0
             c == 1
             b == Xb
  <2>1. Edge(l, n, c, b, j)
    BY <1>2 DEF Edge
  <2>2. n \in Codes
    BY DEF Codes
  <2>3. Occurs(l, n)
    BY <1>2, <1>o, <1>p, <1>b
  <2>4. (a = l /\ i = n) \/ Pre(a, i, l, n)
    <3>1. a < l \/ (a = l /\ i < j /\ ~(Track(i) # Track(j)
           /\ ((Track(i) \in {1, 2, 3} /\ Track(j) \in {1, 2, 3}) \/ (Track(i) \in {4, 5} /\ Track(j) \in {4, 5}))))
      BY <1>t, PreIs
    <3>2. a = l /\ i # n => i < n /\ ~(Track(i) # Track(n)
           /\ ((Track(i) \in {1, 2, 3} /\ Track(n) \in {1, 2, 3}) \/ (Track(i) \in {4, 5} /\ Track(n) \in {4, 5})))
      BY <1>2, <1>t, <1>p, <1>s, <1>b, <1>u, <3>1, TrackIs DEF Codes, Dots, Quants
    <3> HIDE DEF n
    <3>3. CASE a = l /\ i = n
      BY <3>3
    <3>4. CASE ~(a = l /\ i = n)
      BY <3>1, <3>2, <3>4, <2>2, <1>t, <1>i, PreBy
    <3> QED BY <3>3, <3>4
  <2> QED BY <2>1, <2>3, <2>4, CoveredBy
<1>3. CASE j \in Dots /\ Split(LinWeight(l, j))
  <2> DEFINE n == j - 2
             c == j - 1
             b == B("dx")
  <2>1. Edge(l, n, c, b, j)
    BY <1>3 DEF Edge
  <2>2. n \in Quants /\ Split(LinWeight(l, n)) /\ n \in Codes
    BY <1>3, <1>w DEF Dots, Quants, Codes
  <2>3. Occurs(l, n)
    BY <1>3, <2>2, <1>t, <1>p DEF Occurs, Dots
  <2>4. (a = l /\ i = n) \/ Pre(a, i, l, n)
    <3>1. a < l \/ (a = l /\ i < j /\ ~(Track(i) # Track(j)
           /\ ((Track(i) \in {1, 2, 3} /\ Track(j) \in {1, 2, 3}) \/ (Track(i) \in {4, 5} /\ Track(j) \in {4, 5}))))
      BY <1>t, PreIs
    <3>2. a = l /\ i # n => i < n /\ ~(Track(i) # Track(n)
           /\ ((Track(i) \in {1, 2, 3} /\ Track(n) \in {1, 2, 3}) \/ (Track(i) \in {4, 5} /\ Track(n) \in {4, 5})))
      BY <1>3, <1>t, <1>p, <1>s, <1>b, <1>u, <3>1, TrackIs DEF Codes, Dots, Quants
    <3> HIDE DEF n
    <3>3. CASE a = l /\ i = n
      BY <3>3
    <3>4. CASE ~(a = l /\ i = n)
      BY <3>1, <3>2, <3>4, <2>2, <1>t, <1>i, PreBy
    <3> QED BY <3>3, <3>4
  <2> QED BY <2>1, <2>3, <2>4, CoveredBy
<1>4. CASE j = 15
  <2> DEFINE n == 4
             c == 14
             b == Q
  <2>1. Edge(l, n, c, b, j)
    BY <1>4 DEF Edge
  <2>2. n \in Codes
    BY DEF Codes
  <2>3. Occurs(l, n)
    BY <1>4, <1>o, <1>p, <1>b
  <2>4. (a = l /\ i = n) \/ Pre(a, i, l, n)
    <3>1. a < l \/ (a = l /\ i < j /\ ~(Track(i) # Track(j)
           /\ ((Track(i) \in {1, 2, 3} /\ Track(j) \in {1, 2, 3}) \/ (Track(i) \in {4, 5} /\ Track(j) \in {4, 5}))))
      BY <1>t, PreIs
    <3>2. a = l /\ i # n => i < n /\ ~(Track(i) # Track(n)
           /\ ((Track(i) \in {1, 2, 3} /\ Track(n) \in {1, 2, 3}) \/ (Track(i) \in {4, 5} /\ Track(n) \in {4, 5})))
      BY <1>4, <1>t, <1>p, <1>s, <1>b, <1>u, <3>1, TrackIs DEF Codes, Dots, Quants
    <3> HIDE DEF n
    <3>3. CASE a = l /\ i = n
      BY <3>3
    <3>4. CASE ~(a = l /\ i = n)
      BY <3>1, <3>2, <3>4, <2>2, <1>t, <1>i, PreBy
    <3> QED BY <3>3, <3>4
  <2> QED BY <2>1, <2>3, <2>4, CoveredBy
<1>5. CASE j = 16
  <2> DEFINE n == 8
             c == 14
             b == Keys(l)
  <2>1. Edge(l, n, c, b, j)
    BY <1>5 DEF Edge
  <2>2. n \in Codes
    BY DEF Codes
  <2>3. Occurs(l, n)
    BY <1>5, <1>o, <1>p, <1>b
  <2>4. (a = l /\ i = n) \/ Pre(a, i, l, n)
    <3>1. a < l \/ (a = l /\ i < j /\ ~(Track(i) # Track(j)
           /\ ((Track(i) \in {1, 2, 3} /\ Track(j) \in {1, 2, 3}) \/ (Track(i) \in {4, 5} /\ Track(j) \in {4, 5}))))
      BY <1>t, PreIs
    <3>2. a = l /\ i # n => i < n /\ ~(Track(i) # Track(n)
           /\ ((Track(i) \in {1, 2, 3} /\ Track(n) \in {1, 2, 3}) \/ (Track(i) \in {4, 5} /\ Track(n) \in {4, 5})))
      BY <1>5, <1>t, <1>p, <1>s, <1>b, <1>u, <3>1, TrackIs DEF Codes, Dots, Quants
    <3> HIDE DEF n
    <3>3. CASE a = l /\ i = n
      BY <3>3
    <3>4. CASE ~(a = l /\ i = n)
      BY <3>1, <3>2, <3>4, <2>2, <1>t, <1>i, PreBy
    <3> QED BY <3>3, <3>4
  <2> QED BY <2>1, <2>3, <2>4, CoveredBy
<1>6. CASE j = 17
  <2> DEFINE n == 12
             c == 14
             b == Values(l)
  <2>1. Edge(l, n, c, b, j)
    BY <1>6 DEF Edge
  <2>2. n \in Codes
    BY DEF Codes
  <2>3. Occurs(l, n)
    BY <1>6, <1>o, <1>p, <1>b
  <2>4. (a = l /\ i = n) \/ Pre(a, i, l, n)
    <3>1. a < l \/ (a = l /\ i < j /\ ~(Track(i) # Track(j)
           /\ ((Track(i) \in {1, 2, 3} /\ Track(j) \in {1, 2, 3}) \/ (Track(i) \in {4, 5} /\ Track(j) \in {4, 5}))))
      BY <1>t, PreIs
    <3>2. a = l /\ i # n => i < n /\ ~(Track(i) # Track(n)
           /\ ((Track(i) \in {1, 2, 3} /\ Track(n) \in {1, 2, 3}) \/ (Track(i) \in {4, 5} /\ Track(n) \in {4, 5})))
      BY <1>6, <1>t, <1>p, <1>s, <1>b, <1>u, <3>1, TrackIs DEF Codes, Dots, Quants
    <3> HIDE DEF n
    <3>3. CASE a = l /\ i = n
      BY <3>3
    <3>4. CASE ~(a = l /\ i = n)
      BY <3>1, <3>2, <3>4, <2>2, <1>t, <1>i, PreBy
    <3> QED BY <3>3, <3>4
  <2> QED BY <2>1, <2>3, <2>4, CoveredBy
<1>7. CASE j = 21 /\ HasBias("bq", l)
  <2> DEFINE n == 15
             c == 18
             b == Q
  <2>1. Edge(l, n, c, b, j)
    BY <1>7 DEF Edge
  <2>2. n \in Codes
    BY DEF Codes
  <2>3. Occurs(l, n)
    BY <1>7, <1>o, <1>p, <1>b
  <2>4. (a = l /\ i = n) \/ Pre(a, i, l, n)
    <3>1. a < l \/ (a = l /\ i < j /\ ~(Track(i) # Track(j)
           /\ ((Track(i) \in {1, 2, 3} /\ Track(j) \in {1, 2, 3}) \/ (Track(i) \in {4, 5} /\ Track(j) \in {4, 5}))))
      BY <1>t, PreIs
    <3>2. a = l /\ i # n => i < n /\ ~(Track(i) # Track(n)
           /\ ((Track(i) \in {1, 2, 3} /\ Track(n) \in {1, 2, 3}) \/ (Track(i) \in {4, 5} /\ Track(n) \in {4, 5})))
      BY <1>7, <1>t, <1>p, <1>s, <1>b, <1>u, <3>1, TrackIs DEF Codes, Dots, Quants
    <3> HIDE DEF n
    <3>3. CASE a = l /\ i = n
      BY <3>3
    <3>4. CASE ~(a = l /\ i = n)
      BY <3>1, <3>2, <3>4, <2>2, <1>t, <1>i, PreBy
    <3> QED BY <3>3, <3>4
  <2> QED BY <2>1, <2>3, <2>4, CoveredBy
<1>8. CASE j = 21 /\ ~HasBias("bq", l)
  <2> DEFINE n == 4
             c == 14
             b == Q
  <2>1. Edge(l, n, c, b, j)
    BY <1>8 DEF Edge
  <2>2. n \in Codes
    BY DEF Codes
  <2>3. Occurs(l, n)
    BY <1>8, <1>o, <1>p, <1>b
  <2>4. (a = l /\ i = n) \/ Pre(a, i, l, n)
    <3>1. a < l \/ (a = l /\ i < j /\ ~(Track(i) # Track(j)
           /\ ((Track(i) \in {1, 2, 3} /\ Track(j) \in {1, 2, 3}) \/ (Track(i) \in {4, 5} /\ Track(j) \in {4, 5}))))
      BY <1>t, PreIs
    <3>2. a = l /\ i # n => i < n /\ ~(Track(i) # Track(n)
           /\ ((Track(i) \in {1, 2, 3} /\ Track(n) \in {1, 2, 3}) \/ (Track(i) \in {4, 5} /\ Track(n) \in {4, 5})))
      BY <1>8, <1>t, <1>p, <1>s, <1>b, <1>u, <3>1, TrackIs DEF Codes, Dots, Quants
    <3> HIDE DEF n
    <3>3. CASE a = l /\ i = n
      BY <3>3
    <3>4. CASE ~(a = l /\ i = n)
      BY <3>1, <3>2, <3>4, <2>2, <1>t, <1>i, PreBy
    <3> QED BY <3>3, <3>4
  <2> QED BY <2>1, <2>3, <2>4, CoveredBy
<1>9. CASE j = 22 /\ HasBias("bq", l)
  <2> DEFINE n == 16
             c == 18
             b == Keys(l)
  <2>1. Edge(l, n, c, b, j)
    BY <1>9 DEF Edge
  <2>2. n \in Codes
    BY DEF Codes
  <2>3. Occurs(l, n)
    BY <1>9, <1>o, <1>p, <1>b
  <2>4. (a = l /\ i = n) \/ Pre(a, i, l, n)
    <3>1. a < l \/ (a = l /\ i < j /\ ~(Track(i) # Track(j)
           /\ ((Track(i) \in {1, 2, 3} /\ Track(j) \in {1, 2, 3}) \/ (Track(i) \in {4, 5} /\ Track(j) \in {4, 5}))))
      BY <1>t, PreIs
    <3>2. a = l /\ i # n => i < n /\ ~(Track(i) # Track(n)
           /\ ((Track(i) \in {1, 2, 3} /\ Track(n) \in {1, 2, 3}) \/ (Track(i) \in {4, 5} /\ Track(n) \in {4, 5})))
      BY <1>9, <1>t, <1>p, <1>s, <1>b, <1>u, <3>1, TrackIs DEF Codes, Dots, Quants
    <3> HIDE DEF n
    <3>3. CASE a = l /\ i = n
      BY <3>3
    <3>4. CASE ~(a = l /\ i = n)
      BY <3>1, <3>2, <3>4, <2>2, <1>t, <1>i, PreBy
    <3> QED BY <3>3, <3>4
  <2> QED BY <2>1, <2>3, <2>4, CoveredBy
<1>10. CASE j = 22 /\ ~HasBias("bq", l)
  <2> DEFINE n == 8
             c == 14
             b == Keys(l)
  <2>1. Edge(l, n, c, b, j)
    BY <1>10 DEF Edge
  <2>2. n \in Codes
    BY DEF Codes
  <2>3. Occurs(l, n)
    BY <1>10, <1>o, <1>p, <1>b
  <2>4. (a = l /\ i = n) \/ Pre(a, i, l, n)
    <3>1. a < l \/ (a = l /\ i < j /\ ~(Track(i) # Track(j)
           /\ ((Track(i) \in {1, 2, 3} /\ Track(j) \in {1, 2, 3}) \/ (Track(i) \in {4, 5} /\ Track(j) \in {4, 5}))))
      BY <1>t, PreIs
    <3>2. a = l /\ i # n => i < n /\ ~(Track(i) # Track(n)
           /\ ((Track(i) \in {1, 2, 3} /\ Track(n) \in {1, 2, 3}) \/ (Track(i) \in {4, 5} /\ Track(n) \in {4, 5})))
      BY <1>10, <1>t, <1>p, <1>s, <1>b, <1>u, <3>1, TrackIs DEF Codes, Dots, Quants
    <3> HIDE DEF n
    <3>3. CASE a = l /\ i = n
      BY <3>3
    <3>4. CASE ~(a = l /\ i = n)
      BY <3>1, <3>2, <3>4, <2>2, <1>t, <1>i, PreBy
    <3> QED BY <3>3, <3>4
  <2> QED BY <2>1, <2>3, <2>4, CoveredBy
<1>11. CASE j = 24 /\ (a # l \/ i \notin {6, 8, 16, 22, 10, 12, 17})
  <2> DEFINE n == 21
             c == 23
             b == Q
  <2>1. Edge(l, n, c, b, j)
    BY <1>11 DEF Edge
  <2>2. n \in Codes
    BY DEF Codes
  <2>3. Occurs(l, n)
    BY <1>11, <1>o, <1>p, <1>b
  <2>4. (a = l /\ i = n) \/ Pre(a, i, l, n)
    <3>1. a < l \/ (a = l /\ i < j /\ ~(Track(i) # Track(j)
           /\ ((Track(i) \in {1, 2, 3} /\ Track(j) \in {1, 2, 3}) \/ (Track(i) \in {4, 5} /\ Track(j) \in {4, 5}))))
      BY <1>t, PreIs
    <3>2. a = l /\ i # n => i < n /\ ~(Track(i) # Track(n)
           /\ ((Track(i) \in {1, 2, 3} /\ Track(n) \in {1, 2, 3}) \/ (Track(i) \in {4, 5} /\ Track(n) \in {4, 5})))
      BY <1>11, <1>t, <1>p, <1>s, <1>b, <1>u, <3>1, TrackIs DEF Codes, Dots, Quants
    <3> HIDE DEF n
    <3>3. CASE a = l /\ i = n
      BY <3>3
    <3>4. CASE ~(a = l /\ i = n)
      BY <3>1, <3>2, <3>4, <2>2, <1>t, <1>i, PreBy
    <3> QED BY <3>3, <3>4
  <2> QED BY <2>1, <2>3, <2>4, CoveredBy
<1>12. CASE j = 24 /\ i \in {6, 8, 16, 22} /\ a = l
  <2> DEFINE n == 22
             c == 23
             b == Keys(l)
  <2>1. Edge(l, n, c, b, j)
    BY <1>12 DEF Edge
  <2>2. n \in Codes
    BY DEF Codes
  <2>3. Occurs(l, n)
    BY <1>12, <1>o, <1>p, <1>b
  <2>4. (a = l /\ i = n) \/ Pre(a, i, l, n)
    <3>1. a < l \/ (a = l /\ i < j /\ ~(Track(i) # Track(j)
           /\ ((Track(i) \in {1, 2, 3} /\ Track(j) \in {1, 2, 3}) \/ (Track(i) \in {4, 5} /\ Track(j) \in {4, 5}))))
      BY <1>t, PreIs
    <3>2. a = l /\ i # n => i < n /\ ~(Track(i) # Track(n)
           /\ ((Track(i) \in {1, 2, 3} /\ Track(n) \in {1, 2, 3}) \/ (Track(i) \in {4, 5} /\ Track(n) \in {4, 5})))
      BY <1>12, <1>t, <1>p, <1>s, <1>b, <1>u, <3>1, TrackIs DEF Codes, Dots, Quants
    <3> HIDE DEF n
    <3>3. CASE a = l /\ i = n
      BY <3>3
    <3>4. CASE ~(a = l /\ i = n)
      BY <3>1, <3>2, <3>4, <2>2, <1>t, <1>i, PreBy
    <3> QED BY <3>3, <3>4
  <2> QED BY <2>1, <2>3, <2>4, CoveredBy
<1>13. CASE j = 24 /\ HasBias("bq", l) /\ i \in {10, 12, 17} /\ a = l
  <2> DEFINE n == 17
             c == 18
             b == Values(l)
  <2>1. Edge(l, n, c, b, j)
    BY <1>13 DEF Edge
  <2>2. n \in Codes
    BY DEF Codes
  <2>3. Occurs(l, n)
    BY <1>13, <1>o, <1>p, <1>b
  <2>4. (a = l /\ i = n) \/ Pre(a, i, l, n)
    <3>1. a < l \/ (a = l /\ i < j /\ ~(Track(i) # Track(j)
           /\ ((Track(i) \in {1, 2, 3} /\ Track(j) \in {1, 2, 3}) \/ (Track(i) \in {4, 5} /\ Track(j) \in {4, 5}))))
      BY <1>t, PreIs
    <3>2. a = l /\ i # n => i < n /\ ~(Track(i) # Track(n)
           /\ ((Track(i) \in {1, 2, 3} /\ Track(n) \in {1, 2, 3}) \/ (Track(i) \in {4, 5} /\ Track(n) \in {4, 5})))
      BY <1>13, <1>t, <1>p, <1>s, <1>b, <1>u, <3>1, TrackIs DEF Codes, Dots, Quants
    <3> HIDE DEF n
    <3>3. CASE a = l /\ i = n
      BY <3>3
    <3>4. CASE ~(a = l /\ i = n)
      BY <3>1, <3>2, <3>4, <2>2, <1>t, <1>i, PreBy
    <3> QED BY <3>3, <3>4
  <2> QED BY <2>1, <2>3, <2>4, CoveredBy
<1>14. CASE j = 24 /\ ~HasBias("bq", l) /\ i \in {10, 12, 17} /\ a = l
  <2> DEFINE n == 12
             c == 14
             b == Values(l)
  <2>1. Edge(l, n, c, b, j)
    BY <1>14 DEF Edge
  <2>2. n \in Codes
    BY DEF Codes
  <2>3. Occurs(l, n)
    BY <1>14, <1>o, <1>p, <1>b
  <2>4. (a = l /\ i = n) \/ Pre(a, i, l, n)
    <3>1. a < l \/ (a = l /\ i < j /\ ~(Track(i) # Track(j)
           /\ ((Track(i) \in {1, 2, 3} /\ Track(j) \in {1, 2, 3}) \/ (Track(i) \in {4, 5} /\ Track(j) \in {4, 5}))))
      BY <1>t, PreIs
    <3>2. a = l /\ i # n => i < n /\ ~(Track(i) # Track(n)
           /\ ((Track(i) \in {1, 2, 3} /\ Track(n) \in {1, 2, 3}) \/ (Track(i) \in {4, 5} /\ Track(n) \in {4, 5})))
      BY <1>14, <1>t, <1>p, <1>s, <1>b, <1>u, <3>1, TrackIs DEF Codes, Dots, Quants
    <3> HIDE DEF n
    <3>3. CASE a = l /\ i = n
      BY <3>3
    <3>4. CASE ~(a = l /\ i = n)
      BY <3>1, <3>2, <3>4, <2>2, <1>t, <1>i, PreBy
    <3> QED BY <3>3, <3>4
  <2> QED BY <2>1, <2>3, <2>4, CoveredBy
<1>15. CASE j = 26
  <2> DEFINE n == 24
             c == 25
             b == Att
  <2>1. Edge(l, n, c, b, j)
    BY <1>15 DEF Edge
  <2>2. n \in Codes
    BY DEF Codes
  <2>3. Occurs(l, n)
    BY <1>15, <1>o, <1>p, <1>b
  <2>4. (a = l /\ i = n) \/ Pre(a, i, l, n)
    <3>1. a < l \/ (a = l /\ i < j /\ ~(Track(i) # Track(j)
           /\ ((Track(i) \in {1, 2, 3} /\ Track(j) \in {1, 2, 3}) \/ (Track(i) \in {4, 5} /\ Track(j) \in {4, 5}))))
      BY <1>t, PreIs
    <3>2. a = l /\ i # n => i < n /\ ~(Track(i) # Track(n)
           /\ ((Track(i) \in {1, 2, 3} /\ Track(n) \in {1, 2, 3}) \/ (Track(i) \in {4, 5} /\ Track(n) \in {4, 5})))
      BY <1>15, <1>t, <1>p, <1>s, <1>b, <1>u, <3>1, TrackIs DEF Codes, Dots, Quants
    <3> HIDE DEF n
    <3>3. CASE a = l /\ i = n
      BY <3>3
    <3>4. CASE ~(a = l /\ i = n)
      BY <3>1, <3>2, <3>4, <2>2, <1>t, <1>i, PreBy
    <3> QED BY <3>3, <3>4
  <2> QED BY <2>1, <2>3, <2>4, CoveredBy
<1>16. CASE j = 28 /\ ~Split(LinWeight(l, j))
  <2> DEFINE n == 24
             c == 25
             b == Att
  <2>1. Edge(l, n, c, b, j)
    BY <1>16 DEF Edge
  <2>2. n \in Codes
    BY DEF Codes
  <2>3. Occurs(l, n)
    BY <1>16, <1>o, <1>p, <1>b
  <2>4. (a = l /\ i = n) \/ Pre(a, i, l, n)
    <3>1. a < l \/ (a = l /\ i < j /\ ~(Track(i) # Track(j)
           /\ ((Track(i) \in {1, 2, 3} /\ Track(j) \in {1, 2, 3}) \/ (Track(i) \in {4, 5} /\ Track(j) \in {4, 5}))))
      BY <1>t, PreIs
    <3>2. a = l /\ i # n => i < n /\ ~(Track(i) # Track(n)
           /\ ((Track(i) \in {1, 2, 3} /\ Track(n) \in {1, 2, 3}) \/ (Track(i) \in {4, 5} /\ Track(n) \in {4, 5})))
      BY <1>16, <1>t, <1>p, <1>s, <1>b, <1>u, <3>1, TrackIs DEF Codes, Dots, Quants
    <3> HIDE DEF n
    <3>3. CASE a = l /\ i = n
      BY <3>3
    <3>4. CASE ~(a = l /\ i = n)
      BY <3>1, <3>2, <3>4, <2>2, <1>t, <1>i, PreBy
    <3> QED BY <3>3, <3>4
  <2> QED BY <2>1, <2>3, <2>4, CoveredBy
<1>17. CASE j = 31
  <2> DEFINE n == 28
             c == 30
             b == X
  <2>1. Edge(l, n, c, b, j)
    BY <1>17 DEF Edge
  <2>2. n \in Codes
    BY DEF Codes
  <2>3. Occurs(l, n)
    BY <1>17, <1>o, <1>p, <1>b
  <2>4. (a = l /\ i = n) \/ Pre(a, i, l, n)
    <3>1. a < l \/ (a = l /\ i < j /\ ~(Track(i) # Track(j)
           /\ ((Track(i) \in {1, 2, 3} /\ Track(j) \in {1, 2, 3}) \/ (Track(i) \in {4, 5} /\ Track(j) \in {4, 5}))))
      BY <1>t, PreIs
    <3>2. a = l /\ i # n => i < n /\ ~(Track(i) # Track(n)
           /\ ((Track(i) \in {1, 2, 3} /\ Track(n) \in {1, 2, 3}) \/ (Track(i) \in {4, 5} /\ Track(n) \in {4, 5})))
      BY <1>17, <1>t, <1>p, <1>s, <1>b, <1>u, <3>1, TrackIs DEF Codes, Dots, Quants
    <3> HIDE DEF n
    <3>3. CASE a = l /\ i = n
      BY <3>3
    <3>4. CASE ~(a = l /\ i = n)
      BY <3>1, <3>2, <3>4, <2>2, <1>t, <1>i, PreBy
    <3> QED BY <3>3, <3>4
  <2> QED BY <2>1, <2>3, <2>4, CoveredBy
<1>18. CASE j \in {33, 36}
  <2> DEFINE n == 31
             c == 32
             b == Xb
  <2>1. Edge(l, n, c, b, j)
    BY <1>18 DEF Edge
  <2>2. n \in Codes
    BY DEF Codes
  <2>3. Occurs(l, n)
    BY <1>18, <1>o, <1>p, <1>b
  <2>4. (a = l /\ i = n) \/ Pre(a, i, l, n)
    <3>1. a < l \/ (a = l /\ i < j /\ ~(Track(i) # Track(j)
           /\ ((Track(i) \in {1, 2, 3} /\ Track(j) \in {1, 2, 3}) \/ (Track(i) \in {4, 5} /\ Track(j) \in {4, 5}))))
      BY <1>t, PreIs
    <3>2. a = l /\ i # n => i < n /\ ~(Track(i) # Track(n)
           /\ ((Track(i) \in {1, 2, 3} /\ Track(n) \in {1, 2, 3}) \/ (Track(i) \in {4, 5} /\ Track(n) \in {4, 5})))
      BY <1>18, <1>t, <1>p, <1>s, <1>b, <1>u, <3>1, TrackIs DEF Codes, Dots, Quants
    <3> HIDE DEF n
    <3>3. CASE a = l /\ i = n
      BY <3>3
    <3>4. CASE ~(a = l /\ i = n)
      BY <3>1, <3>2, <3>4, <2>2, <1>t, <1>i, PreBy
    <3> QED BY <3>3, <3>4
  <2> QED BY <2>1, <2>3, <2>4, CoveredBy
<1>19. CASE j \in {35, 38} /\ ~Split(LinWeight(l, j))
  <2> DEFINE n == 31
             c == 32
             b == Xb
  <2>1. Edge(l, n, c, b, j)
    BY <1>19 DEF Edge
  <2>2. n \in Codes
    BY DEF Codes
  <2>3. Occurs(l, n)
    BY <1>19, <1>o, <1>p, <1>b
  <2>4. (a = l /\ i = n) \/ Pre(a, i, l, n)
    <3>1. a < l \/ (a = l /\ i < j /\ ~(Track(i) # Track(j)
           /\ ((Track(i) \in {1, 2, 3} /\ Track(j) \in {1, 2, 3}) \/ (Track(i) \in {4, 5} /\ Track(j) \in {4, 5}))))
      BY <1>t, PreIs
    <3>2. a = l /\ i # n => i < n /\ ~(Track(i) # Track(n)
           /\ ((Track(i) \in {1, 2, 3} /\ Track(n) \in {1, 2, 3}) \/ (Track(i) \in {4, 5} /\ Track(n) \in {4, 5})))
      BY <1>19, <1>t, <1>p, <1>s, <1>b, <1>u, <3>1, TrackIs DEF Codes, Dots, Quants
    <3> HIDE DEF n
    <3>3. CASE a = l /\ i = n
      BY <3>3
    <3>4. CASE ~(a = l /\ i = n)
      BY <3>1, <3>2, <3>4, <2>2, <1>t, <1>i, PreBy
    <3> QED BY <3>3, <3>4
  <2> QED BY <2>1, <2>3, <2>4, CoveredBy
<1>20. CASE j = 40 /\ (a # l \/ i \notin {36, 38})
  <2> DEFINE n == 35
             c == 39
             b == B("gate")
  <2>1. Edge(l, n, c, b, j)
    BY <1>20 DEF Edge
  <2>2. n \in Codes
    BY DEF Codes
  <2>3. Occurs(l, n)
    BY <1>20, <1>o, <1>p, <1>b
  <2>4. (a = l /\ i = n) \/ Pre(a, i, l, n)
    <3>1. a < l \/ (a = l /\ i < j /\ ~(Track(i) # Track(j)
           /\ ((Track(i) \in {1, 2, 3} /\ Track(j) \in {1, 2, 3}) \/ (Track(i) \in {4, 5} /\ Track(j) \in {4, 5}))))
      BY <1>t, PreIs
    <3>2. a = l /\ i # n => i < n /\ ~(Track(i) # Track(n)
           /\ ((Track(i) \in {1, 2, 3} /\ Track(n) \in {1, 2, 3}) \/ (Track(i) \in {4, 5} /\ Track(n) \in {4, 5})))
      BY <1>20, <1>t, <1>p, <1>s, <1>b, <1>u, <3>1, TrackIs DEF Codes, Dots, Quants
    <3> HIDE DEF n
    <3>3. CASE a = l /\ i = n
      BY <3>3
    <3>4. CASE ~(a = l /\ i = n)
      BY <3>1, <3>2, <3>4, <2>2, <1>t, <1>i, PreBy
    <3> QED BY <3>3, <3>4
  <2> QED BY <2>1, <2>3, <2>4, CoveredBy
<1>21. CASE j = 40 /\ i \in {36, 38} /\ a = l
  <2> DEFINE n == 38
             c == 39
             b == B("up")
  <2>1. Edge(l, n, c, b, j)
    BY <1>21 DEF Edge
  <2>2. n \in Codes
    BY DEF Codes
  <2>3. Occurs(l, n)
    BY <1>21, <1>o, <1>p, <1>b
  <2>4. (a = l /\ i = n) \/ Pre(a, i, l, n)
    <3>1. a < l \/ (a = l /\ i < j /\ ~(Track(i) # Track(j)
           /\ ((Track(i) \in {1, 2, 3} /\ Track(j) \in {1, 2, 3}) \/ (Track(i) \in {4, 5} /\ Track(j) \in {4, 5}))))
      BY <1>t, PreIs
    <3>2. a = l /\ i # n => i < n /\ ~(Track(i) # Track(n)
           /\ ((Track(i) \in {1, 2, 3} /\ Track(n) \in {1, 2, 3}) \/ (Track(i) \in {4, 5} /\ Track(n) \in {4, 5})))
      BY <1>21, <1>t, <1>p, <1>s, <1>b, <1>u, <3>1, TrackIs DEF Codes, Dots, Quants
    <3> HIDE DEF n
    <3>3. CASE a = l /\ i = n
      BY <3>3
    <3>4. CASE ~(a = l /\ i = n)
      BY <3>1, <3>2, <3>4, <2>2, <1>t, <1>i, PreBy
    <3> QED BY <3>3, <3>4
  <2> QED BY <2>1, <2>3, <2>4, CoveredBy
<1>22. CASE j = 42
  <2> DEFINE n == 40
             c == 41
             b == B("inner")
  <2>1. Edge(l, n, c, b, j)
    BY <1>22 DEF Edge
  <2>2. n \in Codes
    BY DEF Codes
  <2>3. Occurs(l, n)
    BY <1>22, <1>o, <1>p, <1>b
  <2>4. (a = l /\ i = n) \/ Pre(a, i, l, n)
    <3>1. a < l \/ (a = l /\ i < j /\ ~(Track(i) # Track(j)
           /\ ((Track(i) \in {1, 2, 3} /\ Track(j) \in {1, 2, 3}) \/ (Track(i) \in {4, 5} /\ Track(j) \in {4, 5}))))
      BY <1>t, PreIs
    <3>2. a = l /\ i # n => i < n /\ ~(Track(i) # Track(n)
           /\ ((Track(i) \in {1, 2, 3} /\ Track(n) \in {1, 2, 3}) \/ (Track(i) \in {4, 5} /\ Track(n) \in {4, 5})))
      BY <1>22, <1>t, <1>p, <1>s, <1>b, <1>u, <3>1, TrackIs DEF Codes, Dots, Quants
    <3> HIDE DEF n
    <3>3. CASE a = l /\ i = n
      BY <3>3
    <3>4. CASE ~(a = l /\ i = n)
      BY <3>1, <3>2, <3>4, <2>2, <1>t, <1>i, PreBy
    <3> QED BY <3>3, <3>4
  <2> QED BY <2>1, <2>3, <2>4, CoveredBy
<1>23. CASE j = 44 /\ ~Split(LinWeight(l, j))
  <2> DEFINE n == 40
             c == 41
             b == B("inner")
  <2>1. Edge(l, n, c, b, j)
    BY <1>23 DEF Edge
  <2>2. n \in Codes
    BY DEF Codes
  <2>3. Occurs(l, n)
    BY <1>23, <1>o, <1>p, <1>b
  <2>4. (a = l /\ i = n) \/ Pre(a, i, l, n)
    <3>1. a < l \/ (a = l /\ i < j /\ ~(Track(i) # Track(j)
           /\ ((Track(i) \in {1, 2, 3} /\ Track(j) \in {1, 2, 3}) \/ (Track(i) \in {4, 5} /\ Track(j) \in {4, 5}))))
      BY <1>t, PreIs
    <3>2. a = l /\ i # n => i < n /\ ~(Track(i) # Track(n)
           /\ ((Track(i) \in {1, 2, 3} /\ Track(n) \in {1, 2, 3}) \/ (Track(i) \in {4, 5} /\ Track(n) \in {4, 5})))
      BY <1>23, <1>t, <1>p, <1>s, <1>b, <1>u, <3>1, TrackIs DEF Codes, Dots, Quants
    <3> HIDE DEF n
    <3>3. CASE a = l /\ i = n
      BY <3>3
    <3>4. CASE ~(a = l /\ i = n)
      BY <3>1, <3>2, <3>4, <2>2, <1>t, <1>i, PreBy
    <3> QED BY <3>3, <3>4
  <2> QED BY <2>1, <2>3, <2>4, CoveredBy
<1>x. j \in Dots <=> j \in {4, 8, 12, 28, 35, 38, 44}
  BY DEF Dots
<1>102. CASE j = 2
  BY <1>102, <1>x, <1>p, <1>b, <1>1
<1>104. CASE j = 4
  BY <1>104, <1>x, <1>p, <1>b, <1>2, <1>3
<1>106. CASE j = 6
  BY <1>106, <1>x, <1>p, <1>b, <1>1
<1>108. CASE j = 8
  BY <1>108, <1>x, <1>p, <1>b, <1>2, <1>3
<1>110. CASE j = 10
  BY <1>110, <1>x, <1>p, <1>b, <1>1
<1>112. CASE j = 12
  BY <1>112, <1>x, <1>p, <1>b, <1>2, <1>3
<1>115. CASE j = 15
  BY <1>115, <1>x, <1>p, <1>b, <1>4
<1>116. CASE j = 16
  BY <1>116, <1>x, <1>p, <1>b, <1>5
<1>117. CASE j = 17
  BY <1>117, <1>x, <1>p, <1>b, <1>6
<1>121. CASE j = 21
  BY <1>121, <1>x, <1>p, <1>b, <1>7, <1>8
<1>122. CASE j = 22
  BY <1>122, <1>x, <1>p, <1>b, <1>9, <1>10
<1>124. CASE j = 24
  BY <1>124, <1>x, <1>p, <1>b, <1>11, <1>12, <1>13, <1>14
<1>126. CASE j = 26
  BY <1>126, <1>x, <1>p, <1>b, <1>15
<1>128. CASE j = 28
  BY <1>128, <1>x, <1>p, <1>b, <1>3, <1>16
<1>131. CASE j = 31
  BY <1>131, <1>x, <1>p, <1>b, <1>17
<1>133. CASE j = 33
  BY <1>133, <1>x, <1>p, <1>b, <1>18
<1>135. CASE j = 35
  BY <1>135, <1>x, <1>p, <1>b, <1>3, <1>19
<1>136. CASE j = 36
  BY <1>136, <1>x, <1>p, <1>b, <1>18
<1>138. CASE j = 38
  BY <1>138, <1>x, <1>p, <1>b, <1>3, <1>19
<1>140. CASE j = 40
  BY <1>140, <1>x, <1>p, <1>b, <1>20, <1>21
<1>142. CASE j = 42
  BY <1>142, <1>x, <1>p, <1>b, <1>22
<1>144. CASE j = 44
  BY <1>144, <1>x, <1>p, <1>b, <1>3, <1>23
<1>z. j \in {2, 4, 6, 8, 10, 12, 15, 16, 17, 21, 22, 24, 26, 28, 31, 33, 35, 36, 38, 40, 42, 44}
  BY <1>v, <1>p
<1> QED BY <1>z, <1>102, <1>104, <1>106, <1>108, <1>110, <1>112, <1>115, <1>116, <1>117, <1>121, <1>122, <1>124, <1>126, <1>128, <1>131, <1>133, <1>135, <1>136, <1>138, <1>140, <1>142, <1>144

\* A step that occurs is done by an operation ...
LEMMA LabelIn ==
  ASSUME Layers \in Nat, NEW p, NEW lab, Labelled(p, lab), NEW l, NEW n, Occurs(l, n)
  PROVE  \E y \in DOMAIN p : lab[y] = <<l, n>> /\ ~Fenced(p[y]) /\ IsAt(p[y], l, n)
<1>1. PICK y \in DOMAIN p : lab[y] = <<l, n>>
  BY DEF Labelled
<1>2. LabelOK(p[y], lab[y][1], lab[y][2])
  BY DEF Labelled
<1>3. LabelOK(p[y], l, n)
  BY <1>1, <1>2
<1>4. ~Fenced(p[y]) /\ OpAt(p[y], l, n)
  BY <1>3, NotFenced
<1> QED BY <1>1, <1>4 DEF OpAt

\* ... and a fence by a barrier.
LEMMA FenceIn ==
  ASSUME Layers \in Nat, NEW p, NEW lab, Labelled(p, lab), NEW l, NEW c, Fence(l, c), c \notin Codes
  PROVE  \E y \in DOMAIN p : lab[y] = <<l, c>> /\ Fenced(p[y]) /\ FenceOuts(l, c) \subseteq p[y].outs
<1>1. PICK y \in DOMAIN p : lab[y] = <<l, c>>
  BY DEF Labelled
<1>2. LabelOK(p[y], lab[y][1], lab[y][2])
  BY DEF Labelled
<1>3. LabelOK(p[y], l, c)
  BY <1>1, <1>2
<1>4. ~Occurs(l, c)
  BY OccursCodes
<1> QED BY <1>1, <1>3, <1>4 DEF LabelOK

\* Operation k runs after that of step n of layer l.
FollowsStep(p, lab, k, l, n) ==
  \E y \in DOMAIN p : lab[y] = <<l, n>> /\ ~Fenced(p[y]) /\ Precedes(p, Metal, y, k)
\* Two steps of a layer are joined by an edge.
Touching(l, n, j) == \E c, b : Edge(l, n, c, b, j)

\* The operations of an edge are ordered.
LEMMA EdgeOrders ==
  ASSUME Layers \in Nat, Metal, NEW p, NEW lab, Labelled(p, lab), NEW l, NEW n, NEW j,
         Touching(l, n, j), Occurs(l, n), Occurs(l, j), j # 0,
         NEW k \in DOMAIN p, lab[k] = <<l, j>>, ~Fenced(p[k])
  PROVE  FollowsStep(p, lab, k, l, n)
<1>1. l \in 0..Layers - 1 \/ (l = Layers /\ j \in {2, 4})
  BY DEF Occurs
<1>0. PICK c, b : Edge(l, n, c, b, j)
  BY DEF Touching
<1>2. Fence(l, c) /\ b \in FenceOuts(l, c) /\ n < c /\ c < j /\ c \notin Codes
  BY <1>0, <1>1, EdgeFence
<1>3. PICK y \in DOMAIN p : lab[y] = <<l, n>> /\ ~Fenced(p[y]) /\ IsAt(p[y], l, n)
  BY LabelIn
<1>4. PICK z \in DOMAIN p : lab[z] = <<l, c>> /\ Fenced(p[z]) /\ FenceOuts(l, c) \subseteq p[z].outs
  BY <1>2, FenceIn
<1>5. PICK w \in DOMAIN p : lab[w] = <<l, j>> /\ ~Fenced(p[w]) /\ IsAt(p[w], l, j)
  BY LabelIn
<1>6. w = k
  BY <1>5, LabelOnce
<1>7. b \in AccessesOf(p[y]) /\ b \in AccessesOf(p[k])
  BY <1>0, <1>1, <1>3, <1>5, <1>6, EdgeTouches
<1>8. Earlier(lab[y], lab[z]) /\ Earlier(lab[z], lab[k])
  BY <1>2, <1>3, <1>4 DEF Earlier
<1>9. b \in p[z].outs
  BY <1>2, <1>4
<1>10. Precedes(p, Metal, y, k)
  BY <1>4, <1>7, <1>8, <1>9, FencedOff
<1> QED BY <1>3, <1>10 DEF FollowsStep

\* A layer begins when the one before has ended.
LEMMA LayerOrders ==
  ASSUME Layers \in Nat, Metal, NEW p, NEW lab, Labelled(p, lab), NEW l \in 0..Layers - 1,
         NEW k \in DOMAIN p, lab[k] = <<l + 1, 0>>, ~Fenced(p[k])
  PROVE  \E y \in DOMAIN p : lab[y] = <<l, 44>> /\ ~Fenced(p[y]) /\ Precedes(p, Metal, y, k)
<1>h. ~Host
  BY DEF Metal, Host
<1>1. Occurs(l, 44) /\ Occurs(l + 1, 0) /\ Fence(l, 46) /\ FenceOuts(l, 46) = {X} /\ 46 \notin Codes
  BY DEF Occurs, Fence, FenceOuts, Codes
<1>c. PICK c \in Nat : c = 46
  OBVIOUS
<1>f. Fence(l, c) /\ FenceOuts(l, c) = {X} /\ c \notin Codes
  BY <1>1, <1>c
<1>3. PICK y \in DOMAIN p : lab[y] = <<l, 44>> /\ ~Fenced(p[y]) /\ IsAt(p[y], l, 44)
  BY <1>1, LabelIn
<1>4. PICK z \in DOMAIN p : lab[z] = <<l, c>> /\ Fenced(p[z]) /\ FenceOuts(l, c) \subseteq p[z].outs
  BY <1>f, FenceIn
<1>m. PICK m : m = l + 1
  OBVIOUS
<1>5. PICK w \in DOMAIN p : lab[w] = <<m, 0>> /\ ~Fenced(p[w]) /\ IsAt(p[w], m, 0)
  <2>1. Occurs(m, 0)
    BY <1>1, <1>m
  <2> QED BY <2>1, LabelIn
<1>6. w = k
  <2>1. lab[w] = lab[k]
    BY <1>5, <1>m
  <2> QED BY <2>1, LabelOnce
<1>7. X \in AccessesOf(p[y]) /\ X \in AccessesOf(p[k])
  <2>1. OutBuf(l, 44) = X
    BY <1>h, OutBufIs
  <2>2. OutBuf(l, 44) \in AccessesOf(p[y])
    <3>1. 44 \in Dots
      BY DEF Dots
    <3> QED BY <1>3, <3>1, StepAccesses
  <2>3. X \in AccessesOf(p[k])
    BY <1>5, <1>6, StepAccesses
  <2> QED BY <2>1, <2>2, <2>3
<1>8. Earlier(lab[y], lab[z]) /\ Earlier(lab[z], lab[k])
  BY <1>c, <1>3, <1>4 DEF Earlier
<1>9. X \in p[z].outs
  BY <1>f, <1>4
<1>10. Precedes(p, Metal, y, k)
  BY <1>4, <1>7, <1>8, <1>9, FencedOff
<1> QED BY <1>3, <1>10

\* What must come before a layer is done by the end of the one before.
LEMMA PreLayer ==
  ASSUME Layers \in Nat, Metal, NEW l \in Nat, NEW a, NEW i, Occurs(a, i), Pre(a, i, l, 0)
  PROVE  l # 0 /\ ((a = l - 1 /\ i = 44) \/ Pre(a, i, l - 1, 44))
<1>h. ~Host
  BY DEF Metal, Host
<1>1. a \in 0..Layers /\ i \in Codes /\ i \notin {5, 9, 13, 19, 20, 29, 45} /\ 44 \in Codes
  BY <1>h, OccursCodes, StepFacts DEF Codes
<1>2. i \in Nat /\ i <= 44
  BY <1>1 DEF Codes
<1>3. a < l
  BY <1>1, <1>2 DEF Pre
<1>4. Track(44) = 0
  BY TrackIs
<1> QED BY <1>1, <1>2, <1>3, <1>4 DEF Pre, Apart

\* Every step comes after those that must come before it, whichever order Metal takes.
LEMMA ChainedMetal ==
  ASSUME Layers \in Nat, Metal, AllOrNoBias, NEW p, NEW lab, Labelled(p, lab)
  PROVE  Chained(p, lab)
<1> DEFINE Late(k) == \E x \in DOMAIN p : /\ ~Fenced(p[x]) /\ ~Fenced(p[k]) /\ ~Precedes(p, Metal, x, k)
                                          /\ Pre(lab[x][1], lab[x][2], lab[k][1], lab[k][2])
           T == {k \in DOMAIN p : Late(k)}
<1>1. SUFFICES ASSUME T # {}
               PROVE  FALSE
  BY DEF Chained
<1> HIDE DEF Late
<1>t. T \subseteq DOMAIN p /\ \A k \in T : Late(k)
  OBVIOUS
<1>u. \A k \in DOMAIN p : Late(k) => k \in T
  OBVIOUS
<1> HIDE DEF T
<1>2. PICK h \in Nat : DOMAIN p = 1..h
  BY DEF Labelled
<1>3. T \subseteq Nat
  BY <1>2, <1>t
<1>4. PICK k \in T : \A n \in T : k <= n
  BY <1>1, <1>3, LeastElement
<1>5. PICK x \in DOMAIN p : /\ ~Fenced(p[x]) /\ ~Fenced(p[k]) /\ ~Precedes(p, Metal, x, k)
                            /\ Pre(lab[x][1], lab[x][2], lab[k][1], lab[k][2])
  BY <1>4, <1>t DEF Late
<1>10. k \in DOMAIN p
  BY <1>4, <1>t
<1>6. PICK l, j : lab[k] = <<l, j>> /\ Occurs(l, j)
  <2>1. LabelOK(p[k], lab[k][1], lab[k][2]) /\ lab[k] = <<lab[k][1], lab[k][2]>>
    BY <1>10 DEF Labelled
  <2> QED BY <1>5, <2>1 DEF LabelOK
<1>7. PICK a, i : lab[x] = <<a, i>> /\ Occurs(a, i)
  <2>1. LabelOK(p[x], lab[x][1], lab[x][2]) /\ lab[x] = <<lab[x][1], lab[x][2]>>
    BY DEF Labelled
  <2> QED BY <1>5, <2>1 DEF LabelOK
<1>8. Pre(a, i, l, j)
  BY <1>5, <1>6, <1>7
<1>9. ASSUME NEW y \in DOMAIN p, NEW m, NEW n, lab[y] = <<m, n>>, ~Fenced(p[y]), Precedes(p, Metal, y, k), Earlier(lab[y], lab[k]),
             (a = m /\ i = n) \/ Pre(a, i, m, n)
      PROVE  FALSE
  <2>1. y \in 1..k - 1
    BY <1>9, <1>10, BeforeIs
  <2>2. y \notin T
    BY <1>2, <1>4, <1>10, <2>1
  <2>3. CASE a = m /\ i = n
    <3>1. x = y
      BY <1>7, <1>9, <2>3, LabelOnce
    <3> QED BY <1>5, <1>9, <3>1
  <2>4. CASE Pre(a, i, m, n)
    <3>0. Pre(lab[x][1], lab[x][2], lab[y][1], lab[y][2])
      BY <1>7, <1>9, <2>4
    <3>1. Precedes(p, Metal, x, y)
      <4>1. ~Late(y)
        BY <1>u, <2>2
      <4> QED BY <1>5, <1>9, <3>0, <4>1 DEF Late
    <3>2. y # 0
      BY <1>2
    <3>3. Precedes(p, Metal, x, k)
      BY <1>9, <3>1, <3>2, PrecedesOn
    <3> QED BY <1>5, <3>3
  <2> QED BY <1>9, <2>3, <2>4
<1>11. CASE j # 0
  <2>1. Covered(l, j, a, i)
    BY <1>6, <1>7, <1>8, <1>11, EdgeCovers
  <2>2. PICK n, c, b : Edge(l, n, c, b, j) /\ Occurs(l, n) /\ ((a = l /\ i = n) \/ Pre(a, i, l, n))
    BY <2>1 DEF Covered
  <2>3. PICK y \in DOMAIN p : lab[y] = <<l, n>> /\ ~Fenced(p[y]) /\ Precedes(p, Metal, y, k)
    <3>1. Touching(l, n, j)
      BY <2>2 DEF Touching
    <3>2. lab[k] = <<l, j>> /\ Occurs(l, j) /\ ~Fenced(p[k]) /\ Occurs(l, n)
      BY <1>5, <1>6, <2>2
    <3>3. FollowsStep(p, lab, k, l, n)
      BY <1>10, <1>11, <3>1, <3>2, EdgeOrders
    <3> QED BY <3>3 DEF FollowsStep
  <2>4. n < j
    <3>1. l \in 0..Layers - 1 \/ (l = Layers /\ j \in {2, 4})
      BY <1>6, <1>11 DEF Occurs
    <3>2. n < c /\ c < j
      BY <2>2, <3>1, EdgeFence
    <3>3. n \in Int /\ j \in Int
      BY <1>6, <2>2, OccursCodes DEF Codes
    <3>4. c \in Int
      BY <2>2, <3>3 DEF Edge, Dots
    <3> QED BY <3>2, <3>3, <3>4
  <2>5. Earlier(lab[y], lab[k])
    BY <1>6, <2>3, <2>4 DEF Earlier
  <2> QED BY <1>9, <2>2, <2>3, <2>5
<1>12. CASE j = 0
  <2>1. l \in 0..Layers
    BY <1>6, OccursCodes
  <2>2. l # 0 /\ ((a = l - 1 /\ i = 44) \/ Pre(a, i, l - 1, 44))
    BY <1>7, <1>8, <1>12, <2>1, PreLayer
  <2>3. PICK m \in 0..Layers - 1 : m = l - 1 /\ l = m + 1
    BY <2>1, <2>2
  <2>4. lab[k] = <<m + 1, 0>>
    BY <1>6, <1>12, <2>3
  <2>5. PICK y \in DOMAIN p : lab[y] = <<m, 44>> /\ ~Fenced(p[y]) /\ Precedes(p, Metal, y, k)
    BY <1>5, <1>10, <2>4, LayerOrders
  <2>6. Earlier(lab[y], lab[k])
    BY <2>4, <2>5 DEF Earlier
  <2> QED BY <1>9, <2>2, <2>3, <2>5, <2>6
<1> QED BY <1>11, <1>12

-----------------------------------------------------------------------------
(* What a program computes.                                                *)

\* Operation x leaves v in b, and nothing overwrites it.
Leaves(p, m, val, b, x, v) ==
  /\ x \in DOMAIN p /\ ~Fenced(p[x]) /\ b \in p[x].outs
  /\ val[x] = v /\ Keeps(p, m, val, b, x, {})
\* What a pass returns and what it adds to the caches.
Final(p, m, val) ==
  /\ \E x : Leaves(p, m, val, B("logits"), x, <<"logits", Layers>>)
  /\ \A l \in 0..Layers - 1 :
       /\ \E x : Leaves(p, m, val, Keys(l), x, <<"kr", l>>) /\ ~p[x].last
       /\ \E x : Leaves(p, m, val, Values(l), x, <<"v", l>>) /\ ~p[x].last

\* A program that does the steps leaves the logits, and the keys and values of every layer.
LEMMA LabelsFinal ==
  ASSUME Layers \in Nat, NEW p, NEW lab, Labelled(p, lab), Chained(p, lab), NEW val, ValuesFrom(lab, p, val)
  PROVE  Final(p, Metal, val)
<1>1. \E x : Leaves(p, Metal, val, B("logits"), x, <<"logits", Layers>>)
  <2>1. Settled(Layers, 4, B("logits")) /\ Occurs(Layers, 4) /\ ValueOf(Layers, 4) = <<"logits", Layers>>
        /\ \A o : IsAt(o, Layers, 4) => B("logits") \in o.outs
    BY SettledLogits
  <2>n. PICK n \in 0..100 : n = 4
    OBVIOUS
  <2>2. Settled(Layers, n, B("logits")) /\ Occurs(Layers, n) /\ ValueOf(Layers, n) = <<"logits", Layers>>
        /\ \A o : IsAt(o, Layers, n) => B("logits") \in o.outs
    BY <2>1, <2>n
  <2>b. PICK b : b = B("logits")
    OBVIOUS
  <2>l. PICK l : l = Layers
    OBVIOUS
  <2>3. Settled(l, n, b) /\ Occurs(l, n) /\ ValueOf(l, n) = <<"logits", Layers>> /\ \A o : IsAt(o, l, n) => b \in o.outs
    BY <2>2, <2>b, <2>l
  <2>4. \E x \in DOMAIN p : /\ ~Fenced(p[x]) /\ b \in p[x].outs /\ val[x] = ValueOf(l, n)
                             /\ p[x].last = OnlyLast(l, n) /\ Keeps(p, Metal, val, b, x, {})
    BY <2>3, SettledKept
  <2> QED BY <2>3, <2>4, <2>b DEF Leaves
<1>2. ASSUME NEW l \in 0..Layers - 1
      PROVE  \E x : Leaves(p, Metal, val, Keys(l), x, <<"kr", l>>) /\ ~p[x].last
  <2>n. PICK n \in 0..100 : n = 22
    OBVIOUS
  <2>b. PICK b : b = Keys(l)
    OBVIOUS
  <2>1. Settled(l, 22, Keys(l)) /\ Occurs(l, 22) /\ ValueOf(l, 22) = <<"kr", l>>
         /\ \A o : IsAt(o, l, 22) => Keys(l) \in o.outs
    BY SettledKeys
  <2>2. Settled(l, n, b) /\ Occurs(l, n) /\ ValueOf(l, n) = <<"kr", l>> /\ \A o : IsAt(o, l, n) => b \in o.outs
    BY <2>1, <2>n, <2>b
  <2>3. \E x \in DOMAIN p : /\ ~Fenced(p[x]) /\ b \in p[x].outs /\ val[x] = ValueOf(l, n)
                             /\ p[x].last = OnlyLast(l, n) /\ Keeps(p, Metal, val, b, x, {})
    BY <2>2, SettledKept
  <2>4. ~OnlyLast(l, n)
    BY <2>n DEF OnlyLast
  <2> QED BY <2>2, <2>3, <2>4, <2>b DEF Leaves
<1>3. ASSUME NEW l \in 0..Layers - 1
      PROVE  \E x : Leaves(p, Metal, val, Values(l), x, <<"v", l>>) /\ ~p[x].last
  <2>n. PICK n : n = IF Host THEN 20 ELSE IF HasBias("bv", l) THEN 17 ELSE 12
    OBVIOUS
  <2>b. PICK b : b = Values(l)
    OBVIOUS
  <2>1. Settled(l, n, Values(l)) /\ Occurs(l, n) /\ ValueOf(l, n) = <<"v", l>> /\ n \notin {2, 4}
         /\ \A o : IsAt(o, l, n) => Values(l) \in o.outs
    BY SettledValues, <2>n
  <2>2. Settled(l, n, b) /\ Occurs(l, n) /\ ValueOf(l, n) = <<"v", l>> /\ \A o : IsAt(o, l, n) => b \in o.outs
    BY <2>1, <2>b
  <2>3. \E x \in DOMAIN p : /\ ~Fenced(p[x]) /\ b \in p[x].outs /\ val[x] = ValueOf(l, n)
                             /\ p[x].last = OnlyLast(l, n) /\ Keeps(p, Metal, val, b, x, {})
    BY <2>2, SettledKept
  <2>4. ~OnlyLast(l, n)
    BY <2>1 DEF OnlyLast
  <2> QED BY <2>2, <2>3, <2>4, <2>b DEF Leaves
<1> QED BY <1>1, <1>2, <1>3 DEF Final

\* A program, and what its operations leave.
Explained(p, m, val) ==
  /\ val[0] = <<"x", 0>> /\ (\E h \in Nat : DOMAIN p = 1..h)
  /\ Annotated(p, m, val) /\ Final(p, m, val)

\* The pass of every engine, as the layers of forward.rs, forward_quantized.rs, gemma.rs,
\* vt_cuda.cu and MetalForward::step put its operations together: each operation has a
\* value it leaves in whatever order the program runs, and among what is left are the
\* logits of the last layer and the keys and values of every layer.
THEOREM ProgramExplained ==
  ASSUME Layers \in Nat, KnownEngine, EngineReady, InScope
  PROVE  \E val : Explained(Program, Metal, val)
<1>1. LaidOut
  BY AllLaidOut
<1>2. PICK lab, h : h \in Nat /\ IsTable(Program, h) /\ Labelled(Program, lab) /\ \A k \in DOMAIN Program : lab[k] \in (0..Layers) \X (0..46)
  BY <1>1, ProgramLabelled
<1>3. PICK p : p = Program
  OBVIOUS
<1>4. Labelled(p, lab)
  BY <1>2, <1>3
<1>5. Chained(p, lab)
  <2>1. CASE Metal
    <3>1. AllOrNoBias
      BY <2>1 DEF Metal, InScope, ForMetal
    <3> QED BY <1>4, <2>1, <3>1, ChainedMetal
  <2>2. CASE ~Metal
    BY <1>4, <2>2, ChainedPlain
  <2> QED BY <2>1, <2>2
<1>6. PICK n \in Nat : DOMAIN p = 1..n
  BY <1>4 DEF Labelled
<1> DEFINE val == [k \in 0..n |-> IF k = 0 THEN <<"x", 0>> ELSE ValueOf(lab[k][1], lab[k][2])]
<1>7. ValuesFrom(lab, p, val)
  BY <1>6 DEF ValuesFrom
<1> HIDE DEF val
<1>8. Annotated(p, Metal, val) /\ Final(p, Metal, val)
  BY <1>4, <1>5, <1>7, LabelsAnnotate, LabelsFinal
<1>9. Explained(p, Metal, val)
  BY <1>6, <1>7, <1>8 DEF Explained, ValuesFrom
<1> QED BY <1>3, <1>9
=============================================================================

------------------------------ MODULE LinearProofs ------------------------------
EXTENDS LinearAgreement, SeqLemmas

(***************************************************************************)
(* The quantized linears for every number of rows, length of a row, number *)
(* of threads and schedule: what the worker pool and the kernels of the    *)
(* device leave in the result is the canonical reduction of the scheme.    *)
(*                                                                         *)
(* The order below: arithmetic of blocks and the uniqueness of a chain of  *)
(* additions; the pool (PoolInv); launches, blocks, barriers and the three *)
(* kinds of kernel (GpuInv); the two together (LinearInv), the theorems.   *)
(***************************************************************************)

(* CeilDiv(m, n) blocks of n, the last one perhaps incomplete, are what m elements need. *)
LEMMA CeilDivCounts ==
  ASSUME NEW m \in Nat, NEW n \in Nat \ {0}, NEW i \in Nat
  PROVE  /\ CeilDiv(m, n) \in Nat
         /\ i < CeilDiv(m, n) <=> i * n < m
<1> DEFINE q == (m + n - 1) \div n
<1>1. q \in Nat /\ n * q <= m + n - 1 /\ m + n - 1 < n * (q + 1)
  OBVIOUS
<1> HIDE DEF q
<1>2. i < q => i * n < m
  <2>1. i + 1 <= q => n * (i + 1) <= n * q
    BY <1>1, TimesMonotone
  <2> QED BY <1>1, <2>1
<1>3. i >= q => i * n >= m
  <2>1. i >= q => n * q <= n * i
    BY <1>1, TimesMonotone
  <2>2. n * (q + 1) = n * q + n
    BY <1>1
  <2> QED BY <1>1, <2>1, <2>2
<1> QED BY <1>1, <1>2, <1>3 DEF CeilDiv, q

-----------------------------------------------------------------------------
(* The accumulator after its first terms, and what determines it. *)
Adds(acc, base, len, terms) ==
  acc = [m \in 0..len |-> IF m = 0 THEN base ELSE Plus(acc[m-1], terms[m])]

(* Two runs of the same additions agree wherever both have come. *)
LEMMA AddsSame ==
  ASSUME NEW base, NEW len \in Nat, NEW terms, NEW other, NEW f, NEW g,
         NEW more \in Nat, more >= len,
         Adds(f, base, len, terms), Adds(g, base, more, other),
         \A m \in 1..len : terms[m] = other[m],
         NEW i \in 0..len
  PROVE  f[i] = g[i]
<1> DEFINE T == {m \in Nat : m <= len /\ f[m] # g[m]}
<1>1. CASE T = {}
  BY <1>1
<1>2. CASE T # {}
  <2>1. PICK m \in T : \A k \in T : m <= k
    BY <1>2, LeastElement
  <2>2. m = 0 => f[m] = base /\ g[m] = base
    BY <2>1 DEF Adds
  <2>3. m # 0 => f[m] = Plus(f[m-1], terms[m]) /\ g[m] = Plus(g[m-1], other[m])
    BY <2>1 DEF Adds
  <2>4. m # 0 => f[m-1] = g[m-1]
    BY <2>1
  <2> QED BY <2>1, <2>2, <2>3, <2>4
<1> QED BY <1>1, <1>2

(* The additions can be done. *)
LEMMA AddsExists ==
  ASSUME NEW base, NEW len \in Nat, NEW terms
  PROVE  \E f : Adds(f, base, len, terms)
<1> DEFINE T == {n \in Nat : ~ \E f : Adds(f, base, n, terms)}
<1>1. CASE T = {}
  BY <1>1
<1>2. CASE T # {}
  <2>1. PICK n \in T : \A k \in T : n <= k
    BY <1>2, LeastElement
  <2>2. n # 0
    <3> DEFINE f == [m \in 0..0 |-> base]
    <3>1. Adds(f, base, 0, terms)
      BY DEF Adds
    <3> QED BY <2>1, <3>1
  <2>3. PICK f : Adds(f, base, n - 1, terms)
    BY <2>1, <2>2
  <2> DEFINE g == [m \in 0..n |-> IF m = n THEN Plus(f[n-1], terms[n]) ELSE f[m]]
  <2>4. Adds(g, base, n, terms)
    <3>1. \A m \in 0..n : g[m] = IF m = 0 THEN base ELSE Plus(g[m-1], terms[m])
      BY <2>1, <2>2, <2>3 DEF Adds
    <3>2. g = [m \in 0..n |-> g[m]]
      OBVIOUS
    <3> HIDE DEF g
    <3> QED BY <3>1, <3>2 DEF Adds
  <2> QED BY <2>1, <2>4
<1> QED BY <1>1, <1>2

(* The sum is the last value of a run of the additions. *)
LEMMA AccumulatedBy ==
  ASSUME NEW base, NEW len \in Nat, NEW terms
  PROVE  \E f : Adds(f, base, len, terms) /\ Accumulated(base, len, terms) = f[len]
<1> DEFINE acc == CHOOSE f : Adds(f, base, len, terms)
<1>1. Adds(acc, base, len, terms)
  BY AddsExists
<1>2. Accumulated(base, len, terms) = acc[len]
  BY DEF Accumulated, Adds
<1> QED BY <1>1, <1>2

(* The first term is added to the base ... *)
LEMMA AccumulatedNone ==
  ASSUME NEW base, NEW terms
  PROVE  Accumulated(base, 0, terms) = base
<1>1. PICK f : Adds(f, base, 0, terms) /\ Accumulated(base, 0, terms) = f[0]
  BY AccumulatedBy
<1> QED BY <1>1 DEF Adds

(* ... and each later one to the sum of those before. *)
LEMMA AccumulatedNext ==
  ASSUME NEW base, NEW len \in Nat, NEW terms, NEW before, \A m \in 1..len : before[m] = terms[m]
  PROVE  Accumulated(base, len + 1, terms) = Plus(Accumulated(base, len, before), terms[len + 1])
<1>1. PICK f : Adds(f, base, len, before) /\ Accumulated(base, len, before) = f[len]
  BY AccumulatedBy
<1>2. PICK g : Adds(g, base, len + 1, terms) /\ Accumulated(base, len + 1, terms) = g[len + 1]
  <2>1. len + 1 \in Nat
    OBVIOUS
  <2> QED BY <2>1, AccumulatedBy
<1>3. f[len] = g[len]
  <2>1. PICK more \in Nat : more = len + 1
    OBVIOUS
  <2>2. more >= len /\ len \in 0..len /\ Adds(g, base, more, terms)
    BY <1>2, <2>1
  <2> QED BY <1>1, <2>1, <2>2, AddsSame
<1>4. g[len + 1] = Plus(g[len], terms[len + 1])
  BY <1>2 DEF Adds
<1> QED BY <1>1, <1>2, <1>3, <1>4

(* A sum may be continued where it was interrupted. *)
LEMMA AccumulatedOn ==
  ASSUME NEW base, NEW len \in Nat, NEW more \in Nat, NEW terms, NEW first, NEW rest,
         \A m \in 1..len : first[m] = terms[m],
         \A m \in 1..more : rest[m] = terms[len + m]
  PROVE  Accumulated(Accumulated(base, len, first), more, rest) = Accumulated(base, len + more, terms)
<1> DEFINE mid == Accumulated(base, len, first)
           T == {n \in Nat : n <= more /\ Accumulated(mid, n, rest) # Accumulated(base, len + n, terms)}
<1>1. CASE T = {}
  BY <1>1
<1>2. CASE T # {}
  <2> HIDE DEF mid
  <2>1. PICK n \in T : \A k \in T : n <= k
    BY <1>2, LeastElement
  <2>2. n # 0
    <3>1. Accumulated(mid, 0, rest) = mid
      BY AccumulatedNone
    <3>2. mid = Accumulated(base, len, terms)
      <4>1. PICK f : Adds(f, base, len, first) /\ mid = f[len]
        BY AccumulatedBy DEF mid
      <4>2. PICK g : Adds(g, base, len, terms) /\ Accumulated(base, len, terms) = g[len]
        BY AccumulatedBy
      <4> QED BY <4>1, <4>2, AddsSame
    <3> QED BY <2>1, <3>1, <3>2
  <2>3. PICK j \in Nat : n = j + 1 /\ len + j \in Nat /\ len + n = (len + j) + 1
    <3>1. n - 1 \in Nat /\ n = (n - 1) + 1 /\ len + (n - 1) \in Nat /\ len + n = (len + (n - 1)) + 1
      BY <2>1, <2>2
    <3> QED BY <3>1, Zenon
  <2>4. Accumulated(mid, j, rest) = Accumulated(base, len + j, terms)
    BY <2>1, <2>3
  <2>5. Accumulated(mid, j + 1, rest) = Plus(Accumulated(mid, j, rest), rest[j + 1])
    BY <2>3, AccumulatedNext
  <2>6. Accumulated(base, (len + j) + 1, terms)
          = Plus(Accumulated(base, len + j, terms), terms[(len + j) + 1])
    <3>1. PICK k \in Nat : k = len + j
      BY <2>3
    <3>2. Accumulated(base, k + 1, terms) = Plus(Accumulated(base, k, terms), terms[k + 1])
      BY AccumulatedNext
    <3> QED BY <3>1, <3>2
  <2>7. rest[j + 1] = terms[(len + j) + 1]
    BY <2>1, <2>3
  <2> QED BY <2>1, <2>3, <2>4, <2>5, <2>6, <2>7
<1> QED BY <1>1, <1>2

-----------------------------------------------------------------------------
(* The sizes, and the shapes of a call. *)
LEMMA Sizes ==
  /\ Lanes \in Nat \ {0} /\ SubBlock \in Nat \ {0} /\ SubBlocks \in Nat \ {0}
  /\ SupersPerChunk \in Nat \ {0} /\ Super \in Nat \ {0} /\ Chunk \in Nat \ {0}
  /\ MaxRows \in Nat \ {0} /\ MaxBatch \in Nat \ {0} /\ MaxSupers \in Nat \ {0}
  /\ Super \div Lanes \in Nat \ {0} /\ Super = Lanes * (Super \div Lanes)
  /\ Chunk = Super * SupersPerChunk
<1>1. /\ Lanes \in Nat \ {0} /\ SubBlock \in Nat \ {0} /\ SubBlocks \in Nat \ {0}
      /\ SupersPerChunk \in Nat \ {0}
      /\ MaxRows \in Nat \ {0} /\ MaxBatch \in Nat \ {0} /\ MaxSupers \in Nat \ {0}
  BY ReductionAssumption
<1>2. Super \in Nat \ {0}
  BY <1>1 DEF Super
<1>3. Chunk \in Nat \ {0} /\ Chunk = Super * SupersPerChunk
  BY <1>1, <1>2 DEF Chunk
<1>4. Super % Lanes = 0
  BY ReductionAssumption
<1>5. Super \div Lanes \in Nat /\ Super = Lanes * (Super \div Lanes)
  BY <1>1, <1>2, <1>4, DivNat
<1> QED BY <1>1, <1>2, <1>3, <1>5

(* The shapes and the kinds of a call: a k-quant row is whole super-blocks, only a
   prefill has a batch, and it is of regime 3. *)
LEMMA CallFacts ==
  ASSUME NEW c \in Call
  PROVE  /\ c.rows \in Nat \ {0} /\ c.batch \in Nat \ {0} /\ c.k \in Nat \ {0}
         /\ Supers(c) \in 0..MaxSupers
         /\ c.dtype \in KQuant => c.k = Super * Supers(c) /\ Supers(c) # 0
         /\ c.regime \in {2, 3} /\ c.dtype \in {"Q4_K", "Q6_K", "Q8_0", "Q5_0"}
         /\ c.entry \in {"step", "prefill", "hook"}
         /\ c.entry = "prefill" => c.regime = 3
         /\ c.entry = "hook" => c.dtype = "Q4_K" /\ c.regime = 2
         /\ c.batch > 1 => c.entry = "prefill"
<1>1. /\ c.entry \in {"step", "prefill", "hook"} /\ c.dtype \in KQuant \cup {"Q8_0", "Q5_0"}
      /\ c.regime \in {2, 3} /\ c.rows \in 1..MaxRows /\ c.batch \in 1..MaxBatch
      /\ c.k \in {m * SubBlock : m \in 1..MaxSupers * SubBlocks}
      /\ c.dtype \in KQuant => c.k % Super = 0
      /\ c.entry = "prefill" => c.regime = 3
      /\ c.entry = "hook" => c.dtype = "Q4_K" /\ c.regime = 2
      /\ c.batch > 1 => c.entry = "prefill"
  BY DEF Call
<1>2. c.rows \in Nat \ {0} /\ c.batch \in Nat \ {0}
  BY <1>1, Sizes
<1>3. PICK m \in 1..MaxSupers * SubBlocks : c.k = m * SubBlock
  BY <1>1
<1>4. c.k \in Nat \ {0} /\ c.k <= MaxSupers * Super
  <2>1. m \in Nat \ {0} /\ m <= MaxSupers * SubBlocks
    BY <1>3, Sizes
  <2>2. SubBlock * m <= SubBlock * (MaxSupers * SubBlocks)
    BY <2>1, Sizes, TimesMonotone
  <2>3. SubBlock * (MaxSupers * SubBlocks) = MaxSupers * Super
    BY Sizes DEF Super
  <2> QED BY <1>3, <2>1, <2>2, <2>3, Sizes
<1>5. Supers(c) \in Nat /\ c.k = Super * Supers(c) + (c.k % Super) /\ c.k % Super \in 0..Super-1
  BY <1>4, Sizes, DivNat DEF Supers
<1>6. Supers(c) <= MaxSupers
  <2>1. Supers(c) >= MaxSupers + 1 => Super * (MaxSupers + 1) <= Super * Supers(c)
    BY <1>5, Sizes, TimesMonotone
  <2>2. Super * (MaxSupers + 1) = MaxSupers * Super + Super
    BY Sizes
  <2> QED BY <1>4, <1>5, <2>1, <2>2, Sizes
<1>7. ASSUME c.dtype \in KQuant PROVE c.k = Super * Supers(c) /\ Supers(c) # 0
  <2>1. c.k % Super = 0
    BY <1>1, <1>7
  <2>2. c.k = Super * Supers(c)
    BY <1>4, <1>5, <2>1, Sizes
  <2>3. Super * 0 = 0
    BY Sizes
  <2> QED BY <1>4, <2>2, <2>3
<1> QED BY <1>1, <1>2, <1>4, <1>5, <1>6, <1>7, Sizes DEF KQuant

(* Which call is reduced how (linear_dispatch). *)
LEMMA Schemes ==
  ASSUME NEW c \in Call
  PROVE  /\ Scheme(c) \in {"fused", "dense", "tree", "running"}
         /\ Scheme(c) = "dense" <=> c.dtype \notin KQuant
         /\ Scheme(c) = "fused" <=> c.entry # "hook" /\ c.regime = 2 /\ c.dtype = "Q4_K"
         /\ Scheme(c) = "running" <=> c.entry # "hook" /\ c.regime = 3 /\ c.dtype \in KQuant
         /\ Scheme(c) = "tree" <=> c.entry = "hook" \/ (c.regime = 2 /\ c.dtype = "Q6_K")
BY CallFacts DEF Scheme, KQuant

-----------------------------------------------------------------------------
(* The lanes of a canonical dot, cut at a multiple of their number. *)
LaneCount(from, to, j) == (to - from - j) \div Lanes + 1

(* A lane has as many products of a run of elements as there are rounds of all lanes. *)
LEMMA LaneCounts ==
  ASSUME NEW from \in Nat, NEW p \in Nat, NEW j \in 1..Lanes
  PROVE  LaneCount(from, from + Lanes * p, j) = p
<1>1. (from + Lanes * p) - from - j = Lanes * (p - 1) + (Lanes - j)
  BY Sizes
<1>2. (Lanes * (p - 1) + (Lanes - j)) \div Lanes = p - 1
  <2>1. Lanes - j \in 0..Lanes-1 /\ p - 1 \in Int /\ Lanes * (p - 1) + (Lanes - j) \in Int
    BY Sizes
  <2> QED BY <2>1, Sizes, DivUnique
<1> QED BY <1>1, <1>2 DEF LaneCount

Weighed(n, r, i) == Product(n, r, i \div Super, i % Super, WeightOf(i % Super))
LaneTerms(n, r, from, len, j) == [m \in 1..len |-> Weighed(n, r, from + (m - 1) * Lanes + j - 1)]

(* A lane adds its products in their order ... *)
LEMMA LaneSumIs ==
  ASSUME NEW base, NEW n, NEW r, NEW from \in Nat, NEW p \in Nat, NEW j \in 1..Lanes
  PROVE  LaneSum(base, n, r, from, from + Lanes * p, j) = Accumulated(base, p, LaneTerms(n, r, from, p, j))
<1> DEFINE to == from + Lanes * p
<1>1. LaneSum(base, n, r, from, to, j)
        = Accumulated(base, LaneCount(from, to, j), LaneTerms(n, r, from, LaneCount(from, to, j), j))
  BY DEF LaneSum, ChainFrom, LaneTerms, LaneCount, Weighed
<1> QED BY <1>1, LaneCounts

(* ... none of no elements ... *)
LEMMA LaneSumNone ==
  ASSUME NEW base, NEW n, NEW r, NEW from \in Nat, NEW j \in 1..Lanes
  PROVE  LaneSum(base, n, r, from, from, j) = base
<1>1. from + Lanes * 0 = from
  BY Sizes
<1>2. LaneSum(base, n, r, from, from + Lanes * 0, j) = Accumulated(base, 0, LaneTerms(n, r, from, 0, j))
  BY LaneSumIs
<1> QED BY <1>1, <1>2, AccumulatedNone

(* ... and goes on where it stopped, as the fused dot does at every super-block. *)
LEMMA LaneSumOn ==
  ASSUME NEW base, NEW n, NEW r, NEW from \in Nat, NEW p \in Nat, NEW q \in Nat, NEW j \in 1..Lanes,
         NEW mid, mid = from + Lanes * p, NEW to, to = mid + Lanes * q
  PROVE  LaneSum(LaneSum(base, n, r, from, mid, j), n, r, mid, to, j) = LaneSum(base, n, r, from, to, j)
<1>1. mid \in Nat /\ to = from + Lanes * (p + q) /\ p + q \in Nat
  BY Sizes
<1> DEFINE first == LaneTerms(n, r, from, p, j)
           rest == LaneTerms(n, r, mid, q, j)
           all == LaneTerms(n, r, from, p + q, j)
           half == LaneSum(base, n, r, from, mid, j)
<1>2. half = Accumulated(base, p, first)
  BY LaneSumIs
<1>3. LaneSum(half, n, r, mid, to, j) = Accumulated(half, q, rest)
  <2> HIDE DEF half
  <2> QED BY <1>1, LaneSumIs
<1>4. LaneSum(base, n, r, from, to, j) = Accumulated(base, p + q, all)
  BY <1>1, LaneSumIs
<1>5. \A m \in 1..p : first[m] = all[m]
  BY DEF LaneTerms
<1>6. ASSUME NEW m \in 1..q PROVE rest[m] = all[p + m]
  <2>1. from + (p + m - 1) * Lanes + j - 1 = mid + (m - 1) * Lanes + j - 1
    BY Sizes
  <2>2. p + m \in 1..p+q
    OBVIOUS
  <2>3. rest[m] = Weighed(n, r, mid + (m - 1) * Lanes + j - 1)
    BY DEF LaneTerms
  <2>4. all[p + m] = Weighed(n, r, from + (p + m - 1) * Lanes + j - 1)
    BY <2>2 DEF LaneTerms
  <2> QED BY <2>1, <2>3, <2>4
<1> HIDE DEF first, rest, all
<1>7. Accumulated(Accumulated(base, p, first), q, rest) = Accumulated(base, p + q, all)
  BY <1>5, <1>6, AccumulatedOn
<1> QED BY <1>2, <1>3, <1>4, <1>7 DEF half

-----------------------------------------------------------------------------
(* The CPU.  The accumulators of a worker after s steps of row r: what the serial     *)
(* kernel would have there. *)
ChunkPart(n, r, c) == CanonicalChunk(n, r, (c - 1) * Chunk, Lesser(c * Chunk, call.k))
BlockPart(n, r, s) == BlockDot(call.dtype, n, r, s - 1)

(* The chunks of a fused dot that are closed after s super-blocks. *)
ChunksClosed(s) == IF s = Supers(call) THEN CeilDiv(call.k, Chunk) ELSE s \div SupersPerChunk

LanesAt(n, r, s) ==
  [j \in 1..Lanes |->
     IF Scheme(call) = "fused" /\ s < Supers(call)
     THEN LaneSum(Zero, n, r, (s \div SupersPerChunk) * Chunk, s * Super, j) ELSE Zero]
PartsAt(n, r, s) ==
  CASE Scheme(call) = "fused" -> [c \in 1..ChunksClosed(s) |-> ChunkPart(n, r, c)]
    [] Scheme(call) = "dense" -> [c \in 1..s |-> ChunkPart(n, r, c)]
    [] Scheme(call) = "tree" -> [t \in 1..s |-> BlockPart(n, r, t)]
    [] Scheme(call) = "running" -> << >>
SumAt(n, r, s) ==
  IF Scheme(call) = "running" THEN Accumulated(Zero, s, [t \in 1..s |-> BlockPart(n, r, t)]) ELSE Zero

AccAt(n, r, s) == [lanes |-> LanesAt(n, r, s), parts |-> PartsAt(n, r, s), sum |-> SumAt(n, r, s)]

(* Every row has at least one step, and that of a k-quant a super-block in each. *)
LEMMA PoolSteps ==
  ASSUME call \in Call
  PROVE  /\ Steps \in Nat \ {0}
         /\ Scheme(call) = "dense" => Steps = CeilDiv(call.k, Chunk)
         /\ Scheme(call) # "dense" => Steps = Supers(call) /\ call.k = Super * Steps
<1>1. CASE Scheme(call) = "dense"
  <2>1. CeilDiv(call.k, Chunk) \in Nat /\ (0 < CeilDiv(call.k, Chunk) <=> 0 * Chunk < call.k)
    BY CallFacts, Sizes, CeilDivCounts
  <2> QED BY <1>1, <2>1, CallFacts, Sizes DEF Steps
<1>2. CASE Scheme(call) # "dense"
  BY <1>2, CallFacts, Schemes DEF Steps
<1> QED BY <1>1, <1>2

(* A worker starts a row with the accumulators of no step. *)
LEMMA AccFresh ==
  ASSUME call \in Call, NEW n, NEW r
  PROVE  AccAt(n, r, 0) = Fresh
<1>1. LanesAt(n, r, 0) = [j \in 1..Lanes |-> Zero]
  <2>1. 0 \div SupersPerChunk = 0 /\ 0 * Chunk = 0 /\ 0 * Super = 0
    BY Sizes
  <2>2. \A j \in 1..Lanes : LaneSum(Zero, n, r, 0, 0, j) = Zero
    BY LaneSumNone
  <2> QED BY <2>1, <2>2 DEF LanesAt
<1>2. PartsAt(n, r, 0) = << >>
  <2>1. 0 \div SupersPerChunk = 0
    BY Sizes
  <2>2. Scheme(call) = "fused" => ChunksClosed(0) = 0
    BY <2>1, CallFacts, Schemes DEF ChunksClosed
  <2>3. [c \in 1..0 |-> ChunkPart(n, r, c)] = << >> /\ [t \in 1..0 |-> BlockPart(n, r, t)] = << >>
    OBVIOUS
  <2> QED BY <2>2, <2>3, Schemes DEF PartsAt
<1>3. SumAt(n, r, 0) = Zero
  BY AccumulatedNone DEF SumAt
<1> QED BY <1>1, <1>2, <1>3 DEF AccAt, Fresh

(* After the last step the accumulators make the element of the serial reference. *)
LEMMA AccTotal ==
  ASSUME call \in Call, NEW n, NEW r
  PROVE  Total(AccAt(n, r, Steps)) = Reference(call, n, r)
<1>1. CASE Scheme(call) = "running"
  <2>1. Reference(call, n, r) = Accumulated(Zero, Supers(call), [t \in 1..Supers(call) |-> BlockPart(n, r, t)])
    BY <1>1 DEF Reference, Dot, Chain, ChainFrom, BlockPart, Supers
  <2> QED BY <1>1, <2>1, PoolSteps DEF Total, AccAt, SumAt
<1>2. CASE Scheme(call) = "tree"
  <2>1. Reference(call, n, r) = Tree(Supers(call), [t \in 1..Supers(call) |-> BlockPart(n, r, t)])
    BY <1>2 DEF Reference, Dot, TreeOver, BlockPart, Supers
  <2>2. PartsAt(n, r, Steps) = [t \in 1..Supers(call) |-> BlockPart(n, r, t)]
    BY <1>2, PoolSteps DEF PartsAt
  <2>3. Len(PartsAt(n, r, Steps)) = Supers(call)
    BY <2>2, CallFacts, LenTable DEF IsTable
  <2> QED BY <1>2, <2>1, <2>2, <2>3 DEF Total, AccAt, FixedTree
<1>3. CASE Scheme(call) \in {"fused", "dense"}
  <2> DEFINE d == CeilDiv(call.k, Chunk)
             parts == [c \in 1..d |-> ChunkPart(n, r, c)]
  <2>1. Reference(call, n, r) = Tree(d, parts)
    BY <1>3 DEF Reference, Dot, TreeOver, CanonicalDot, ChunkPart
  <2>2. PartsAt(n, r, Steps) = parts
    BY <1>3, PoolSteps DEF PartsAt, ChunksClosed
  <2>3. Len(parts) = d
    <3>1. d \in Nat
      BY CallFacts, Sizes, CeilDivCounts
    <3> QED BY <3>1, LenTable DEF IsTable
  <2> QED BY <1>3, <2>1, <2>2, <2>3 DEF Total, AccAt, FixedTree
<1> QED BY <1>1, <1>2, <1>3, Schemes

(* A step of a dense, tree or running row. *)
LEMMA DenseAdvances ==
  ASSUME call \in Call, NEW r, NEW s \in 0..Steps-1, Scheme(call) = "dense"
  PROVE  DenseStep(AccAt(b, r, s), r, s) = AccAt(b, r, s + 1)
<1> DEFINE p == [c \in 1..s |-> ChunkPart(b, r, c)]
           q == [c \in 1..s+1 |-> ChunkPart(b, r, c)]
           e == CanonicalChunk(b, r, s * Chunk, Lesser((s + 1) * Chunk, call.k))
<1>1. s \in Nat /\ s + 1 - 1 = s
  BY PoolSteps
<1>2. e = ChunkPart(b, r, s + 1)
  BY <1>1 DEF ChunkPart
<1>3. Append(p, e) = q
  <2>1. IsTable(p, s) /\ IsTable(q, s + 1)
    BY <1>1 DEF IsTable
  <2>2. \A t \in 1..s : q[t] = p[t]
    BY <1>1
  <2>3. q[s + 1] = e
    BY <1>1, <1>2
  <2> HIDE DEF p, q, e
  <2> QED BY <1>1, <2>1, <2>2, <2>3, AppendTable
<1>4. DenseStep(AccAt(b, r, s), r, s) = [AccAt(b, r, s) EXCEPT !.parts = Append(AccAt(b, r, s).parts, e)]
  BY DEF DenseStep
<1>5. AccAt(b, r, s).parts = p /\ PartsAt(b, r, s + 1) = q
  BY DEF AccAt, PartsAt
<1>6. LanesAt(b, r, s + 1) = LanesAt(b, r, s) /\ SumAt(b, r, s + 1) = SumAt(b, r, s)
  BY DEF LanesAt, SumAt
<1> HIDE DEF p, q, e
<1> QED BY <1>3, <1>4, <1>5, <1>6 DEF AccAt

(* A step of an integer dot for the tree appends the dot of one super-block. *)
LEMMA TreeAdvances ==
  ASSUME call \in Call, NEW r, NEW s \in 0..Steps-1, Scheme(call) = "tree"
  PROVE  TreeStep(AccAt(b, r, s), r, s) = AccAt(b, r, s + 1)
<1> DEFINE p == [t \in 1..s |-> BlockPart(b, r, t)]
           q == [t \in 1..s+1 |-> BlockPart(b, r, t)]
           e == BlockDot(call.dtype, b, r, s)
<1>1. s \in Nat /\ s + 1 - 1 = s
  BY PoolSteps
<1>2. e = BlockPart(b, r, s + 1)
  BY <1>1 DEF BlockPart
<1>3. Append(p, e) = q
  <2>1. IsTable(p, s) /\ IsTable(q, s + 1)
    BY <1>1 DEF IsTable
  <2>2. \A t \in 1..s : q[t] = p[t]
    BY <1>1
  <2>3. q[s + 1] = e
    BY <1>1, <1>2
  <2> HIDE DEF p, q, e
  <2> QED BY <1>1, <2>1, <2>2, <2>3, AppendTable
<1>4. TreeStep(AccAt(b, r, s), r, s) = [AccAt(b, r, s) EXCEPT !.parts = Append(AccAt(b, r, s).parts, e)]
  BY DEF TreeStep
<1>5. AccAt(b, r, s).parts = p /\ PartsAt(b, r, s + 1) = q
  BY DEF AccAt, PartsAt
<1>6. LanesAt(b, r, s + 1) = LanesAt(b, r, s) /\ SumAt(b, r, s + 1) = SumAt(b, r, s)
  BY DEF LanesAt, SumAt
<1> HIDE DEF p, q, e
<1> QED BY <1>3, <1>4, <1>5, <1>6 DEF AccAt

(* A step of a running sum adds the dot of one super-block. *)
LEMMA RunningAdvances ==
  ASSUME call \in Call, NEW r, NEW s \in 0..Steps-1, Scheme(call) = "running"
  PROVE  RunningStep(AccAt(b, r, s), r, s) = AccAt(b, r, s + 1)
<1> DEFINE p == [t \in 1..s |-> BlockPart(b, r, t)]
           q == [t \in 1..s+1 |-> BlockPart(b, r, t)]
           e == BlockDot(call.dtype, b, r, s)
<1>1. s \in Nat /\ s + 1 - 1 = s
  BY PoolSteps
<1>2. e = BlockPart(b, r, s + 1) /\ q[s + 1] = BlockPart(b, r, s + 1)
  BY <1>1 DEF BlockPart
<1>3. Accumulated(Zero, s + 1, q) = Plus(Accumulated(Zero, s, p), q[s + 1])
  <2>1. \A t \in 1..s : p[t] = q[t]
    BY <1>1
  <2> HIDE DEF p, q
  <2> QED BY <1>1, <2>1, AccumulatedNext
<1>4. RunningStep(AccAt(b, r, s), r, s) = [AccAt(b, r, s) EXCEPT !.sum = Plus(AccAt(b, r, s).sum, e)]
  BY DEF RunningStep
<1>5. AccAt(b, r, s).sum = Accumulated(Zero, s, p) /\ SumAt(b, r, s + 1) = Accumulated(Zero, s + 1, q)
  BY DEF AccAt, SumAt
<1>6. LanesAt(b, r, s + 1) = LanesAt(b, r, s) /\ PartsAt(b, r, s + 1) = PartsAt(b, r, s)
  BY DEF LanesAt, PartsAt
<1> HIDE DEF p, q, e
<1> QED BY <1>2, <1>3, <1>4, <1>5, <1>6 DEF AccAt

(* Where super-block s ends, and the chunk it belongs to. *)
LEMMA FusedPlaces ==
  ASSUME call \in Call, Scheme(call) = "fused", NEW s \in 0..Supers(call)-1,
         NEW c, c = s \div SupersPerChunk
  PROVE  /\ c \in Nat
         /\ s * Super = c * Chunk + Lanes * ((Super \div Lanes) * (s - SupersPerChunk * c))
         /\ s - SupersPerChunk * c \in Nat
         /\ (s + 1) * Super = s * Super + Lanes * (Super \div Lanes)
         /\ Closes(s) => /\ (s + 1) * Super = Lesser((c + 1) * Chunk, call.k)
                         /\ ChunksClosed(s + 1) = c + 1
         /\ Closes(s) /\ s + 1 < Supers(call) => (s + 1) * Super = ((s + 1) \div SupersPerChunk) * Chunk
         /\ ~ Closes(s) => (s + 1) \div SupersPerChunk = c /\ s + 1 < Supers(call)
<1>1. s \in Nat /\ Supers(call) \in Nat /\ call.k \in Nat \ {0} /\ call.k = Super * Supers(call)
  BY CallFacts, Schemes
<1>2. c \in Nat /\ s = SupersPerChunk * c + (s % SupersPerChunk) /\ s % SupersPerChunk \in 0..SupersPerChunk-1
  BY <1>1, Sizes, DivNat
<1>3. s * Super = c * Chunk + Lanes * ((Super \div Lanes) * (s - SupersPerChunk * c))
  <2> DEFINE d == Super \div Lanes
             e == s - SupersPerChunk * c
  <2>1. d \in Nat /\ e \in Nat /\ Super = Lanes * d /\ s = SupersPerChunk * c + e
    BY <1>1, <1>2, Sizes
  <2>2. Chunk = Super * SupersPerChunk
    BY Sizes
  <2> HIDE DEF d, e
  <2>3. s * Super = c * Chunk + e * Super
    <3>1. (SupersPerChunk * c + e) * Super = c * (Super * SupersPerChunk) + e * Super
      <4>1. SupersPerChunk \in Nat /\ c \in Nat /\ e \in Nat /\ Super \in Nat
        BY <1>2, <2>1, Sizes
      <4>2. (SupersPerChunk * c + e) * Super = (SupersPerChunk * c) * Super + e * Super
        BY <4>1
      <4>3. (SupersPerChunk * c) * Super = c * (Super * SupersPerChunk)
        BY <4>1
      <4> QED BY <4>2, <4>3
    <3> QED BY <2>1, <2>2, <3>1
  <2>4. e * Super = Lanes * (d * e)
    BY <2>1, Sizes
  <2> QED BY <2>3, <2>4 DEF d, e
<1>4. (s + 1) * Super = s * Super + Lanes * (Super \div Lanes)
  <2>1. (s + 1) * Super = s * Super + Super
    BY <1>1, Sizes
  <2> QED BY <2>1, Sizes
<1>5. Closes(s) <=> (s + 1) % SupersPerChunk = 0 \/ s + 1 = Supers(call)
  BY DEF Closes
<1>6. (s + 1) * Super <= call.k /\ (s + 1 = Supers(call) => (s + 1) * Super = call.k)
  <2>1. Super * (s + 1) <= Super * Supers(call)
    BY <1>1, Sizes, TimesMonotone
  <2>2. (s + 1) * Super = Super * (s + 1)
    BY <1>1, Sizes
  <2> QED BY <1>1, <2>1, <2>2
<1>7. s + 1 <= SupersPerChunk * (c + 1) /\ s + 1 > SupersPerChunk * c
  BY <1>1, <1>2, Sizes
<1>8. (c + 1) * Chunk = (SupersPerChunk * (c + 1)) * Super
  BY <1>2, Sizes
<1>9. (s + 1) * Super <= (c + 1) * Chunk
  <2>1. Super * (s + 1) <= Super * (SupersPerChunk * (c + 1))
    BY <1>1, <1>2, <1>7, Sizes, TimesMonotone
  <2> QED BY <1>1, <1>2, <1>8, <2>1, Sizes
<1>10. (s + 1) % SupersPerChunk = 0 => s + 1 = SupersPerChunk * (c + 1)
  <2> DEFINE f == (s + 1) \div SupersPerChunk
  <2>1. ASSUME (s + 1) % SupersPerChunk = 0 PROVE s + 1 = SupersPerChunk * f /\ f \in Nat
    <3>1. PICK k \in Nat : k = s + 1
      BY <1>1
    <3>2. k \div SupersPerChunk \in Nat /\ k = SupersPerChunk * (k \div SupersPerChunk) + (k % SupersPerChunk)
      BY Sizes, DivNat
    <3>3. k % SupersPerChunk = 0 /\ f = k \div SupersPerChunk
      BY <2>1, <3>1
    <3> QED BY <3>1, <3>2, <3>3, Sizes
  <2> HIDE DEF f
  <2>2. f \in Nat /\ f >= c + 2 => SupersPerChunk * (c + 2) <= SupersPerChunk * f
    BY <1>2, Sizes, TimesMonotone
  <2>3. f \in Nat /\ f <= c => SupersPerChunk * f <= SupersPerChunk * c
    BY <1>2, Sizes, TimesMonotone
  <2>4. SupersPerChunk * (c + 2) = SupersPerChunk * (c + 1) + SupersPerChunk
    BY <1>2, Sizes
  <2> QED
    <3> SUFFICES ASSUME (s + 1) % SupersPerChunk = 0 PROVE s + 1 = SupersPerChunk * (c + 1)
      OBVIOUS
    <3>1. s + 1 = SupersPerChunk * f /\ f \in Nat
      BY <2>1
    <3>2. SupersPerChunk * (c + 1) \in Nat /\ SupersPerChunk * c \in Nat /\ SupersPerChunk * f \in Nat
      BY <1>2, <3>1, Sizes
    <3>3. ~ f >= c + 2 /\ ~ f <= c
      BY <1>1, <1>2, <1>7, <2>2, <2>3, <2>4, <3>1, <3>2, Sizes
    <3>4. f = c + 1
      BY <1>2, <3>1, <3>3
    <3> QED BY <3>1, <3>4
<1>11. (s + 1) % SupersPerChunk = 0 => (s + 1) * Super = (c + 1) * Chunk
  BY <1>8, <1>10
<1>12. Closes(s) => (s + 1) * Super = Lesser((c + 1) * Chunk, call.k)
  BY <1>1, <1>2, <1>5, <1>6, <1>9, <1>11, Sizes DEF Lesser
<1>13. (s + 1) % SupersPerChunk = 0 => (s + 1) \div SupersPerChunk = c + 1
  <2>1. PICK k \in Int : k = s + 1
    BY <1>1
  <2>2. PICK d \in Int : d = c + 1
    BY <1>2
  <2>3. k = SupersPerChunk * d => k \div SupersPerChunk = d
    BY Sizes, DivExact
  <2> QED BY <1>10, <2>1, <2>2, <2>3
<1>14. Closes(s) => ChunksClosed(s + 1) = c + 1
  <2>1. CASE s + 1 # Supers(call)
    BY <1>5, <1>13, <2>1 DEF ChunksClosed
  <2>2. CASE s + 1 = Supers(call)
    <3>1. c * Chunk < call.k
      <4>1. c * Chunk = Super * (SupersPerChunk * c)
        BY <1>2, Sizes
      <4>2. Super * (SupersPerChunk * c + 1) <= Super * (s + 1)
        BY <1>1, <1>2, <1>7, Sizes, TimesMonotone
      <4>3. Super * (SupersPerChunk * c + 1) = Super * (SupersPerChunk * c) + Super
        BY <1>2, Sizes
      <4> QED BY <1>1, <1>2, <1>6, <2>2, <4>1, <4>2, <4>3, Sizes
    <3>2. call.k <= (c + 1) * Chunk
      BY <1>6, <1>9, <2>2
    <3>3. CeilDiv(call.k, Chunk) \in Nat /\ c < CeilDiv(call.k, Chunk) /\ ~ (c + 1 < CeilDiv(call.k, Chunk))
      <4>1. /\ CeilDiv(call.k, Chunk) \in Nat
            /\ c < CeilDiv(call.k, Chunk) <=> c * Chunk < call.k
        BY <1>1, <1>2, Sizes, CeilDivCounts
      <4>2. PICK d \in Nat : d = c + 1
        BY <1>2
      <4>3. d < CeilDiv(call.k, Chunk) <=> d * Chunk < call.k
        BY <1>1, Sizes, CeilDivCounts
      <4>4. d * Chunk \in Nat
        BY Sizes
      <4> QED BY <1>1, <3>1, <3>2, <4>1, <4>2, <4>3, <4>4
    <3> QED BY <1>2, <2>2, <3>3 DEF ChunksClosed
  <2> QED BY <2>1, <2>2
<1>15. ~ Closes(s) => (s + 1) \div SupersPerChunk = c /\ s + 1 < Supers(call)
  <2>1. ASSUME ~ Closes(s) PROVE s + 1 < Supers(call)
    BY <1>1, <1>5, <2>1
  <2>2. ASSUME ~ Closes(s) PROVE (s + 1) \div SupersPerChunk = c
    <3>1. s + 1 # SupersPerChunk * (c + 1)
      <4>1. SupersPerChunk * (c + 1) + 0 = SupersPerChunk * (c + 1) /\ c + 1 \in Int
            /\ 0 \in 0..SupersPerChunk-1 /\ s + 1 \in Int
        BY <1>1, <1>2, Sizes
      <4>2. PICK k \in Int : k = s + 1
        BY <1>1
      <4>3. PICK d \in Int : d = c + 1
        BY <1>2
      <4>4. k = SupersPerChunk * d => k % SupersPerChunk = 0
        BY Sizes, DivExact
      <4> QED BY <1>5, <2>2, <4>1, <4>2, <4>3, <4>4
    <3>2. s + 1 - SupersPerChunk * c \in 0..SupersPerChunk-1
      BY <1>1, <1>2, <1>7, <3>1, Sizes
    <3>3. c \in Int /\ s + 1 \in Int /\ s + 1 = SupersPerChunk * c + (s + 1 - SupersPerChunk * c)
      BY <1>1, <1>2, Sizes
    <3>4. PICK k \in Int : k = s + 1
      BY <3>3
    <3>5. k \div SupersPerChunk = c
      <4>1. SupersPerChunk * c <= k /\ k < SupersPerChunk * c + SupersPerChunk
        <5>1. SupersPerChunk * c \in Int
          BY <1>2, Sizes
        <5> QED BY <1>1, <3>2, <3>4, <5>1, Sizes
      <4> QED BY <3>3, <4>1, Sizes, DivWithin
    <3> QED BY <3>4, <3>5
  <2> QED BY <2>1, <2>2
<1>16. Closes(s) /\ s + 1 < Supers(call) => (s + 1) * Super = ((s + 1) \div SupersPerChunk) * Chunk
  <2>1. Closes(s) /\ s + 1 < Supers(call) => (s + 1) % SupersPerChunk = 0
    BY <1>1, <1>5
  <2> QED BY <1>11, <1>13, <2>1
<1>17. s - SupersPerChunk * c \in Nat
  BY <1>1, <1>2, Sizes
<1> QED BY <1>2, <1>3, <1>4, <1>12, <1>14, <1>15, <1>16, <1>17

(* A step of the fused kernel: the lanes go on, and a chunk that ends is combined. *)
LEMMA FusedAdvances ==
  ASSUME call \in Call, NEW r, NEW s \in 0..Steps-1, Scheme(call) = "fused"
  PROVE  FusedStep(AccAt(b, r, s), r, s) = AccAt(b, r, s + 1)
<1> DEFINE acc == AccAt(b, r, s)
           c == s \div SupersPerChunk
           lane(j) == LaneSum(acc.lanes[j], b, r, s * Super, (s + 1) * Super, j)
           full(j) == LaneSum(Zero, b, r, c * Chunk, (s + 1) * Super, j)
<1>1. s \in 0..Supers(call)-1 /\ Supers(call) \in Nat /\ Steps = Supers(call)
  BY PoolSteps, CallFacts
<1>2. /\ c \in Nat
      /\ s * Super = c * Chunk + Lanes * ((Super \div Lanes) * (s - SupersPerChunk * c))
      /\ s - SupersPerChunk * c \in Nat
      /\ (s + 1) * Super = s * Super + Lanes * (Super \div Lanes)
      /\ Closes(s) => /\ (s + 1) * Super = Lesser((c + 1) * Chunk, call.k)
                      /\ ChunksClosed(s + 1) = c + 1
      /\ Closes(s) /\ s + 1 < Supers(call) => (s + 1) * Super = ((s + 1) \div SupersPerChunk) * Chunk
      /\ ~ Closes(s) => (s + 1) \div SupersPerChunk = c /\ s + 1 < Supers(call)
  BY <1>1, FusedPlaces
<1>3. /\ acc.lanes = [j \in 1..Lanes |-> LaneSum(Zero, b, r, c * Chunk, s * Super, j)]
      /\ acc.sum = Zero /\ acc.parts = [d \in 1..c |-> ChunkPart(b, r, d)]
  <2>1. s < Supers(call) /\ s # Supers(call)
    BY <1>1
  <2> QED BY <2>1 DEF AccAt, LanesAt, PartsAt, SumAt, ChunksClosed
<1> HIDE DEF c
<1>4. ASSUME NEW j \in 1..Lanes PROVE lane(j) = full(j)
  <2> DEFINE p == (Super \div Lanes) * (s - SupersPerChunk * c)
             q == Super \div Lanes
  <2>1. p \in Nat /\ q \in Nat /\ c * Chunk \in Nat
    BY <1>2, Sizes
  <2>2. s * Super = c * Chunk + Lanes * p /\ (s + 1) * Super = s * Super + Lanes * q
    BY <1>2
  <2>3. acc.lanes[j] = LaneSum(Zero, b, r, c * Chunk, s * Super, j)
    BY <1>3
  <2> HIDE DEF p, q, acc
  <2>4. PICK from \in Nat : from = c * Chunk
    BY <2>1
  <2>5. PICK mid : mid = s * Super
    OBVIOUS
  <2>6. PICK to : to = (s + 1) * Super
    OBVIOUS
  <2>7. LaneSum(LaneSum(Zero, b, r, from, mid, j), b, r, mid, to, j) = LaneSum(Zero, b, r, from, to, j)
    BY <2>1, <2>2, <2>4, <2>5, <2>6, LaneSumOn
  <2> QED BY <2>3, <2>4, <2>5, <2>6, <2>7
<1>5. FusedStep(acc, r, s) =
        IF Closes(s) THEN [acc EXCEPT !.parts = Append(acc.parts, TreeOver(Lanes, lane)), !.lanes = Fresh.lanes]
        ELSE [acc EXCEPT !.lanes = [j \in 1..Lanes |-> lane(j)]]
  BY DEF FusedStep
<1>6. [j \in 1..Lanes |-> lane(j)] = [j \in 1..Lanes |-> full(j)]
  BY <1>4
<1>7. TreeOver(Lanes, lane) = TreeOver(Lanes, full)
  BY <1>6 DEF TreeOver
<1>8. SumAt(b, r, s + 1) = Zero
  BY DEF SumAt
<1>9. CASE ~ Closes(s)
  <2>1. LanesAt(b, r, s + 1) = [j \in 1..Lanes |-> full(j)]
    BY <1>2, <1>9 DEF LanesAt
  <2>2. PartsAt(b, r, s + 1) = acc.parts
    <3>1. ChunksClosed(s + 1) = c
      BY <1>2, <1>9 DEF ChunksClosed
    <3> QED BY <1>3, <3>1 DEF PartsAt
  <2> HIDE DEF lane, full
  <2> QED BY <1>3, <1>5, <1>6, <1>8, <1>9, <2>1, <2>2 DEF AccAt
<1>10. CASE Closes(s)
  <2>1. LanesAt(b, r, s + 1) = Fresh.lanes
    <3>1. CASE s + 1 < Supers(call)
      <4>1. (s + 1) * Super \in Nat
        BY <1>1, Sizes
      <4>2. PICK from \in Nat : from = (s + 1) * Super
        BY <4>1
      <4>3. \A j \in 1..Lanes : LaneSum(Zero, b, r, from, from, j) = Zero
        BY LaneSumNone
      <4> QED BY <1>2, <1>10, <3>1, <4>2, <4>3 DEF LanesAt, Fresh
    <3>2. CASE ~ (s + 1 < Supers(call))
      BY <3>2 DEF LanesAt, Fresh
    <3> QED BY <3>1, <3>2
  <2>2. TreeOver(Lanes, full) = ChunkPart(b, r, c + 1)
    <3>1. TreeOver(Lanes, full) = CanonicalChunk(b, r, c * Chunk, (s + 1) * Super)
      BY DEF CanonicalChunk
    <3>2. c + 1 - 1 = c
      BY <1>2
    <3> QED BY <1>2, <1>10, <3>1, <3>2 DEF ChunkPart
  <2>3. PartsAt(b, r, s + 1) = [d \in 1..c+1 |-> ChunkPart(b, r, d)]
    BY <1>2, <1>10 DEF PartsAt
  <2>4. Append(acc.parts, ChunkPart(b, r, c + 1)) = [d \in 1..c+1 |-> ChunkPart(b, r, d)]
    <3> DEFINE p == [d \in 1..c |-> ChunkPart(b, r, d)]
               q == [d \in 1..c+1 |-> ChunkPart(b, r, d)]
               e == ChunkPart(b, r, c + 1)
    <3>1. IsTable(p, c) /\ IsTable(q, c + 1)
      BY DEF IsTable
    <3>2. (\A t \in 1..c : q[t] = p[t]) /\ q[c + 1] = e
      BY <1>2
    <3> HIDE DEF p, q, e
    <3>3. Append(p, e) = q
      BY <1>2, <3>1, <3>2, AppendTable
    <3> QED BY <1>3, <3>3 DEF p, q, e
  <2> HIDE DEF lane, full
  <2>5. AccAt(b, r, s + 1) = [lanes |-> Fresh.lanes, parts |-> Append(acc.parts, TreeOver(Lanes, lane)), sum |-> Zero]
    BY <1>7, <1>8, <2>1, <2>2, <2>3, <2>4 DEF AccAt
  <2>6. acc = [lanes |-> acc.lanes, parts |-> acc.parts, sum |-> Zero]
    BY <1>3 DEF AccAt
  <2> DEFINE new == Append(acc.parts, TreeOver(Lanes, lane))
  <2>7. FusedStep(acc, r, s) = [acc EXCEPT !.parts = new, !.lanes = Fresh.lanes]
    BY <1>5, <1>10, Zenon
  <2> HIDE DEF acc, new
  <2>8. [acc EXCEPT !.parts = new, !.lanes = Fresh.lanes] = [lanes |-> Fresh.lanes, parts |-> new, sum |-> Zero]
    <3>1. PICK l, p : acc = [lanes |-> l, parts |-> p, sum |-> Zero]
      BY <2>6
    <3>2. PICK f : f = Fresh.lanes
      OBVIOUS
    <3>3. [[lanes |-> l, parts |-> p, sum |-> Zero] EXCEPT !.parts = new, !.lanes = f]
             = [lanes |-> f, parts |-> new, sum |-> Zero]
      <4>1. PICK m : m = [[lanes |-> l, parts |-> p, sum |-> Zero] EXCEPT !.parts = new]
        OBVIOUS
      <4>2. m = [lanes |-> l, parts |-> new, sum |-> Zero]
        BY <4>1
      <4>3. [m EXCEPT !.lanes = f] = [lanes |-> f, parts |-> new, sum |-> Zero]
        BY <4>2
      <4> QED BY <4>1, <4>3, Zenon
    <3> QED BY <3>1, <3>2, <3>3
  <2> QED BY <2>5, <2>7, <2>8 DEF acc, new
<1> QED BY <1>9, <1>10

(* Every step takes the accumulators to those of one more step. *)
LEMMA StepAdvances ==
  ASSUME call \in Call, NEW r, NEW s \in 0..Steps-1
  PROVE  Step(AccAt(b, r, s), r, s) = AccAt(b, r, s + 1)
<1>1. CASE Scheme(call) = "fused"
  BY <1>1, FusedAdvances DEF Step
<1>2. CASE Scheme(call) = "dense"
  BY <1>2, DenseAdvances DEF Step
<1>3. CASE Scheme(call) = "tree"
  BY <1>3, TreeAdvances DEF Step
<1>4. CASE Scheme(call) = "running"
  BY <1>4, RunningAdvances DEF Step
<1> QED BY <1>1, <1>2, <1>3, <1>4, Schemes

-----------------------------------------------------------------------------
(* The tasks of an activation row. *)
LEMMA Grains ==
  ASSUME call \in Call, threads \in Nat \ {0}
  PROVE  /\ Grain(call, threads) \in Nat \ {0}
         /\ \A t \in Tasks(call, threads) :
              /\ t \in Nat /\ t < call.rows /\ t * Grain(call, threads) \in Nat
              /\ t * Grain(call, threads) < TaskEnd(t) /\ TaskEnd(t) \in Nat
              /\ TaskEnd(t) <= call.rows
         /\ \A r \in 0..call.rows-1 :
              /\ r \div Grain(call, threads) \in Tasks(call, threads)
              /\ (r \div Grain(call, threads)) * Grain(call, threads) <= r
              /\ r < TaskEnd(r \div Grain(call, threads))
<1> DEFINE g == Grain(call, threads)
           n == CeilDiv(call.rows, g)
<1>1. call.rows \in Nat \ {0}
  BY CallFacts
<1>2. g \in Nat \ {0}
  <2>1. PICK m \in Nat \ {0} : m = threads * TasksPerThread
    BY LinearAssumption
  <2>2. CeilDiv(call.rows, m) \in Nat /\ (0 < CeilDiv(call.rows, m) <=> 0 * m < call.rows)
    BY <1>1, CeilDivCounts
  <2> QED BY <1>1, <2>1, <2>2 DEF Grain
<1>3. Tasks(call, threads) = 0..n-1
  BY DEF Tasks
<1> HIDE DEF g
<1>4. n \in Nat /\ \A i \in Nat : i < n <=> i * g < call.rows
  BY <1>1, <1>2, CeilDivCounts
<1> HIDE DEF n
<1>5. ASSUME NEW t \in Tasks(call, threads)
      PROVE  /\ t \in Nat /\ t < call.rows /\ t * g \in Nat
             /\ t * g < TaskEnd(t) /\ TaskEnd(t) \in Nat
             /\ TaskEnd(t) <= call.rows
  <2>1. t \in Nat /\ t * g < call.rows /\ t * g \in Nat /\ (t + 1) * g = t * g + g
    <3>1. t \in Nat /\ t < n
      BY <1>3, <1>4
    <3>2. t * g < call.rows
      BY <1>4, <3>1
    <3>3. t * g \in Nat /\ (t + 1) * g = t * g + g
      BY <1>2, <3>1
    <3> QED BY <3>1, <3>2, <3>3
  <2>2. t <= t * g
    <3>1. t * 1 <= t * g
      BY <1>2, <2>1, TimesMonotone
    <3> QED BY <2>1, <3>1
  <2>3. TaskEnd(t) = IF t * g + g < call.rows THEN t * g + g ELSE call.rows
    BY <2>1 DEF TaskEnd, Lesser, g
  <2> QED BY <1>1, <1>2, <2>1, <2>2, <2>3
<1>6. ASSUME NEW r \in 0..call.rows-1
      PROVE  /\ r \div g \in Tasks(call, threads)
             /\ (r \div g) * g <= r
             /\ r < TaskEnd(r \div g)
  <2>1. r \div g \in Nat /\ r % g \in 0..g-1 /\ r = g * (r \div g) + (r % g)
    <3>1. r \in Nat
      BY <1>1
    <3> QED BY <1>2, <3>1, DivNat
  <2> DEFINE t == r \div g
  <2> HIDE DEF t
  <2>2. t \in Nat /\ t * g <= r /\ r < t * g + g /\ (t + 1) * g = t * g + g /\ t * g \in Nat
    <3>1. t \in Nat /\ r % g \in 0..g-1 /\ r = g * t + (r % g)
      BY <2>1 DEF t
    <3>2. g * t = t * g /\ (t + 1) * g = t * g + g /\ t * g \in Nat
      BY <1>2, <3>1
    <3> QED BY <1>2, <3>1, <3>2
  <2>3. TaskEnd(t) = IF t * g + g < call.rows THEN t * g + g ELSE call.rows
    BY <2>2 DEF TaskEnd, Lesser, g
  <2>4. t < n
    BY <1>1, <1>4, <2>2
  <2>5. t \in Tasks(call, threads) /\ t * g <= r /\ r < TaskEnd(t)
    BY <1>1, <1>2, <1>3, <1>4, <2>2, <2>3, <2>4
  <2> QED BY <2>5 DEF t
<1> QED BY <1>2, <1>5, <1>6 DEF g

(* The state of a worker. *)
WorkerOK(wk) ==
  \/ wk = Idle
  \/ \E row, end \in Nat, step \in 0..Steps :
       /\ row < end /\ end <= call.rows
       /\ wk = Working(row, end, step, AccAt(b, row, step))

(* Somebody has this row before them. *)
Held(r) == \E w \in Worker : worker[w].busy /\ worker[w].row <= r /\ r < worker[w].end

PoolInv ==
  /\ call \in Call /\ threads \in Nat \ {0} /\ b \in 0..call.batch-1 /\ returned \in BOOLEAN
  /\ todo \subseteq Tasks(call, threads)
  /\ worker = [w \in Worker |-> worker[w]]
  /\ \A w \in Worker : WorkerOK(worker[w])
  /\ y = [n \in 0..call.batch-1 |-> [r \in 0..call.rows-1 |-> y[n][r]]]
  /\ \A n \in 0..b-1, r \in 0..call.rows-1 : y[n][r] = Reference(call, n, r)
  /\ \A r \in 0..call.rows-1 :
       r \div Grain(call, threads) \in todo \/ Held(r) \/ y[b][r] = Reference(call, b, r)
  /\ returned => Joined /\ b + 1 = call.batch

(* The pool's invariant holds before any task is taken ... *)
LEMMA PoolInitInv ==
  ASSUME call \in Call, PoolInit
  PROVE  PoolInv
<1>1. threads \in Nat \ {0} /\ b \in 0..call.batch-1 /\ returned \in BOOLEAN
  <2>1. threads \in 1..MaxThreads /\ b = 0 /\ returned = FALSE
    BY DEF PoolInit
  <2>2. 0 \in 0..call.batch-1
    BY CallFacts
  <2>3. threads \in Nat \ {0}
    <3>1. MaxThreads \in Nat
      BY LinearAssumption
    <3> QED BY <2>1, <3>1
  <2>4. returned \in BOOLEAN
    BY <2>1
  <2>5. b \in 0..call.batch-1
    BY <2>1, <2>2, Zenon
  <2> QED BY <2>3, <2>4, <2>5, Zenon
<1>2. worker = [w \in Worker |-> worker[w]] /\ \A w \in Worker : WorkerOK(worker[w])
  BY DEF PoolInit, WorkerOK
<1>3. y = [n \in 0..call.batch-1 |-> [r \in 0..call.rows-1 |-> y[n][r]]]
  BY DEF PoolInit
<1>4. \A r \in 0..call.rows-1 : r \div Grain(call, threads) \in todo
  BY <1>1, Grains DEF PoolInit
<1>5. todo \subseteq Tasks(call, threads) /\ b = 0 /\ ~ returned
  BY DEF PoolInit
<1> QED BY <1>1, <1>2, <1>3, <1>4, <1>5 DEF PoolInv

(* ... as long as the CPU does nothing ... *)
LEMMA PoolKeeps ==
  ASSUME PoolInv, UNCHANGED <<call, cpu>>
  PROVE  PoolInv'
<1>1. UNCHANGED <<call, threads, b, todo, worker, y, returned>>
  BY DEF cpu
<1>2. Steps' = Steps /\ \A n, r, s : AccAt(n, r, s)' = AccAt(n, r, s)
  BY <1>1 DEF Steps, AccAt, LanesAt, PartsAt, SumAt, ChunksClosed, ChunkPart, BlockPart
<1>3. \A wk : WorkerOK(wk)' <=> WorkerOK(wk)
  BY <1>1, <1>2 DEF WorkerOK
<1> QED BY <1>1, <1>3 DEF PoolInv, Held, Joined

(* What an action that stays on one activation row leaves alone. *)
LEMMA SameRow ==
  ASSUME UNCHANGED <<call, threads, b>>
  PROVE  /\ Steps' = Steps /\ Grain(call, threads)' = Grain(call, threads)
         /\ Tasks(call, threads)' = Tasks(call, threads)
         /\ \A n, r : Reference(call, n, r)' = Reference(call, n, r)
         /\ \A n, r, s : AccAt(n, r, s)' = AccAt(n, r, s)
         /\ \A v : WorkerOK(worker'[v]) => WorkerOK(worker[v])'
<1>1. Steps' = Steps /\ \A n, r, s : AccAt(n, r, s)' = AccAt(n, r, s)
  BY DEF Steps, AccAt, LanesAt, PartsAt, SumAt, ChunksClosed, ChunkPart, BlockPart
<1>2. \A v : WorkerOK(worker'[v]) => WorkerOK(worker[v])'
  BY <1>1 DEF WorkerOK
<1> QED BY <1>1, <1>2

(* ... when a worker takes a task, whose rows then are its own ... *)
LEMMA TakeKeeps ==
  ASSUME PoolInv, NEW w \in Worker, Take(w)
  PROVE  PoolInv'
<1>1. PICK t \in todo :
        /\ todo' = todo \ {t}
        /\ worker' = [worker EXCEPT ![w] = Working(t * Grain(call, threads), TaskEnd(t), 0, Fresh)]
  BY DEF Take
<1>2. UNCHANGED <<call, threads, b, y, returned>> /\ ~ worker[w].busy
  BY DEF Take
<1>3. /\ Steps' = Steps /\ Grain(call, threads)' = Grain(call, threads)
      /\ Tasks(call, threads)' = Tasks(call, threads)
      /\ \A n, r : Reference(call, n, r)' = Reference(call, n, r)
      /\ \A v : WorkerOK(worker'[v]) => WorkerOK(worker[v])'
  BY <1>2, SameRow
<1> DEFINE g == Grain(call, threads)
           wk == Working(t * g, TaskEnd(t), 0, Fresh)
<1>4. /\ call \in Call /\ threads \in Nat \ {0} /\ t \in Tasks(call, threads)
      /\ worker = [v \in Worker |-> worker[v]]
      /\ \A v \in Worker : WorkerOK(worker[v])
  BY <1>1 DEF PoolInv
<1>5. /\ g \in Nat \ {0} /\ t \in Nat /\ t * g \in Nat
      /\ t * g < TaskEnd(t) /\ TaskEnd(t) \in Nat /\ TaskEnd(t) <= call.rows
  BY <1>4, Grains
<1>6. /\ wk.busy /\ wk.row = t * g /\ wk.end = TaskEnd(t)
      /\ WorkerOK(wk)
  <2>1. 0 \in 0..Steps /\ AccAt(b, t * g, 0) = Fresh
    BY <1>4, PoolSteps, AccFresh
  <2> QED BY <1>5, <2>1 DEF WorkerOK, Working
<1> HIDE DEF wk, g
<1>7. /\ worker' = [v \in Worker |-> worker'[v]]
      /\ \A v \in Worker : worker'[v] = IF v = w THEN wk ELSE worker[v]
  BY <1>1, <1>4 DEF wk, g
<1>8. \A v \in Worker : WorkerOK(worker[v])'
  BY <1>3, <1>4, <1>6, <1>7
<1>9. ASSUME NEW r \in 0..call.rows-1
      PROVE  r \div g \in todo' \/ Held(r)' \/ y'[b'][r] = Reference(call, b, r)
  <2>1. CASE r \div g = t
    <3>1. t * g <= r /\ r < TaskEnd(t)
      BY <1>4, <2>1, Grains DEF g
    <3>2. Held(r)'
      BY <1>6, <1>7, <3>1 DEF Held
    <3> QED BY <3>2
  <2>2. CASE r \div g # t /\ r \div g \in todo
    BY <1>1, <2>2
  <2>3. CASE Held(r)
    <3>1. PICK v \in Worker : worker[v].busy /\ worker[v].row <= r /\ r < worker[v].end
      BY <2>3 DEF Held
    <3>2. worker'[v] = worker[v]
      BY <1>2, <1>7, <3>1
    <3>3. Held(r)'
      BY <3>1, <3>2 DEF Held
    <3> QED BY <3>3
  <2>4. CASE y[b][r] = Reference(call, b, r)
    BY <1>2, <2>4
  <2>5. r \div g \in todo \/ Held(r) \/ y[b][r] = Reference(call, b, r)
    BY DEF PoolInv, g
  <2> QED BY <2>1, <2>2, <2>3, <2>4, <2>5
<1>10. ~ returned
  BY <1>1 DEF PoolInv, Joined
<1> QED BY <1>1, <1>2, <1>3, <1>7, <1>8, <1>9, <1>10 DEF PoolInv, g

(* ... when it does a block of its row ... *)
LEMMA DotBlockKeeps ==
  ASSUME PoolInv, NEW w \in Worker, DotBlock(w)
  PROVE  PoolInv'
<1>1. /\ worker[w].busy /\ worker[w].step < Steps
      /\ worker' = [worker EXCEPT ![w] =
           Working(worker[w].row, worker[w].end, worker[w].step + 1,
                   Step(worker[w].acc, worker[w].row, worker[w].step))]
      /\ UNCHANGED <<call, threads, b, todo, y, returned>>
  BY DEF DotBlock
<1>2. /\ Steps' = Steps /\ Grain(call, threads)' = Grain(call, threads)
      /\ Tasks(call, threads)' = Tasks(call, threads)
      /\ \A n, r : Reference(call, n, r)' = Reference(call, n, r)
      /\ \A v : WorkerOK(worker'[v]) => WorkerOK(worker[v])'
  BY <1>1, SameRow
<1>3. /\ call \in Call /\ worker = [v \in Worker |-> worker[v]]
      /\ \A v \in Worker : WorkerOK(worker[v])
  BY DEF PoolInv
<1>4. PICK row, end \in Nat, step \in 0..Steps :
        /\ row < end /\ end <= call.rows
        /\ worker[w] = Working(row, end, step, AccAt(b, row, step))
  BY <1>1, <1>3 DEF WorkerOK, Idle
<1>5. step \in 0..Steps-1 /\ step + 1 \in 0..Steps
  BY <1>1, <1>3, <1>4, PoolSteps DEF Working
<1>6. Step(AccAt(b, row, step), row, step) = AccAt(b, row, step + 1)
  BY <1>3, <1>5, StepAdvances
<1> DEFINE wk == Working(worker[w].row, worker[w].end, worker[w].step + 1,
                         Step(worker[w].acc, worker[w].row, worker[w].step))
<1>7. /\ worker[w].row = row /\ worker[w].end = end /\ worker[w].step = step
      /\ worker[w].acc = AccAt(b, row, step)
  BY <1>4 DEF Working
<1>8. WorkerOK(wk) /\ wk.busy /\ wk.row = worker[w].row /\ wk.end = worker[w].end
  <2>1. wk = Working(row, end, step + 1, AccAt(b, row, step + 1))
    BY <1>6, <1>7
  <2>2. wk.busy /\ wk.row = row /\ wk.end = end
    BY <2>1 DEF Working
  <2> HIDE DEF wk
  <2>3. WorkerOK(wk)
    BY <1>4, <1>5, <2>1 DEF WorkerOK
  <2> QED BY <1>7, <2>2, <2>3
<1> HIDE DEF wk
<1>9. /\ worker' = [v \in Worker |-> worker'[v]]
      /\ \A v \in Worker : worker'[v] = IF v = w THEN wk ELSE worker[v]
  BY <1>1, <1>3 DEF wk
<1>10. \A v \in Worker : WorkerOK(worker[v])'
  BY <1>2, <1>3, <1>8, <1>9
<1>11. ASSUME NEW r, Held(r) PROVE Held(r)'
  <2>1. PICK v \in Worker : worker[v].busy /\ worker[v].row <= r /\ r < worker[v].end
    BY <1>11 DEF Held
  <2>2. worker'[v].busy /\ worker'[v].row <= r /\ r < worker'[v].end
    BY <1>8, <1>9, <2>1
  <2> QED BY <2>2 DEF Held
<1>12. ~ returned
  BY <1>1 DEF PoolInv, Joined
<1> QED BY <1>1, <1>2, <1>9, <1>10, <1>11, <1>12, ZenonT(40) DEF PoolInv

(* ... when it writes a row: no other worker or task has it, and scratch space starts
   the next one afresh ... *)
LEMMA WriteRowKeeps ==
  ASSUME PoolInv, NEW w \in Worker, WriteRow(w)
  PROVE  PoolInv'
<1> DEFINE next == IF worker[w].row + 1 < worker[w].end
                   THEN Working(worker[w].row + 1, worker[w].end, 0, NextRow(worker[w].acc)) ELSE Idle
<1>1. /\ worker[w].busy /\ worker[w].step = Steps
      /\ y' = [y EXCEPT ![b][worker[w].row] = Total(worker[w].acc)]
      /\ worker' = [worker EXCEPT ![w] = next]
      /\ UNCHANGED <<call, threads, b, todo, returned>>
  BY DEF WriteRow
<1>2. /\ Steps' = Steps /\ Grain(call, threads)' = Grain(call, threads)
      /\ Tasks(call, threads)' = Tasks(call, threads)
      /\ \A n, r : Reference(call, n, r)' = Reference(call, n, r)
      /\ \A v : WorkerOK(worker'[v]) => WorkerOK(worker[v])'
  BY <1>1, SameRow
<1>3. /\ call \in Call /\ worker = [v \in Worker |-> worker[v]]
      /\ \A v \in Worker : WorkerOK(worker[v])
      /\ y = [n \in 0..call.batch-1 |-> [r \in 0..call.rows-1 |-> y[n][r]]]
      /\ b \in 0..call.batch-1 /\ call.batch \in Nat /\ call.rows \in Nat
  BY CallFacts DEF PoolInv
<1>4. PICK row, end \in Nat, step \in 0..Steps :
        /\ row < end /\ end <= call.rows
        /\ worker[w] = Working(row, end, step, AccAt(b, row, step))
  BY <1>1, <1>3 DEF WorkerOK, Idle
<1>5. /\ worker[w].row = row /\ worker[w].end = end /\ step = Steps /\ row \in 0..call.rows-1
      /\ worker[w].acc = AccAt(b, row, step)
  BY <1>1, <1>3, <1>4 DEF Working
<1>6. Total(worker[w].acc) = Reference(call, b, row)
  BY <1>3, <1>5, AccTotal
<1>7. /\ WorkerOK(next)
      /\ row + 1 < end => next.busy /\ next.row = row + 1 /\ next.end = end
  <2>1. CASE row + 1 < end
    <3>1. 0 \in 0..Steps /\ AccAt(b, row + 1, 0) = Fresh
      BY <1>3, PoolSteps, AccFresh
    <3>2. next = Working(row + 1, end, 0, Fresh)
      BY <1>5, <2>1 DEF NextRow
    <3>3. row + 1 \in Nat /\ row + 1 < end /\ end <= call.rows
      BY <1>4, <2>1
    <3>4. WorkerOK(next)
      BY <3>1, <3>2, <3>3 DEF WorkerOK
    <3>5. next.busy /\ next.row = row + 1 /\ next.end = end
      BY <3>2 DEF Working
    <3> QED BY <3>4, <3>5
  <2>2. CASE ~ (row + 1 < end)
    BY <1>5, <2>2 DEF WorkerOK
  <2> QED BY <2>1, <2>2
<1> HIDE DEF next
<1>8. /\ worker' = [v \in Worker |-> worker'[v]]
      /\ \A v \in Worker : worker'[v] = IF v = w THEN next ELSE worker[v]
  BY <1>1, <1>3
<1>9. \A v \in Worker : WorkerOK(worker[v])'
  BY <1>2, <1>3, <1>7, <1>8
<1>10. /\ y' = [n \in 0..call.batch-1 |-> [r \in 0..call.rows-1 |-> y'[n][r]]]
       /\ \A n \in 0..call.batch-1, r \in 0..call.rows-1 :
            y'[n][r] = IF n = b /\ r = row THEN Reference(call, b, row) ELSE y[n][r]
  <2>1. y' = [y EXCEPT ![b] = [y[b] EXCEPT ![row] = Reference(call, b, row)]]
    BY <1>1, <1>5, <1>6
  <2>2. y[b] = [r \in 0..call.rows-1 |-> y[b][r]]
    BY <1>3
  <2>3. DOMAIN y = 0..call.batch-1 /\ DOMAIN y[b] = 0..call.rows-1
    BY <1>3, <2>2
  <2>4. /\ y'[b] = [y[b] EXCEPT ![row] = Reference(call, b, row)]
        /\ \A n \in 0..call.batch-1 : n # b => y'[n] = y[n]
        /\ y' = [n \in 0..call.batch-1 |-> y'[n]]
    BY <1>3, <2>1, <2>3
  <2>5. ASSUME NEW n \in 0..call.batch-1 PROVE y'[n] = [r \in 0..call.rows-1 |-> y'[n][r]]
    BY <1>3, <2>2, <2>3, <2>4
  <2>6. \A r \in 0..call.rows-1 : y'[b][r] = IF r = row THEN Reference(call, b, row) ELSE y[b][r]
    BY <2>3, <2>4
  <2>7. y' = [n \in 0..call.batch-1 |-> [r \in 0..call.rows-1 |-> y'[n][r]]]
    BY <2>4, <2>5
  <2> QED BY <2>4, <2>6, <2>7
<1>11. ASSUME NEW r \in 0..call.rows-1
       PROVE  r \div Grain(call, threads) \in todo \/ Held(r)' \/ y'[b][r] = Reference(call, b, r)
  <2>1. CASE r = row
    BY <1>3, <1>10, <2>1
  <2>2. CASE r # row /\ Held(r)
    <3>1. PICK v \in Worker : worker[v].busy /\ worker[v].row <= r /\ r < worker[v].end
      BY <2>2 DEF Held
    <3>2. CASE v # w
      BY <1>8, <3>1, <3>2 DEF Held
    <3>3. CASE v = w
      <4>1. row + 1 <= r /\ r < end /\ row + 1 < end
        BY <1>4, <1>5, <2>2, <3>1, <3>3
      <4> QED BY <1>7, <1>8, <4>1 DEF Held
    <3> QED BY <3>2, <3>3
  <2>3. CASE r # row /\ y[b][r] = Reference(call, b, r)
    BY <1>3, <1>10, <2>3
  <2>4. r \div Grain(call, threads) \in todo \/ Held(r) \/ y[b][r] = Reference(call, b, r)
    BY DEF PoolInv
  <2> QED BY <2>1, <2>2, <2>3, <2>4
<1>12. ASSUME NEW n \in 0..b-1, NEW r \in 0..call.rows-1 PROVE y'[n][r] = Reference(call, n, r)
  <2>1. y[n][r] = Reference(call, n, r)
    BY DEF PoolInv
  <2>2. n \in 0..call.batch-1 /\ n # b
    BY <1>3
  <2> QED BY <1>10, <2>1, <2>2
<1>13. ~ returned
  BY <1>1 DEF PoolInv, Joined
<1>14. /\ (call \in Call /\ threads \in Nat \ {0} /\ b \in 0..call.batch-1 /\ returned \in BOOLEAN)'
       /\ (todo \subseteq Tasks(call, threads))' /\ ~ returned'
  BY <1>1, <1>2, <1>13 DEF PoolInv
<1>15. (y = [n \in 0..call.batch-1 |-> [r \in 0..call.rows-1 |-> y[n][r]]])'
  BY <1>1, <1>10
<1>16. (\A n \in 0..b-1, r \in 0..call.rows-1 : y[n][r] = Reference(call, n, r))'
  BY <1>1, <1>2, <1>12
<1>17. (\A r \in 0..call.rows-1 :
         r \div Grain(call, threads) \in todo \/ Held(r) \/ y[b][r] = Reference(call, b, r))'
  BY <1>1, <1>2, <1>11
<1> QED BY <1>8, <1>9, <1>14, <1>15, <1>16, <1>17 DEF PoolInv

(* ... when the tasks of an activation row are joined, which leaves none of its rows
   unwritten ... *)
LEMMA NextActivationKeeps ==
  ASSUME PoolInv, NextActivation
  PROVE  PoolInv'
<1>1. /\ todo = {} /\ (\A w \in Worker : ~worker[w].busy) /\ b + 1 < call.batch
      /\ b' = b + 1 /\ todo' = Tasks(call, threads)
      /\ UNCHANGED <<call, threads, worker, y, returned>>
  BY DEF NextActivation, Joined
<1>2. /\ Tasks(call, threads)' = Tasks(call, threads) /\ Grain(call, threads)' = Grain(call, threads)
      /\ \A n, r : Reference(call, n, r)' = Reference(call, n, r)
  BY <1>1
<1>3. /\ call \in Call /\ threads \in Nat \ {0} /\ b \in 0..call.batch-1 /\ returned \in BOOLEAN
      /\ call.batch \in Nat /\ b \in Nat /\ ~ returned
      /\ worker = [w \in Worker |-> worker[w]] /\ \A w \in Worker : WorkerOK(worker[w])
  <2>1. call \in Call /\ b \in 0..call.batch-1
    BY DEF PoolInv
  <2>2. call.batch \in Nat
    BY <2>1, CallFacts
  <2> QED BY <1>1, <2>1, <2>2 DEF PoolInv
<1>4. /\ (call \in Call /\ threads \in Nat \ {0} /\ b \in 0..call.batch-1 /\ returned \in BOOLEAN)'
      /\ (todo \subseteq Tasks(call, threads))' /\ ~ returned'
      /\ (worker = [w \in Worker |-> worker[w]])'
  BY <1>1, <1>2, <1>3
<1>5. (\A w \in Worker : WorkerOK(worker[w]))'
  <2>1. \A w \in Worker : worker[w] = Idle
    BY <1>1, <1>3 DEF WorkerOK, Working
  <2>2. Idle' = Idle
    OBVIOUS
  <2> QED BY <1>1, <2>1, <2>2 DEF WorkerOK
<1>6. (y = [n \in 0..call.batch-1 |-> [r \in 0..call.rows-1 |-> y[n][r]]])'
  BY <1>1 DEF PoolInv
<1>7. (\A n \in 0..b-1, r \in 0..call.rows-1 : y[n][r] = Reference(call, n, r))'
  <2>1. ASSUME NEW r \in 0..call.rows-1 PROVE y[b][r] = Reference(call, b, r)
    <3>1. ~ Held(r)
      BY <1>1 DEF Held
    <3> QED BY <1>1, <3>1 DEF PoolInv
  <2>2. \A n \in 0..b-1, r \in 0..call.rows-1 : y[n][r] = Reference(call, n, r)
    BY DEF PoolInv
  <2>3. \A n \in 0..b+1-1 : n = b \/ n \in 0..b-1
    BY <1>3
  <2>4. \A n \in 0..b+1-1, r \in 0..call.rows-1 : y[n][r] = Reference(call, n, r)
    BY <2>1, <2>2, <2>3
  <2>5. ASSUME NEW n \in 0..b'-1, NEW r \in 0..call'.rows-1 PROVE y'[n][r] = Reference(call, n, r)'
    <3>1. b' - 1 = b + 1 - 1 /\ call'.rows = call.rows /\ y'[n][r] = y[n][r]
      BY <1>1, <1>3
    <3>2. n \in 0..b+1-1
      BY <3>1, <2>5
    <3>3. r \in 0..call.rows-1
      BY <3>1, <2>5
    <3> QED BY <1>2, <2>4, <3>1, <3>2, <3>3
  <2> QED BY <2>5
<1>8. (\A r \in 0..call.rows-1 : r \div Grain(call, threads) \in todo)'
  <2>1. \A r \in 0..call.rows-1 : r \div Grain(call, threads) \in Tasks(call, threads)
    BY <1>3, Grains
  <2> QED BY <1>1, <1>2, <2>1
<1> QED BY <1>4, <1>5, <1>6, <1>7, <1>8 DEF PoolInv

(* ... and when the call returns. *)
LEMMA ReturnKeeps ==
  ASSUME PoolInv, Return
  PROVE  PoolInv'
<1>1. /\ Joined /\ b + 1 = call.batch /\ returned' = TRUE
      /\ UNCHANGED <<call, threads, b, todo, worker, y>>
  BY DEF Return
<1>2. /\ Tasks(call, threads)' = Tasks(call, threads) /\ Grain(call, threads)' = Grain(call, threads)
      /\ \A n, r : Reference(call, n, r)' = Reference(call, n, r)
      /\ \A v : WorkerOK(worker'[v]) => WorkerOK(worker[v])'
  BY <1>1, SameRow
<1>3. (\A w \in Worker : WorkerOK(worker[w]))'
  <2>1. \A w \in Worker : WorkerOK(worker'[w])
    BY <1>1 DEF PoolInv
  <2> QED BY <1>1, <1>2, <2>1
<1>4. (\A r \in 0..call.rows-1 :
         r \div Grain(call, threads) \in todo \/ Held(r) \/ y[b][r] = Reference(call, b, r))'
  BY <1>1, <1>2 DEF PoolInv, Held
<1>5. (Joined /\ b + 1 = call.batch)'
  BY <1>1 DEF Joined
<1> QED BY <1>1, <1>2, <1>3, <1>4, <1>5 DEF PoolInv

(* So every step of the pool keeps it. *)
LEMMA PoolNextInv ==
  ASSUME PoolInv, PoolNext
  PROVE  PoolInv'
BY TakeKeeps, DotBlockKeeps, WriteRowKeeps, NextActivationKeeps, ReturnKeeps DEF PoolNext

(* It includes the types, *)
LEMMA PoolInvTyped ==
  ASSUME PoolInv
  PROVE  PoolTypeOK
<1>1. call \in Call /\ threads \in Nat \ {0} /\ b \in 0..call.batch-1 /\ returned \in BOOLEAN
  BY DEF PoolInv
<1>2. todo \subseteq 0..call.rows-1
  <2>1. \A t \in Tasks(call, threads) : t \in Nat /\ t < call.rows
    BY <1>1, Grains
  <2>2. call.rows \in Nat
    BY <1>1, CallFacts
  <2> QED BY <2>1, <2>2 DEF PoolInv
<1>3. ASSUME NEW w \in Worker
      PROVE  /\ worker[w].busy \in BOOLEAN /\ worker[w].step \in 0..Steps
             /\ worker[w].busy => worker[w].row < worker[w].end /\ worker[w].end <= call.rows
  <2>1. WorkerOK(worker[w])
    BY DEF PoolInv
  <2>2. 0 \in 0..Steps
    BY <1>1, PoolSteps
  <2>3. CASE worker[w] = Idle
    BY <2>2, <2>3 DEF Idle
  <2>4. CASE worker[w] # Idle
    <3>1. PICK row, end \in Nat, step \in 0..Steps :
            row < end /\ end <= call.rows /\ worker[w] = Working(row, end, step, AccAt(b, row, step))
      BY <2>1, <2>4 DEF WorkerOK
    <3> QED BY <3>1 DEF Working
  <2> QED BY <2>3, <2>4
<1> QED BY <1>1, <1>2, <1>3 DEF PoolTypeOK

(* and when the call has returned every element is that of the serial kernel. *)
LEMMA PoolInvSerial ==
  ASSUME PoolInv
  PROVE  PoolIsSerial
<1> SUFFICES ASSUME returned, NEW n \in 0..call.batch-1, NEW r \in 0..call.rows-1
             PROVE  y[n][r] = Reference(call, n, r)
  BY DEF PoolIsSerial
<1>1. todo = {} /\ b + 1 = call.batch /\ ~ Held(r)
  BY DEF PoolInv, Joined, Held
<1>2. n = b \/ n \in 0..b-1
  <2>1. call.batch \in Nat /\ b \in 0..call.batch-1
    BY CallFacts DEF PoolInv
  <2> QED BY <1>1, <2>1
<1>3. y[b][r] = Reference(call, b, r)
  BY <1>1 DEF PoolInv
<1>4. n \in 0..b-1 => y[n][r] = Reference(call, n, r)
  BY DEF PoolInv
<1> QED BY <1>2, <1>3, <1>4

-----------------------------------------------------------------------------
(* The device. *)
Cells == (0..call.batch-1) \X (0..call.rows-1)

(* The outputs that thread t of block bl writes. *)
Mine(bl, t) ==
  {o \in Cells :
     CASE kernel.grid = "row" -> o[1] = bl[2] /\ o[2] = bl[1] * RowThreads + t
       [] kernel.grid = "flat" -> o[1] * call.rows + o[2] = bl[1] * RowThreads + t
       [] kernel.grid = "coop" -> t % Lanes = 0 /\ o[2] = bl[1] * BlockRows + (t \div Lanes)
       [] kernel.grid = "warp" -> t = 0 /\ o[2] = bl[1]
       [] kernel.grid \in Gemm -> /\ (o[2] - bl[1] * TileRows * Reg) \div Reg = t \div TileCols
                                  /\ (o[1] - bl[2] * TileCols * Reg) \div Reg = t % TileCols}

Final(n, r) == IF accum THEN Plus(Residual(n, r), Reference(call, n, r)) ELSE Reference(call, n, r)

(* Every output is written once, when its thread ends. *)
OutInv ==
  \A bl \in Grid(call, kernel.grid), t \in Thread : \A o \in Mine(bl, t) :
    out[o[1]][o[2]] = IF bl \in blocks \/ (bl = block /\ th[t].pc # "exit")
                      THEN Residual(o[1], o[2]) ELSE Final(o[1], o[2])

Pcs ==
  CASE kernel.grid \in {"row", "flat"} -> {"row", "exit"}
    [] kernel.grid \in {"coop", "warp"} -> {"sum", "summed", "combine", "exit"}
    [] kernel.grid = "staged" -> {"unpack", "unpacked", "compute", "computed", "store", "exit"}
    [] kernel.grid = "async" ->
         {"load", "loaded", "arrived", "unpack", "unpacked", "compute", "computed", "store", "exit"}

Launched ==
  /\ call \in Call /\ kernel \in Launches(call) /\ accum \in BOOLEAN
  /\ blocks \subseteq Grid(call, kernel.grid) /\ block \in Grid(call, kernel.grid) \cup {NoBlock}
  /\ block \notin blocks

ThreadsOK ==
  /\ th = [t \in Thread |-> [pc |-> th[t].pc, s |-> th[t].s, got |-> th[t].got]]
  /\ \A t \in Thread : th[t].pc \in Pcs /\ th[t].s \in 0..Supers(call)
  /\ block = NoBlock => \A t \in Thread : th[t].pc = "exit"

Memory ==
  /\ out = [n \in 0..call.batch-1 |-> [r \in 0..call.rows-1 |-> out[n][r]]]
  /\ sh = [i \in SharedSlot |-> sh[i]]
  /\ stage = [t \in Thread |-> stage[t]]
  /\ raw = [buf \in {0, 1} |-> [t \in Thread |-> raw[buf][t]]]
  /\ flight = [t \in Thread |-> flight[t]]

(* Nothing is combined before every thread has summed. *)
Summing ==
  \/ \A t \in Thread : th[t].pc \in {"sum", "summed"}
  \/ \A t \in Thread : th[t].pc \in {"combine", "exit"}

(* What is in shared memory once a thread has written it. *)
CoopInv ==
  /\ Summing
  /\ \A t \in Thread :
       /\ th[t].s \in 0..Chunks /\ th[t].got = << >>
       /\ block # NoBlock /\ CoopRow(t) < call.rows =>
            \A c \in 0..Chunks-1 :
              th[t].pc # "sum" \/ c < th[t].s =>
                sh[<<CoopSlot(t), CoopLane(t), c>>] = LaneChunk(t, c)

WarpInv ==
  /\ Summing
  /\ \A t \in Thread :
       /\ th[t].got = << >>
       /\ block # NoBlock =>
            \A i \in 0..Supers(call)-1 :
              i % WarpSize = t /\ (th[t].pc # "sum" \/ i \div WarpSize < th[t].s) =>
                sh[i] = BlockDot(kernel.dtype, 0, block[1], i)

RowInv == \A t \in Thread : th[t].got = << >>

(* The super-blocks a thread has added, in their order. *)
Upto(n) == [m \in 1..n |-> m - 1]

(* The threads of a gemm go through the super-blocks together, from one barrier to the
   next. *)
Together ==
  /\ \A t, u \in Thread : th[t].s = th[u].s
  /\ \/ \A t \in Thread : th[t].pc \in {"load", "loaded", "arrived"}
     \/ \A t \in Thread : th[t].pc \in {"unpack", "unpacked"}
     \/ \A t \in Thread : th[t].pc \in {"compute", "computed"}
     \/ \A t \in Thread : th[t].pc \in {"store", "exit"} /\ th[t].s + 1 = Supers(call)

(* Super-block s of this thread's copies is there, or it will be. *)
Here(t, s) == raw[s % 2][t] = <<block, s>>
Coming(t, s) == s \in 0..Supers(call)-1 => s \in flight[t] \/ Here(t, s)

(* The copies of a thread: never one into the buffer that is being read. *)
CopiesInv(t) ==
  LET s == th[t].s
  IN /\ th[t].pc = "load" => flight[t] \subseteq {s} \ {0} /\ (s # 0 => Coming(t, s))
     /\ th[t].pc = "loaded" => flight[t] \subseteq {s, s + 1} /\ Coming(t, s) /\ Coming(t, s + 1)
     /\ th[t].pc \notin {"load", "loaded"} =>
          flight[t] \subseteq {s + 1} /\ Here(t, s) /\ Coming(t, s + 1)

GemmInv ==
  IF block = NoBlock THEN \A t \in Thread : th[t].got = << >> /\ th[t].s = 0 /\ flight[t] = {}
  ELSE /\ Together
       /\ \A t \in Thread :
            /\ th[t].s \in 0..Supers(call)-1 /\ flight[t] \subseteq 0..Supers(call)-1
            /\ th[t].got = Upto(IF th[t].pc \in {"computed", "store", "exit"} THEN th[t].s + 1 ELSE th[t].s)
            /\ th[t].pc \in {"unpacked", "compute", "computed"} => stage[t] = <<block, th[t].s>>
            /\ IF kernel.grid = "async" THEN CopiesInv(t) ELSE flight[t] = {}

GpuInv ==
  /\ Launched /\ ThreadsOK /\ Memory /\ OutInv
  /\ kernel.grid \in {"row", "flat"} => RowInv
  /\ kernel.grid = "coop" => CoopInv
  /\ kernel.grid = "warp" => WarpInv
  /\ kernel.grid \in Gemm => GemmInv
  /\ kernel.grid \notin Gemm => \A t \in Thread : flight[t] = {}

-----------------------------------------------------------------------------
(* Launches and their blocks. *)
LEMMA DeviceSizes ==
  /\ BlockRows \in Nat \ {0} /\ WarpSize \in Nat \ {0} /\ RowThreads \in Nat \ {0}
  /\ TileRows \in Nat \ {0} /\ TileCols \in Nat \ {0} /\ Reg \in Nat \ {0}
BY LinearAssumption

(* A kernel is launched only for the calls it reduces as the CPU does: the cooperative
   one for a fused dot of one activation row, the warp for the tree, the gemms for running sums. *)
LEMMA LaunchFacts ==
  ASSUME call \in Call, kernel \in Launches(call)
  PROVE  /\ kernel.grid \in {"row", "flat", "coop", "warp", "staged", "async"}
         /\ kernel.scheme = Scheme(call) /\ kernel.dtype = call.dtype
         /\ kernel.grid = "coop" => Scheme(call) = "fused" /\ call.batch = 1
         /\ kernel.grid = "warp" => Scheme(call) = "tree" /\ call.batch = 1
         /\ kernel.grid \in Gemm => Scheme(call) = "running"
<1> DEFINE Fits(k) ==
      /\ k.grid \in {"row", "flat", "coop", "warp", "staged", "async"}
      /\ k.scheme = Scheme(call) /\ k.dtype = call.dtype
      /\ k.grid = "coop" => Scheme(call) = "fused" /\ call.batch = 1
      /\ k.grid = "warp" => Scheme(call) = "tree" /\ call.batch = 1
      /\ k.grid \in Gemm => Scheme(call) = "running"
<1>1. /\ call.regime \in {2, 3} /\ call.dtype \in {"Q4_K", "Q6_K", "Q8_0", "Q5_0"}
      /\ call.entry \in {"step", "prefill", "hook"} /\ call.batch \in Nat \ {0}
      /\ call.entry = "prefill" => call.regime = 3
      /\ call.entry = "hook" => call.dtype = "Q4_K" /\ call.regime = 2
      /\ call.batch > 1 => call.entry = "prefill"
  BY CallFacts
<1>2. /\ Scheme(call) = "dense" <=> call.dtype \notin KQuant
      /\ Scheme(call) = "fused" <=> call.entry # "hook" /\ call.regime = 2 /\ call.dtype = "Q4_K"
      /\ Scheme(call) = "running" <=> call.entry # "hook" /\ call.regime = 3 /\ call.dtype \in KQuant
      /\ Scheme(call) = "tree" <=> call.entry = "hook" \/ (call.regime = 2 /\ call.dtype = "Q6_K")
  BY Schemes
<1>3. \A g, s, d : K(g, s, d).grid = g /\ K(g, s, d).scheme = s /\ K(g, s, d).dtype = d
  BY DEF K
<1>4. CASE call.entry = "step"
  <2>0. kernel = StepKernel(call) /\ call.batch = 1
    BY <1>1, <1>4 DEF Launches
  <2>1. CASE call.regime = 3 /\ call.dtype \in KQuant
    <3>1. kernel = K("row", "running", call.dtype)
      BY <2>0, <2>1 DEF StepKernel, KQuant
    <3> QED BY <1>2, <1>3, <1>4, <2>1, <3>1 DEF Gemm
  <2>2. CASE call.regime = 2 /\ call.dtype = "Q6_K"
    <3>1. kernel = K("row", "tree", "Q6_K")
      BY <2>0, <2>2 DEF StepKernel, KQuant
    <3> QED BY <1>2, <1>3, <2>2, <3>1 DEF Gemm
  <2>3. CASE call.dtype \notin KQuant
    <3>1. kernel = K("row", "dense", call.dtype)
      BY <2>0, <2>3 DEF StepKernel, KQuant
    <3> QED BY <1>2, <1>3, <2>3, <3>1 DEF Gemm
  <2>4. CASE call.regime = 2 /\ call.dtype = "Q4_K"
    <3>1. kernel = K("coop", "fused", "Q4_K")
      BY <2>0, <2>4 DEF StepKernel, KQuant
    <3> QED BY <1>2, <1>3, <1>4, <2>0, <2>4, <3>1 DEF Gemm
  <2> QED BY <1>1, <2>1, <2>2, <2>3, <2>4 DEF KQuant
<1>5. CASE call.entry = "prefill"
  <2>0. kernel \in PrefillKernels(call) /\ call.regime = 3
    BY <1>1, <1>5 DEF Launches
  <2>1. CASE call.dtype \notin KQuant
    <3>1. kernel = K("row", "dense", call.dtype)
      BY <2>0, <2>1 DEF PrefillKernels, KQuant
    <3> QED BY <1>2, <1>3, <2>1, <3>1 DEF Gemm
  <2>2. CASE call.dtype = "Q6_K"
    <3>1. PICK g \in {"flat", "staged"} : kernel = K(g, "running", "Q6_K")
      BY <2>0, <2>2 DEF PrefillKernels, KQuant
    <3> QED BY <1>2, <1>3, <1>5, <2>0, <2>2, <3>1 DEF Gemm, KQuant
  <2>3. CASE call.dtype = "Q4_K"
    <3>1. PICK g \in {"async", "staged"} : kernel = K(g, "running", "Q4_K")
      <4>1. kernel \in {K(g, "running", "Q4_K") :
               g \in {"staged"} \cup IF call.rows % (TileRows * Reg) = 0 THEN {"async"} ELSE {}}
        BY <2>0, <2>3 DEF PrefillKernels, KQuant
      <4> QED BY <4>1
    <3> QED BY <1>2, <1>3, <1>5, <2>0, <2>3, <3>1 DEF Gemm, KQuant
  <2> QED BY <1>1, <2>1, <2>2, <2>3 DEF KQuant
<1>6. CASE call.entry = "hook"
  <2>1. PICK g \in {"row", "warp"} : kernel = K(g, "tree", "Q4_K")
    BY <1>6 DEF Launches, HookKernels
  <2>2. call.batch = 1
    BY <1>1, <1>6
  <2> QED BY <1>1, <1>2, <1>3, <1>6, <2>1, <2>2 DEF Gemm
<1> QED BY <1>1, <1>4, <1>5, <1>6

(* The number of threads of a block. *)
ThreadCount ==
  CASE kernel.grid \in {"row", "flat"} -> RowThreads
    [] kernel.grid = "coop" -> BlockRows * Lanes
    [] kernel.grid = "warp" -> WarpSize
    [] kernel.grid \in Gemm -> TileRows * TileCols

(* A block has at least one thread. *)
LEMMA Threads ==
  ASSUME call \in Call, kernel \in Launches(call)
  PROVE  ThreadCount \in Nat \ {0} /\ Thread = 0..ThreadCount-1 /\ 0 \in Thread
<1>1. kernel.grid \in {"row", "flat", "coop", "warp", "staged", "async"}
  BY LaunchFacts
<1>2. BlockRows * Lanes \in Nat \ {0} /\ TileRows * TileCols \in Nat \ {0}
  BY DeviceSizes, Sizes
<1>3. ThreadCount \in Nat \ {0}
  BY <1>1, <1>2, DeviceSizes DEF ThreadCount, Gemm
<1>4. Thread = 0..ThreadCount-1
  BY DEF Thread, ThreadCount
<1> QED BY <1>3, <1>4

(* Every output belongs to exactly one thread of one block. *)
LEMMA EveryOutputIsMine ==
  ASSUME call \in Call, kernel \in Launches(call), NEW o \in Cells
  PROVE  \E bl \in Grid(call, kernel.grid), t \in Thread : o \in Mine(bl, t)
<1>1. /\ call.rows \in Nat \ {0} /\ call.batch \in Nat \ {0}
      /\ o[1] \in Nat /\ o[1] < call.batch /\ o[2] \in Nat /\ o[2] < call.rows
  BY CallFacts DEF Cells
<1>2. Thread = 0..ThreadCount-1 /\ 0 \in Thread
  BY Threads
<1>3. CASE kernel.grid = "row"
  <2> DEFINE x == o[2] \div RowThreads
             t == o[2] % RowThreads
  <2>1. x \in Nat /\ t \in 0..RowThreads-1 /\ o[2] = RowThreads * x + t
    BY <1>1, DeviceSizes, DivNat
  <2> HIDE DEF x, t
  <2>2. x * RowThreads < call.rows /\ x * RowThreads + t = o[2]
    BY <1>1, <2>1, DeviceSizes
  <2>3. CeilDiv(call.rows, RowThreads) \in Nat /\ x < CeilDiv(call.rows, RowThreads)
    BY <1>1, <2>1, <2>2, DeviceSizes, CeilDivCounts
  <2>4. <<x, o[1]>> \in Grid(call, kernel.grid)
    BY <1>1, <1>3, <2>1, <2>3 DEF Grid, Gemm
  <2>5. t \in Thread
    BY <1>2, <1>3, <2>1 DEF ThreadCount, Gemm
  <2>6. o \in Mine(<<x, o[1]>>, t)
    BY <1>3, <2>2 DEF Mine, Gemm
  <2> QED BY <2>4, <2>5, <2>6
<1>4. CASE kernel.grid = "flat"
  <2> DEFINE i == o[1] * call.rows + o[2]
             x == i \div RowThreads
             t == i % RowThreads
  <2>1. i \in Nat /\ i < call.rows * call.batch
    <3>1. call.rows * (o[1] + 1) <= call.rows * call.batch
      BY <1>1, TimesMonotone
    <3>2. call.rows * (o[1] + 1) = o[1] * call.rows + call.rows
      BY <1>1
    <3>3. o[1] * call.rows \in Nat /\ call.rows * call.batch \in Nat
      BY <1>1
    <3> QED BY <1>1, <3>1, <3>2, <3>3
  <2> HIDE DEF i
  <2>2. x \in Nat /\ t \in 0..RowThreads-1 /\ i = RowThreads * x + t
    BY <2>1, DeviceSizes, DivNat
  <2> HIDE DEF x, t
  <2>3. x * RowThreads < call.rows * call.batch /\ x * RowThreads + t = i /\ call.rows * call.batch \in Nat
    <3>1. call.rows * call.batch \in Nat
      BY <1>1
    <3>2. x * RowThreads = RowThreads * x /\ RowThreads * x \in Nat
      BY <2>2, DeviceSizes
    <3> QED BY <2>1, <2>2, <3>1, <3>2
  <2>4. CeilDiv(call.rows * call.batch, RowThreads) \in Nat /\ x < CeilDiv(call.rows * call.batch, RowThreads)
    <3>1. PICK m \in Nat : m = call.rows * call.batch
      BY <2>3
    <3> QED BY <2>2, <2>3, <3>1, DeviceSizes, CeilDivCounts
  <2>5. <<x, 0>> \in Grid(call, kernel.grid)
    BY <1>4, <2>2, <2>4 DEF Grid, Gemm
  <2>6. t \in Thread
    BY <1>2, <1>4, <2>2 DEF ThreadCount, Gemm
  <2>7. o \in Mine(<<x, 0>>, t)
    BY <1>4, <2>3 DEF Mine, i, Gemm
  <2> QED BY <2>5, <2>6, <2>7
<1>5. CASE kernel.grid = "coop"
  <2> DEFINE x == o[2] \div BlockRows
             e == o[2] % BlockRows
  <2>1. x \in Nat /\ e \in 0..BlockRows-1 /\ o[2] = BlockRows * x + e
    BY <1>1, DeviceSizes, DivNat
  <2> HIDE DEF x, e
  <2>2. x * BlockRows < call.rows /\ x * BlockRows + e = o[2]
    BY <1>1, <2>1, DeviceSizes
  <2>3. CeilDiv(call.rows, BlockRows) \in Nat /\ x < CeilDiv(call.rows, BlockRows)
    BY <1>1, <2>1, <2>2, DeviceSizes, CeilDivCounts
  <2>4. <<x, 0>> \in Grid(call, kernel.grid)
    BY <1>5, <2>1, <2>3 DEF Grid, Gemm
  <2>5. PICK t \in Nat : t = Lanes * e
    BY <2>1, Sizes
  <2>6. t \div Lanes = e /\ t % Lanes = 0
    BY <2>1, <2>5, Sizes, DivExact
  <2>7. t \in Thread
    <3>1. Lanes * (e + 1) <= Lanes * BlockRows
      BY <2>1, DeviceSizes, Sizes, TimesMonotone
    <3>2. Lanes * (e + 1) = t + Lanes /\ Lanes * BlockRows = BlockRows * Lanes /\ BlockRows * Lanes \in Nat
      BY <2>1, <2>5, DeviceSizes, Sizes
    <3> QED BY <1>2, <1>5, <3>1, <3>2, Sizes, SMTT(40) DEF ThreadCount, Gemm
  <2>8. o \in Mine(<<x, 0>>, t)
    BY <1>5, <2>2, <2>6 DEF Mine, Gemm
  <2> QED BY <2>4, <2>7, <2>8
<1>6. CASE kernel.grid = "warp"
  <2>1. <<o[2], 0>> \in Grid(call, kernel.grid)
    BY <1>1, <1>6 DEF Grid, Gemm
  <2>2. o \in Mine(<<o[2], 0>>, 0)
    BY <1>6 DEF Mine, Gemm
  <2> QED BY <1>2, <2>1, <2>2
<1>7. CASE kernel.grid \in Gemm
  <2> DEFINE p == o[2] \div Reg
             q == o[1] \div Reg
             x == p \div TileRows
             a == p % TileRows
             z == q \div TileCols
             c == q % TileCols
  <2>1. /\ p \in Nat /\ q \in Nat
        /\ o[2] % Reg \in 0..Reg-1 /\ o[2] = Reg * p + (o[2] % Reg)
        /\ o[1] % Reg \in 0..Reg-1 /\ o[1] = Reg * q + (o[1] % Reg)
    BY <1>1, DeviceSizes, DivNat
  <2>2. /\ x \in Nat /\ a \in 0..TileRows-1 /\ p = TileRows * x + a
        /\ z \in Nat /\ c \in 0..TileCols-1 /\ q = TileCols * z + c
    <3> HIDE DEF p, q
    <3> QED BY <2>1, DeviceSizes, DivNat
  <2> HIDE DEF x, a, z, c
  <2>3. /\ (o[2] - (x * TileRows) * Reg) \div Reg = a
        /\ (o[1] - (z * TileCols) * Reg) \div Reg = c
    <3>1. PICK m \in Int : m = x * TileRows
      BY <2>2, DeviceSizes
    <3>2. PICK n \in Int : n = z * TileCols
      BY <2>2, DeviceSizes
    <3>3. (o[2] - m * Reg) \div Reg = p - m /\ (o[1] - n * Reg) \div Reg = q - n
      BY <1>1, DeviceSizes, DivShift
    <3>4. p - m = a /\ q - n = c
      <4> HIDE DEF p, q
      <4> QED BY <2>1, <2>2, <3>1, <3>2, DeviceSizes
    <3> QED BY <3>1, <3>2, <3>3, <3>4
  <2>4. PICK t \in Nat : t = TileCols * a + c
    BY <2>2, DeviceSizes
  <2>5. t \div TileCols = a /\ t % TileCols = c
    BY <2>2, <2>4, DeviceSizes, DivUnique
  <2>6. t \in Thread
    <3>1. TileCols * (a + 1) <= TileCols * TileRows
      BY <2>2, DeviceSizes, TimesMonotone
    <3>2. TileCols * (a + 1) = TileCols * a + TileCols /\ TileCols * TileRows = TileRows * TileCols
          /\ TileRows * TileCols \in Nat /\ TileCols * a \in Nat
      BY <2>2, DeviceSizes
    <3>3. ThreadCount = TileRows * TileCols
      BY <1>7 DEF ThreadCount, Gemm
    <3> QED BY <1>2, <2>2, <2>4, <3>1, <3>2, <3>3, DeviceSizes
  <2>7. <<x, z>> \in Grid(call, kernel.grid)
    <3>1. TileRows * Reg \in Nat \ {0} /\ TileCols * Reg \in Nat \ {0}
      BY DeviceSizes
    <3>2. x * (TileRows * Reg) < call.rows /\ z * (TileCols * Reg) < call.batch
      <4> HIDE DEF p, q
      <4>1. x * (TileRows * Reg) = Reg * (TileRows * x) /\ z * (TileCols * Reg) = Reg * (TileCols * z)
        BY <2>2, DeviceSizes
      <4>2. TileRows * x \in Nat /\ TileCols * z \in Nat /\ TileRows * x <= p /\ TileCols * z <= q
        BY <2>1, <2>2, DeviceSizes
      <4>3. Reg * (TileRows * x) <= Reg * p /\ Reg * (TileCols * z) <= Reg * q
        BY <2>1, <4>2, DeviceSizes, TimesMonotone
      <4>4. Reg * p <= o[2] /\ Reg * q <= o[1] /\ Reg * p \in Nat /\ Reg * q \in Nat
        BY <1>1, <2>1, DeviceSizes
      <4>5. Reg * (TileRows * x) \in Nat /\ Reg * (TileCols * z) \in Nat
        BY <4>2, DeviceSizes
      <4> QED BY <1>1, <4>1, <4>3, <4>4, <4>5
    <3>3. PICK m \in Nat \ {0} : m = TileRows * Reg
      BY <3>1
    <3>4. PICK n \in Nat \ {0} : n = TileCols * Reg
      BY <3>1
    <3>5. /\ CeilDiv(call.rows, m) \in Nat /\ x < CeilDiv(call.rows, m)
          /\ CeilDiv(call.batch, n) \in Nat /\ z < CeilDiv(call.batch, n)
      BY <1>1, <2>2, <3>2, <3>3, <3>4, CeilDivCounts
    <3> QED BY <1>7, <2>2, <3>3, <3>4, <3>5 DEF Grid, Gemm
  <2>8. o \in Mine(<<x, z>>, t)
    BY <1>7, <2>3, <2>5 DEF Mine, Gemm
  <2> QED BY <2>6, <2>7, <2>8
<1> QED BY <1>3, <1>4, <1>5, <1>6, <1>7, LaunchFacts DEF Gemm

(* No output belongs to two threads, or to threads of two blocks. *)
LEMMA OneOwner ==
  ASSUME call \in Call, kernel \in Launches(call),
         NEW bl \in Grid(call, kernel.grid), NEW bm \in Grid(call, kernel.grid),
         NEW t \in Thread, NEW u \in Thread,
         NEW o \in Mine(bl, t), o \in Mine(bm, u)
  PROVE  bl = bm /\ t = u
<1>1. /\ call.rows \in Nat \ {0} /\ call.batch \in Nat \ {0}
      /\ o \in Cells /\ o[1] \in Nat /\ o[2] \in Nat
  BY CallFacts DEF Mine, Cells
<1>2. t \in 0..ThreadCount-1 /\ u \in 0..ThreadCount-1
  BY Threads
<1>3. PICK x, z, v, w \in Nat : bl = <<x, z>> /\ bm = <<v, w>> /\ (kernel.grid \in {"flat", "coop", "warp"} => z = w)
  <2> DEFINE Nats == Nat \X Nat
  <2>1. kernel.grid \in {"row", "flat", "coop", "warp", "staged", "async"}
    BY LaunchFacts
  <2>2. \A i, j \in Int : (0..i) \X (0..j) \subseteq Nats
    OBVIOUS
  <2>3. \A m, n : CeilDiv(m, n) - 1 = CeilDiv(m, n) - 1
    OBVIOUS
  <2>4. bl \in Nats /\ bm \in Nats
    BY <2>1 DEF Grid, Gemm
  <2>5. kernel.grid \in {"flat", "coop", "warp"} => bl[2] = 0 /\ bm[2] = 0
    BY <2>1 DEF Grid, Gemm
  <2>6. bl = <<bl[1], bl[2]>> /\ bm = <<bm[1], bm[2]>> /\ bl[1] \in Nat /\ bl[2] \in Nat /\ bm[1] \in Nat /\ bm[2] \in Nat
    BY <2>4
  <2> QED BY <2>5, <2>6
<1>4. CASE kernel.grid = "row"
  <2>1. /\ o[1] = z /\ o[2] = x * RowThreads + t /\ o[1] = w /\ o[2] = v * RowThreads + u
        /\ t \in 0..RowThreads-1 /\ u \in 0..RowThreads-1
    BY <1>2, <1>3, <1>4 DEF Mine, ThreadCount, Gemm
  <2>2. x * RowThreads + t = v * RowThreads + u
    BY <2>1
  <2>3. t \in 0..RowThreads-1 /\ u \in 0..RowThreads-1
    BY <2>1
  <2>4. x = v /\ t = u
    BY <2>2, <2>3, DeviceSizes, SplitOnce
  <2> QED BY <1>3, <2>1, <2>4
<1>5. CASE kernel.grid = "flat"
  <2>1. /\ o[1] * call.rows + o[2] = x * RowThreads + t /\ o[1] * call.rows + o[2] = v * RowThreads + u
        /\ t \in 0..RowThreads-1 /\ u \in 0..RowThreads-1
    BY <1>2, <1>3, <1>5 DEF Mine, ThreadCount, Gemm
  <2>2. x * RowThreads + t = v * RowThreads + u
    BY <2>1
  <2>3. x = v /\ t = u
    BY <2>1, <2>2, DeviceSizes, SplitOnce
  <2> QED BY <1>3, <1>5, <2>3
<1>6. CASE kernel.grid = "coop"
  <2>1. /\ t % Lanes = 0 /\ o[2] = x * BlockRows + (t \div Lanes)
        /\ u % Lanes = 0 /\ o[2] = v * BlockRows + (u \div Lanes)
        /\ t \in 0..(BlockRows * Lanes)-1 /\ u \in 0..(BlockRows * Lanes)-1
    BY <1>2, <1>3, <1>6 DEF Mine, ThreadCount, Gemm
  <2>2. ASSUME NEW a \in 0..(BlockRows * Lanes)-1 PROVE a \div Lanes \in 0..BlockRows-1
    <3>1. a \in Nat /\ BlockRows * Lanes \in Nat /\ a < BlockRows * Lanes
      BY DeviceSizes, Sizes
    <3>2. a \div Lanes \in Nat /\ a % Lanes \in 0..Lanes-1 /\ a = Lanes * (a \div Lanes) + (a % Lanes)
      BY <3>1, Sizes, DivNat
    <3>3. PICK q \in Nat : q = a \div Lanes
      BY <3>2
    <3>4. q >= BlockRows => Lanes * BlockRows <= Lanes * q
      BY DeviceSizes, Sizes, TimesMonotone
    <3>5. Lanes * BlockRows = BlockRows * Lanes /\ Lanes * q \in Nat
      BY DeviceSizes, Sizes
    <3> QED BY <3>1, <3>2, <3>3, <3>4, <3>5, DeviceSizes
  <2>3. t \div Lanes \in 0..BlockRows-1 /\ u \div Lanes \in 0..BlockRows-1
    BY <2>1, <2>2
  <2>4. x = v /\ t \div Lanes = u \div Lanes
    <3>1. PICK a \in 0..BlockRows-1 : a = t \div Lanes
      BY <2>3
    <3>2. PICK c \in 0..BlockRows-1 : c = u \div Lanes
      BY <2>3
    <3>3. x * BlockRows + a = v * BlockRows + c
      BY <2>1, <3>1, <3>2
    <3>4. x = v /\ a = c
      BY <3>3, DeviceSizes, SplitOnce
    <3> QED BY <3>1, <3>2, <3>4
  <2>5. t = u
    <3>1. t \in Nat /\ u \in Nat
      BY <1>2, Threads
    <3>2. t = Lanes * (t \div Lanes) + (t % Lanes) /\ u = Lanes * (u \div Lanes) + (u % Lanes)
      BY <3>1, Sizes, DivNat
    <3> QED BY <2>1, <2>4, <3>2
  <2> QED BY <1>3, <1>6, <2>4, <2>5
<1>7. CASE kernel.grid = "warp"
  BY <1>3, <1>7 DEF Mine, Gemm
<1>8. CASE kernel.grid \in Gemm
  <2>1. /\ (o[2] - x * TileRows * Reg) \div Reg = t \div TileCols
        /\ (o[1] - z * TileCols * Reg) \div Reg = t % TileCols
        /\ (o[2] - v * TileRows * Reg) \div Reg = u \div TileCols
        /\ (o[1] - w * TileCols * Reg) \div Reg = u % TileCols
        /\ t \in 0..(TileRows * TileCols)-1 /\ u \in 0..(TileRows * TileCols)-1
    BY <1>2, <1>3, <1>8 DEF Mine, ThreadCount, Gemm
  <2>2. ASSUME NEW a \in 0..(TileRows * TileCols)-1
        PROVE  a \div TileCols \in 0..TileRows-1 /\ a % TileCols \in 0..TileCols-1
               /\ a = TileCols * (a \div TileCols) + (a % TileCols)
    <3>1. a \in Nat /\ TileRows * TileCols \in Nat /\ a < TileRows * TileCols
      BY DeviceSizes
    <3>2. a \div TileCols \in Nat /\ a % TileCols \in 0..TileCols-1 /\ a = TileCols * (a \div TileCols) + (a % TileCols)
      BY <3>1, DeviceSizes, DivNat
    <3>3. PICK q \in Nat : q = a \div TileCols
      BY <3>2
    <3>4. q >= TileRows => TileCols * TileRows <= TileCols * q
      BY DeviceSizes, TimesMonotone
    <3>5. TileCols * TileRows = TileRows * TileCols /\ TileCols * q \in Nat
      BY DeviceSizes
    <3> QED BY <3>1, <3>2, <3>3, <3>4, <3>5, DeviceSizes
  <2>3. PICK a \in 0..TileRows-1 : a = t \div TileCols
    BY <2>1, <2>2
  <2>4. PICK c \in 0..TileCols-1 : c = t % TileCols
    BY <2>1, <2>2
  <2>5. PICK d \in 0..TileRows-1 : d = u \div TileCols
    BY <2>1, <2>2
  <2>6. PICK e \in 0..TileCols-1 : e = u % TileCols
    BY <2>1, <2>2
  <2>7. PICK p \in Nat : p = o[2] \div Reg
    BY <1>1, DeviceSizes, DivNat
  <2>8. PICK q \in Nat : q = o[1] \div Reg
    BY <1>1, DeviceSizes, DivNat
  <2>9. /\ x * TileRows \in Int /\ v * TileRows \in Int /\ z * TileCols \in Int /\ w * TileCols \in Int
    BY DeviceSizes
  <2>10. ASSUME NEW i \in Nat, NEW m \in Int PROVE (i - m * Reg) \div Reg = (i \div Reg) - m
    BY DeviceSizes, DivShift
  <2>11. /\ (o[2] - (x * TileRows) * Reg) \div Reg = p - x * TileRows
         /\ (o[1] - (z * TileCols) * Reg) \div Reg = q - z * TileCols
         /\ (o[2] - (v * TileRows) * Reg) \div Reg = p - v * TileRows
         /\ (o[1] - (w * TileCols) * Reg) \div Reg = q - w * TileCols
    BY <1>1, <2>7, <2>8, <2>9, <2>10, Zenon
  <2>12. /\ p - x * TileRows = a /\ p - v * TileRows = d /\ q - z * TileCols = c /\ q - w * TileCols = e
    BY <2>1, <2>3, <2>4, <2>5, <2>6, <2>11, Zenon
  <2>13. x * TileRows + a = v * TileRows + d /\ z * TileCols + c = w * TileCols + e
    BY <2>9, <2>12
  <2>14. x = v /\ a = d
    BY <2>13, DeviceSizes, SplitOnce
  <2>15. z = w /\ c = e
    BY <2>13, DeviceSizes, SplitOnce
  <2>16. t = TileCols * a + c /\ u = TileCols * d + e
    BY <2>1, <2>2, <2>3, <2>4, <2>5, <2>6
  <2> QED BY <1>3, <2>14, <2>15, <2>16
<1> QED BY <1>4, <1>5, <1>6, <1>7, <1>8, LaunchFacts DEF Gemm

(* What a launch fixes. *)
LEMMA SameLaunch ==
  ASSUME UNCHANGED <<call, kernel, accum>>
  PROVE  /\ Thread' = Thread /\ Grid(call, kernel.grid)' = Grid(call, kernel.grid)
         /\ Cells' = Cells /\ Pcs' = Pcs /\ SharedSlot' = SharedSlot /\ Chunks' = Chunks
         /\ Supers(call)' = Supers(call) /\ Launches(call)' = Launches(call) /\ FirstStep' = FirstStep
         /\ \A bl, t : Mine(bl, t)' = Mine(bl, t)
         /\ \A n, r : Final(n, r)' = Final(n, r)
<1>1. call' = call /\ kernel' = kernel /\ accum' = accum
  OBVIOUS
<1>2. Thread' = Thread /\ Chunks' = Chunks /\ Cells' = Cells /\ Pcs' = Pcs /\ FirstStep' = FirstStep
  BY <1>1 DEF Thread, Chunks, Cells, Pcs, FirstStep
<1>3. SharedSlot' = SharedSlot
  BY <1>1, <1>2 DEF SharedSlot
<1>4. \A bl, t : Mine(bl, t)' = Mine(bl, t)
  BY <1>1, <1>2 DEF Mine
<1>5. \A n, r : Final(n, r)' = Final(n, r)
  BY <1>1 DEF Final
<1> QED BY <1>1, <1>2, <1>3, <1>4, <1>5

(* A step that writes no output and ends no thread. *)
LEMMA OutKept ==
  ASSUME OutInv, UNCHANGED <<call, kernel, accum, blocks, block, out>>,
         \A t \in Thread : th'[t].pc = "exit" <=> th[t].pc = "exit"
  PROVE  OutInv'
<1>1. /\ Thread' = Thread /\ Grid(call, kernel.grid)' = Grid(call, kernel.grid)
      /\ \A bl, t : Mine(bl, t)' = Mine(bl, t)
      /\ \A n, r : Final(n, r)' = Final(n, r)
  BY SameLaunch
<1> QED BY <1>1 DEF OutInv

(* The last step of a thread writes its outputs. *)
LEMMA OutWritten ==
  ASSUME Launched, OutInv, UNCHANGED <<call, kernel, accum, blocks, block>>, block # NoBlock,
         NEW t \in Thread, th[t].pc # "exit", th'[t].pc = "exit",
         \A u \in Thread : u # t => th'[u] = th[u],
         \A o \in Cells : out'[o[1]][o[2]] =
           IF o \in Mine(block, t) THEN Stored(o[1], o[2], Reference(call, o[1], o[2]))
           ELSE out[o[1]][o[2]]
  PROVE  OutInv'
<1>1. /\ Thread' = Thread /\ Grid(call, kernel.grid)' = Grid(call, kernel.grid)
      /\ \A bl, u : Mine(bl, u)' = Mine(bl, u)
      /\ \A n, r : Final(n, r)' = Final(n, r)
  BY SameLaunch
<1>2. block \in Grid(call, kernel.grid) /\ block \notin blocks /\ call \in Call /\ kernel \in Launches(call)
  BY DEF Launched
<1>3. \A bl, u : Mine(bl, u) \subseteq Cells
  BY DEF Mine
<1>4. ASSUME NEW bl \in Grid(call, kernel.grid), NEW u \in Thread, NEW o \in Mine(bl, u)
      PROVE  out'[o[1]][o[2]] = IF bl \in blocks' \/ (bl = block' /\ th'[u].pc # "exit")
                                THEN Residual(o[1], o[2]) ELSE Final(o[1], o[2])
  <2>0. o \in Cells
    BY <1>3, <1>4
  <2>1. CASE o \in Mine(block, t)
    <3>1. bl = block /\ u = t
      BY <1>2, <1>4, <2>1, OneOwner
    <3>2. out[o[1]][o[2]] = Residual(o[1], o[2])
      BY <1>2, <1>4, <3>1 DEF OutInv
    <3>3. out'[o[1]][o[2]] = Stored(o[1], o[2], Reference(call, o[1], o[2]))
      BY <2>0, <2>1
    <3>4. out'[o[1]][o[2]] = Final(o[1], o[2])
      BY <3>2, <3>3 DEF Stored, Final
    <3> QED BY <1>2, <3>1, <3>4
  <2>2. CASE o \notin Mine(block, t)
    <3>1. ~ (bl = block /\ u = t)
      BY <1>4, <2>2
    <3>2. out'[o[1]][o[2]] = out[o[1]][o[2]]
      BY <2>0, <2>2
    <3>3. out[o[1]][o[2]] = IF bl \in blocks \/ (bl = block /\ th[u].pc # "exit")
                            THEN Residual(o[1], o[2]) ELSE Final(o[1], o[2])
      BY <1>4 DEF OutInv
    <3>4. bl = block => th'[u] = th[u]
      BY <3>1
    <3> QED BY <3>2, <3>3, <3>4
  <2> QED BY <2>1, <2>2
<1> QED BY <1>1, <1>4 DEF OutInv

(* The device's invariant holds before any block starts. *)
LEMMA GpuInitInv ==
  ASSUME call \in Call, GpuInit
  PROVE  GpuInv
<1>1. kernel \in Launches(call) /\ accum \in BOOLEAN
  <2>1. kernel \in Launches(call) /\ accum \in IF call.entry = "hook" THEN {FALSE} ELSE BOOLEAN
    BY DEF GpuInit
  <2> QED BY <2>1
<1>2. /\ blocks = Grid(call, kernel.grid) /\ block = NoBlock
      /\ th = [t \in Thread |-> [pc |-> "exit", s |-> 0, got |-> << >>]]
      /\ sh = [i \in SharedSlot |-> Junk]
      /\ stage = [t \in Thread |-> NotStaged]
      /\ raw = [buf \in {0, 1} |-> [t \in Thread |-> NotStaged]]
      /\ flight = [t \in Thread |-> {}]
      /\ out = [n \in 0..call.batch-1 |-> [r \in 0..call.rows-1 |-> Residual(n, r)]]
  BY DEF GpuInit, Doing
<1>3. kernel.grid \in {"row", "flat", "coop", "warp", "staged", "async"}
  BY <1>1, LaunchFacts
<1>4. NoBlock \notin Grid(call, kernel.grid)
  BY <1>3 DEF NoBlock, Grid, Gemm
<1>5. \A t \in Thread : th[t].pc = "exit" /\ th[t].s = 0 /\ th[t].got = << >> /\ flight[t] = {}
  BY <1>2
<1>6. Launched /\ ThreadsOK /\ Memory
  <2>1. "exit" \in Pcs
    BY <1>3 DEF Pcs
  <2>2. 0 \in 0..Supers(call)
    BY CallFacts
  <2>3. th = [t \in Thread |-> [pc |-> th[t].pc, s |-> th[t].s, got |-> th[t].got]]
    BY <1>2
  <2>4. /\ sh = [i \in SharedSlot |-> sh[i]] /\ stage = [t \in Thread |-> stage[t]]
        /\ flight = [t \in Thread |-> flight[t]]
    BY <1>2
  <2>5. raw = [buf \in {0, 1} |-> [t \in Thread |-> raw[buf][t]]]
    BY <1>2
  <2>6. out = [n \in 0..call.batch-1 |-> [r \in 0..call.rows-1 |-> out[n][r]]]
    BY <1>2
  <2>7. blocks \subseteq Grid(call, kernel.grid) /\ block \in Grid(call, kernel.grid) \cup {NoBlock} /\ block \notin blocks
    BY <1>2, <1>4
  <2>8. \A t \in Thread : th[t].pc \in Pcs /\ th[t].s \in 0..Supers(call)
    BY <1>5, <2>1, <2>2
  <2> QED BY <1>1, <1>5, <2>3, <2>4, <2>5, <2>6, <2>7, <2>8 DEF Launched, ThreadsOK, Memory
<1>7. OutInv
  <2> SUFFICES ASSUME NEW bl \in Grid(call, kernel.grid), NEW t \in Thread, NEW o \in Mine(bl, t)
               PROVE  out[o[1]][o[2]] = Residual(o[1], o[2])
    BY <1>2 DEF OutInv
  <2>1. o[1] \in 0..call.batch-1 /\ o[2] \in 0..call.rows-1
    BY DEF Mine, Cells
  <2> QED BY <1>2, <2>1
<1>8. Summing
  BY <1>5 DEF Summing
<1>9. CoopInv
  <2>1. kernel.grid \in {"row", "flat", "coop", "warp", "staged", "async"} => Chunks \in Nat
    <3>1. Supers(call) \in Nat
      BY CallFacts
    <3> QED BY <3>1, Sizes, CeilDivCounts DEF Chunks
  <2>2. 0 \in 0..Chunks
    BY <1>3, <2>1
  <2> QED BY <1>2, <1>5, <1>8, <2>2 DEF CoopInv
<1>10. WarpInv /\ RowInv /\ GemmInv
  BY <1>2, <1>5, <1>8 DEF WarpInv, RowInv, GemmInv
<1> QED BY <1>5, <1>6, <1>7, <1>9, <1>10 DEF GpuInv

-----------------------------------------------------------------------------
(* Steps of threads. *)
LEMMA ThreadGoes ==
  ASSUME ThreadsOK, NEW t \in Thread, NEW pc, Goto(t, pc)
  PROVE  /\ th' = [u \in Thread |-> [pc |-> th'[u].pc, s |-> th'[u].s, got |-> th'[u].got]]
         /\ th'[t].pc = pc /\ th'[t].s = th[t].s /\ th'[t].got = th[t].got
         /\ \A u \in Thread : u # t => th'[u] = th[u]
<1>1. th = [u \in Thread |-> [pc |-> th[u].pc, s |-> th[u].s, got |-> th[u].got]]
  BY DEF ThreadsOK
<1>2. th' = [th EXCEPT ![t].pc = pc]
  BY DEF Goto
<1>3. /\ \A u \in Thread : u # t => th'[u] = th[u]
      /\ th'[t] = [th[t] EXCEPT !.pc = pc] /\ th' = [u \in Thread |-> th'[u]]
  BY <1>1, <1>2
<1>4. th'[t] = [pc |-> pc, s |-> th[t].s, got |-> th[t].got]
  <2>1. th[t] = [pc |-> th[t].pc, s |-> th[t].s, got |-> th[t].got]
    BY <1>1
  <2>2. \A p, q, r : [[pc |-> p, s |-> q, got |-> r] EXCEPT !.pc = pc] = [pc |-> pc, s |-> q, got |-> r]
    OBVIOUS
  <2>3. PICK old : old = th[t]
    OBVIOUS
  <2>4. [old EXCEPT !.pc = pc] = [pc |-> pc, s |-> old.s, got |-> old.got]
    BY <2>1, <2>2, <2>3
  <2> QED BY <1>3, <2>3, <2>4
<1>5. \A u \in Thread : th'[u] = [pc |-> th'[u].pc, s |-> th'[u].s, got |-> th'[u].got]
  BY <1>1, <1>3, <1>4
<1> QED BY <1>3, <1>4, <1>5

(* The next round of a thread. *)
LEMMA ThreadCounts ==
  ASSUME ThreadsOK, NEW t \in Thread, th' = [th EXCEPT ![t].s = @ + 1]
  PROVE  /\ th' = [u \in Thread |-> [pc |-> th'[u].pc, s |-> th'[u].s, got |-> th'[u].got]]
         /\ th'[t].pc = th[t].pc /\ th'[t].s = th[t].s + 1 /\ th'[t].got = th[t].got
         /\ \A u \in Thread : u # t => th'[u] = th[u]
<1>1. th = [u \in Thread |-> [pc |-> th[u].pc, s |-> th[u].s, got |-> th[u].got]]
  BY DEF ThreadsOK
<1>3. /\ \A u \in Thread : u # t => th'[u] = th[u]
      /\ th'[t] = [th[t] EXCEPT !.s = th[t].s + 1] /\ th' = [u \in Thread |-> th'[u]]
  BY <1>1
<1>4. th'[t] = [pc |-> th[t].pc, s |-> th[t].s + 1, got |-> th[t].got]
  <2>1. th[t] = [pc |-> th[t].pc, s |-> th[t].s, got |-> th[t].got]
    BY <1>1
  <2>2. \A p, q, r, new : [[pc |-> p, s |-> q, got |-> r] EXCEPT !.s = new] = [pc |-> p, s |-> new, got |-> r]
    OBVIOUS
  <2>3. PICK old : old = th[t]
    OBVIOUS
  <2>4. PICK new : new = th[t].s + 1
    OBVIOUS
  <2>5. [old EXCEPT !.s = new] = [pc |-> old.pc, s |-> new, got |-> old.got]
    BY <2>1, <2>2, <2>3
  <2> QED BY <1>3, <2>3, <2>4, <2>5
<1>5. \A u \in Thread : th'[u] = [pc |-> th'[u].pc, s |-> th'[u].s, got |-> th'[u].got]
  BY <1>1, <1>3, <1>4
<1> QED BY <1>3, <1>4, <1>5

(* Which kernel a thread at pc is running. *)
LEMMA PcTells ==
  ASSUME Launched, ThreadsOK, NEW t \in Thread
  PROVE  /\ kernel.grid \in {"row", "flat", "coop", "warp", "staged", "async"}
         /\ th[t].pc = "row" => kernel.grid \in {"row", "flat"}
         /\ th[t].pc \in {"sum", "summed", "combine"} => kernel.grid \in {"coop", "warp"}
         /\ th[t].pc \in {"unpack", "unpacked", "compute", "computed", "store"} => kernel.grid \in Gemm
         /\ th[t].pc \in {"load", "loaded", "arrived"} => kernel.grid = "async"
<1>1. kernel.grid \in {"row", "flat", "coop", "warp", "staged", "async"}
  BY LaunchFacts DEF Launched
<1>2. th[t].pc \in Pcs
  BY DEF ThreadsOK
<1> QED BY <1>1, <1>2 DEF Pcs, Gemm

(* A thread's step within its block. *)
LEMMA ThreadStepOK ==
  ASSUME Launched, ThreadsOK, UNCHANGED <<call, kernel, accum, blocks, block>>, block # NoBlock,
         NEW t \in Thread, th'[t].pc \in Pcs, th'[t].s \in 0..Supers(call),
         \A u \in Thread : u # t => th'[u] = th[u],
         th' = [u \in Thread |-> [pc |-> th'[u].pc, s |-> th'[u].s, got |-> th'[u].got]]
  PROVE  Launched' /\ ThreadsOK'
<1>1. /\ Thread' = Thread /\ Grid(call, kernel.grid)' = Grid(call, kernel.grid)
      /\ Pcs' = Pcs /\ Supers(call)' = Supers(call) /\ Launches(call)' = Launches(call)
  BY SameLaunch
<1>2. Launched'
  BY <1>1 DEF Launched
<1>3. \A u \in Thread : th'[u].pc \in Pcs /\ th'[u].s \in 0..Supers(call)
  BY DEF ThreadsOK
<1>4. ThreadsOK'
  BY <1>1, <1>3 DEF ThreadsOK
<1> QED BY <1>2, <1>4

(* One output is written. *)
Sets(n, r, v) == out' = [out EXCEPT ![n][r] = v]

(* The other outputs stay. *)
LEMMA WriteOne ==
  ASSUME Memory, NEW n \in 0..call.batch-1, NEW r \in 0..call.rows-1, NEW v, Sets(n, r, v)
  PROVE  /\ out' = [m \in 0..call.batch-1 |-> [q \in 0..call.rows-1 |-> out'[m][q]]]
         /\ \A o \in Cells : out'[o[1]][o[2]] = IF o = <<n, r>> THEN v ELSE out[o[1]][o[2]]
<1>1. out = [m \in 0..call.batch-1 |-> [q \in 0..call.rows-1 |-> out[m][q]]]
  BY DEF Memory
<1>2. out' = [out EXCEPT ![n] = [out[n] EXCEPT ![r] = v]]
  BY DEF Sets
<1>3. DOMAIN out = 0..call.batch-1 /\ \A m \in 0..call.batch-1 : out[m] = [q \in 0..call.rows-1 |-> out[m][q]]
  BY <1>1
<1>4. /\ out'[n] = [out[n] EXCEPT ![r] = v]
      /\ \A m \in 0..call.batch-1 : m # n => out'[m] = out[m]
      /\ out' = [m \in 0..call.batch-1 |-> out'[m]]
  BY <1>2, <1>3
<1>5. \A q \in 0..call.rows-1 : out'[n][q] = IF q = r THEN v ELSE out[n][q]
  BY <1>3, <1>4
<1>6. out'[n] = [q \in 0..call.rows-1 |-> out'[n][q]]
  BY <1>3, <1>4
<1>7. out' = [m \in 0..call.batch-1 |-> [q \in 0..call.rows-1 |-> out'[m][q]]]
  BY <1>3, <1>4, <1>6, ZenonT(40)
<1>8. ASSUME NEW o \in Cells PROVE out'[o[1]][o[2]] = IF o = <<n, r>> THEN v ELSE out[o[1]][o[2]]
  <2>1. o[1] \in 0..call.batch-1 /\ o[2] \in 0..call.rows-1 /\ (o = <<n, r>> <=> o[1] = n /\ o[2] = r)
    BY DEF Cells
  <2> QED BY <1>4, <1>5, <2>1
<1> QED BY <1>7, <1>8

-----------------------------------------------------------------------------
(* Each step of the device keeps the invariant. *)
LEMMA GpuKeeps ==
  ASSUME GpuInv, UNCHANGED <<call, gpu>>
  PROVE  GpuInv'
<1>1. /\ call' = call /\ kernel' = kernel /\ accum' = accum /\ blocks' = blocks /\ block' = block
      /\ th' = th /\ sh' = sh /\ stage' = stage /\ raw' = raw /\ flight' = flight /\ out' = out
  BY DEF gpu
<1>2. /\ Thread' = Thread /\ Grid(call, kernel.grid)' = Grid(call, kernel.grid)
      /\ Cells' = Cells /\ Pcs' = Pcs /\ SharedSlot' = SharedSlot /\ Chunks' = Chunks
      /\ Supers(call)' = Supers(call) /\ Launches(call)' = Launches(call)
      /\ \A bl, t : Mine(bl, t)' = Mine(bl, t)
      /\ \A n, r : Final(n, r)' = Final(n, r)
  BY <1>1, SameLaunch
<1>3. Launched' = Launched /\ ThreadsOK' = ThreadsOK /\ Memory' = Memory /\ OutInv' = OutInv
  BY <1>1, <1>2 DEF Launched, ThreadsOK, Memory, OutInv
<1>4. RowInv' = RowInv /\ Summing' = Summing
  BY <1>1, <1>2 DEF RowInv, Summing
<1>5. CoopInv' = CoopInv
  <2>1. \A t : CoopRow(t)' = CoopRow(t)
    BY <1>1 DEF CoopRow, CoopSlot
  <2>2. \A t, c : LaneChunk(t, c)' = LaneChunk(t, c)
    BY <1>1 DEF LaneChunk, Chain, ChainFrom, CoopLane, CoopRow, CoopSlot
  <2> QED BY <1>1, <1>2, <1>4, <2>1, <2>2 DEF CoopInv, CoopSlot, CoopLane
<1>6. WarpInv' = WarpInv
  BY <1>1, <1>2, <1>4 DEF WarpInv
<1>7. GemmInv' = GemmInv
  <2>1. Together' = Together
    BY <1>1, <1>2 DEF Together
  <2>2. \A t : CopiesInv(t)' = CopiesInv(t)
    BY <1>1, <1>2 DEF CopiesInv, Coming, Here
  <2> QED BY <1>1, <1>2, <2>1, <2>2 DEF GemmInv
<1> QED BY <1>1, <1>2, <1>3, <1>4, <1>5, <1>6, <1>7 DEF GpuInv

(* The number of chunks of a row. *)
LEMMA ChunksNat ==
  ASSUME call \in Call
  PROVE  Chunks \in Nat
BY CallFacts, Sizes, CeilDivCounts DEF Chunks

(* What the first step of every kernel finds. *)
LEMMA StartBlockKeeps ==
  ASSUME GpuInv, StartBlock
  PROVE  GpuInv'
<1>1. PICK bl \in blocks : block' = bl /\ blocks' = blocks \ {bl}
  BY DEF StartBlock
<1>2. /\ \A t \in Thread : th[t].pc = "exit"
      /\ th' = [t \in Thread |-> [pc |-> FirstStep, s |-> 0, got |-> << >>]]
      /\ UNCHANGED <<call, kernel, accum, sh, stage, raw, flight, out>>
  BY DEF StartBlock, Doing
<1>3. /\ Thread' = Thread /\ Grid(call, kernel.grid)' = Grid(call, kernel.grid)
      /\ Cells' = Cells /\ Pcs' = Pcs /\ SharedSlot' = SharedSlot /\ Chunks' = Chunks
      /\ Supers(call)' = Supers(call) /\ Launches(call)' = Launches(call) /\ FirstStep' = FirstStep
      /\ \A x, t : Mine(x, t)' = Mine(x, t)
      /\ \A n, r : Final(n, r)' = Final(n, r)
  BY <1>2, SameLaunch
<1>4. Launched /\ ThreadsOK /\ Memory /\ OutInv
  BY DEF GpuInv
<1>5. /\ call \in Call /\ kernel \in Launches(call) /\ accum \in BOOLEAN
      /\ blocks \subseteq Grid(call, kernel.grid) /\ block \notin blocks
  BY <1>4 DEF Launched
<1>6. /\ kernel.grid \in {"row", "flat", "coop", "warp", "staged", "async"}
      /\ kernel.grid \in Gemm => call.dtype \in KQuant
  BY <1>5, LaunchFacts, Schemes
<1>7. Supers(call) \in Nat /\ (kernel.grid \in Gemm => Supers(call) # 0) /\ Chunks \in Nat
  BY <1>5, <1>6, CallFacts, ChunksNat
<1>8. \A t \in Thread : th'[t].pc = FirstStep /\ th'[t].s = 0 /\ th'[t].got = << >>
  BY <1>2
<1>9. Launched'
  BY <1>1, <1>2, <1>3, <1>5 DEF Launched
<1>21. block' # NoBlock
  <2>1. NoBlock \notin Grid(call, kernel.grid)
    BY <1>6 DEF NoBlock, Grid, Gemm
  <2> QED BY <1>1, <1>5, <2>1
<1>10. ThreadsOK'
  <2>1. FirstStep \in Pcs
    BY <1>6 DEF FirstStep, Pcs, Gemm
  <2>2. 0 \in 0..Supers(call)
    BY <1>7
  <2> QED BY <1>2, <1>3, <1>8, <1>21, <2>1, <2>2 DEF ThreadsOK
<1>11. Memory'
  BY <1>2, <1>3, <1>4 DEF Memory
<1>12. OutInv'
  <2>1. FirstStep # "exit"
    BY <1>6 DEF FirstStep, Gemm
  <2>2. ASSUME NEW x \in Grid(call, kernel.grid), NEW t \in Thread, NEW o \in Mine(x, t)
        PROVE  out'[o[1]][o[2]] = IF x \in blocks' \/ (x = block' /\ th'[t].pc # "exit")
                                  THEN Residual(o[1], o[2]) ELSE Final(o[1], o[2])
    <3>1. out'[o[1]][o[2]] = IF x \in blocks \/ (x = block /\ th[t].pc # "exit")
                             THEN Residual(o[1], o[2]) ELSE Final(o[1], o[2])
      BY <1>2, <1>4, <2>2 DEF OutInv
    <3>2. x \in blocks <=> x \in blocks' \/ x = block'
      BY <1>1
    <3> QED BY <1>2, <1>8, <2>1, <3>1, <3>2
  <2> QED BY <1>3, <2>2 DEF OutInv
<1>13. kernel.grid \in {"row", "flat"} => RowInv'
  BY <1>3, <1>8 DEF RowInv
<1>14. kernel.grid \in {"coop", "warp"} => Summing' /\ FirstStep = "sum"
  <2>1. kernel.grid \in {"coop", "warp"} => FirstStep = "sum"
    BY DEF FirstStep, Gemm
  <2> QED BY <1>3, <1>8, <2>1 DEF Summing
<1>15. kernel.grid = "coop" => CoopInv'
  BY <1>3, <1>7, <1>8, <1>14 DEF CoopInv
<1>16. kernel.grid = "warp" => WarpInv'
  <2>1. ASSUME NEW i \in 0..Supers(call)-1 PROVE ~ (i \div WarpSize < 0)
    <3>1. i \in Nat
      BY <1>7
    <3>2. i \div WarpSize \in Nat
      BY <3>1, DeviceSizes, DivNat
    <3> QED BY <3>2
  <2> QED BY <1>3, <1>7, <1>8, <1>14, <2>1 DEF WarpInv
<1>17. \A t \in Thread : kernel.grid \in Gemm => flight[t] \subseteq (IF block = NoBlock THEN {} ELSE {th[t].s + 1})
  <2>1. ASSUME NEW t \in Thread, kernel.grid \in Gemm, block = NoBlock PROVE flight[t] = {}
    BY <2>1 DEF GpuInv, GemmInv
  <2>2. ASSUME NEW t \in Thread, kernel.grid \in Gemm, block # NoBlock PROVE flight[t] \subseteq {th[t].s + 1}
    BY <1>2, <2>2 DEF GpuInv, GemmInv, CopiesInv
  <2> QED BY <2>1, <2>2
<1>18. \A t \in Thread : kernel.grid \in Gemm => flight[t] = {}
  <2>1. ASSUME NEW t \in Thread, kernel.grid \in Gemm, block # NoBlock PROVE flight[t] = {}
    <3>1. th[t].s + 1 = Supers(call) /\ flight[t] \subseteq 0..Supers(call)-1
      BY <1>2, <2>1 DEF GpuInv, GemmInv, Together
    <3> QED BY <1>7, <1>17, <2>1, <3>1
  <2> QED BY <1>17, <2>1
<1>19. kernel.grid \in Gemm => GemmInv'
  <2> SUFFICES ASSUME kernel.grid \in Gemm PROVE GemmInv'
    OBVIOUS
  <2>1. /\ kernel.grid = "async" => FirstStep = "load"
        /\ kernel.grid = "staged" => FirstStep = "unpack"
    BY DEF FirstStep
  <2>2. Together'
    BY <1>3, <1>8, <2>1 DEF Together, Gemm
  <2>3. Upto(0) = << >>
    BY DEF Upto
  <2>4. 0 \in 0..Supers(call)-1
    BY <1>7
  <2>5. ASSUME NEW t \in Thread, kernel.grid = "async" PROVE CopiesInv(t)'
    BY <1>2, <1>8, <1>18, <2>1, <2>5 DEF CopiesInv
  <2> QED BY <1>2, <1>3, <1>8, <1>18, <1>21, <2>1, <2>2, <2>3, <2>4, <2>5 DEF GemmInv, Gemm
<1>20. kernel.grid \notin Gemm => \A t \in Thread : flight[t] = {}
  BY DEF GpuInv
<1> QED BY <1>2, <1>3, <1>9, <1>10, <1>11, <1>12, <1>13, <1>15, <1>16, <1>19, <1>20 DEF GpuInv

(* What a thread does at a barrier that all have reached. *)
LEMMA BarrierGoes ==
  ASSUME NEW p, NEW s \in Nat, NEW g, Supers(call) \in Nat
  PROVE  LET old == [pc |-> p, s |-> s, got |-> g]
         IN  /\ p = "summed" => AfterBarrier(old) = [pc |-> "combine", s |-> s, got |-> g]
             /\ p = "arrived" => AfterBarrier(old) = [pc |-> "unpack", s |-> s, got |-> g]
             /\ p = "unpacked" => AfterBarrier(old) = [pc |-> "compute", s |-> s, got |-> g]
             /\ p = "computed" /\ s + 1 < Supers(call) =>
                  AfterBarrier(old) = [pc |-> FirstStep, s |-> s + 1, got |-> g]
             /\ p = "computed" /\ s + 1 = Supers(call) =>
                  AfterBarrier(old) = [pc |-> "store", s |-> s, got |-> g]
<1>1. PICK old : old = [pc |-> p, s |-> s, got |-> g]
  OBVIOUS
<1>2. old.pc = p /\ old.s = s
  BY <1>1
<1>3. \A q : [old EXCEPT !.pc = q] = [pc |-> q, s |-> s, got |-> g]
  BY <1>1
<1>4. p = "summed" => AfterBarrier(old) = [pc |-> "combine", s |-> s, got |-> g]
  BY <1>2, <1>3 DEF AfterBarrier
<1>5. p = "arrived" => AfterBarrier(old) = [pc |-> "unpack", s |-> s, got |-> g]
  BY <1>2, <1>3 DEF AfterBarrier
<1>6. p = "unpacked" => AfterBarrier(old) = [pc |-> "compute", s |-> s, got |-> g]
  BY <1>2, <1>3 DEF AfterBarrier
<1>7. p = "computed" /\ s + 1 < Supers(call) =>
        AfterBarrier(old) = [pc |-> FirstStep, s |-> s + 1, got |-> g]
  BY <1>1, <1>2 DEF AfterBarrier, Doing
<1>8. p = "computed" /\ s + 1 = Supers(call) =>
        AfterBarrier(old) = [pc |-> "store", s |-> s, got |-> g]
  BY <1>2, <1>3 DEF AfterBarrier
<1> QED BY <1>1, <1>4, <1>5, <1>6, <1>7, <1>8

(* The threads of a block pass a barrier. *)
LEMMA BarrierKeeps ==
  ASSUME GpuInv, Barrier
  PROVE  GpuInv'
<1>1. PICK pc \in {"summed", "arrived", "unpacked", "computed"} : \A t \in Thread : th[t].pc = pc
  BY DEF Barrier
<1>2. /\ block # NoBlock /\ th' = [t \in Thread |-> AfterBarrier(th[t])]
      /\ UNCHANGED <<call, kernel, accum, blocks, block, sh, stage, raw, flight, out>>
  BY DEF Barrier
<1>3. /\ Thread' = Thread /\ Grid(call, kernel.grid)' = Grid(call, kernel.grid)
      /\ Pcs' = Pcs /\ SharedSlot' = SharedSlot /\ Chunks' = Chunks
      /\ Supers(call)' = Supers(call) /\ Launches(call)' = Launches(call)
  BY <1>2, SameLaunch
<1>4. Launched /\ ThreadsOK /\ Memory /\ OutInv
  BY DEF GpuInv
<1>5. call \in Call /\ kernel \in Launches(call)
  BY <1>4 DEF Launched
<1>6. 0 \in Thread
  BY <1>5, Threads
<1>7. /\ kernel.grid \in {"row", "flat", "coop", "warp", "staged", "async"}
      /\ pc = "summed" => kernel.grid \in {"coop", "warp"}
      /\ pc \in {"unpacked", "computed"} => kernel.grid \in Gemm
      /\ pc = "arrived" => kernel.grid = "async"
  BY <1>1, <1>4, <1>6, PcTells
<1>8. Supers(call) \in Nat /\ Chunks \in Nat
  BY <1>5, CallFacts, ChunksNat
<1>9. \A t \in Thread : th[t].pc \in Pcs /\ th[t].s \in Nat /\ th[t].s <= Supers(call)
  BY <1>4, <1>8 DEF ThreadsOK
<1>10. ASSUME pc = "computed", NEW t \in Thread PROVE th[t].s + 1 <= Supers(call)
  BY <1>2, <1>7, <1>8, <1>10 DEF GpuInv, GemmInv
<1>11. ASSUME NEW t \in Thread
       PROVE  /\ th'[t] = [pc |-> th'[t].pc, s |-> th'[t].s, got |-> th'[t].got]
              /\ th'[t].got = th[t].got
              /\ pc = "summed" => th'[t].pc = "combine" /\ th'[t].s = th[t].s
              /\ pc = "arrived" => th'[t].pc = "unpack" /\ th'[t].s = th[t].s
              /\ pc = "unpacked" => th'[t].pc = "compute" /\ th'[t].s = th[t].s
              /\ pc = "computed" /\ th[t].s + 1 < Supers(call) => th'[t].pc = FirstStep /\ th'[t].s = th[t].s + 1
              /\ pc = "computed" /\ th[t].s + 1 = Supers(call) => th'[t].pc = "store" /\ th'[t].s = th[t].s
  <2>1. th'[t] = AfterBarrier(th[t])
    BY <1>2
  <2>2. th[t] = [pc |-> th[t].pc, s |-> th[t].s, got |-> th[t].got] /\ th[t].pc = pc
    BY <1>1, <1>4 DEF ThreadsOK
  <2>3. PICK s \in Nat : s = th[t].s
    BY <1>9
  <2>4. PICK g : g = th[t].got
    OBVIOUS
  <2>5. th'[t] = AfterBarrier([pc |-> pc, s |-> s, got |-> g])
    BY <2>1, <2>2, <2>3, <2>4
  <2>6. /\ pc = "summed" => th'[t] = [pc |-> "combine", s |-> s, got |-> g]
        /\ pc = "arrived" => th'[t] = [pc |-> "unpack", s |-> s, got |-> g]
        /\ pc = "unpacked" => th'[t] = [pc |-> "compute", s |-> s, got |-> g]
        /\ pc = "computed" /\ s + 1 < Supers(call) => th'[t] = [pc |-> FirstStep, s |-> s + 1, got |-> g]
        /\ pc = "computed" /\ s + 1 = Supers(call) => th'[t] = [pc |-> "store", s |-> s, got |-> g]
    BY <1>8, <2>5, BarrierGoes
  <2>7. pc = "computed" => s + 1 < Supers(call) \/ s + 1 = Supers(call)
    BY <1>8, <1>10, <2>3
  <2>8. PICK q, n : th'[t] = [pc |-> q, s |-> n, got |-> g]
    BY <1>1, <2>6, <2>7
  <2>9. th'[t].pc = q /\ th'[t].s = n /\ th'[t].got = g
    BY <2>8
  <2>10. th'[t] = [pc |-> th'[t].pc, s |-> th'[t].s, got |-> th'[t].got]
    BY <2>8, <2>9
  <2> QED BY <2>3, <2>4, <2>6, <2>9, <2>10
<1>12. \A t \in Thread : th'[t].s \in 0..Supers(call)
  <2> TAKE t \in Thread
  <2>1. PICK s \in Nat : s = th[t].s /\ s <= Supers(call)
    BY <1>9
  <2>2. pc = "computed" => s + 1 <= Supers(call)
    BY <1>10, <2>1
  <2>3. PICK n \in Nat : n = Supers(call)
    BY <1>8
  <2>4. th'[t].s = th[t].s \/ (pc = "computed" /\ th'[t].s = th[t].s + 1)
    <3>1. CASE pc = "computed"
      <4>1. th[t].s + 1 < Supers(call) \/ th[t].s + 1 = Supers(call)
        BY <2>1, <2>2, <2>3, <3>1
      <4> QED BY <1>11, <3>1, <4>1
    <3>2. CASE pc # "computed"
      BY <1>1, <1>11, <3>2
    <3> QED BY <3>1, <3>2
  <2> QED BY <2>1, <2>2, <2>3, <2>4
<1>13. FirstStep \in Pcs /\ FirstStep # "exit"
       /\ (kernel.grid = "async" => FirstStep = "load") /\ (kernel.grid = "staged" => FirstStep = "unpack")
  BY <1>7 DEF FirstStep, Pcs, Gemm
<1>14. \A t \in Thread : th'[t].pc \in Pcs /\ th'[t].pc # "exit" /\ th[t].pc # "exit"
  <2> TAKE t \in Thread
  <2>1. pc = "computed" => th[t].s + 1 < Supers(call) \/ th[t].s + 1 = Supers(call)
    BY <1>8, <1>9, <1>10
  <2>2. CASE pc = "computed"
    BY <1>1, <1>7, <1>11, <1>13, <2>1, <2>2 DEF Pcs, Gemm
  <2>3. CASE pc # "computed"
    BY <1>1, <1>7, <1>11, <2>3 DEF Pcs, Gemm
  <2> QED BY <2>2, <2>3
<1>15. Launched'
  BY <1>2, <1>3, <1>4 DEF Launched
<1>16. ThreadsOK'
  <2>1. th' = [t \in Thread |-> th'[t]]
    BY <1>2
  <2>2. th' = [t \in Thread |-> [pc |-> th'[t].pc, s |-> th'[t].s, got |-> th'[t].got]]
    BY <1>11, <2>1
  <2> QED BY <1>2, <1>3, <1>12, <1>14, <2>2 DEF ThreadsOK
<1>17. Memory'
  BY <1>2, <1>3, <1>4, SameLaunch DEF Memory
<1>18. OutInv'
  BY <1>2, <1>4, <1>14, OutKept
<1>19. kernel.grid \notin {"row", "flat"}
  BY <1>1, <1>7 DEF Gemm
<1>20. kernel.grid \in {"coop", "warp"} => pc = "summed"
  BY <1>1, <1>7 DEF Gemm
<1>21. kernel.grid \in {"coop", "warp"} => Summing'
  BY <1>3, <1>11, <1>20 DEF Summing
<1>22. kernel.grid = "coop" => CoopInv'
  <2> SUFFICES ASSUME kernel.grid = "coop" PROVE CoopInv'
    OBVIOUS
  <2>1. CoopInv /\ pc = "summed"
    BY <1>20 DEF GpuInv
  <2>2. \A t : CoopRow(t)' = CoopRow(t)
    BY <1>2 DEF CoopRow, CoopSlot
  <2>3. \A t, c : LaneChunk(t, c)' = LaneChunk(t, c)
    BY <1>2 DEF LaneChunk, Chain, ChainFrom, CoopLane, CoopRow, CoopSlot
  <2> QED BY <1>1, <1>2, <1>3, <1>11, <1>21, <2>1, <2>2, <2>3, ZenonT(40) DEF CoopInv, CoopSlot, CoopLane
<1>23. kernel.grid = "warp" => WarpInv'
  <2> SUFFICES ASSUME kernel.grid = "warp" PROVE WarpInv'
    OBVIOUS
  <2>1. WarpInv /\ pc = "summed"
    BY <1>20 DEF GpuInv
  <2> QED BY <1>1, <1>2, <1>3, <1>11, <1>21, <2>1, ZenonT(40) DEF WarpInv
<1>24. kernel.grid \in Gemm => GemmInv'
  <2> SUFFICES ASSUME kernel.grid \in Gemm PROVE GemmInv'
    OBVIOUS
  <2>1. /\ Together
        /\ \A t \in Thread :
             /\ th[t].s \in 0..Supers(call)-1 /\ flight[t] \subseteq 0..Supers(call)-1
             /\ th[t].got = Upto(IF th[t].pc \in {"computed", "store", "exit"} THEN th[t].s + 1 ELSE th[t].s)
             /\ th[t].pc \in {"unpacked", "compute", "computed"} => stage[t] = <<block, th[t].s>>
             /\ IF kernel.grid = "async" THEN CopiesInv(t) ELSE flight[t] = {}
    BY <1>2 DEF GpuInv, GemmInv
  <2>2. pc # "summed"
    BY <1>7 DEF Gemm
  <2>3. PICK s \in 0..Supers(call)-1 : \A t \in Thread : th[t].s = s
    BY <1>6, <2>1 DEF Together
  <2>4. s \in Nat /\ s + 1 <= Supers(call)
    BY <1>8
  <2>5. CASE pc \in {"arrived", "unpacked"}
    <3>1. \A t \in Thread : th'[t].s = s /\ th'[t].pc = IF pc = "arrived" THEN "unpack" ELSE "compute"
      BY <1>11, <2>3, <2>5
    <3>2. Together'
      BY <1>3, <3>1 DEF Together
    <3>3. ASSUME NEW t \in Thread
          PROVE  /\ th'[t].s \in 0..Supers(call)-1 /\ flight'[t] \subseteq 0..Supers(call)-1
                 /\ th'[t].got = Upto(IF th'[t].pc \in {"computed", "store", "exit"} THEN th'[t].s + 1 ELSE th'[t].s)
                 /\ th'[t].pc \in {"unpacked", "compute", "computed"} => stage'[t] = <<block', th'[t].s>>
      BY <1>1, <1>2, <1>11, <2>1, <2>3, <2>5, <3>1, ZenonT(40)
    <3>4. ASSUME NEW t \in Thread, kernel.grid = "async" PROVE CopiesInv(t)'
      BY <1>1, <1>2, <1>3, <2>1, <2>3, <2>5, <3>1, <3>4 DEF CopiesInv, Here, Coming
    <3> QED BY <1>2, <1>3, <2>1, <3>2, <3>3, <3>4 DEF GemmInv
  <2>6. CASE pc = "computed" /\ s + 1 = Supers(call)
    <3>1. \A t \in Thread : th'[t].s = s /\ th'[t].pc = "store"
      <4> TAKE t \in Thread
      <4>1. th[t].s + 1 = Supers(call)
        BY <2>3, <2>4, <2>6
      <4>2. pc = "computed" /\ th[t].s = s
        BY <2>3, <2>6
      <4>3. th'[t].pc = "store" /\ th'[t].s = th[t].s
        BY <1>11, <4>1, <4>2
      <4> QED BY <4>2, <4>3
    <3>2. Together'
      BY <1>3, <2>6, <3>1 DEF Together
    <3>3. ASSUME NEW t \in Thread
          PROVE  /\ th'[t].s \in 0..Supers(call)-1 /\ flight'[t] \subseteq 0..Supers(call)-1
                 /\ th'[t].got = Upto(IF th'[t].pc \in {"computed", "store", "exit"} THEN th'[t].s + 1 ELSE th'[t].s)
                 /\ th'[t].pc \in {"unpacked", "compute", "computed"} => stage'[t] = <<block', th'[t].s>>
      <4>1. /\ th[t].got = Upto(s + 1) /\ flight[t] \subseteq 0..Supers(call)-1
            /\ stage[t] = <<block, s>>
        BY <1>1, <2>1, <2>3, <2>6
      <4> QED BY <1>2, <1>11, <3>1, <4>1
    <3>4. ASSUME NEW t \in Thread, kernel.grid = "async" PROVE CopiesInv(t)'
      <4>1. flight[t] \subseteq {s + 1} /\ Here(t, s) /\ Coming(t, s + 1)
        BY <1>1, <2>1, <2>3, <2>6, <3>4 DEF CopiesInv
      <4>2. Here(t, s)' /\ Coming(t, s + 1)'
        BY <1>2, <1>3, <4>1 DEF Coming, Here
      <4> QED BY <1>2, <3>1, <4>1, <4>2 DEF CopiesInv
    <3> QED BY <1>2, <1>3, <2>1, <3>2, <3>3, <3>4 DEF GemmInv
  <2>7. CASE pc = "computed" /\ s + 1 # Supers(call)
    <3>1. PICK n \in Nat : n = s + 1
      BY <2>4
    <3>2. n \in 0..Supers(call)-1 /\ n # 0
      BY <1>8, <2>4, <2>7, <3>1
    <3>3. \A t \in Thread : th'[t].s = n /\ th'[t].pc = FirstStep
      <4>1. s + 1 < Supers(call)
        BY <1>8, <2>4, <2>7
      <4> QED BY <1>11, <2>3, <2>7, <3>1, <4>1
    <3>4. Together'
      BY <1>3, <1>13, <3>3 DEF Together, Gemm
    <3>5. ASSUME NEW t \in Thread
          PROVE  /\ th'[t].s \in 0..Supers(call)-1 /\ flight'[t] \subseteq 0..Supers(call)-1
                 /\ th'[t].got = Upto(IF th'[t].pc \in {"computed", "store", "exit"} THEN th'[t].s + 1 ELSE th'[t].s)
                 /\ th'[t].pc \in {"unpacked", "compute", "computed"} => stage'[t] = <<block', th'[t].s>>
      <4>1. th[t].got = Upto(n)
        BY <1>1, <2>1, <2>3, <2>7, <3>1
      <4> QED BY <1>2, <1>11, <1>13, <2>1, <3>2, <3>3, <4>1 DEF Gemm
    <3>6. ASSUME NEW t \in Thread, kernel.grid = "async" PROVE CopiesInv(t)'
      <4>1. flight[t] \subseteq {n} /\ Coming(t, n)
        BY <1>1, <2>1, <2>3, <2>7, <3>1, <3>6 DEF CopiesInv
      <4>2. Coming(t, n)'
        BY <1>2, <1>3, <4>1 DEF Coming, Here
      <4> QED BY <1>2, <1>3, <1>13, <3>2, <3>3, <3>6, <4>1, <4>2 DEF CopiesInv
    <3> QED BY <1>2, <1>3, <2>1, <3>4, <3>5, <3>6 DEF GemmInv
  <2> QED BY <1>1, <2>2, <2>5, <2>6, <2>7
<1>25. kernel.grid \notin Gemm => \A t \in Thread : flight[t] = {}
  BY DEF GpuInv
<1> QED BY <1>2, <1>3, <1>15, <1>16, <1>17, <1>18, <1>19, <1>22, <1>23, <1>24, <1>25 DEF GpuInv

(* The place of the resident block. *)
LEMMA BlockPlace ==
  ASSUME Launched, block # NoBlock
  PROVE  block \in Grid(call, kernel.grid) /\ block[1] \in Nat /\ block[2] \in Nat
<1>1. block \in Grid(call, kernel.grid) /\ call \in Call /\ kernel \in Launches(call)
  BY DEF Launched
<1>2. kernel.grid \in {"row", "flat", "coop", "warp", "staged", "async"}
  BY <1>1, LaunchFacts
<1>3. call.rows \in Nat \ {0} /\ call.batch \in Nat \ {0}
  BY <1>1, CallFacts
<1>4. ASSUME NEW m \in Nat, NEW n \in Nat \ {0} PROVE CeilDiv(m, n) \in Int
  BY CeilDivCounts
<1>5. TileRows * Reg \in Nat \ {0} /\ TileCols * Reg \in Nat \ {0} /\ call.rows * call.batch \in Nat
  BY <1>3, DeviceSizes
<1>6. PICK m, n \in Int : block \in (0..m-1) \X (0..n-1)
  <2>1. /\ CeilDiv(call.rows, RowThreads) \in Int /\ CeilDiv(call.rows * call.batch, RowThreads) \in Int
        /\ CeilDiv(call.rows, BlockRows) \in Int
        /\ CeilDiv(call.rows, TileRows * Reg) \in Int /\ CeilDiv(call.batch, TileCols * Reg) \in Int
    BY <1>3, <1>4, <1>5, DeviceSizes
  <2>2. CASE kernel.grid \in {"row"} \cup Gemm
    BY <1>1, <1>3, <2>1, <2>2 DEF Grid, Gemm
  <2>3. CASE kernel.grid \in {"flat", "coop", "warp"}
    <3>1. {0} = 0..1-1
      OBVIOUS
    <3> QED BY <1>1, <1>3, <2>1, <2>3, <3>1 DEF Grid, Gemm
  <2> QED BY <1>2, <2>2, <2>3 DEF Gemm
<1> QED BY <1>1, <1>6

(* A step of one thread that stays in its block. *)
LEMMA ThreadMoves ==
  ASSUME GpuInv, NEW t \in Thread, NEW pc, At(t, th[t].pc), Goto(t, pc), pc \in Pcs,
         UNCHANGED <<call, kernel, accum, blocks, block>>
  PROVE  Launched' /\ ThreadsOK'
<1>1. Launched /\ ThreadsOK
  BY DEF GpuInv
<1>2. /\ th' = [u \in Thread |-> [pc |-> th'[u].pc, s |-> th'[u].s, got |-> th'[u].got]]
      /\ th'[t].pc = pc /\ th'[t].s = th[t].s /\ th'[t].got = th[t].got
      /\ \A u \in Thread : u # t => th'[u] = th[u]
  BY <1>1, ThreadGoes
<1>3. th[t].s \in 0..Supers(call)
  BY <1>1 DEF ThreadsOK
<1>4. block # NoBlock
  BY DEF At
<1> QED BY <1>1, <1>2, <1>3, <1>4, ThreadStepOK

(* The element of a thread of a row or flat launch is its own. *)
LEMMA ElementIsMine ==
  ASSUME Launched, block # NoBlock, NEW t \in Thread, kernel.grid \in {"row", "flat"}
  PROVE  /\ Element(t)[1] \in Nat /\ Element(t)[2] \in Nat
         /\ \A o \in Cells : o \in Mine(block, t) <=> o = <<Element(t)[1], Element(t)[2]>>
<1>1. call \in Call /\ kernel \in Launches(call)
  BY DEF Launched
<1>2. call.rows \in Nat \ {0} /\ t \in Nat /\ block[1] \in Nat /\ block[2] \in Nat
  BY <1>1, Threads, CallFacts, BlockPlace
<1>3. \A o \in Cells : o[1] \in Nat /\ o[2] \in 0..call.rows-1 /\ o = <<o[1], o[2]>>
  BY DEF Cells
<1>4. PICK i \in Nat : i = block[1] * RowThreads + t
  BY <1>2, DeviceSizes
<1>5. CASE kernel.grid = "row"
  <2>1. Element(t) = <<block[2], i>>
    BY <1>4, <1>5 DEF Element
  <2>2. \A o \in Cells : o \in Mine(block, t) <=> o[1] = block[2] /\ o[2] = i
    BY <1>4, <1>5 DEF Mine, Gemm
  <2> QED BY <1>2, <1>3, <1>4, <2>1, <2>2
<1>6. CASE kernel.grid = "flat"
  <2>1. Element(t) = <<i \div call.rows, i % call.rows>>
    BY <1>4, <1>6 DEF Element
  <2>2. \A o \in Cells : o \in Mine(block, t) <=> o[1] * call.rows + o[2] = i
    BY <1>4, <1>6 DEF Mine, Gemm
  <2>3. i \div call.rows \in Nat /\ i % call.rows \in 0..call.rows-1 /\ i = call.rows * (i \div call.rows) + (i % call.rows)
    BY <1>2, DivNat
  <2>4. PICK n \in Nat : n = i \div call.rows
    BY <2>3
  <2>5. PICK r \in 0..call.rows-1 : r = i % call.rows
    BY <2>3
  <2>6. i = n * call.rows + r
    BY <1>2, <2>3, <2>4, <2>5
  <2>7. ASSUME NEW o \in Cells PROVE o[1] * call.rows + o[2] = i <=> o[1] = n /\ o[2] = r
    <3>1. PICK a \in Nat : a = o[1]
      BY <1>3
    <3>2. PICK c \in 0..call.rows-1 : c = o[2]
      BY <1>3
    <3>3. ASSUME a * call.rows + c = i PROVE a = n /\ c = r
      <4>1. a * call.rows + c = n * call.rows + r
        BY <2>6, <3>3
      <4> QED BY <1>2, <4>1, SplitOnce
    <3> QED BY <2>6, <3>1, <3>2, <3>3
  <2>8. Element(t) = <<n, r>> /\ r \in Nat
    BY <1>2, <2>1, <2>4, <2>5
  <2>9. \A o \in Cells : o = <<n, r>> <=> o[1] = n /\ o[2] = r
    BY <1>3
  <2> QED BY <2>2, <2>7, <2>8, <2>9
<1> QED BY <1>5, <1>6

(* A thread of a row or flat launch writes its element, if it has one. *)
LEMMA RowDotKeeps ==
  ASSUME GpuInv, NEW t \in Thread, RowDot(t)
  PROVE  GpuInv'
<1>1. /\ block # NoBlock /\ th[t].pc = "row" /\ At(t, th[t].pc) /\ Goto(t, "exit")
      /\ UNCHANGED <<call, kernel, accum, blocks, block, sh, stage, raw, flight>>
  BY DEF RowDot, At
<1>2. Launched /\ ThreadsOK /\ Memory /\ OutInv
  BY DEF GpuInv
<1>3. call \in Call /\ kernel \in Launches(call)
  BY <1>2 DEF Launched
<1>4. kernel.grid \in {"row", "flat"}
  BY <1>1, <1>2, PcTells
<1>5. Launched' /\ ThreadsOK'
  <2>1. "exit" \in Pcs
    BY <1>4 DEF Pcs
  <2> QED BY <1>1, <2>1, ThreadMoves
<1>6. /\ th'[t].pc = "exit" /\ th'[t].got = th[t].got
      /\ \A u \in Thread : u # t => th'[u] = th[u]
  BY <1>1, <1>2, ThreadGoes
<1>7. Thread' = Thread /\ SharedSlot' = SharedSlot
  BY <1>1, SameLaunch
<1>8. PICK n \in Nat : n = Element(t)[1]
  BY <1>1, <1>2, <1>4, ElementIsMine
<1>9. PICK r \in Nat : r = Element(t)[2]
  BY <1>1, <1>2, <1>4, ElementIsMine
<1>10. \A o \in Cells : o \in Mine(block, t) <=> o = <<n, r>>
  BY <1>1, <1>2, <1>4, <1>8, <1>9, ElementIsMine
<1>11. PICK v : v = Stored(n, r, Reference(call, n, r))
  OBVIOUS
<1>12. IF n < call.batch /\ r < call.rows THEN Sets(n, r, v) ELSE out' = out
  <2>1. Reference(call, n, r) = Dot(kernel.scheme, kernel.dtype, n, r, call.k)
    BY <1>3, LaunchFacts DEF Reference
  <2> QED BY <1>8, <1>9, <1>11, <2>1 DEF RowDot, Sets
<1>13. /\ out' = [m \in 0..call.batch-1 |-> [q \in 0..call.rows-1 |-> out'[m][q]]]
       /\ \A o \in Cells : out'[o[1]][o[2]] =
            IF o \in Mine(block, t) THEN Stored(o[1], o[2], Reference(call, o[1], o[2])) ELSE out[o[1]][o[2]]
  <2>1. CASE n < call.batch /\ r < call.rows
    <3>1. n \in 0..call.batch-1 /\ r \in 0..call.rows-1 /\ Sets(n, r, v)
      BY <1>3, <1>12, <2>1, CallFacts
    <3>2. /\ out' = [m \in 0..call.batch-1 |-> [q \in 0..call.rows-1 |-> out'[m][q]]]
          /\ \A o \in Cells : out'[o[1]][o[2]] = IF o = <<n, r>> THEN v ELSE out[o[1]][o[2]]
      BY <1>2, <3>1, WriteOne
    <3>3. ASSUME NEW o \in Cells, o = <<n, r>> PROVE v = Stored(o[1], o[2], Reference(call, o[1], o[2]))
      BY <1>11, <3>3
    <3> QED BY <1>10, <3>2, <3>3
  <2>2. CASE ~ (n < call.batch /\ r < call.rows)
    <3>1. out' = out
      BY <1>12, <2>2
    <3>2. \A o \in Cells : o # <<n, r>>
      BY <1>3, <2>2, CallFacts DEF Cells
    <3> QED BY <1>1, <1>2, <1>10, <3>1, <3>2 DEF Memory
  <2> QED BY <2>1, <2>2
<1>14. OutInv'
  BY <1>1, <1>2, <1>6, <1>13, OutWritten
<1>15. Memory'
  BY <1>1, <1>2, <1>7, <1>13 DEF Memory
<1>16. RowInv'
  BY <1>4, <1>6, <1>7 DEF GpuInv, RowInv
<1>17. \A u \in Thread : flight[u] = {}
  BY <1>4 DEF GpuInv, Gemm
<1> QED BY <1>1, <1>4, <1>5, <1>7, <1>14, <1>15, <1>16, <1>17 DEF GpuInv, Gemm

-----------------------------------------------------------------------------
(* The cooperative kernel.  The positions of a lane, cut into super-blocks. *)
LEMMA LanePlace ==
  ASSUME NEW j \in 0..Lanes-1, NEW a \in Nat, NEW e \in 0..(Super \div Lanes)-1, NEW f \in Nat
  PROVE  LET i == f * Super + (a * Super + e * Lanes) + j
         IN  i \div Super = f + a /\ i % Super = j + e * Lanes /\ j + e * Lanes \in Nat
<1>1. PICK p \in Nat \ {0} : p = Super \div Lanes /\ Super = Lanes * p
  BY Sizes
<1>2. Lanes * (e + 1) <= Lanes * p /\ Lanes * (e + 1) = e * Lanes + Lanes
  BY <1>1, Sizes, TimesMonotone
<1>3. PICK w \in Nat : w = j + e * Lanes /\ e * Lanes \in Nat
  BY <1>1, Sizes
<1>4. w \in 0..Super-1
  BY <1>1, <1>2, <1>3, Sizes
<1>5. PICK i \in Nat : i = f * Super + (a * Super + e * Lanes) + j
  BY <1>1, <1>3, Sizes
<1>6. i = Super * (f + a) + w
  BY <1>1, <1>3, <1>5, Sizes
<1>7. i \div Super = f + a /\ i % Super = w
  BY <1>4, <1>6, Sizes, DivUnique
<1> QED BY <1>3, <1>5, <1>7

(* The kernel's shifts and masks find the weight where the table has it. *)
LEMMA CoopWeightIs ==
  ASSUME NEW e \in Nat
  PROVE  CoopWeight(e) = WeightOf(e)
<1>1. PICK d \in Nat \ {0} : d = 2 * SubBlock
  BY Sizes
<1>2. e % d \in 0..d-1
  BY <1>1, DivNat
<1>3. PICK l \in 0..d-1 : l = e % d
  BY <1>2
<1>4. PICK q : q = e \div d
  OBVIOUS
<1>5. WeightOf(e) = IF l < SubBlock THEN <<q * SubBlock + l, 0, 2 * q>>
                                    ELSE <<q * SubBlock + l - SubBlock, 1, 2 * q + 1>>
  BY <1>1, <1>3, <1>4 DEF WeightOf
<1>6. CoopWeight(e) = <<q * SubBlock + (l % SubBlock), l \div SubBlock, 2 * q + (l \div SubBlock)>>
  BY <1>1, <1>3, <1>4 DEF CoopWeight
<1>7. q \in Nat
  BY <1>1, <1>4, DivNat
<1>8. CASE l < SubBlock
  <2>1. l = SubBlock * 0 + l /\ l \in 0..SubBlock-1
    BY <1>8, Sizes
  <2>2. l \div SubBlock = 0 /\ l % SubBlock = l
    BY <2>1, Sizes, DivUnique
  <2> QED BY <1>5, <1>6, <1>7, <1>8, <2>2
<1>9. CASE ~ (l < SubBlock)
  <2>1. PICK m \in 0..SubBlock-1 : m = l - SubBlock
    BY <1>1, <1>9, Sizes
  <2>2. l = SubBlock * 1 + m
    BY <2>1, Sizes
  <2>3. l \div SubBlock = 1 /\ l % SubBlock = m
    BY <2>2, Sizes, DivUnique
  <2>4. q * SubBlock + m = q * SubBlock + l - SubBlock
    BY <1>7, <2>1, Sizes
  <2> QED BY <1>5, <1>6, <1>9, <2>3, <2>4
<1> QED BY <1>8, <1>9

(* The chunks of a row, counted in super-blocks. *)
LEMMA ChunksOf ==
  ASSUME call \in Call, call.dtype \in KQuant
  PROVE  /\ Chunks \in Nat /\ CeilDiv(call.k, Chunk) = Chunks
         /\ \A c \in Nat : c < Chunks <=> c * SupersPerChunk < Supers(call)
<1>1. PICK N \in Nat : N = Supers(call) /\ call.k = Super * N /\ call.k \in Nat
  BY CallFacts
<1>2. PICK p \in Nat : p = Chunks
  BY ChunksNat
<1>3. PICK q \in Nat : q = CeilDiv(call.k, Chunk)
  BY <1>1, Sizes, CeilDivCounts
<1>4. \A c \in Nat : c < p <=> c * SupersPerChunk < N
  BY <1>1, <1>2, Sizes, CeilDivCounts DEF Chunks
<1>5. \A c \in Nat : c < q <=> c * Chunk < call.k
  BY <1>1, <1>3, Sizes, CeilDivCounts
<1>6. ASSUME NEW c \in Nat PROVE c * SupersPerChunk < N <=> c * Chunk < call.k
  <2>1. PICK x \in Nat : x = c * SupersPerChunk
    BY Sizes
  <2>2. c * Chunk = Super * x
    BY <2>1, Sizes
  <2>3. x + 1 <= N => Super * (x + 1) <= Super * N
    BY <1>1, Sizes, TimesMonotone
  <2>4. N <= x => Super * N <= Super * x
    BY <1>1, Sizes, TimesMonotone
  <2>5. Super * (x + 1) = Super * x + Super /\ Super * x \in Nat /\ Super * N \in Nat
    BY <1>1, Sizes
  <2> QED BY <1>1, <2>1, <2>2, <2>3, <2>4, <2>5, Sizes
<1>7. p = q
  <2>1. \A c \in Nat : c < p <=> c < q
    BY <1>4, <1>5, <1>6
  <2> QED BY <2>1
<1> QED BY <1>1, <1>2, <1>3, <1>4, <1>7

(* A thread sums its lane of a chunk in the order of canonical_chunk. *)
LEMMA LaneChunkIs ==
  ASSUME call \in Call, call.dtype \in KQuant, NEW t \in Nat, NEW c \in 0..Chunks-1
  PROVE  LaneChunk(t, c) = LaneSum(Zero, 0, CoopRow(t), c * Chunk, Lesser((c + 1) * Chunk, call.k), CoopLane(t) + 1)
<1>1. PICK N \in Nat : N = Supers(call) /\ call.k = Super * N /\ call.k \in Nat
  BY CallFacts
<1>2. c \in Nat /\ c * SupersPerChunk < N /\ c * SupersPerChunk \in Nat
  BY <1>1, ChunksOf, Sizes
<1>3. PICK p \in Nat \ {0} : p = Super \div Lanes /\ Super = Lanes * p
  BY Sizes
<1>4. PICK j \in 0..Lanes-1 : j = CoopLane(t)
  BY Sizes, DivNat DEF CoopLane
<1>5. PICK f \in Nat : f = c * SupersPerChunk
  BY <1>2
<1>6. PICK s \in Nat : s = Lesser(SupersPerChunk, N - f)
  <2>1. N - f \in Nat /\ SupersPerChunk \in Nat
    BY <1>2, <1>5, Sizes
  <2> QED BY <2>1 DEF Lesser
<1>7. PICK from \in Nat : from = c * Chunk /\ from = f * Super
  BY <1>2, <1>5, Sizes
<1>8. Lesser((c + 1) * Chunk, call.k) = from + Lanes * (p * s)
  <2>1. (c + 1) * Chunk = from + Super * SupersPerChunk
    BY <1>2, <1>7, Sizes
  <2>2. call.k = from + Super * (N - f)
    BY <1>1, <1>2, <1>5, <1>7, Sizes, SMTT(40)
  <2>3. PICK d \in Nat : d = N - f
    BY <1>1, <1>2, <1>5
  <2>4. SupersPerChunk <= d => Super * SupersPerChunk <= Super * d
    BY <2>3, Sizes, TimesMonotone
  <2>5. d <= SupersPerChunk => Super * d <= Super * SupersPerChunk
    BY <2>3, Sizes, TimesMonotone
  <2>6. PICK x \in Nat : x = Super * SupersPerChunk
    BY Sizes
  <2>7. PICK z \in Nat : z = Super * d
    BY <2>3, Sizes
  <2>8. Lesser((c + 1) * Chunk, call.k) = from + Super * s
    BY <1>6, <2>1, <2>2, <2>3, <2>4, <2>5, <2>6, <2>7, Sizes DEF Lesser
  <2>9. Super * s = Lanes * (p * s)
    BY <1>3, Sizes
  <2> QED BY <2>8, <2>9
<1>9. p * s \in Nat /\ s * p = p * s
  BY <1>3
<1>10. PICK r : r = CoopRow(t)
  OBVIOUS
<1>11. LaneSum(Zero, 0, r, from, from + Lanes * (p * s), j + 1)
         = Accumulated(Zero, p * s, LaneTerms(0, r, from, p * s, j + 1))
  BY <1>9, Sizes, LaneSumIs
<1> DEFINE terms == [m \in 1..s*p |-> LET q == j + (((m - 1) % p) * Lanes)
                                      IN Product(0, r, f + ((m - 1) \div p), q, CoopWeight(q))]
<1>12. LaneChunk(t, c) = Accumulated(Zero, s * p, terms)
  BY <1>1, <1>3, <1>4, <1>5, <1>6, <1>10 DEF LaneChunk, Chain, ChainFrom
<1>13. ASSUME NEW m \in 1..p*s PROVE terms[m] = Weighed(0, r, from + (m - 1) * Lanes + (j + 1) - 1)
  <2>1. PICK h \in Nat : h = m - 1
    BY <1>9
  <2>2. PICK a \in Nat : a = h \div p
    BY <2>1, DivNat
  <2>3. PICK e \in 0..p-1 : e = h % p
    BY <2>1, DivNat
  <2>4. h = p * a + e
    BY <2>1, <2>2, <2>3, DivNat
  <2>5. PICK w \in Nat : w = j + e * Lanes
    <3>1. e \in Nat /\ j \in Nat /\ Lanes \in Nat
      BY Sizes
    <3> QED BY <3>1
  <2>6. PICK i \in Nat : i = f * Super + (a * Super + e * Lanes) + j
    BY <2>3, Sizes
  <2>7. i \div Super = f + a /\ i % Super = w
    BY <1>3, <2>5, <2>6, LanePlace
  <2>8. i = from + (m - 1) * Lanes + (j + 1) - 1
    <3>1. h * Lanes = a * Super + e * Lanes
      <4>1. (p * a + e) * Lanes = a * (Lanes * p) + e * Lanes
        BY <2>3, Sizes
      <4> QED BY <1>3, <2>4, <4>1
    <3>2. a * Super + e * Lanes \in Nat
      BY <2>3, Sizes
    <3> QED BY <1>7, <2>1, <2>6, <3>1, <3>2
  <2>9. terms[m] = Product(0, r, f + a, w, CoopWeight(w))
    BY <1>9, <2>1, <2>2, <2>3, <2>5
  <2>10. Weighed(0, r, i) = Product(0, r, f + a, w, WeightOf(w))
    BY <2>7 DEF Weighed
  <2> QED BY <2>5, <2>8, <2>9, <2>10, CoopWeightIs
<1>14. terms = LaneTerms(0, r, from, p * s, j + 1)
  BY <1>9, <1>13 DEF LaneTerms
<1> HIDE DEF terms
<1> QED BY <1>4, <1>7, <1>8, <1>9, <1>10, <1>11, <1>12, <1>14

(* The threads of a cooperative block are the lanes of its rows. *)
LEMMA CoopThreads ==
  ASSUME call \in Call, kernel \in Launches(call), kernel.grid = "coop"
  PROVE  /\ \A t \in Thread : /\ t \in Nat /\ CoopSlot(t) \in 0..BlockRows-1 /\ CoopLane(t) \in 0..Lanes-1
                              /\ t = Lanes * CoopSlot(t) + CoopLane(t)
         /\ \A x \in 0..BlockRows-1, j \in 0..Lanes-1 :
              \E u \in Thread : CoopSlot(u) = x /\ CoopLane(u) = j
<1>1. PICK n \in Nat : n = BlockRows * Lanes
  BY DeviceSizes, Sizes
<1>2. Thread = 0..n-1
  BY <1>1, Threads DEF ThreadCount, Gemm
<1>3. ASSUME NEW t \in Thread
      PROVE  /\ t \in Nat /\ CoopSlot(t) \in 0..BlockRows-1 /\ CoopLane(t) \in 0..Lanes-1
             /\ t = Lanes * CoopSlot(t) + CoopLane(t)
  <2>1. t \in Nat /\ t < n
    BY <1>2
  <2>2. PICK x \in Nat : x = CoopSlot(t)
    BY <2>1, Sizes, DivNat DEF CoopSlot
  <2>3. PICK j \in 0..Lanes-1 : j = CoopLane(t)
    BY <2>1, Sizes, DivNat DEF CoopLane
  <2>4. t = Lanes * x + j
    BY <2>1, <2>2, <2>3, Sizes, DivNat DEF CoopSlot, CoopLane
  <2>5. BlockRows <= x => Lanes * BlockRows <= Lanes * x
    BY DeviceSizes, Sizes, TimesMonotone
  <2>6. Lanes * BlockRows = n /\ Lanes * x \in Nat
    BY <1>1, DeviceSizes, Sizes
  <2> QED BY <2>1, <2>2, <2>3, <2>4, <2>5, <2>6, DeviceSizes, Sizes
<1>4. ASSUME NEW x \in 0..BlockRows-1, NEW j \in 0..Lanes-1
      PROVE  \E u \in Thread : CoopSlot(u) = x /\ CoopLane(u) = j
  <2>1. PICK u \in Nat : u = Lanes * x + j
    BY DeviceSizes, Sizes
  <2>2. u \div Lanes = x /\ u % Lanes = j
    BY <2>1, Sizes, DivUnique
  <2>3. Lanes * (x + 1) <= Lanes * BlockRows /\ Lanes * (x + 1) = Lanes * x + Lanes /\ Lanes * BlockRows = n
    BY <1>1, DeviceSizes, Sizes, TimesMonotone
  <2>4. PICK m \in Nat : m = Lanes * x
    BY DeviceSizes, Sizes
  <2>5. u \in Thread
    BY <1>1, <1>2, <2>1, <2>3, <2>4, Sizes
  <2> QED BY <2>2, <2>5 DEF CoopSlot, CoopLane
<1> QED BY <1>3, <1>4

(* A row has no more chunks than super-blocks. *)
LEMMA ChunksFew ==
  ASSUME call \in Call, call.dtype \in KQuant
  PROVE  Chunks <= Supers(call)
<1>1. PICK N \in Nat : N = Supers(call)
  BY CallFacts
<1>2. PICK p \in Nat : p = Chunks
  BY ChunksNat
<1>3. N < p <=> N * SupersPerChunk < N
  BY <1>1, <1>2, ChunksOf
<1>4. N * 1 <= N * SupersPerChunk
  BY Sizes, TimesMonotone
<1>5. PICK x \in Nat : x = N * SupersPerChunk
  BY Sizes
<1> QED BY <1>1, <1>2, <1>3, <1>4, <1>5

(* What the lanes of a row leave in shared memory adds up to its canonical dot. *)
LEMMA CoopTotalIs ==
  ASSUME Launched, kernel.grid = "coop", CoopInv, block # NoBlock, NEW t \in Thread,
         CoopRow(t) < call.rows, \A u \in Thread : th[u].pc # "sum"
  PROVE  CoopTotal(t) = Reference(call, 0, CoopRow(t))
<1>1. /\ call \in Call /\ kernel \in Launches(call)
      /\ Scheme(call) = "fused" /\ call.dtype \in KQuant
  BY LaunchFacts, Schemes DEF Launched
<1>2. Chunks \in Nat /\ CeilDiv(call.k, Chunk) = Chunks
  BY <1>1, ChunksOf
<1>3. CoopSlot(t) \in 0..BlockRows-1
  BY <1>1, CoopThreads
<1> DEFINE r == CoopRow(t)
           lane(c) == [j \in 1..Lanes |-> LaneSum(Zero, 0, r, (c - 1) * Chunk, Lesser(c * Chunk, call.k), j)]
           held(c) == [j \in 1..Lanes |-> sh[<<CoopSlot(t), j - 1, c - 1>>]]
<1>4. ASSUME NEW c \in 1..Chunks, NEW j \in 1..Lanes PROVE held(c)[j] = lane(c)[j]
  <2>1. PICK u \in Thread : CoopSlot(u) = CoopSlot(t) /\ CoopLane(u) = j - 1
    <3>1. j - 1 \in 0..Lanes-1
      BY Sizes
    <3> QED BY <1>1, <1>3, <3>1, CoopThreads
  <2>2. CoopRow(u) = r /\ u \in Nat
    BY <1>1, <2>1, CoopThreads DEF CoopRow
  <2>3. PICK d \in 0..Chunks-1 : d = c - 1 /\ d + 1 = c
    BY <1>2
  <2>4. sh[<<CoopSlot(u), CoopLane(u), d>>] = LaneChunk(u, d)
    BY <2>2, <2>3 DEF CoopInv
  <2>5. LaneChunk(u, d) = LaneSum(Zero, 0, CoopRow(u), d * Chunk, Lesser((d + 1) * Chunk, call.k), CoopLane(u) + 1)
    BY <1>1, <2>2, LaneChunkIs
  <2>6. CoopLane(u) + 1 = j
    BY <2>1, Sizes
  <2> QED BY <2>1, <2>2, <2>3, <2>4, <2>5, <2>6
<1>5. \A c \in 1..Chunks : held(c) = lane(c)
  BY <1>4
<1>6. CoopTotal(t) = Tree(Chunks, [c \in 1..Chunks |-> Tree(Lanes, held(c))])
  BY DEF CoopTotal, TreeOver
<1>7. CanonicalDot(0, r, call.k) = Tree(Chunks, [c \in 1..Chunks |-> Tree(Lanes, lane(c))])
  BY <1>2 DEF CanonicalDot, CanonicalChunk, TreeOver
<1>8. [c \in 1..Chunks |-> Tree(Lanes, held(c))] = [c \in 1..Chunks |-> Tree(Lanes, lane(c))]
  <2> HIDE DEF held, lane
  <2> QED BY <1>5
<1>9. Reference(call, 0, r) = CanonicalDot(0, r, call.k)
  BY <1>1 DEF Reference, Dot
<1> QED BY <1>6, <1>7, <1>8, <1>9

(* A thread sums its lane of a chunk into its own slot, or goes to the barrier. *)
LEMMA CoopSumKeeps ==
  ASSUME GpuInv, NEW t \in Thread, CoopSum(t)
  PROVE  GpuInv'
<1>1. /\ kernel.grid = "coop" /\ block # NoBlock /\ th[t].pc = "sum" /\ At(t, th[t].pc)
      /\ UNCHANGED <<call, kernel, accum, blocks, block, stage, raw, flight, out>>
  BY DEF CoopSum, At
<1>2. Launched /\ ThreadsOK /\ Memory /\ OutInv /\ CoopInv /\ Summing
  BY <1>1 DEF GpuInv, CoopInv
<1>3. call \in Call /\ kernel \in Launches(call) /\ call.dtype \in KQuant
  BY <1>1, <1>2, LaunchFacts, Schemes DEF Launched
<1>4. /\ Thread' = Thread /\ SharedSlot' = SharedSlot /\ Chunks' = Chunks /\ Supers(call)' = Supers(call)
      /\ \A u : CoopRow(u)' = CoopRow(u)
      /\ \A u, c : LaneChunk(u, c)' = LaneChunk(u, c)
  <2>1. Thread' = Thread /\ SharedSlot' = SharedSlot /\ Chunks' = Chunks /\ Supers(call)' = Supers(call)
    BY <1>1, SameLaunch
  <2>2. \A u : CoopRow(u)' = CoopRow(u)
    BY <1>1 DEF CoopRow, CoopSlot
  <2>3. \A u, c : LaneChunk(u, c)' = LaneChunk(u, c)
    BY <1>1 DEF LaneChunk, Chain, ChainFrom, CoopLane, CoopRow, CoopSlot
  <2> QED BY <2>1, <2>2, <2>3
<1>5. PICK N \in Nat : N = Chunks
  BY <1>3, ChunksNat
<1>6. PICK s \in 0..N : s = th[t].s
  BY <1>2, <1>5 DEF CoopInv
<1>7. sh = [i \in SharedSlot |-> sh[i]] /\ SharedSlot = (0..BlockRows-1) \X (0..Lanes-1) \X (0..N-1)
  BY <1>1, <1>2, <1>5 DEF Memory, SharedSlot, Gemm
<1>8. \A u \in Thread : CoopSlot(u) \in 0..BlockRows-1 /\ CoopLane(u) \in 0..Lanes-1
  BY <1>1, <1>3, CoopThreads
<1>9. th[t].pc # "exit" /\ th[t].got = << >>
  BY <1>1, <1>2 DEF CoopInv
<1>10. \A u \in Thread : flight[u] = {}
  BY <1>1 DEF GpuInv, Gemm
<1>11. CASE CoopRow(t) < call.rows /\ s < N
  <2>1. th' = [th EXCEPT ![t].s = @ + 1]
    BY <1>5, <1>6, <1>11 DEF CoopSum
  <2>2. PICK i : i = <<CoopSlot(t), CoopLane(t), s>>
    OBVIOUS
  <2>3. PICK v : v = LaneChunk(t, s)
    OBVIOUS
  <2>4. sh' = [sh EXCEPT ![i] = v] /\ i \in SharedSlot
    <3>1. sh' = [sh EXCEPT ![i] = v]
      BY <1>5, <1>6, <1>11, <2>2, <2>3 DEF CoopSum
    <3>2. s \in 0..N-1
      BY <1>11
    <3> QED BY <1>7, <1>8, <2>2, <3>1, <3>2
  <2>5. /\ sh' = [x \in SharedSlot |-> sh'[x]] /\ sh'[i] = v
        /\ \A x \in SharedSlot : x # i => sh'[x] = sh[x]
    BY <1>7, <2>4
  <2>6. /\ th' = [u \in Thread |-> [pc |-> th'[u].pc, s |-> th'[u].s, got |-> th'[u].got]]
        /\ th'[t].pc = th[t].pc /\ th'[t].s = s + 1 /\ th'[t].got = th[t].got
        /\ \A u \in Thread : u # t => th'[u] = th[u]
    BY <1>2, <1>6, <2>1, ThreadCounts
  <2>7. s + 1 \in 0..N /\ N <= Supers(call) /\ Supers(call) \in Nat
    BY <1>3, <1>5, <1>11, ChunksFew, CallFacts
  <2>8. th'[t].pc \in Pcs /\ th'[t].s \in 0..Supers(call)
    BY <1>2, <2>6, <2>7 DEF ThreadsOK
  <2>9. Launched' /\ ThreadsOK'
    BY <1>1, <1>2, <2>6, <2>8, ThreadStepOK
  <2>10. OutInv'
    BY <1>1, <1>2, <2>6, OutKept
  <2>11. Memory'
    BY <1>1, <1>2, <1>4, <2>5, SameLaunch DEF Memory
  <2>12. Summing'
    BY <1>2, <1>4, <2>6 DEF Summing
  <2>13. ASSUME NEW u \in Thread, CoopRow(u) < call.rows, NEW c \in 0..N-1, th'[u].pc # "sum" \/ c < th'[u].s
         PROVE  sh'[<<CoopSlot(u), CoopLane(u), c>>] = LaneChunk(u, c)
    <3>0. <<CoopSlot(u), CoopLane(u), c>> \in SharedSlot
      BY <1>7, <1>8
    <3>1. CASE u = t /\ c = s
      BY <2>2, <2>3, <2>5, <3>1
    <3>2. CASE u = t /\ c # s
      <4>1. c < s
        BY <1>1, <2>6, <2>13, <3>2
      <4>2. sh[<<CoopSlot(u), CoopLane(u), c>>] = LaneChunk(u, c)
        BY <1>1, <1>2, <1>5, <1>6, <2>13, <3>2, <4>1 DEF CoopInv
      <4>3. <<CoopSlot(u), CoopLane(u), c>> # i
        BY <2>2, <3>2
      <4> QED BY <2>5, <3>0, <4>2, <4>3
    <3>3. CASE u # t
      <4>1. sh[<<CoopSlot(u), CoopLane(u), c>>] = LaneChunk(u, c)
        BY <1>1, <1>2, <1>5, <2>6, <2>13, <3>3 DEF CoopInv
      <4>2. CoopSlot(u) # CoopSlot(t) \/ CoopLane(u) # CoopLane(t)
        BY <1>1, <1>3, <3>3, CoopThreads
      <4>3. <<CoopSlot(u), CoopLane(u), c>> # i
        BY <2>2, <4>2
      <4> QED BY <2>5, <3>0, <4>1, <4>3
    <3> QED BY <3>1, <3>2, <3>3
  <2>14. \A u \in Thread : th'[u].s \in 0..N /\ th'[u].got = << >>
    BY <1>2, <1>5, <1>9, <2>6, <2>7 DEF CoopInv
  <2>15. CoopInv'
    BY <1>1, <1>4, <1>5, <2>12, <2>13, <2>14 DEF CoopInv, CoopSlot, CoopLane
  <2> QED BY <1>1, <1>4, <1>10, <2>9, <2>10, <2>11, <2>15 DEF GpuInv, Gemm
<1>12. CASE ~ (CoopRow(t) < call.rows /\ s < N)
  <2>1. Goto(t, "summed") /\ sh' = sh
    BY <1>5, <1>6, <1>12 DEF CoopSum
  <2>2. Launched' /\ ThreadsOK'
    <3>1. "summed" \in Pcs
      BY <1>1 DEF Pcs
    <3> QED BY <1>1, <2>1, <3>1, ThreadMoves
  <2>3. /\ th'[t].pc = "summed" /\ th'[t].s = s /\ th'[t].got = th[t].got
        /\ \A u \in Thread : u # t => th'[u] = th[u]
    BY <1>2, <1>6, <2>1, ThreadGoes
  <2>4. OutInv'
    BY <1>1, <1>2, <2>3, OutKept
  <2>5. Memory'
    BY <1>1, <1>2, <1>4, <2>1, SameLaunch DEF Memory
  <2>6. Summing'
    BY <1>1, <1>2, <1>4, <2>3 DEF Summing
  <2>7. ASSUME NEW u \in Thread, CoopRow(u) < call.rows, NEW c \in 0..N-1, th'[u].pc # "sum" \/ c < th'[u].s
        PROVE  sh[<<CoopSlot(u), CoopLane(u), c>>] = LaneChunk(u, c)
    <3>1. th[u].pc # "sum" \/ c < th[u].s
      BY <1>6, <1>12, <2>3, <2>7
    <3> QED BY <1>1, <1>2, <1>5, <2>7, <3>1 DEF CoopInv
  <2>8. \A u \in Thread : th'[u].s \in 0..N /\ th'[u].got = << >>
    BY <1>2, <1>5, <1>6, <1>9, <2>3 DEF CoopInv
  <2>9. CoopInv'
    BY <1>1, <1>4, <1>5, <2>1, <2>6, <2>7, <2>8 DEF CoopInv, CoopSlot, CoopLane
  <2> QED BY <1>1, <1>4, <1>10, <2>2, <2>4, <2>5, <2>9 DEF GpuInv, Gemm
<1> QED BY <1>11, <1>12

(* The first thread of a row combines what all its lanes have summed. *)
LEMMA CoopCombineKeeps ==
  ASSUME GpuInv, NEW t \in Thread, CoopCombine(t)
  PROVE  GpuInv'
<1>1. /\ kernel.grid = "coop" /\ block # NoBlock /\ th[t].pc = "combine" /\ At(t, th[t].pc) /\ Goto(t, "exit")
      /\ UNCHANGED <<call, kernel, accum, blocks, block, sh, stage, raw, flight>>
  BY DEF CoopCombine, At
<1>2. Launched /\ ThreadsOK /\ Memory /\ OutInv /\ CoopInv /\ Summing
  BY <1>1 DEF GpuInv, CoopInv
<1>3. call \in Call /\ kernel \in Launches(call) /\ call.batch = 1 /\ call.rows \in Nat \ {0}
  BY <1>1, <1>2, LaunchFacts, CallFacts DEF Launched
<1>4. /\ Thread' = Thread /\ SharedSlot' = SharedSlot /\ Chunks' = Chunks
      /\ \A u : CoopRow(u)' = CoopRow(u)
      /\ \A u, c : LaneChunk(u, c)' = LaneChunk(u, c)
  <2>1. Thread' = Thread /\ SharedSlot' = SharedSlot /\ Chunks' = Chunks
    BY <1>1, SameLaunch
  <2>2. \A u : CoopRow(u)' = CoopRow(u)
    BY <1>1 DEF CoopRow, CoopSlot
  <2>3. \A u, c : LaneChunk(u, c)' = LaneChunk(u, c)
    BY <1>1 DEF LaneChunk, Chain, ChainFrom, CoopLane, CoopRow, CoopSlot
  <2> QED BY <2>1, <2>2, <2>3
<1>5. \A u \in Thread : th[u].pc \in {"combine", "exit"}
  BY <1>1, <1>2 DEF Summing
<1>6. Launched' /\ ThreadsOK'
  <2>1. "exit" \in Pcs
    BY <1>1 DEF Pcs
  <2> QED BY <1>1, <2>1, ThreadMoves
<1>7. /\ th'[t].pc = "exit" /\ th'[t].s = th[t].s /\ th'[t].got = th[t].got
      /\ \A u \in Thread : u # t => th'[u] = th[u]
  BY <1>1, <1>2, ThreadGoes
<1>8. PICK r \in Nat : r = CoopRow(t)
  <2>1. CoopSlot(t) \in Nat /\ block[1] \in Nat
    BY <1>1, <1>2, <1>3, CoopThreads, BlockPlace, DeviceSizes
  <2> QED BY <2>1, DeviceSizes DEF CoopRow
<1>9. \A o \in Cells : o \in Mine(block, t) <=> CoopLane(t) = 0 /\ o = <<0, r>>
  <2>1. \A o \in Cells : o[1] = 0 /\ (o = <<0, r>> <=> o[2] = r)
    BY <1>3 DEF Cells
  <2> QED BY <1>1, <1>8, <2>1 DEF Mine, CoopRow, CoopSlot, CoopLane, Gemm
<1>10. PICK v : v = Stored(0, r, Reference(call, 0, r))
  OBVIOUS
<1>11. IF r < call.rows /\ CoopLane(t) = 0 THEN Sets(0, r, v) ELSE out' = out
  <2>1. r < call.rows => CoopTotal(t) = Reference(call, 0, r)
    BY <1>1, <1>2, <1>5, <1>8, CoopTotalIs
  <2> QED BY <1>8, <1>10, <2>1 DEF CoopCombine, Sets
<1>12. /\ out' = [m \in 0..call.batch-1 |-> [q \in 0..call.rows-1 |-> out'[m][q]]]
       /\ \A o \in Cells : out'[o[1]][o[2]] =
            IF o \in Mine(block, t) THEN Stored(o[1], o[2], Reference(call, o[1], o[2])) ELSE out[o[1]][o[2]]
  <2>1. CASE r < call.rows /\ CoopLane(t) = 0
    <3>1. 0 \in 0..call.batch-1 /\ r \in 0..call.rows-1 /\ Sets(0, r, v)
      BY <1>3, <1>11, <2>1
    <3>2. /\ out' = [m \in 0..call.batch-1 |-> [q \in 0..call.rows-1 |-> out'[m][q]]]
          /\ \A o \in Cells : out'[o[1]][o[2]] = IF o = <<0, r>> THEN v ELSE out[o[1]][o[2]]
      BY <1>2, <3>1, WriteOne
    <3>3. ASSUME NEW o \in Cells, o = <<0, r>> PROVE v = Stored(o[1], o[2], Reference(call, o[1], o[2]))
      BY <1>10, <3>3
    <3> QED BY <1>9, <2>1, <3>2, <3>3
  <2>2. CASE ~ (r < call.rows /\ CoopLane(t) = 0)
    <3>1. out' = out
      BY <1>11, <2>2
    <3>2. \A o \in Cells : ~ (CoopLane(t) = 0 /\ o = <<0, r>>)
      BY <1>3, <2>2 DEF Cells
    <3> QED BY <1>1, <1>2, <1>9, <3>1, <3>2 DEF Memory
  <2> QED BY <2>1, <2>2
<1>13. OutInv'
  BY <1>1, <1>2, <1>7, <1>12, OutWritten
<1>14. Memory'
  BY <1>1, <1>2, <1>4, <1>12, SameLaunch DEF Memory
<1>15. Summing'
  BY <1>4, <1>5, <1>7 DEF Summing
<1>16. CoopInv'
  BY <1>1, <1>2, <1>4, <1>5, <1>7, <1>15 DEF CoopInv, CoopSlot, CoopLane
<1>17. \A u \in Thread : flight[u] = {}
  BY <1>1 DEF GpuInv, Gemm
<1> QED BY <1>1, <1>4, <1>6, <1>13, <1>14, <1>16, <1>17 DEF GpuInv, Gemm

-----------------------------------------------------------------------------
(* The warp kernel. *)
LEMMA WarpSumKeeps ==
  ASSUME GpuInv, NEW t \in Thread, WarpSum(t)
  PROVE  GpuInv'
<1>1. /\ kernel.grid = "warp" /\ block # NoBlock /\ th[t].pc = "sum" /\ At(t, th[t].pc)
      /\ UNCHANGED <<call, kernel, accum, blocks, block, stage, raw, flight, out>>
  BY DEF WarpSum, At
<1>2. Launched /\ ThreadsOK /\ Memory /\ OutInv /\ WarpInv /\ Summing
  BY <1>1 DEF GpuInv, WarpInv
<1>3. call \in Call /\ kernel \in Launches(call)
  BY <1>2 DEF Launched
<1>4. Thread' = Thread /\ SharedSlot' = SharedSlot /\ Supers(call)' = Supers(call)
  BY <1>1, SameLaunch
<1>5. PICK N \in Nat : N = Supers(call)
  BY <1>3, CallFacts
<1>6. PICK s \in 0..N : s = th[t].s
  BY <1>2, <1>5 DEF ThreadsOK
<1>7. sh = [i \in SharedSlot |-> sh[i]] /\ SharedSlot = 0..N-1
  BY <1>1, <1>2, <1>5 DEF Memory, SharedSlot, Gemm
<1>8. t \in 0..WarpSize-1
  BY <1>1, <1>3, Threads DEF ThreadCount, Gemm
<1>9. PICK i \in Nat : i = t + s * WarpSize
  BY <1>8, DeviceSizes
<1>10. i \div WarpSize = s /\ i % WarpSize = t
  <2>1. i = WarpSize * s + t
    BY <1>8, <1>9, DeviceSizes
  <2> QED BY <1>8, <2>1, DeviceSizes, DivUnique
<1>11. PICK D : D = [x \in 0..N-1 |-> BlockDot(kernel.dtype, 0, block[1], x)]
  OBVIOUS
<1>12. \A u \in Thread, x \in 0..N-1 :
         x % WarpSize = u /\ (th[u].pc # "sum" \/ x \div WarpSize < th[u].s) => sh[x] = D[x]
  BY <1>1, <1>2, <1>5, <1>11 DEF WarpInv
<1>13. ASSUME Thread' = Thread, Summing', \A u \in Thread : th'[u].got = << >>,
              \A u \in Thread, x \in 0..N-1 :
                x % WarpSize = u /\ (th'[u].pc # "sum" \/ x \div WarpSize < th'[u].s) => sh'[x] = D[x]
       PROVE  WarpInv'
  BY <1>1, <1>4, <1>5, <1>11, <1>13 DEF WarpInv
<1>14. \A u \in Thread : flight[u] = {}
  BY <1>1 DEF GpuInv, Gemm
<1>15. \A u \in Thread : th[u].got = << >>
  BY <1>2 DEF WarpInv
<1>16. CASE i < N
  <2>1. th' = [th EXCEPT ![t].s = @ + 1] /\ sh' = [sh EXCEPT ![i] = D[i]]
    <3>1. i = t + th[t].s * WarpSize
      BY <1>6, <1>9
    <3>2. D[i] = BlockDot(kernel.dtype, 0, block[1], i)
      BY <1>11, <1>16
    <3>3. th' = [th EXCEPT ![t].s = @ + 1] /\ sh' = [sh EXCEPT ![i] = BlockDot(kernel.dtype, 0, block[1], i)]
      BY <1>5, <1>16, <3>1 DEF WarpSum
    <3> QED BY <3>2, <3>3
  <2>2. i \in SharedSlot
    BY <1>7, <1>16
  <2>3. /\ sh' = [x \in SharedSlot |-> sh'[x]] /\ sh'[i] = D[i]
        /\ \A x \in SharedSlot : x # i => sh'[x] = sh[x]
    BY <1>7, <2>1, <2>2
  <2>4. /\ th' = [u \in Thread |-> [pc |-> th'[u].pc, s |-> th'[u].s, got |-> th'[u].got]]
        /\ th'[t].pc = th[t].pc /\ th'[t].s = s + 1 /\ th'[t].got = th[t].got
        /\ \A u \in Thread : u # t => th'[u] = th[u]
    BY <1>2, <1>6, <2>1, ThreadCounts
  <2>5. s + 1 \in 0..N
    <3>1. s * 1 <= s * WarpSize
      BY DeviceSizes, TimesMonotone
    <3>2. PICK x \in Nat : x = s * WarpSize
      BY DeviceSizes
    <3> QED BY <1>8, <1>9, <1>16, <3>1, <3>2
  <2>6. th'[t].pc \in Pcs /\ th'[t].s \in 0..Supers(call)
    BY <1>2, <1>5, <2>4, <2>5 DEF ThreadsOK
  <2>7. Launched' /\ ThreadsOK'
    BY <1>1, <1>2, <2>4, <2>6, ThreadStepOK
  <2>8. OutInv'
    BY <1>1, <1>2, <2>4, OutKept
  <2>9. Memory'
    BY <1>1, <1>2, <1>4, <2>3, SameLaunch DEF Memory
  <2>10. Summing'
    BY <1>2, <1>4, <2>4 DEF Summing
  <2>11. ASSUME NEW u \in Thread, NEW x \in 0..N-1,
                x % WarpSize = u, th'[u].pc # "sum" \/ x \div WarpSize < th'[u].s
         PROVE  sh'[x] = D[x]
    <3>1. CASE x = i
      BY <2>3, <3>1
    <3>2. CASE u = t /\ x # i
      <4>1. x \div WarpSize < s + 1 /\ x \div WarpSize \in Nat
        BY <1>1, <2>4, <2>11, <3>2, DeviceSizes, DivNat
      <4>2. x \div WarpSize # s
        <5>1. x = WarpSize * (x \div WarpSize) + (x % WarpSize)
          BY DeviceSizes, DivNat
        <5>2. i = WarpSize * s + t
          BY <1>8, <1>9, DeviceSizes
        <5> QED BY <2>11, <3>2, <5>1, <5>2
      <4>3. x \div WarpSize < th[t].s
        BY <1>6, <4>1, <4>2
      <4> QED BY <1>7, <1>12, <2>3, <2>11, <3>2, <4>3
    <3>3. CASE u # t
      <4>1. th[u].pc # "sum" \/ x \div WarpSize < th[u].s
        BY <2>4, <2>11, <3>3
      <4>2. x # i
        BY <1>10, <2>11, <3>3
      <4> QED BY <1>7, <1>12, <2>3, <2>11, <4>1, <4>2
    <3> QED BY <3>1, <3>2, <3>3
  <2>12. WarpInv'
    <3>1. \A u \in Thread : th'[u].got = << >>
      BY <1>15, <2>4
    <3> QED BY <1>4, <1>13, <2>10, <2>11, <3>1
  <2> QED BY <1>1, <1>4, <1>14, <2>7, <2>8, <2>9, <2>12 DEF GpuInv, Gemm
<1>17. CASE ~ (i < N)
  <2>1. Goto(t, "summed") /\ sh' = sh
    BY <1>5, <1>6, <1>9, <1>17 DEF WarpSum
  <2>2. Launched' /\ ThreadsOK'
    <3>1. "summed" \in Pcs
      BY <1>1 DEF Pcs
    <3> QED BY <1>1, <2>1, <3>1, ThreadMoves
  <2>3. /\ th'[t].pc = "summed" /\ th'[t].s = s /\ th'[t].got = th[t].got
        /\ \A u \in Thread : u # t => th'[u] = th[u]
    BY <1>2, <1>6, <2>1, ThreadGoes
  <2>4. OutInv'
    BY <1>1, <1>2, <2>3, OutKept
  <2>5. Memory'
    BY <1>1, <1>2, <1>4, <2>1, SameLaunch DEF Memory
  <2>6. Summing'
    BY <1>1, <1>2, <1>4, <2>3 DEF Summing
  <2>7. ASSUME NEW u \in Thread, NEW x \in 0..N-1,
               x % WarpSize = u, th'[u].pc # "sum" \/ x \div WarpSize < th'[u].s
        PROVE  sh[x] = D[x]
    <3>1. CASE u = t
      <4>0. x \in Nat
        OBVIOUS
      <4>1. PICK q \in Nat : q = x \div WarpSize
        BY <4>0, DeviceSizes, DivNat
      <4>2. x = WarpSize * q + t
        BY <2>7, <3>1, <4>1, DeviceSizes, DivNat
      <4>3. q >= s => WarpSize * s <= WarpSize * q
        BY <4>1, DeviceSizes, TimesMonotone
      <4>4. WarpSize * s = s * WarpSize /\ s * WarpSize \in Nat /\ WarpSize * q \in Nat
        BY DeviceSizes
      <4>5. q < s
        BY <1>8, <1>9, <1>17, <4>2, <4>3, <4>4
      <4> QED BY <1>6, <1>12, <2>7, <3>1, <4>1, <4>5
    <3>2. CASE u # t
      BY <1>12, <2>3, <2>7, <3>2
    <3> QED BY <3>1, <3>2
  <2>8. WarpInv'
    <3>1. \A u \in Thread : th'[u].got = << >>
      BY <1>15, <2>3
    <3> QED BY <1>4, <1>13, <2>1, <2>6, <2>7, <3>1
  <2> QED BY <1>1, <1>4, <1>14, <2>2, <2>4, <2>5, <2>8 DEF GpuInv, Gemm
<1> QED BY <1>16, <1>17

(* The first thread combines the super-blocks of all. *)
LEMMA WarpCombineKeeps ==
  ASSUME GpuInv, NEW t \in Thread, WarpCombine(t)
  PROVE  GpuInv'
<1>1. /\ kernel.grid = "warp" /\ block # NoBlock /\ th[t].pc = "combine" /\ At(t, th[t].pc) /\ Goto(t, "exit")
      /\ UNCHANGED <<call, kernel, accum, blocks, block, sh, stage, raw, flight>>
  BY DEF WarpCombine, At
<1>2. Launched /\ ThreadsOK /\ Memory /\ OutInv /\ WarpInv /\ Summing
  BY <1>1 DEF GpuInv, WarpInv
<1>3. /\ call \in Call /\ kernel \in Launches(call) /\ call.batch = 1 /\ call.rows \in Nat \ {0}
      /\ Scheme(call) = "tree" /\ kernel.dtype = call.dtype
  BY <1>1, <1>2, LaunchFacts, CallFacts DEF Launched
<1>4. Thread' = Thread /\ SharedSlot' = SharedSlot /\ Supers(call)' = Supers(call)
  BY <1>1, SameLaunch
<1>5. \A u \in Thread : th[u].pc \in {"combine", "exit"}
  BY <1>1, <1>2 DEF Summing
<1>6. Launched' /\ ThreadsOK'
  <2>1. "exit" \in Pcs
    BY <1>1 DEF Pcs
  <2> QED BY <1>1, <2>1, ThreadMoves
<1>7. /\ th'[t].pc = "exit" /\ th'[t].s = th[t].s /\ th'[t].got = th[t].got
      /\ \A u \in Thread : u # t => th'[u] = th[u]
  BY <1>1, <1>2, ThreadGoes
<1>8. PICK r \in 0..call.rows-1 : r = block[1]
  <2>1. block \in Grid(call, kernel.grid)
    BY <1>1, <1>2, BlockPlace
  <2> QED BY <1>1, <2>1 DEF Grid, Gemm
<1>9. \A o \in Cells : o \in Mine(block, t) <=> t = 0 /\ o = <<0, r>>
  <2>1. \A o \in Cells : o[1] = 0 /\ (o = <<0, r>> <=> o[2] = r)
    BY <1>3 DEF Cells
  <2> QED BY <1>1, <1>8, <2>1 DEF Mine, Gemm
<1>10. PICK v : v = Stored(0, r, Reference(call, 0, r))
  OBVIOUS
<1>11. IF t = 0 THEN Sets(0, r, v) ELSE out' = out
  <2>1. PICK N \in Nat : N = Supers(call)
    BY <1>3, CallFacts
  <2>2. ASSUME NEW x \in 1..N PROVE sh[x - 1] = BlockDot(call.dtype, 0, r, x - 1)
    <3>1. PICK i \in 0..N-1 : i = x - 1
      OBVIOUS
    <3>2. PICK u \in 0..WarpSize-1 : u = i % WarpSize
      BY DeviceSizes, DivNat
    <3>3. u \in Thread
      BY <1>1, <1>3, Threads DEF ThreadCount, Gemm
    <3> QED BY <1>1, <1>2, <1>3, <1>5, <1>8, <2>1, <3>1, <3>2, <3>3 DEF WarpInv
  <2>3. [x \in 1..N |-> sh[x - 1]] = [x \in 1..N |-> BlockDot(call.dtype, 0, r, x - 1)]
    BY <2>2
  <2>4. TreeOver(Supers(call), LAMBDA s : sh[s-1]) = Tree(N, [x \in 1..N |-> sh[x - 1]])
    BY <2>1 DEF TreeOver
  <2>5. Reference(call, 0, r) = Tree(N, [x \in 1..N |-> BlockDot(call.dtype, 0, r, x - 1)])
    BY <1>3, <2>1 DEF Reference, Dot, TreeOver, Supers
  <2>6. TreeOver(Supers(call), LAMBDA s : sh[s-1]) = Reference(call, 0, r)
    BY <2>3, <2>4, <2>5
  <2>7. out' = IF t = 0 THEN [out EXCEPT ![0][block[1]] =
                                Stored(0, block[1], TreeOver(Supers(call), LAMBDA s : sh[s-1]))] ELSE out
    BY DEF WarpCombine
  <2> QED BY <1>8, <1>10, <2>6, <2>7 DEF Sets
<1>12. /\ out' = [m \in 0..call.batch-1 |-> [q \in 0..call.rows-1 |-> out'[m][q]]]
       /\ \A o \in Cells : out'[o[1]][o[2]] =
            IF o \in Mine(block, t) THEN Stored(o[1], o[2], Reference(call, o[1], o[2])) ELSE out[o[1]][o[2]]
  <2>1. CASE t = 0
    <3>1. 0 \in 0..call.batch-1 /\ Sets(0, r, v)
      BY <1>3, <1>11, <2>1
    <3>2. /\ out' = [m \in 0..call.batch-1 |-> [q \in 0..call.rows-1 |-> out'[m][q]]]
          /\ \A o \in Cells : out'[o[1]][o[2]] = IF o = <<0, r>> THEN v ELSE out[o[1]][o[2]]
      BY <1>2, <3>1, WriteOne
    <3>3. ASSUME NEW o \in Cells, o = <<0, r>> PROVE v = Stored(o[1], o[2], Reference(call, o[1], o[2]))
      BY <1>10, <3>3
    <3> QED BY <1>9, <2>1, <3>2, <3>3
  <2>2. CASE t # 0
    BY <1>1, <1>2, <1>9, <1>11, <2>2 DEF Memory
  <2> QED BY <2>1, <2>2
<1>13. OutInv'
  BY <1>1, <1>2, <1>7, <1>12, OutWritten
<1>14. Memory'
  BY <1>1, <1>2, <1>4, <1>12, SameLaunch DEF Memory
<1>15. Summing'
  BY <1>4, <1>5, <1>7 DEF Summing
<1>16. WarpInv'
  BY <1>1, <1>2, <1>4, <1>5, <1>7, <1>15 DEF WarpInv
<1>17. \A u \in Thread : flight[u] = {}
  BY <1>1 DEF GpuInv, Gemm
<1> QED BY <1>1, <1>4, <1>6, <1>13, <1>14, <1>16, <1>17 DEF GpuInv, Gemm

-----------------------------------------------------------------------------
(* The gemms. *)
(* One thread of a gemm within its super-block. *)
GemmThread(t) ==
  /\ th[t].s \in 0..Supers(call)-1 /\ flight[t] \subseteq 0..Supers(call)-1
  /\ th[t].got = Upto(IF th[t].pc \in {"computed", "store", "exit"} THEN th[t].s + 1 ELSE th[t].s)
  /\ th[t].pc \in {"unpacked", "compute", "computed"} => stage[t] = <<block, th[t].s>>
  /\ IF kernel.grid = "async" THEN CopiesInv(t) ELSE flight[t] = {}

(* What the invariant says of a gemm. *)
LEMMA GemmThreads ==
  ASSUME GpuInv, kernel.grid \in Gemm, block # NoBlock
  PROVE  Together /\ \A t \in Thread : GemmThread(t)
BY DEF GpuInv, GemmInv, GemmThread

(* A thread's step leaves the other threads of a gemm as they are. *)
LEMMA GemmStep ==
  ASSUME GpuInv, kernel.grid \in Gemm, block # NoBlock, NEW t \in Thread,
         UNCHANGED <<call, kernel, accum, blocks, block, sh>>,
         \A u \in Thread : u # t =>
           /\ th'[u] = th[u] /\ flight'[u] = flight[u] /\ stage'[u] = stage[u]
           /\ \A buf \in {0, 1} : raw'[buf][u] = raw[buf][u],
         Launched', ThreadsOK', Memory', OutInv', Together', GemmThread(t)'
  PROVE  GpuInv'
<1>1. Thread' = Thread /\ Supers(call)' = Supers(call)
  BY SameLaunch
<1>2. call \in Call /\ Supers(call) \in Nat /\ \A u \in Thread : GemmThread(u)
  BY CallFacts, GemmThreads DEF GpuInv, Launched
<1>3. ASSUME NEW u \in Thread, u # t PROVE GemmThread(u)'
  <2>1. GemmThread(u) /\ th'[u] = th[u] /\ flight'[u] = flight[u] /\ stage'[u] = stage[u]
    BY <1>2, <1>3
  <2>2. ASSUME kernel.grid = "async" PROVE CopiesInv(u)'
    <3>1. CopiesInv(u)
      BY <2>1, <2>2 DEF GemmThread
    <3>2. PICK s \in Nat : s = th[u].s
      BY <1>2, <2>1 DEF GemmThread
    <3>3. ASSUME NEW x \in Nat PROVE raw'[x % 2][u] = raw[x % 2][u]
      <4>1. x % 2 \in {0, 1}
        OBVIOUS
      <4> QED BY <1>3, <4>1
    <3>4. \A x \in Nat : Here(u, x)' = Here(u, x)
      BY <3>3 DEF Here
    <3>5. \A x \in Nat : Coming(u, x)' = Coming(u, x)
      BY <1>1, <2>1, <3>4 DEF Coming
    <3>6. s + 1 \in Nat
      BY <3>2
    <3> QED BY <2>1, <3>1, <3>2, <3>4, <3>5, <3>6 DEF CopiesInv
  <2> QED BY <1>1, <2>1, <2>2 DEF GemmThread
<1>4. \A u \in Thread : GemmThread(u)'
  BY <1>3
<1>5. GemmInv'
  BY <1>1, <1>4 DEF GemmInv, GemmThread
<1> QED BY <1>1, <1>5 DEF GpuInv, Gemm

(* What is the same in all parts is whole. *)
LEMMA WholeIs ==
  ASSUME call \in Call, kernel \in Launches(call), NEW parts, NEW s \in 0..Supers(call)-1,
         \A t \in Thread : parts[t] = <<block, s>>
  PROVE  Whole(parts) = s
<1>1. 0 \in Thread
  BY Threads
<1>2. \A x \in 0..Supers(call)-1 : (\A t \in Thread : parts[t] = <<block, x>>) <=> x = s
  BY <1>1
<1> QED BY <1>2 DEF Whole

(* Adding the next super-block keeps the order. *)
LEMMA UptoNext ==
  ASSUME NEW s \in Nat
  PROVE  Append(Upto(s), s) = Upto(s + 1)
<1> DEFINE p == Upto(s)
           q == Upto(s + 1)
<1>1. IsTable(p, s) /\ IsTable(q, s + 1)
  BY DEF IsTable, Upto
<1>2. \A t \in 1..s : q[t] = p[t]
  BY DEF Upto
<1>3. q[s + 1] = s
  BY DEF Upto
<1> HIDE DEF p, q
<1>4. Append(p, s) = q
  BY <1>1, <1>2, <1>3, AppendTable
<1> QED BY <1>4 DEF p, q

(* The copies of the next super-block are issued: into the other buffer. *)
LEMMA LoadKeeps ==
  ASSUME GpuInv, NEW t \in Thread, Load(t)
  PROVE  GpuInv'
<1>1. /\ kernel.grid = "async" /\ kernel.grid \in Gemm /\ block # NoBlock
      /\ th[t].pc = "load" /\ At(t, th[t].pc) /\ Goto(t, "loaded")
      /\ UNCHANGED <<call, kernel, accum, blocks, block, sh, stage, raw, out>>
  BY DEF Load, At, Gemm
<1>2. Launched /\ ThreadsOK /\ Memory /\ OutInv
  BY DEF GpuInv
<1>3. Together /\ GemmThread(t) /\ CopiesInv(t)
  BY <1>1, GemmThreads DEF GemmThread
<1>4. Thread' = Thread /\ Supers(call)' = Supers(call)
  BY <1>1, SameLaunch
<1>5. PICK N \in Nat : N = Supers(call)
  BY <1>2, CallFacts DEF Launched
<1>6. PICK s \in 0..N-1 : s = th[t].s
  BY <1>3, <1>5 DEF GemmThread
<1>7. flight = [u \in Thread |-> flight[u]]
  BY <1>2 DEF Memory
<1>8. PICK f : f = flight[t] \cup ({s + 1} \cap 0..N-1) \cup (IF s = 0 THEN {0} ELSE {})
  OBVIOUS
<1>9. flight' = [flight EXCEPT ![t] = f]
  BY <1>5, <1>6, <1>8 DEF Load
<1>10. /\ flight' = [u \in Thread |-> flight'[u]] /\ flight'[t] = f
       /\ \A u \in Thread : u # t => flight'[u] = flight[u]
  BY <1>7, <1>9
<1>11. Launched' /\ ThreadsOK'
  <2>1. "loaded" \in Pcs
    BY <1>1 DEF Pcs
  <2> QED BY <1>1, <2>1, ThreadMoves
<1>12. /\ th'[t].pc = "loaded" /\ th'[t].s = s /\ th'[t].got = th[t].got
       /\ \A u \in Thread : u # t => th'[u] = th[u]
  BY <1>1, <1>2, <1>6, ThreadGoes
<1>13. OutInv'
  BY <1>1, <1>2, <1>12, OutKept
<1>14. Memory'
  BY <1>1, <1>2, <1>4, <1>10, SameLaunch DEF Memory
<1>15. \A u \in Thread : th[u].pc \in {"load", "loaded", "arrived"}
  BY <1>1, <1>3 DEF Together
<1>16. Together'
  BY <1>3, <1>4, <1>6, <1>12, <1>15 DEF Together
<1>17. f \subseteq {s, s + 1} /\ f \subseteq 0..N-1
  BY <1>1, <1>3, <1>5, <1>6, <1>8 DEF CopiesInv, GemmThread
<1>18. Coming(t, s)' /\ Coming(t, s + 1)'
  <2>1. Coming(t, s)'
    <3>1. s = 0 => s \in f
      BY <1>8
    <3>2. s # 0 => Coming(t, s)
      BY <1>1, <1>3, <1>6 DEF CopiesInv
    <3>3. Coming(t, s) => Coming(t, s)'
      BY <1>1, <1>4, <1>8, <1>10 DEF Coming, Here
    <3> QED BY <1>10, <3>1, <3>2, <3>3 DEF Coming
  <2>2. Coming(t, s + 1)'
    BY <1>4, <1>5, <1>8, <1>10 DEF Coming
  <2> QED BY <2>1, <2>2
<1>19. CopiesInv(t)'
  BY <1>10, <1>12, <1>17, <1>18 DEF CopiesInv
<1>20. GemmThread(t)'
  BY <1>1, <1>3, <1>4, <1>5, <1>6, <1>10, <1>12, <1>17, <1>19 DEF GemmThread
<1> QED BY <1>1, <1>10, <1>11, <1>12, <1>13, <1>14, <1>16, <1>20, GemmStep

(* A copy lands, in whatever order: never in the buffer that is read. *)
LEMMA LandKeeps ==
  ASSUME GpuInv, NEW t \in Thread, Land(t)
  PROVE  GpuInv'
<1>1. PICK x \in flight[t] :
        /\ flight' = [flight EXCEPT ![t] = @ \ {x}]
        /\ raw' = [raw EXCEPT ![x % 2][t] = <<block, x>>]
  BY DEF Land
<1>2. UNCHANGED <<call, kernel, accum, blocks, block, th, sh, stage, out>>
  BY DEF Land
<1>3. Launched /\ ThreadsOK /\ Memory /\ OutInv
  BY DEF GpuInv
<1>4. kernel.grid \in Gemm /\ block # NoBlock
  BY <1>1 DEF GpuInv, GemmInv
<1>5. Together /\ GemmThread(t)
  BY <1>4, GemmThreads
<1>6. kernel.grid = "async" /\ CopiesInv(t)
  BY <1>1, <1>5 DEF GemmThread
<1>7. Thread' = Thread /\ Supers(call)' = Supers(call)
  BY <1>2, SameLaunch
<1>8. PICK N \in Nat : N = Supers(call)
  BY <1>3, CallFacts DEF Launched
<1>9. PICK s \in 0..N-1 : s = th[t].s
  BY <1>5, <1>8 DEF GemmThread
<1>10. x \in 0..N-1
  BY <1>1, <1>5, <1>8 DEF GemmThread
<1>11. flight = [u \in Thread |-> flight[u]] /\ raw = [buf \in {0, 1} |-> [u \in Thread |-> raw[buf][u]]]
  BY <1>3 DEF Memory
<1>12. /\ flight' = [u \in Thread |-> flight'[u]] /\ flight'[t] = flight[t] \ {x}
       /\ \A u \in Thread : u # t => flight'[u] = flight[u]
  BY <1>1, <1>11
<1>13. /\ raw' = [buf \in {0, 1} |-> [u \in Thread |-> raw'[buf][u]]]
       /\ raw'[x % 2][t] = <<block, x>>
       /\ \A buf \in {0, 1}, u \in Thread : ~ (buf = x % 2 /\ u = t) => raw'[buf][u] = raw[buf][u]
  <2>1. PICK p \in {0, 1} : p = x % 2
    BY <1>10
  <2>2. PICK v : v = <<block, x>>
    OBVIOUS
  <2>3. PICK line : line = [raw[p] EXCEPT ![t] = v]
    OBVIOUS
  <2>4. raw' = [raw EXCEPT ![p] = line]
    BY <1>1, <2>1, <2>2, <2>3
  <2>5. DOMAIN raw = {0, 1} /\ \A buf \in {0, 1} : raw[buf] = [u \in Thread |-> raw[buf][u]]
    BY <1>11
  <2>6. /\ raw' = [buf \in {0, 1} |-> raw'[buf]] /\ raw'[p] = line
        /\ \A buf \in {0, 1} : buf # p => raw'[buf] = raw[buf]
    BY <1>11, <2>4
  <2>7. line = [u \in Thread |-> line[u]] /\ line[t] = v /\ \A u \in Thread : u # t => line[u] = raw[p][u]
    BY <2>3, <2>5
  <2>8. \A buf \in {0, 1} : raw'[buf] = [u \in Thread |-> raw'[buf][u]]
    BY <2>5, <2>6, <2>7
  <2> QED BY <2>1, <2>2, <2>6, <2>7, <2>8
<1>14. Launched' /\ ThreadsOK'
  <2>1. Launched' = Launched
    BY <1>2, SameLaunch DEF Launched
  <2>2. ThreadsOK' = ThreadsOK
    BY <1>2, SameLaunch DEF ThreadsOK
  <2> QED BY <1>3, <2>1, <2>2
<1>15. OutInv'
  BY <1>2, <1>3, OutKept
<1>16. Memory'
  BY <1>2, <1>3, <1>7, <1>12, <1>13, SameLaunch DEF Memory
<1>17. Together'
  BY <1>2, <1>5, <1>7 DEF Together
<1>18. Here(t, x)' /\ \A z \in Nat : z % 2 # x % 2 => (Here(t, z)' <=> Here(t, z))
  <2>1. ASSUME NEW z \in Nat, z % 2 # x % 2 PROVE Here(t, z)' = Here(t, z)
    <3>1. z % 2 \in {0, 1}
      OBVIOUS
    <3>2. raw'[z % 2][t] = raw[z % 2][t]
      BY <1>13, <2>1, <3>1
    <3> QED BY <1>2, <3>2 DEF Here
  <2>2. Here(t, x)'
    BY <1>2, <1>13 DEF Here
  <2> QED BY <2>1, <2>2
<1>19. (s + 1) % 2 # s % 2 /\ s + 1 \in Nat
  BY <1>9
<1>20. CopiesInv(t)'
  <2>1. CASE th[t].pc = "load"
    <3>1. flight[t] \subseteq {s} \ {0} /\ x = s
      BY <1>1, <1>6, <1>9, <2>1 DEF CopiesInv
    <3>2. Here(t, s)'
      BY <1>18, <3>1
    <3> QED BY <1>2, <1>7, <1>9, <1>12, <2>1, <3>1, <3>2 DEF CopiesInv, Coming
  <2>2. CASE th[t].pc = "loaded"
    <3>1. flight[t] \subseteq {s, s + 1} /\ Coming(t, s) /\ Coming(t, s + 1) /\ (x = s \/ x = s + 1)
      BY <1>1, <1>6, <1>9, <2>2 DEF CopiesInv
    <3>2. Coming(t, s)'
      <4>1. CASE x = s
        BY <1>18, <4>1 DEF Coming
      <4>2. CASE x = s + 1
        BY <1>7, <1>12, <1>18, <1>19, <3>1, <4>2 DEF Coming
      <4> QED BY <3>1, <4>1, <4>2
    <3>3. Coming(t, s + 1)'
      <4>1. CASE x = s + 1
        BY <1>18, <1>19, <4>1 DEF Coming
      <4>2. CASE x = s
        BY <1>7, <1>12, <1>18, <1>19, <3>1, <4>2 DEF Coming
      <4> QED BY <3>1, <4>1, <4>2
    <3> QED BY <1>2, <1>9, <1>12, <2>2, <3>1, <3>2, <3>3 DEF CopiesInv
  <2>3. CASE th[t].pc \notin {"load", "loaded"}
    <3>1. flight[t] \subseteq {s + 1} /\ Here(t, s) /\ x = s + 1
      BY <1>1, <1>6, <1>9, <2>3 DEF CopiesInv
    <3>2. Here(t, s)' /\ Coming(t, s + 1)'
      BY <1>18, <1>19, <3>1 DEF Coming
    <3> QED BY <1>2, <1>9, <1>12, <2>3, <3>1, <3>2 DEF CopiesInv
  <2> QED BY <2>1, <2>2, <2>3
<1>21. GemmThread(t)'
  BY <1>2, <1>5, <1>6, <1>7, <1>12, <1>20 DEF GemmThread
<1>22. \A u \in Thread : u # t =>
         /\ th'[u] = th[u] /\ flight'[u] = flight[u] /\ stage'[u] = stage[u]
         /\ \A buf \in {0, 1} : raw'[buf][u] = raw[buf][u]
  BY <1>2, <1>12, <1>13
<1> QED BY <1>2, <1>4, <1>14, <1>15, <1>16, <1>17, <1>21, <1>22, GemmStep

(* A thread that has waited has its part of the super-block. *)
LEMMA ArriveKeeps ==
  ASSUME GpuInv, NEW t \in Thread, Arrive(t)
  PROVE  GpuInv'
<1>1. /\ block # NoBlock /\ th[t].pc = "loaded" /\ At(t, th[t].pc) /\ Goto(t, "arrived") /\ WaitPrior(t)
      /\ UNCHANGED <<call, kernel, accum, blocks, block, sh, stage, raw, flight, out>>
  BY DEF Arrive, At
<1>2. Launched /\ ThreadsOK /\ Memory /\ OutInv
  BY DEF GpuInv
<1>3. kernel.grid = "async" /\ kernel.grid \in Gemm
  BY <1>1, <1>2, PcTells DEF Gemm
<1>4. Together /\ GemmThread(t) /\ CopiesInv(t)
  BY <1>1, <1>3, GemmThreads DEF GemmThread
<1>5. Thread' = Thread /\ Supers(call)' = Supers(call)
  BY <1>1, SameLaunch
<1>6. PICK N \in Nat : N = Supers(call)
  BY <1>2, CallFacts DEF Launched
<1>7. PICK s \in 0..N-1 : s = th[t].s
  BY <1>4, <1>6 DEF GemmThread
<1>8. Launched' /\ ThreadsOK'
  <2>1. "arrived" \in Pcs
    BY <1>3 DEF Pcs
  <2> QED BY <1>1, <2>1, ThreadMoves
<1>9. /\ th'[t].pc = "arrived" /\ th'[t].s = s /\ th'[t].got = th[t].got
      /\ \A u \in Thread : u # t => th'[u] = th[u]
  BY <1>1, <1>2, <1>7, ThreadGoes
<1>10. OutInv'
  BY <1>1, <1>2, <1>9, OutKept
<1>11. Memory'
  BY <1>1, <1>2, <1>5, SameLaunch DEF Memory
<1>12. \A u \in Thread : th[u].pc \in {"load", "loaded", "arrived"}
  BY <1>1, <1>4 DEF Together
<1>13. Together'
  BY <1>4, <1>5, <1>7, <1>9, <1>12 DEF Together
<1>14. flight[t] \subseteq {s + 1} /\ Here(t, s) /\ Coming(t, s + 1)
  <2>1. flight[t] \subseteq {s, s + 1} /\ Coming(t, s) /\ Coming(t, s + 1)
    BY <1>1, <1>4, <1>7 DEF CopiesInv
  <2>2. s \notin flight[t]
    BY <1>1, <1>7 DEF WaitPrior
  <2> QED BY <1>6, <2>1, <2>2 DEF Coming
<1>15. CopiesInv(t)'
  <2>1. Here(t, s)' /\ Coming(t, s + 1)'
    BY <1>1, <1>5, <1>14 DEF Here, Coming
  <2> QED BY <1>1, <1>9, <1>14, <2>1 DEF CopiesInv
<1>16. GemmThread(t)'
  BY <1>1, <1>3, <1>4, <1>5, <1>7, <1>9, <1>15 DEF GemmThread
<1> QED BY <1>1, <1>3, <1>8, <1>9, <1>10, <1>11, <1>13, <1>16, GemmStep

(* A thread unpacks what all of them have copied: they are past the barrier. *)
LEMMA UnpackKeeps ==
  ASSUME GpuInv, NEW t \in Thread, Unpack(t)
  PROVE  GpuInv'
<1>1. /\ block # NoBlock /\ th[t].pc = "unpack" /\ At(t, th[t].pc) /\ Goto(t, "unpacked")
      /\ UNCHANGED <<call, kernel, accum, blocks, block, sh, raw, flight, out>>
  BY DEF Unpack, At
<1>2. Launched /\ ThreadsOK /\ Memory /\ OutInv /\ call \in Call /\ kernel \in Launches(call)
  BY DEF GpuInv, Launched
<1>3. kernel.grid \in Gemm
  BY <1>1, <1>2, PcTells
<1>4. Together /\ GemmThread(t) /\ \A u \in Thread : GemmThread(u)
  BY <1>1, <1>3, GemmThreads
<1>5. Thread' = Thread /\ Supers(call)' = Supers(call)
  BY <1>1, SameLaunch
<1>6. PICK N \in Nat : N = Supers(call)
  BY <1>2, CallFacts
<1>7. PICK s \in 0..N-1 : s = th[t].s
  BY <1>4, <1>6 DEF GemmThread
<1>8. \A u \in Thread : th[u].pc \in {"unpack", "unpacked"} /\ th[u].s = s
  BY <1>1, <1>4, <1>7 DEF Together
<1>9. kernel.grid = "async" => Whole(raw[s % 2]) = s
  <2>1. ASSUME kernel.grid = "async", NEW u \in Thread PROVE raw[s % 2][u] = <<block, s>>
    <3>1. CopiesInv(u)
      BY <1>4, <2>1 DEF GemmThread
    <3> QED BY <1>8, <3>1 DEF CopiesInv, Here
  <2> QED BY <1>2, <1>6, <2>1, WholeIs
<1>10. /\ stage' = [u \in Thread |-> stage'[u]] /\ stage'[t] = <<block, s>>
       /\ \A u \in Thread : u # t => stage'[u] = stage[u]
  <2>1. stage' = [stage EXCEPT ![t] = <<block, s>>]
    BY <1>7, <1>9 DEF Unpack
  <2>2. stage = [u \in Thread |-> stage[u]]
    BY <1>2 DEF Memory
  <2> QED BY <2>1, <2>2
<1>11. Launched' /\ ThreadsOK'
  <2>1. "unpacked" \in Pcs
    BY <1>3 DEF Pcs, Gemm
  <2> QED BY <1>1, <2>1, ThreadMoves
<1>12. /\ th'[t].pc = "unpacked" /\ th'[t].s = s /\ th'[t].got = th[t].got
       /\ \A u \in Thread : u # t => th'[u] = th[u]
  BY <1>1, <1>2, <1>7, ThreadGoes
<1>13. OutInv'
  BY <1>1, <1>2, <1>12, OutKept
<1>14. Memory'
  BY <1>1, <1>2, <1>5, <1>10, SameLaunch DEF Memory
<1>15. Together'
  BY <1>5, <1>8, <1>12 DEF Together
<1>16. kernel.grid = "async" => CopiesInv(t)'
  <2> SUFFICES ASSUME kernel.grid = "async" PROVE CopiesInv(t)'
    OBVIOUS
  <2>1. flight[t] \subseteq {s + 1} /\ Here(t, s) /\ Coming(t, s + 1)
    BY <1>1, <1>4, <1>7 DEF CopiesInv, GemmThread
  <2>2. Here(t, s)' /\ Coming(t, s + 1)'
    BY <1>1, <1>5, <2>1 DEF Here, Coming
  <2> QED BY <1>1, <1>12, <2>1, <2>2 DEF CopiesInv
<1>17. GemmThread(t)'
  BY <1>1, <1>3, <1>4, <1>5, <1>7, <1>10, <1>12, <1>16 DEF GemmThread
<1> QED BY <1>1, <1>3, <1>10, <1>11, <1>12, <1>13, <1>14, <1>15, <1>17, GemmStep

(* A thread computes with what all of them have unpacked. *)
LEMMA ComputeKeeps ==
  ASSUME GpuInv, NEW t \in Thread, Compute(t)
  PROVE  GpuInv'
<1>1. /\ block # NoBlock /\ th[t].pc = "compute"
      /\ UNCHANGED <<call, kernel, accum, blocks, block, sh, stage, raw, flight, out>>
  BY DEF Compute, At
<1>2. Launched /\ ThreadsOK /\ Memory /\ OutInv /\ call \in Call /\ kernel \in Launches(call)
  BY DEF GpuInv, Launched
<1>3. kernel.grid \in Gemm
  BY <1>1, <1>2, PcTells
<1>4. Together /\ GemmThread(t) /\ \A u \in Thread : GemmThread(u)
  BY <1>1, <1>3, GemmThreads
<1>5. Thread' = Thread /\ Supers(call)' = Supers(call)
  BY <1>1, SameLaunch
<1>6. PICK N \in Nat : N = Supers(call)
  BY <1>2, CallFacts
<1>7. PICK s \in 0..N-1 : s = th[t].s
  BY <1>4, <1>6 DEF GemmThread
<1>8. \A u \in Thread : th[u].pc \in {"compute", "computed"} /\ th[u].s = s
  BY <1>1, <1>4, <1>7 DEF Together
<1>9. Whole(stage) = s
  <2>1. \A u \in Thread : stage[u] = <<block, s>>
    BY <1>4, <1>8 DEF GemmThread
  <2> QED BY <1>2, <1>6, <2>1, WholeIs
<1>10. kernel.grid = "async" => Whole(raw[s % 2]) = s
  <2>1. ASSUME kernel.grid = "async", NEW u \in Thread PROVE raw[s % 2][u] = <<block, s>>
    <3>1. CopiesInv(u)
      BY <1>4, <2>1 DEF GemmThread
    <3> QED BY <1>8, <3>1 DEF CopiesInv, Here
  <2> QED BY <1>2, <1>6, <2>1, WholeIs
<1>11. PICK g : g = Upto(s + 1)
  OBVIOUS
<1>12. th' = [th EXCEPT ![t] = Doing("computed", s, g)]
  <2>1. th[t].got = Upto(s)
    BY <1>1, <1>4, <1>7 DEF GemmThread
  <2>2. Append(th[t].got, s) = g
    <3>1. s \in Nat
      BY <1>6
    <3>2. Append(Upto(s), s) = Upto(s + 1)
      BY <3>1, UptoNext
    <3> QED BY <1>11, <2>1, <3>2, Zenon
  <2>3. PICK old : old = th[t]
    OBVIOUS
  <2>4. th' = [th EXCEPT ![t] = Doing("computed", old.s,
                Append(old.got, IF kernel.grid = "async" /\ Whole(raw[old.s % 2]) # s THEN Torn ELSE s))]
    BY <1>9, <2>3 DEF Compute
  <2>5. (IF kernel.grid = "async" /\ Whole(raw[old.s % 2]) # s THEN Torn ELSE s) = s
    BY <1>7, <1>10, <2>3
  <2> QED BY <1>7, <2>2, <2>3, <2>4, <2>5
<1>13. /\ th' = [u \in Thread |-> [pc |-> th'[u].pc, s |-> th'[u].s, got |-> th'[u].got]]
       /\ th'[t].pc = "computed" /\ th'[t].s = s /\ th'[t].got = g
       /\ \A u \in Thread : u # t => th'[u] = th[u]
  <2>1. th = [u \in Thread |-> [pc |-> th[u].pc, s |-> th[u].s, got |-> th[u].got]]
    BY <1>2 DEF ThreadsOK
  <2>2. /\ th' = [u \in Thread |-> th'[u]] /\ th'[t] = [pc |-> "computed", s |-> s, got |-> g]
        /\ \A u \in Thread : u # t => th'[u] = th[u]
    BY <1>12, <2>1 DEF Doing
  <2>3. \A u \in Thread : th'[u] = [pc |-> th'[u].pc, s |-> th'[u].s, got |-> th'[u].got]
    BY <2>1, <2>2
  <2> QED BY <2>2, <2>3
<1>14. Launched' /\ ThreadsOK'
  <2>1. "computed" \in Pcs
    BY <1>3 DEF Pcs, Gemm
  <2>2. s \in 0..Supers(call)
    BY <1>6
  <2> QED BY <1>1, <1>2, <1>13, <2>1, <2>2, ThreadStepOK
<1>15. OutInv'
  BY <1>1, <1>2, <1>13, OutKept
<1>16. Memory'
  BY <1>1, <1>2, <1>5, SameLaunch DEF Memory
<1>17. Together'
  BY <1>5, <1>8, <1>13 DEF Together
<1>18. kernel.grid = "async" => CopiesInv(t)'
  <2> SUFFICES ASSUME kernel.grid = "async" PROVE CopiesInv(t)'
    OBVIOUS
  <2>1. flight[t] \subseteq {s + 1} /\ Here(t, s) /\ Coming(t, s + 1)
    BY <1>1, <1>4, <1>7 DEF CopiesInv, GemmThread
  <2>2. Here(t, s)' /\ Coming(t, s + 1)'
    BY <1>1, <1>5, <2>1 DEF Here, Coming
  <2> QED BY <1>1, <1>13, <2>1, <2>2 DEF CopiesInv
<1>19. GemmThread(t)'
  BY <1>1, <1>3, <1>4, <1>5, <1>7, <1>11, <1>13, <1>18 DEF GemmThread
<1> QED BY <1>1, <1>3, <1>13, <1>14, <1>15, <1>16, <1>17, <1>19, GemmStep

(* A thread writes the running sums of all its super-blocks. *)
LEMMA StoreKeeps ==
  ASSUME GpuInv, NEW t \in Thread, Store(t)
  PROVE  GpuInv'
<1>1. /\ block # NoBlock /\ th[t].pc = "store" /\ At(t, th[t].pc) /\ Goto(t, "exit")
      /\ UNCHANGED <<call, kernel, accum, blocks, block, sh, stage, raw, flight>>
  BY DEF Store, At
<1>2. Launched /\ ThreadsOK /\ Memory /\ OutInv /\ call \in Call /\ kernel \in Launches(call)
  BY DEF GpuInv, Launched
<1>3. kernel.grid \in Gemm /\ Scheme(call) = "running" /\ kernel.dtype = call.dtype
  BY <1>1, <1>2, PcTells, LaunchFacts
<1>4. Together /\ GemmThread(t)
  BY <1>1, <1>3, GemmThreads
<1>5. Thread' = Thread /\ Supers(call)' = Supers(call)
  BY <1>1, SameLaunch
<1>6. PICK N \in Nat : N = Supers(call)
  BY <1>2, CallFacts
<1>7. PICK s \in 0..N-1 : s = th[t].s
  BY <1>4, <1>6 DEF GemmThread
<1>8. (\A u \in Thread : th[u].pc \in {"store", "exit"} /\ th[u].s = s) /\ s + 1 = N
  BY <1>1, <1>4, <1>6, <1>7 DEF Together
<1>9. th[t].got = Upto(N)
  BY <1>1, <1>4, <1>7, <1>8 DEF GemmThread
<1>10. Launched' /\ ThreadsOK'
  <2>1. "exit" \in Pcs
    BY <1>3 DEF Pcs, Gemm
  <2> QED BY <1>1, <2>1, ThreadMoves
<1>11. /\ th'[t].pc = "exit" /\ th'[t].s = s /\ th'[t].got = th[t].got
       /\ \A u \in Thread : u # t => th'[u] = th[u]
  BY <1>1, <1>2, <1>7, ThreadGoes
<1>12. ASSUME NEW n, NEW r
       PROVE  Chain(Len(th[t].got), LAMBDA m : BlockDot(kernel.dtype, n, r, th[t].got[m])) = Reference(call, n, r)
  <2>1. Len(th[t].got) = N
    BY <1>9, LenTable DEF IsTable, Upto
  <2>2. Chain(Len(th[t].got), LAMBDA m : BlockDot(kernel.dtype, n, r, th[t].got[m]))
          = Accumulated(Zero, N, [m \in 1..N |-> BlockDot(kernel.dtype, n, r, th[t].got[m])])
    BY <2>1 DEF Chain, ChainFrom
  <2>3. [m \in 1..N |-> BlockDot(kernel.dtype, n, r, th[t].got[m])]
          = [m \in 1..N |-> BlockDot(call.dtype, n, r, m - 1)]
    BY <1>3, <1>9 DEF Upto
  <2>4. Reference(call, n, r) = Accumulated(Zero, N, [m \in 1..N |-> BlockDot(call.dtype, n, r, m - 1)])
    BY <1>3, <1>6 DEF Reference, Dot, Chain, ChainFrom, Supers
  <2> QED BY <2>2, <2>3, <2>4
<1>13. \A o \in Cells : o \in Outputs(t) <=> o \in Mine(block, t)
  BY <1>3 DEF Cells, Outputs, Mine, Gemm
<1>14. out' = [n \in 0..call.batch-1 |-> [r \in 0..call.rows-1 |->
         IF <<n, r>> \in Mine(block, t) THEN Stored(n, r, Reference(call, n, r)) ELSE out[n][r]]]
  <2>1. \A n \in 0..call.batch-1, r \in 0..call.rows-1 : <<n, r>> \in Outputs(t) <=> <<n, r>> \in Mine(block, t)
    BY <1>13 DEF Cells
  <2>2. out' = [n \in 0..call.batch-1 |-> [r \in 0..call.rows-1 |->
          IF <<n, r>> \in Outputs(t)
          THEN Stored(n, r, Chain(Len(th[t].got), LAMBDA m : BlockDot(kernel.dtype, n, r, th[t].got[m])))
          ELSE out[n][r]]]
    BY DEF Store
  <2>3. out' = [n \in 0..call.batch-1 |-> [r \in 0..call.rows-1 |->
          IF <<n, r>> \in Outputs(t) THEN Stored(n, r, Reference(call, n, r)) ELSE out[n][r]]]
    BY <1>12, <2>2
  <2> QED BY <2>1, <2>3
<1>15. /\ out' = [n \in 0..call.batch-1 |-> [r \in 0..call.rows-1 |-> out'[n][r]]]
       /\ \A o \in Cells : out'[o[1]][o[2]] =
            IF o \in Mine(block, t) THEN Stored(o[1], o[2], Reference(call, o[1], o[2])) ELSE out[o[1]][o[2]]
  <2>1. out' = [n \in 0..call.batch-1 |-> [r \in 0..call.rows-1 |-> out'[n][r]]]
    BY <1>14
  <2>2. ASSUME NEW o \in Cells
        PROVE  out'[o[1]][o[2]] =
                 IF o \in Mine(block, t) THEN Stored(o[1], o[2], Reference(call, o[1], o[2])) ELSE out[o[1]][o[2]]
    <3>1. o[1] \in 0..call.batch-1 /\ o[2] \in 0..call.rows-1 /\ o = <<o[1], o[2]>>
      BY DEF Cells
    <3> QED BY <1>14, <3>1
  <2> QED BY <2>1, <2>2
<1>16. OutInv'
  BY <1>1, <1>2, <1>11, <1>15, OutWritten
<1>17. Memory'
  BY <1>1, <1>2, <1>5, <1>15, SameLaunch DEF Memory
<1>18. Together'
  BY <1>5, <1>6, <1>8, <1>11 DEF Together
<1>19. kernel.grid = "async" => CopiesInv(t)'
  <2> SUFFICES ASSUME kernel.grid = "async" PROVE CopiesInv(t)'
    OBVIOUS
  <2>1. flight[t] \subseteq {s + 1} /\ Here(t, s) /\ Coming(t, s + 1)
    BY <1>1, <1>4, <1>7 DEF CopiesInv, GemmThread
  <2>2. Here(t, s)' /\ Coming(t, s + 1)'
    BY <1>1, <1>5, <2>1 DEF Here, Coming
  <2> QED BY <1>1, <1>11, <2>1, <2>2 DEF CopiesInv
<1>20. GemmThread(t)'
  BY <1>1, <1>3, <1>4, <1>5, <1>7, <1>11, <1>19 DEF GemmThread
<1> QED BY <1>1, <1>3, <1>10, <1>11, <1>16, <1>17, <1>18, <1>20, GemmStep

(* Every step of the device keeps its invariant. *)
LEMMA GpuNextInv ==
  ASSUME GpuInv, GpuNext
  PROVE  GpuInv'
BY StartBlockKeeps, BarrierKeeps, RowDotKeeps, CoopSumKeeps, CoopCombineKeeps, WarpSumKeeps, WarpCombineKeeps,
   LoadKeeps, LandKeeps, ArriveKeeps, UnpackKeeps, ComputeKeeps, StoreKeeps DEF GpuNext

(* The device's invariant includes the types, *)
LEMMA GpuInvTyped ==
  ASSUME GpuInv
  PROVE  GpuTypeOK
<1>1. Launched /\ ThreadsOK
  BY DEF GpuInv
<1>2. kernel.grid \in {"row", "flat", "coop", "warp", "staged", "async"}
  BY <1>1, LaunchFacts DEF Launched
<1>3. ASSUME NEW t \in Thread
      PROVE  /\ th[t].pc \in {"row", "sum", "summed", "combine", "load", "loaded", "arrived",
                              "unpack", "unpacked", "compute", "computed", "store", "exit"}
             /\ th[t].s \in 0..Supers(call)
             /\ flight[t] \subseteq 0..Supers(call)-1
  <2>1. th[t].pc \in Pcs /\ th[t].s \in 0..Supers(call)
    BY <1>1 DEF ThreadsOK
  <2>2. th[t].pc \in {"row", "sum", "summed", "combine", "load", "loaded", "arrived",
                      "unpack", "unpacked", "compute", "computed", "store", "exit"}
    BY <1>2, <2>1 DEF Pcs, Gemm
  <2>3. flight[t] \subseteq 0..Supers(call)-1
    BY DEF GpuInv, GemmInv
  <2> QED BY <2>1, <2>2, <2>3
<1> QED BY <1>1, <1>3 DEF Launched, GpuTypeOK

(* that every super-block was computed with whole and in its order, *)
LEMMA GpuInvWhole ==
  ASSUME GpuInv
  PROVE  StagingIsWhole
<1> SUFFICES ASSUME NEW t \in Thread, NEW k \in 1..Len(th[t].got)
             PROVE  th[t].got[k] = k - 1
  BY DEF StagingIsWhole
<1>1. kernel.grid \in {"row", "flat", "coop", "warp", "staged", "async"} /\ call \in Call
  BY LaunchFacts DEF GpuInv, Launched
<1>2. th[t].got = << >> \/ \E n \in Nat : th[t].got = Upto(n)
  <2>1. CASE kernel.grid \notin Gemm \/ block = NoBlock
    BY <1>1, <2>1 DEF GpuInv, RowInv, CoopInv, WarpInv, GemmInv, Gemm
  <2>2. CASE kernel.grid \in Gemm /\ block # NoBlock
    <3>1. GemmThread(t) /\ Supers(call) \in Nat
      BY <1>1, <2>2, GemmThreads, CallFacts
    <3>2. PICK s \in Nat : s = th[t].s
      BY <3>1 DEF GemmThread
    <3>3. th[t].got = Upto(s) \/ th[t].got = Upto(s + 1)
      BY <3>1, <3>2 DEF GemmThread
    <3>4. s + 1 \in Nat
      BY <3>2
    <3> QED BY <3>2, <3>3, <3>4
  <2> QED BY <2>1, <2>2
<1>3. th[t].got # << >>
  BY DEF Upto
<1>4. PICK n \in Nat : th[t].got = Upto(n)
  BY <1>2, <1>3
<1>5. Len(Upto(n)) = n
  BY LenTable DEF IsTable, Upto
<1> QED BY <1>4, <1>5 DEF Upto

(* and, when the launch is over, that every output is the one of the reference: each
   belongs to a thread, and every thread has ended. *)
LEMMA GpuInvCanonical ==
  ASSUME GpuInv
  PROVE  GpuIsCanonical
<1> SUFFICES ASSUME GpuDone, NEW n \in 0..call.batch-1, NEW r \in 0..call.rows-1
             PROVE  out[n][r] = Final(n, r)
  BY DEF GpuIsCanonical, Final
<1>1. PICK o \in Cells : o = <<n, r>> /\ o[1] = n /\ o[2] = r
  <2>1. <<n, r>> \in Cells
    BY DEF Cells
  <2> QED BY <2>1
<1>2. PICK bl \in Grid(call, kernel.grid), t \in Thread : o \in Mine(bl, t)
  BY EveryOutputIsMine DEF GpuInv, Launched
<1>3. bl \notin blocks /\ th[t].pc = "exit"
  BY DEF GpuDone
<1> QED BY <1>1, <1>2, <1>3 DEF GpuInv, OutInv

(* A launch that is over has no copy in flight, and takes no step. *)
LEMMA GpuDoneStays ==
  ASSUME GpuInv, GpuDone
  PROVE  ~ GpuNext
<1>1. call \in Call /\ kernel \in Launches(call) /\ 0 \in Thread
  BY Threads DEF GpuInv, Launched
<1>2. blocks = {} /\ \A t \in Thread : th[t].pc = "exit"
  BY DEF GpuDone
<1>3. ASSUME NEW t \in Thread PROVE flight[t] = {}
  <2>1. CASE kernel.grid \notin Gemm \/ block = NoBlock
    BY <2>1 DEF GpuInv, GemmInv
  <2>2. CASE kernel.grid \in Gemm /\ block # NoBlock
    <3>1. Together /\ GemmThread(t)
      BY <2>2, GemmThreads
    <3>2. PICK N \in Nat : N = Supers(call)
      BY <1>1, CallFacts
    <3>3. PICK s \in 0..N-1 : s = th[t].s
      BY <3>1, <3>2 DEF GemmThread
    <3>4. s + 1 = N
      BY <1>2, <3>1, <3>2, <3>3 DEF Together
    <3>5. flight[t] \subseteq {s + 1} /\ flight[t] \subseteq 0..N-1
      BY <1>2, <3>1, <3>2, <3>3 DEF GemmThread, CopiesInv
    <3> QED BY <3>4, <3>5
  <2> QED BY <2>1, <2>2
<1>4. ~ StartBlock /\ ~ Barrier
  BY <1>1, <1>2 DEF StartBlock, Barrier
<1>5. ASSUME NEW t \in Thread
      PROVE  /\ ~ RowDot(t) /\ ~ CoopSum(t) /\ ~ CoopCombine(t) /\ ~ WarpSum(t) /\ ~ WarpCombine(t)
             /\ ~ Load(t) /\ ~ Arrive(t) /\ ~ Unpack(t) /\ ~ Compute(t) /\ ~ Store(t)
  <2>1. \A pc : pc # "exit" => ~ At(t, pc)
    BY <1>2 DEF At
  <2> QED BY <2>1 DEF RowDot, CoopSum, CoopCombine, WarpSum, WarpCombine, Load, Arrive, Unpack, Compute, Store
<1>6. \A t \in Thread : ~ Land(t)
  BY <1>3 DEF Land
<1> QED BY <1>4, <1>5, <1>6 DEF GpuNext

-----------------------------------------------------------------------------
(* Rows: where a tree ends on its right, and the two ways to sum a row.       *)

\* end is at the end of d right branches of x.
Path(x, d, end) ==
  \E f : /\ f[0] = x /\ f[d] = end
         /\ \A m \in 0..d - 1 : \E left : f[m] = Plus(left, f[m + 1])

\* A sum tells what was added.
LEMMA PlusTells ==
  ASSUME NEW p, NEW q, NEW u, NEW v, Plus(p, q) = Plus(u, v)
  PROVE  p = u /\ q = v
BY DEF Plus

\* No branch leads to the term itself ...
LEMMA PathHere ==
  ASSUME NEW x
  PROVE  Path(x, 0, x)
<1> DEFINE f == [m \in 0..0 |-> x]
<1>1. f[0] = x
  OBVIOUS
<1>2. \A m \in 0..0 - 1 : FALSE
  OBVIOUS
<1> HIDE DEF f
<1> QED BY <1>1, <1>2 DEF Path

\* ... one more to a term below the right one.
LEMMA PathOn ==
  ASSUME NEW x, NEW left, NEW d \in Nat, NEW end, Path(x, d, end)
  PROVE  Path(Plus(left, x), d + 1, end)
<1>1. PICK f : /\ f[0] = x /\ f[d] = end
               /\ \A m \in 0..d - 1 : \E u : f[m] = Plus(u, f[m + 1])
  BY DEF Path
<1>2. PICK z : z = Plus(left, x)
  OBVIOUS
<1> DEFINE g == [m \in 0..d + 1 |-> IF m = 0 THEN z ELSE f[m - 1]]
<1>3. /\ g[0] = z /\ g[d + 1] = f[d]
      /\ \A m \in 0..d : g[m + 1] = f[m]
      /\ \A m \in 1..d : g[m] = f[m - 1]
  OBVIOUS
<1> HIDE DEF g
<1>4. ASSUME NEW m \in 0..d PROVE \E u : g[m] = Plus(u, g[m + 1])
  <2>1. CASE m = 0
    BY <1>1, <1>2, <1>3, <2>1
  <2>2. CASE m # 0
    <3>1. m - 1 \in 0..d - 1 /\ (m - 1) + 1 = m /\ m \in 1..d
      BY <2>2
    <3>2. PICK k : k \in 0..d - 1 /\ k = m - 1 /\ k + 1 = m
      BY <3>1
    <3>3. \E u : f[k] = Plus(u, f[k + 1])
      BY <1>1, <3>2
    <3>4. g[m] = f[k] /\ g[m + 1] = f[k + 1]
      BY <1>3, <3>1, <3>2
    <3> QED BY <3>3, <3>4
  <2> QED BY <2>1, <2>2
<1>5. PICK n \in Nat : n = d + 1 /\ n - 1 = d
  OBVIOUS
<1>6. Path(z, n, end)
  BY <1>1, <1>3, <1>4, <1>5 DEF Path
<1> QED BY <1>2, <1>5, <1>6

\* Branches are followed one after the other.
LEMMA PathJoin ==
  ASSUME NEW x, NEW d \in Nat, NEW end, NEW e \in Nat, NEW z, Path(x, d, end), Path(end, e, z)
  PROVE  Path(x, d + e, z)
<1> DEFINE T == {n \in Nat : \E u : Path(u, n, end) /\ ~Path(u, n + e, z)}
<1>1. CASE T = {}
  BY <1>1
<1>2. CASE T # {}
  <2>1. PICK n \in T : \A k \in T : n <= k
    BY <1>2, LeastElement
  <2>2. PICK u : Path(u, n, end) /\ ~Path(u, n + e, z)
    BY <2>1
  <2>3. PICK f : /\ f[0] = u /\ f[n] = end
                 /\ \A m \in 0..n - 1 : \E left : f[m] = Plus(left, f[m + 1])
    BY <2>2 DEF Path
  <2>4. CASE n = 0
    BY <2>2, <2>3, <2>4
  <2>5. CASE n # 0
    <3>1. PICK k \in Nat : n = k + 1 /\ k = n - 1 /\ k \notin T
      <4>1. n - 1 \in Nat /\ n = (n - 1) + 1 /\ ~(n <= n - 1)
        BY <2>5
      <4>2. n - 1 \notin T
        BY <2>1, <4>1
      <4> QED BY <4>1, <4>2
    <3>2. PICK left : u = Plus(left, f[1])
      <4>1. 0 \in 0..n - 1 /\ 0 + 1 = 1
        BY <2>5
      <4>2. \E left : f[0] = Plus(left, f[0 + 1])
        BY <2>3, <4>1
      <4> QED BY <2>3, <4>1, <4>2
    <3> DEFINE g == [m \in 0..k |-> f[m + 1]]
    <3>3. Path(f[1], k, end)
      <4>1. g[0] = f[1] /\ g[k] = end /\ \A m \in 0..k - 1 : g[m] = f[m + 1] /\ g[m + 1] = f[(m + 1) + 1]
        BY <2>3, <3>1
      <4>2. ASSUME NEW m \in 0..k - 1 PROVE \E u2 : g[m] = Plus(u2, g[m + 1])
        <5>1. m + 1 \in 0..n - 1
          BY <3>1
        <5>2. PICK j : j = m + 1 /\ j \in 0..n - 1
          BY <5>1
        <5>3. \E u2 : f[j] = Plus(u2, f[j + 1])
          BY <2>3, <5>2
        <5> HIDE DEF g
        <5> QED BY <4>1, <5>2, <5>3
      <4> HIDE DEF g
      <4> QED BY <4>1, <4>2 DEF Path
    <3>4. Path(f[1], k + e, z)
      <4>1. ~ \E v : Path(v, k, end) /\ ~Path(v, k + e, z)
        BY <3>1
      <4> QED BY <3>3, <4>1
    <3>5. PICK h \in Nat : h = k + e /\ h + 1 = n + e
      BY <3>1
    <3>6. Path(u, h + 1, z)
      BY <3>2, <3>4, <3>5, PathOn
    <3> QED BY <2>2, <3>5, <3>6
  <2> QED BY <2>4, <2>5
<1> QED BY <1>1, <1>2

\* Of two paths from one term the longer goes on from the end of the shorter.
LEMMA PathSame ==
  ASSUME NEW x, NEW d \in Nat, NEW end, NEW e \in Nat, NEW z, Path(x, d, end), Path(x, e, z), d <= e
  PROVE  (d = e /\ end = z) \/ \E u, v : end = Plus(u, v)
<1>1. PICK f : /\ f[0] = x /\ f[d] = end
               /\ \A m \in 0..d - 1 : \E left : f[m] = Plus(left, f[m + 1])
  BY DEF Path
<1>2. PICK g : /\ g[0] = x /\ g[e] = z
               /\ \A m \in 0..e - 1 : \E left : g[m] = Plus(left, g[m + 1])
  BY DEF Path
<1> DEFINE T == {m \in Nat : m <= d /\ f[m] # g[m]}
<1>3. T = {}
  <2> SUFFICES ASSUME T # {} PROVE FALSE
    OBVIOUS
  <2>1. PICK m \in T : \A k \in T : m <= k
    BY LeastElement
  <2>2. m # 0
    BY <1>1, <1>2, <2>1
  <2>3. PICK k \in Nat : k = m - 1 /\ m = k + 1 /\ k \in 0..d - 1 /\ k \in 0..e - 1
    <3>1. m - 1 \in Nat /\ m = (m - 1) + 1 /\ m - 1 \in 0..d - 1 /\ m - 1 \in 0..e - 1
      BY <2>1, <2>2
    <3> QED BY <3>1
  <2>4. f[k] = g[k]
    <3>1. k \notin T
      BY <2>1, <2>3
    <3> QED BY <2>1, <2>3, <3>1
  <2>5. PICK p : f[k] = Plus(p, f[m])
    BY <1>1, <2>3
  <2>6. PICK q : g[k] = Plus(q, g[m])
    BY <1>2, <2>3
  <2>7. f[m] = g[m]
    <3>1. Plus(p, f[m]) = Plus(q, g[m])
      BY <2>4, <2>5, <2>6, Zenon
    <3>2. PICK u, v : u = f[m] /\ v = g[m]
      OBVIOUS
    <3>3. Plus(p, u) = Plus(q, v)
      BY <3>1, <3>2
    <3>4. u = v
      BY <3>3, PlusTells
    <3> QED BY <3>2, <3>4
  <2> QED BY <2>1, <2>7
<1>4. f[d] = g[d]
  BY <1>3
<1>5. d = e \/ d \in 0..e - 1
  OBVIOUS
<1> QED BY <1>1, <1>2, <1>4, <1>5

\* The widths of the levels of a tree, and the levels.
Widths(w, len) == w = [l \in 0..len |-> IF l = 0 THEN len ELSE CeilDiv(w[l-1], 2)]
Levels(f, w, len, part) ==
  f = [l \in 0..len |->
        IF l = 0 THEN part
        ELSE [t \in 1..w[l] |-> IF 2*t <= w[l-1] THEN Plus(f[l-1][2*t-1], f[l-1][2*t]) ELSE f[l-1][2*t-1]]]

\* A tree has both.
LEMMA WidthsExist ==
  ASSUME NEW len \in Nat
  PROVE  \E w : Widths(w, len)
<1> DEFINE T == {n \in Nat : ~ \E w : w = [l \in 0..n |-> IF l = 0 THEN len ELSE CeilDiv(w[l-1], 2)]}
<1>1. CASE T = {}
  BY <1>1 DEF Widths
<1>2. CASE T # {}
  <2>1. PICK n \in T : \A k \in T : n <= k
    BY <1>2, LeastElement
  <2>2. n # 0
    <3> DEFINE w == [l \in 0..0 |-> len]
    <3>1. w = [l \in 0..0 |-> IF l = 0 THEN len ELSE CeilDiv(w[l-1], 2)]
      OBVIOUS
    <3> QED BY <2>1, <3>1
  <2>3. n - 1 \in Nat /\ n - 1 \notin T
    <3>1. n \in Nat
      BY <2>1
    <3>2. n - 1 \in Nat /\ ~(n <= n - 1)
      BY <2>2, <3>1
    <3> HIDE DEF T
    <3> QED BY <2>1, <3>2
  <2>4. PICK w : w = [l \in 0..n - 1 |-> IF l = 0 THEN len ELSE CeilDiv(w[l-1], 2)]
    BY <2>3
  <2> DEFINE g == [l \in 0..n |-> IF l = n THEN CeilDiv(w[n-1], 2) ELSE w[l]]
  <2>5. \A l \in 0..n : g[l] = IF l = 0 THEN len ELSE CeilDiv(g[l-1], 2)
    <3>1. \A l \in 0..n - 1 : g[l] = w[l]
      OBVIOUS
    <3>2. g[n] = CeilDiv(w[n-1], 2) /\ n - 1 \in 0..n - 1
      BY <2>2
    <3> HIDE DEF g
    <3>3. \A l \in 0..n - 1 : w[l] = IF l = 0 THEN len ELSE CeilDiv(w[l-1], 2)
      BY <2>4
    <3>4. \A l \in 0..n - 1 : l # 0 => l - 1 \in 0..n - 1
      OBVIOUS
    <3>5. \A l \in 0..n : l \in 0..n - 1 \/ l = n
      OBVIOUS
    <3> QED BY <2>2, <3>1, <3>2, <3>3, <3>4, <3>5
  <2>6. g = [l \in 0..n |-> g[l]]
    OBVIOUS
  <2> HIDE DEF g
  <2>7. g = [l \in 0..n |-> IF l = 0 THEN len ELSE CeilDiv(g[l-1], 2)]
    BY <2>5, <2>6
  <2> QED BY <2>1, <2>7
<1> QED BY <1>1, <1>2

LEMMA LevelsExist ==
  ASSUME NEW len \in Nat, NEW w, NEW part
  PROVE  \E f : Levels(f, w, len, part)
<1> DEFINE Above(row, l) ==
             [t \in 1..w[l] |-> IF 2*t <= w[l-1] THEN Plus(row[2*t-1], row[2*t]) ELSE row[2*t-1]]
           T == {n \in Nat : ~ \E f : f = [l \in 0..n |-> IF l = 0 THEN part ELSE Above(f[l-1], l)]}
<1>1. CASE T = {}
  BY <1>1 DEF Levels
<1>2. CASE T # {}
  <2> HIDE DEF Above
  <2>1. PICK n \in T : \A k \in T : n <= k
    BY <1>2, LeastElement
  <2>2. n # 0
    <3> DEFINE f == [l \in 0..0 |-> part]
    <3>1. f = [l \in 0..0 |-> IF l = 0 THEN part ELSE Above(f[l-1], l)]
      OBVIOUS
    <3> QED BY <2>1, <3>1
  <2>3. n - 1 \in Nat /\ n - 1 \notin T
    <3>1. n \in Nat
      BY <2>1
    <3>2. n - 1 \in Nat /\ ~(n <= n - 1)
      BY <2>2, <3>1
    <3> HIDE DEF T
    <3> QED BY <2>1, <3>2
  <2>4. PICK f : f = [l \in 0..n - 1 |-> IF l = 0 THEN part ELSE Above(f[l-1], l)]
    BY <2>3
  <2> DEFINE g == [l \in 0..n |-> IF l = n THEN Above(f[n-1], n) ELSE f[l]]
  <2>5. \A l \in 0..n : g[l] = IF l = 0 THEN part ELSE Above(g[l-1], l)
    <3>1. \A l \in 0..n - 1 : g[l] = f[l]
      OBVIOUS
    <3>2. g[n] = Above(f[n-1], n) /\ n - 1 \in 0..n - 1
      BY <2>2
    <3> HIDE DEF g
    <3>3. \A l \in 0..n - 1 : f[l] = IF l = 0 THEN part ELSE Above(f[l-1], l)
      BY <2>4
    <3>4. \A l \in 0..n - 1 : l # 0 => l - 1 \in 0..n - 1
      OBVIOUS
    <3>5. \A l \in 0..n : l \in 0..n - 1 \/ l = n
      OBVIOUS
    <3> QED BY <2>2, <3>1, <3>2, <3>3, <3>4, <3>5
  <2>6. g = [l \in 0..n |-> g[l]]
    OBVIOUS
  <2> HIDE DEF g
  <2>7. g = [l \in 0..n |-> IF l = 0 THEN part ELSE Above(g[l-1], l)]
    BY <2>5, <2>6
  <2> QED BY <2>1, <2>7
<1> QED BY <1>1, <1>2

\* A tree is the slot its last level has left.
LEMMA TreeIs ==
  ASSUME NEW len \in Nat \ {0}, NEW part
  PROVE  \E w, f : Widths(w, len) /\ Levels(f, w, len, part) /\ Tree(len, part) = f[len][1]
<1> DEFINE w == CHOOSE g : Widths(g, len)
           f == CHOOSE g : Levels(g, w, len, part)
<1>1. Widths(w, len)
  BY WidthsExist
<1>2. Levels(f, w, len, part)
  <2> HIDE DEF w
  <2> QED BY LevelsExist
<1>3. Tree(len, part) = f[len][1]
  BY DEF Tree, Widths, Levels
<1> HIDE DEF w, f
<1> QED BY <1>1, <1>2, <1>3

\* Widths are determined.
LEMMA WidthsSame ==
  ASSUME NEW len \in Nat, NEW v, NEW w, Widths(v, len), Widths(w, len)
  PROVE  v = w
<1> DEFINE T == {n \in Nat : n <= len /\ v[n] # w[n]}
<1>1. T = {}
  <2> SUFFICES ASSUME T # {} PROVE FALSE
    OBVIOUS
  <2>1. PICK n \in T : \A k \in T : n <= k
    BY LeastElement
  <2>2. n = 0 => v[n] = w[n]
    BY <2>1 DEF Widths
  <2>3. n # 0 => n - 1 \in Nat /\ n - 1 <= len /\ ~(n <= n - 1)
    BY <2>1
  <2>4. n # 0 => v[n-1] = w[n-1]
    BY <2>1, <2>3
  <2>5. n # 0 => v[n] = CeilDiv(v[n-1], 2) /\ w[n] = CeilDiv(w[n-1], 2)
    BY <2>1 DEF Widths
  <2> QED BY <2>1, <2>2, <2>4, <2>5
<1>2. v = [n \in 0..len |-> v[n]] /\ w = [n \in 0..len |-> w[n]]
  BY DEF Widths
<1>3. \A n \in 0..len : v[n] = w[n]
  BY <1>1
<1> QED BY <1>2, <1>3

\* A level is half as wide as the one before it, the last has one slot.
LEMMA WidthFacts ==
  ASSUME NEW len \in Nat \ {0}, NEW w, Widths(w, len), NEW n \in 0..len
  PROVE  w[n] \in 1..len /\ (w[n] = 1 \/ w[n] <= len - n)
<1> DEFINE T == {m \in Nat : m <= len /\ ~(w[m] \in 1..len /\ (w[m] = 1 \/ w[m] <= len - m))}
<1>1. T = {}
  <2> SUFFICES ASSUME T # {} PROVE FALSE
    OBVIOUS
  <2>1. PICK m \in T : \A k \in T : m <= k
    BY LeastElement
  <2>2. m # 0
    <3>1. m = 0 => w[m] = len
      BY DEF Widths
    <3> QED BY <2>1, <3>1
  <2>3. m - 1 \in Nat /\ m - 1 <= len /\ ~(m <= m - 1)
    BY <2>1, <2>2
  <2>4. w[m-1] \in 1..len /\ (w[m-1] = 1 \/ w[m-1] <= len - (m - 1))
    BY <2>1, <2>3
  <2>5. w[m] = (w[m-1] + 2 - 1) \div 2
    BY <2>1, <2>2 DEF Widths, CeilDiv
  <2>6. PICK p \in 1..len : p = w[m-1]
    BY <2>4
  <2>7. w[m] = (p + 1) \div 2 /\ (p = 1 \/ p <= len - (m - 1))
    BY <2>4, <2>5, <2>6
  <2> QED BY <2>1, <2>7
<1> QED BY <1>1

\* The last slots of a level and of the next: carried, or the right one of a sum.
LEMMA LevelUp ==
  ASSUME NEW len \in Nat \ {0}, NEW w, Widths(w, len), NEW part, NEW f, Levels(f, w, len, part),
         NEW k \in 0..len - 1
  PROVE  \/ w[k] % 2 = 1 /\ f[k + 1][w[k + 1]] = f[k][w[k]] /\ 2 * w[k + 1] = w[k] + 1
         \/ w[k] % 2 = 0 /\ (\E left : f[k + 1][w[k + 1]] = Plus(left, f[k][w[k]])) /\ 2 * w[k + 1] = w[k]
<1>1. PICK n \in 0..len : n = k + 1 /\ n # 0 /\ k = n - 1 /\ k \in 0..len
  <2>1. k + 1 \in 0..len /\ k + 1 # 0 /\ k = (k + 1) - 1 /\ k \in 0..len
    OBVIOUS
  <2> QED BY <2>1, Zenon
<1>2. w[k] \in 1..len /\ w[n] \in 1..len
  BY <1>1, WidthFacts
<1>3. PICK p \in Nat \ {0} : p = w[k]
  BY <1>2
<1>4. PICK h \in Nat \ {0} : h = w[n]
  BY <1>2
<1>5. h = (p + 2 - 1) \div 2
  BY <1>1, <1>3, <1>4 DEF Widths, CeilDiv
<1>6. (p % 2 = 1 /\ 2 * h = p + 1) \/ (p % 2 = 0 /\ 2 * h = p)
  BY <1>5
<1>7. f[n] = [t \in 1..h |-> IF 2*t <= p THEN Plus(f[k][2*t-1], f[k][2*t]) ELSE f[k][2*t-1]]
  <2>1. f[n] = [t \in 1..w[n] |-> IF 2*t <= w[n-1] THEN Plus(f[n-1][2*t-1], f[n-1][2*t]) ELSE f[n-1][2*t-1]]
    BY <1>1, Zenon DEF Levels
  <2> QED BY <2>1, <1>1, <1>3, <1>4
<1>8. f[n][h] = IF 2*h <= p THEN Plus(f[k][2*h-1], f[k][2*h]) ELSE f[k][2*h-1]
  <2>1. h \in 1..h
    OBVIOUS
  <2> QED BY <1>7, <2>1
<1>9. CASE p % 2 = 1 /\ 2 * h = p + 1
  <2>1. ~(2*h <= p) /\ 2*h-1 = p
    BY <1>9
  <2>2. f[n][h] = f[k][p]
    BY <1>8, <2>1
  <2> QED BY <1>1, <1>3, <1>4, <1>9, <2>2
<1>10. CASE p % 2 = 0 /\ 2 * h = p
  <2>1. 2*h <= p
    BY <1>10
  <2>2. f[n][h] = Plus(f[k][2*h-1], f[k][p])
    BY <1>8, <1>10, <2>1
  <2>3. \E left : f[n][h] = Plus(left, f[k][p])
    BY <2>2
  <2> QED BY <1>1, <1>3, <1>4, <1>10, <2>3
<1> QED BY <1>6, <1>9, <1>10

\* Where a tree ends depends on its length: as many right branches down is its last slot.
LEMMA TreeEnds ==
  ASSUME NEW len \in Nat \ {0}, NEW part, NEW other
  PROVE  \E d \in Nat : /\ len > 1 => d > 0
                        /\ Path(Tree(len, part), d, part[len])
                        /\ Path(Tree(len, other), d, other[len])
<1>1. PICK w, f : Widths(w, len) /\ Levels(f, w, len, part) /\ Tree(len, part) = f[len][1]
  BY TreeIs
<1>2. PICK v, g : Widths(v, len) /\ Levels(g, v, len, other) /\ Tree(len, other) = g[len][1]
  BY TreeIs
<1>3. v = w
  BY <1>1, <1>2, WidthsSame
<1> DEFINE Ends(n) == \E d \in Nat : /\ len > 1 => d > 0 \/ w[n] # 1
                                     /\ Path(f[n][w[n]], d, part[len])
                                     /\ Path(g[n][w[n]], d, other[len])
           T == {n \in Nat : n <= len /\ ~Ends(n)}
<1>4. Ends(0)
  <2>1. w[0] = len /\ f[0] = part /\ g[0] = other
    <3>1. 0 \in 0..len
      OBVIOUS
    <3> QED BY <1>1, <1>2, <3>1, Zenon DEF Widths, Levels
  <2>2. Path(part[len], 0, part[len]) /\ Path(other[len], 0, other[len])
    BY PathHere
  <2> QED BY <2>1, <2>2
<1>5. ASSUME NEW k \in 0..len - 1, Ends(k) PROVE Ends(k + 1)
  <2>1. PICK d \in Nat : /\ len > 1 => d > 0 \/ w[k] # 1
                         /\ Path(f[k][w[k]], d, part[len])
                         /\ Path(g[k][w[k]], d, other[len])
    BY <1>5
  <2>2. \/ w[k] % 2 = 1 /\ f[k + 1][w[k + 1]] = f[k][w[k]] /\ 2 * w[k + 1] = w[k] + 1
        \/ w[k] % 2 = 0 /\ (\E left : f[k + 1][w[k + 1]] = Plus(left, f[k][w[k]])) /\ 2 * w[k + 1] = w[k]
    BY <1>1, LevelUp
  <2>3. \/ w[k] % 2 = 1 /\ g[k + 1][w[k + 1]] = g[k][w[k]] /\ 2 * w[k + 1] = w[k] + 1
        \/ w[k] % 2 = 0 /\ (\E left : g[k + 1][w[k + 1]] = Plus(left, g[k][w[k]])) /\ 2 * w[k + 1] = w[k]
    BY <1>2, <1>3, LevelUp
  <2>4. PICK p \in Nat \ {0} : p = w[k]
    <3>1. k \in 0..len
      OBVIOUS
    <3> QED BY <1>1, <3>1, WidthFacts
  <2>5. PICK n : n = k + 1
    OBVIOUS
  <2>6. w[n] \in Nat
    <3>1. n \in 0..len
      BY <2>5
    <3> QED BY <1>1, <3>1, WidthFacts
  <2>7. CASE p % 2 = 1
    <3>1. f[n][w[n]] = f[k][w[k]] /\ g[n][w[n]] = g[k][w[k]] /\ 2 * w[n] = p + 1
      BY <2>2, <2>3, <2>4, <2>5, <2>7
    <3>2. w[n] = 1 => p = 1
      BY <2>4, <3>1
    <3>3. len > 1 => d > 0 \/ w[n] # 1
      BY <2>1, <2>4, <3>2
    <3> QED BY <2>1, <2>5, <3>1, <3>3
  <2>8. CASE p % 2 = 0
    <3>1. PICK left : f[n][w[n]] = Plus(left, f[k][w[k]])
      BY <2>2, <2>4, <2>5, <2>8
    <3>2. PICK aside : g[n][w[n]] = Plus(aside, g[k][w[k]])
      BY <2>3, <2>4, <2>5, <2>8
    <3>3. PICK u, x : u = f[k][w[k]] /\ x = g[k][w[k]]
      OBVIOUS
    <3>4. Path(Plus(left, u), d + 1, part[len]) /\ Path(Plus(aside, x), d + 1, other[len])
      <4>1. PICK last, final : last = part[len] /\ final = other[len]
        OBVIOUS
      <4>2. Path(u, d, last) /\ Path(x, d, final)
        BY <2>1, <3>3, <4>1
      <4>3. Path(Plus(left, u), d + 1, last)
        BY <4>2, PathOn
      <4>4. Path(Plus(aside, x), d + 1, final)
        BY <4>2, PathOn
      <4> QED BY <4>1, <4>3, <4>4
    <3>5. d + 1 \in Nat /\ d + 1 > 0
      OBVIOUS
    <3>6. Path(f[n][w[n]], d + 1, part[len]) /\ Path(g[n][w[n]], d + 1, other[len])
      BY <3>1, <3>2, <3>3, <3>4
    <3> QED BY <2>5, <3>5, <3>6
  <2> QED BY <2>4, <2>7, <2>8
<1>6. T = {}
  <2> HIDE DEF Ends
  <2> SUFFICES ASSUME T # {} PROVE FALSE
    OBVIOUS
  <2>1. PICK n \in T : \A k \in T : n <= k
    BY LeastElement
  <2>2. PICK k \in 0..len - 1 : k = n - 1 /\ n = k + 1 /\ k \notin T
    <3>1. n # 0
      BY <1>4, <2>1
    <3>2. n - 1 \in 0..len - 1 /\ n = (n - 1) + 1 /\ ~(n <= n - 1)
      BY <2>1, <3>1
    <3>3. n - 1 \notin T
      <4> HIDE DEF T
      <4> QED BY <2>1, <3>2
    <3> QED BY <3>2, <3>3
  <2>3. Ends(k)
    BY <2>2
  <2> QED BY <1>5, <2>1, <2>2, <2>3
<1>7. w[len] = 1
  <2>1. len \in 0..len
    OBVIOUS
  <2>2. w[len] \in 1..len /\ (w[len] = 1 \/ w[len] <= len - len)
    BY <1>1, <2>1, WidthFacts
  <2> QED BY <2>2
<1>8. Ends(len)
  <2> HIDE DEF Ends
  <2> QED BY <1>6
<1> QED BY <1>1, <1>2, <1>7, <1>8

\* Element i of a chunk goes to one lane, and leaves the others alone.
LEMMA LaneNext ==
  ASSUME NEW from \in Nat, NEW i \in Nat, i >= from, NEW j \in 1..Lanes
  PROVE  LaneSum(Zero, 0, 0, from, i + 1, j)
           = IF j = ((i - from) % Lanes) + 1 THEN Plus(LaneSum(Zero, 0, 0, from, i, j), Weighed(0, 0, i))
             ELSE LaneSum(Zero, 0, 0, from, i, j)
<1> DEFINE Sum(c) == Accumulated(Zero, c, LaneTerms(0, 0, from, c, j))
<1>1. \A to : LaneSum(Zero, 0, 0, from, to, j) = Sum(LaneCount(from, to, j))
  BY DEF LaneSum, ChainFrom, LaneTerms, LaneCount, Weighed
<1>2. PICK x \in Nat : x = i - from
  OBVIOUS
<1>3. PICK q \in Nat, s \in 0..Lanes - 1 : x = Lanes * q + s /\ s = x % Lanes
  <2>1. x \div Lanes \in Nat /\ x % Lanes \in 0..Lanes - 1 /\ x = Lanes * (x \div Lanes) + (x % Lanes)
    BY Sizes, DivNat
  <2> QED BY <2>1
<1>4. LaneCount(from, i, j) = IF j <= s THEN q + 1 ELSE q
  <2>1. CASE j <= s
    <3>1. Lanes * q <= x - j /\ x - j < Lanes * q + Lanes /\ x - j \in Int
      BY <1>3, <2>1, Sizes
    <3>2. (x - j) \div Lanes = q
      BY <3>1, Sizes, DivWithin
    <3>3. i - from - j = x - j
      BY <1>2
    <3> QED BY <2>1, <3>2, <3>3 DEF LaneCount
  <2>2. CASE ~(j <= s)
    <3>1. PICK h \in Int : h = q - 1
      OBVIOUS
    <3>2. Lanes * h = Lanes * q - Lanes
      BY <3>1, Sizes
    <3>3. Lanes * h <= x - j /\ x - j < Lanes * h + Lanes /\ x - j \in Int
      BY <1>3, <2>2, <3>2, Sizes
    <3>4. (x - j) \div Lanes = h
      BY <3>3, Sizes, DivWithin
    <3>5. i - from - j = x - j
      BY <1>2
    <3> QED BY <2>2, <3>1, <3>4, <3>5 DEF LaneCount
  <2> QED BY <2>1, <2>2
<1>5. LaneCount(from, i + 1, j) = IF j <= s + 1 THEN q + 1 ELSE q
  <2>0. (i + 1) - from - j = x + 1 - j /\ x + 1 - j \in Int
    BY <1>2
  <2>1. CASE j <= s + 1
    <3>1. Lanes * q <= x + 1 - j /\ x + 1 - j < Lanes * q + Lanes
      BY <1>3, <2>1, Sizes
    <3>2. (x + 1 - j) \div Lanes = q
      BY <2>0, <3>1, Sizes, DivWithin
    <3> QED BY <2>0, <2>1, <3>2 DEF LaneCount
  <2>2. CASE ~(j <= s + 1)
    <3>1. PICK h \in Int : h = q - 1
      OBVIOUS
    <3>2. Lanes * h = Lanes * q - Lanes
      BY <3>1, Sizes
    <3>3. Lanes * h <= x + 1 - j /\ x + 1 - j < Lanes * h + Lanes
      BY <1>3, <2>2, <3>2, Sizes
    <3>4. (x + 1 - j) \div Lanes = h
      BY <2>0, <3>3, Sizes, DivWithin
    <3> QED BY <2>0, <2>2, <3>1, <3>4 DEF LaneCount
  <2> QED BY <2>1, <2>2
<1>6. (i - from) % Lanes = s
  BY <1>2, <1>3
<1>7. CASE j = s + 1
  <2>1. LaneCount(from, i, j) = q /\ LaneCount(from, i + 1, j) = q + 1
    BY <1>4, <1>5, <1>7
  <2> DEFINE few == LaneTerms(0, 0, from, q, j)
             more == LaneTerms(0, 0, from, q + 1, j)
  <2>2. \A m \in 1..q : few[m] = more[m]
    BY DEF LaneTerms
  <2>3. more[q + 1] = Weighed(0, 0, i)
    <3>1. q + 1 \in 1..q + 1
      OBVIOUS
    <3>2. more[q + 1] = Weighed(0, 0, from + ((q + 1) - 1) * Lanes + j - 1)
      BY <3>1 DEF LaneTerms
    <3>3. from + ((q + 1) - 1) * Lanes + j - 1 = i
      <4>1. ((q + 1) - 1) * Lanes = Lanes * q /\ Lanes * q \in Nat
        BY Sizes
      <4> QED BY <1>2, <1>3, <1>7, <4>1
    <3> QED BY <3>2, <3>3
  <2> HIDE DEF few, more
  <2>4. Accumulated(Zero, q + 1, more) = Plus(Accumulated(Zero, q, few), more[q + 1])
    BY <2>2, AccumulatedNext
  <2>5. Sum(q + 1) = Plus(Sum(q), Weighed(0, 0, i))
    BY <2>3, <2>4 DEF few, more
  <2> HIDE DEF Sum
  <2> QED BY <1>1, <1>6, <1>7, <2>1, <2>5
<1>8. CASE j # s + 1
  <2>1. LaneCount(from, i, j) = LaneCount(from, i + 1, j)
    BY <1>4, <1>5, <1>8
  <2> HIDE DEF Sum
  <2> QED BY <1>1, <1>6, <1>8, <2>1
<1> QED BY <1>7, <1>8

\* What the lanes of a chunk hold after its elements up to i.
LaneSums(from, i) == [t \in 1..Lanes |-> LaneSum(Zero, 0, 0, from, i, t)]

\* The loops that sum a chunk leave in each lane what the chunk of a dot adds there.
LEMMA ChunkSumIs ==
  ASSUME NEW from \in Nat, NEW to \in Nat, from <= to
  PROVE  ChunkSum(from, to) = CanonicalChunk(0, 0, from, to)
<1> DEFINE Sums(f) == f = [i \in from..to |->
              IF i = from THEN [j \in 1..Lanes |-> Zero]
              ELSE [f[i-1] EXCEPT ![((i - 1 - from) % Lanes) + 1] = Plus(@, Weighed(0, 0, i - 1))]]
           lanes == CHOOSE f : Sums(f)
           g == [i \in from..to |-> LaneSums(from, i)]
<1>1. ChunkSum(from, to) = FixedTree(lanes[to])
  BY DEF ChunkSum, Weighed
<1>2. LaneSums(from, from) = [j \in 1..Lanes |-> Zero]
  BY LaneSumNone DEF LaneSums
<1>3. ASSUME NEW k \in from..to, k # from
      PROVE  LaneSums(from, k)
               = [LaneSums(from, k - 1) EXCEPT ![((k - 1 - from) % Lanes) + 1] = Plus(@, Weighed(0, 0, k - 1))]
  <2>1. PICK i \in Nat : i = k - 1 /\ i >= from /\ k = i + 1
    BY <1>3
  <2>2. PICK p : p = ((i - from) % Lanes) + 1
    OBVIOUS
  <2>3. ASSUME NEW j \in 1..Lanes
        PROVE  LaneSum(Zero, 0, 0, from, k, j)
                 = IF j = p THEN Plus(LaneSum(Zero, 0, 0, from, i, j), Weighed(0, 0, i))
                   ELSE LaneSum(Zero, 0, 0, from, i, j)
    BY <2>1, <2>2, LaneNext
  <2>4. LaneSums(from, k) = [LaneSums(from, i) EXCEPT ![p] = Plus(@, Weighed(0, 0, i))]
    BY <2>3 DEF LaneSums
  <2> QED BY <2>1, <2>2, <2>4
<1>4. Sums(g)
  <2>1. \A i \in from..to : g[i] = LaneSums(from, i)
    OBVIOUS
  <2>2. g = [i \in from..to |-> g[i]]
    OBVIOUS
  <2> HIDE DEF g
  <2>3. ASSUME NEW k \in from..to
        PROVE  g[k] = IF k = from THEN [j \in 1..Lanes |-> Zero]
                      ELSE [g[k-1] EXCEPT ![((k - 1 - from) % Lanes) + 1] = Plus(@, Weighed(0, 0, k - 1))]
    <3>1. CASE k = from
      BY <1>2, <2>1, <3>1
    <3>2. CASE k # from
      <4>1. k - 1 \in from..to
        BY <3>2
      <4>2. g[k-1] = LaneSums(from, k - 1) /\ g[k] = LaneSums(from, k)
        BY <2>1, <4>1
      <4>3. LaneSums(from, k)
              = [LaneSums(from, k - 1) EXCEPT ![((k - 1 - from) % Lanes) + 1] = Plus(@, Weighed(0, 0, k - 1))]
        BY <1>3, <3>2
      <4> QED BY <3>2, <4>2, <4>3
    <3> QED BY <3>1, <3>2
  <2> QED BY <2>2, <2>3
<1>5. Sums(lanes)
  <2> HIDE DEF Sums, g
  <2> QED BY <1>4
<1>6. lanes[to] = LaneSums(from, to)
  <2> DEFINE T == {n \in Nat : n \in from..to /\ lanes[n] # LaneSums(from, n)}
  <2> HIDE DEF lanes
  <2>1. T = {}
    <3> SUFFICES ASSUME T # {} PROVE FALSE
      OBVIOUS
    <3>1. PICK n \in T : \A k \in T : n <= k
      BY LeastElement
    <3>2. n = from => lanes[n] = [j \in 1..Lanes |-> Zero]
      BY <1>5, <3>1
    <3>3. n # from
      BY <1>2, <3>1, <3>2
    <3>4. n - 1 \in Nat /\ n - 1 \in from..to /\ ~(n <= n - 1)
      BY <3>1, <3>3
    <3>5. lanes[n-1] = LaneSums(from, n - 1)
      BY <3>1, <3>4
    <3>6. lanes[n] = [lanes[n-1] EXCEPT ![((n - 1 - from) % Lanes) + 1] = Plus(@, Weighed(0, 0, n - 1))]
      BY <1>5, <3>1, <3>3
    <3>7. LaneSums(from, n)
            = [LaneSums(from, n - 1) EXCEPT ![((n - 1 - from) % Lanes) + 1] = Plus(@, Weighed(0, 0, n - 1))]
      BY <1>3, <3>1, <3>3
    <3>8. lanes[n] # LaneSums(from, n)
      BY <3>1
    <3> QED BY <3>5, <3>6, <3>7, <3>8
  <2> QED BY <2>1
<1>7. Len(LaneSums(from, to)) = Lanes
  <2>1. IsTable(LaneSums(from, to), Lanes)
    BY DEF IsTable, LaneSums
  <2> QED BY <2>1, Sizes, LenTable
<1>8. CanonicalChunk(0, 0, from, to) = Tree(Lanes, LaneSums(from, to))
  BY DEF CanonicalChunk, TreeOver, LaneSums
<1> HIDE DEF lanes
<1> QED BY <1>1, <1>6, <1>7, <1>8 DEF FixedTree

\* The last lane of a chunk is empty or ends with a product; with an element for each lane it is not empty.
LEMMA LaneLast ==
  ASSUME NEW from \in Nat, NEW to \in Nat, from < to
  PROVE  \/ to - from < Lanes /\ LaneSums(from, to)[Lanes] = Zero
         \/ \E acc, i : LaneSums(from, to)[Lanes] = Plus(acc, Weighed(0, 0, i))
<1>1. LaneSums(from, to)[Lanes] = LaneSum(Zero, 0, 0, from, to, Lanes)
  BY Sizes DEF LaneSums
<1>2. PICK c : c = LaneCount(from, to, Lanes)
  OBVIOUS
<1> DEFINE terms == LaneTerms(0, 0, from, c, Lanes)
<1>3. LaneSum(Zero, 0, 0, from, to, Lanes) = Accumulated(Zero, c, terms)
  BY <1>2 DEF LaneSum, ChainFrom, LaneTerms, LaneCount, Weighed
<1>4. PICK x \in Int : x = to - from - Lanes /\ x >= 1 - Lanes
  <2>1. to - from - Lanes \in Int /\ to - from - Lanes >= 1 - Lanes
    BY Sizes
  <2> QED BY <2>1
<1>5. CASE x < 0
  <2>1. PICK h \in Int : h = -1 /\ Lanes * h = 0 - Lanes
    BY Sizes
  <2>2. Lanes * h <= x /\ x < Lanes * h + Lanes
    BY <1>4, <1>5, <2>1, Sizes
  <2>3. x \div Lanes = h
    BY <2>2, Sizes, DivWithin
  <2>4. c = 0
    BY <1>2, <1>4, <2>1, <2>3 DEF LaneCount
  <2>5. Accumulated(Zero, 0, terms) = Zero
    <3> HIDE DEF terms
    <3> QED BY AccumulatedNone
  <2>6. to - from < Lanes
    BY <1>4, <1>5, Sizes
  <2> HIDE DEF terms
  <2> QED BY <1>1, <1>3, <2>4, <2>5, <2>6
<1>6. CASE ~(x < 0)
  <2>1. x \in Nat /\ x \div Lanes \in Nat
    BY <1>4, <1>6, Sizes, DivNat
  <2>2. PICK q \in Nat : q = x \div Lanes
    BY <2>1
  <2>3. c = q + 1
    BY <1>2, <1>4, <2>2 DEF LaneCount
  <2>4. \E i : terms[q + 1] = Weighed(0, 0, i)
    <3>1. q + 1 \in 1..c
      BY <2>3
    <3> QED BY <3>1 DEF LaneTerms
  <2> HIDE DEF terms
  <2>5. Accumulated(Zero, q + 1, terms) = Plus(Accumulated(Zero, q, terms), terms[q + 1])
    BY AccumulatedNext
  <2> QED BY <1>1, <1>3, <2>3, <2>4, <2>5
<1> QED BY <1>5, <1>6

\* A tree of one slot is that slot.
LEMMA TreeOfOne ==
  ASSUME NEW part
  PROVE  Tree(1, part) = part[1]
<1>1. PICK w, f : Widths(w, 1) /\ Levels(f, w, 1, part) /\ Tree(1, part) = f[1][1]
  BY TreeIs
<1>2. w[0] = 1 /\ w[1] = (1 + 2 - 1) \div 2
  BY <1>1 DEF Widths, CeilDiv
<1>3. w[1] = 1
  BY <1>2
<1>4. f[0] = part
  BY <1>1 DEF Levels
<1>5. f[1][1] = part[1]
  BY <1>1, <1>2, <1>3, <1>4 DEF Levels
<1> QED BY <1>1, <1>5

\* The sum of a row has the bits of its dot, and the sum in one chunk just when it is one.
LEMMA RowSums ==
  ASSUME NEW k \in Nat \ {0}
  PROVE  /\ CanonicalSum(k) = CanonicalDot(0, 0, k)
         /\ ChunkSum(0, k) = CanonicalDot(0, 0, k) <=> k <= Chunk
<1> DEFINE n == CeilDiv(k, Chunk)
           chunk == [c \in 1..n |-> CanonicalChunk(0, 0, (c - 1) * Chunk, Lesser(c * Chunk, k))]
<1>1. n \in Nat /\ \A i \in Nat : i < n <=> i * Chunk < k
  BY Sizes, CeilDivCounts
<1>2. n > 0
  <2>1. 0 * Chunk = 0
    BY Sizes
  <2> QED BY <1>1, <2>1
<1>3. n = 1 <=> k <= Chunk
  <2>1. 1 * Chunk = Chunk
    BY Sizes
  <2>2. 1 < n <=> Chunk < k
    BY <1>1, <2>1
  <2> QED BY <1>1, <1>2, <2>2, Sizes
<1>4. CanonicalDot(0, 0, k) = Tree(n, chunk)
  BY DEF CanonicalDot, TreeOver
<1> HIDE DEF n
<1>5. ASSUME NEW c \in 1..n
      PROVE  /\ (c - 1) * Chunk \in Nat /\ Lesser(c * Chunk, k) \in Nat
             /\ (c - 1) * Chunk < Lesser(c * Chunk, k)
             /\ ChunkSum((c - 1) * Chunk, Lesser(c * Chunk, k)) = chunk[c]
  <2>1. PICK before \in Nat : before = c - 1 /\ c = before + 1 /\ before < n
    BY <1>1
  <2>2. before * Chunk \in Nat /\ c * Chunk = before * Chunk + Chunk /\ before * Chunk < k
    BY <1>1, <2>1, Sizes
  <2>3. PICK from \in Nat : from = (c - 1) * Chunk
    BY <2>1, <2>2
  <2>4. PICK to \in Nat : to = Lesser(c * Chunk, k) /\ from < to
    BY <2>1, <2>2, <2>3, Sizes DEF Lesser
  <2>5. ChunkSum(from, to) = CanonicalChunk(0, 0, from, to)
    BY <2>4, ChunkSumIs
  <2>6. chunk[c] = CanonicalChunk(0, 0, (c - 1) * Chunk, Lesser(c * Chunk, k))
    OBVIOUS
  <2> HIDE DEF chunk
  <2> QED BY <2>3, <2>4, <2>5, <2>6
<1>6. CASE k <= Chunk
  <2>1. n = 1
    BY <1>3, <1>6
  <2>2. chunk[1] = ChunkSum(0, k)
    <3>1. 1 \in 1..n /\ (1 - 1) * Chunk = 0 /\ Lesser(1 * Chunk, k) = k
      BY <1>6, <2>1, Sizes DEF Lesser
    <3> HIDE DEF chunk
    <3> QED BY <1>5, <3>1
  <2>3. CanonicalSum(k) = ChunkSum(0, k)
    BY <1>6 DEF CanonicalSum
  <2> HIDE DEF chunk
  <2> QED BY <1>4, <1>6, <2>1, <2>2, <2>3, TreeOfOne
<1>7. CASE ~(k <= Chunk)
  <2>1. n > 1
    BY <1>1, <1>2, <1>3, <1>7
  <2>2. CanonicalSum(k) = Tree(n, [c \in 1..n |-> ChunkSum((c - 1) * Chunk, Lesser(c * Chunk, k))])
    BY <1>7 DEF CanonicalSum, ChunkCount, TreeOver, n
  <2>3. [c \in 1..n |-> ChunkSum((c - 1) * Chunk, Lesser(c * Chunk, k))] = chunk
    <3>1. \A c \in 1..n : ChunkSum((c - 1) * Chunk, Lesser(c * Chunk, k)) = chunk[c]
      BY <1>5
    <3>2. chunk = [c \in 1..n |-> chunk[c]]
      OBVIOUS
    <3> HIDE DEF chunk
    <3> QED BY <3>1, <3>2
  <2>4. ChunkSum(0, k) # CanonicalDot(0, 0, k)
    <3> SUFFICES ASSUME ChunkSum(0, k) = Tree(n, chunk) PROVE FALSE
      BY <1>4
    <3>1. PICK from \in Nat, to \in Nat : from < to /\ chunk[n] = CanonicalChunk(0, 0, from, to)
      <4>1. n \in 1..n
        BY <1>1, <1>2
      <4>2. chunk[n] = CanonicalChunk(0, 0, (n - 1) * Chunk, Lesser(n * Chunk, k))
        BY <4>1
      <4> HIDE DEF chunk
      <4> QED BY <1>5, <4>1, <4>2
    <3>2. ChunkSum(0, k) = Tree(Lanes, LaneSums(0, k))
      <4>1. ChunkSum(0, k) = CanonicalChunk(0, 0, 0, k)
        BY ChunkSumIs
      <4> QED BY <4>1 DEF CanonicalChunk, TreeOver, LaneSums
    <3>3. chunk[n] = Tree(Lanes, LaneSums(from, to))
      <4> HIDE DEF chunk
      <4> QED BY <3>1 DEF CanonicalChunk, TreeOver, LaneSums
    <3> HIDE DEF chunk
    <3>4. PICK d \in Nat : /\ Path(Tree(Lanes, LaneSums(0, k)), d, LaneSums(0, k)[Lanes])
                           /\ Path(Tree(Lanes, LaneSums(from, to)), d, LaneSums(from, to)[Lanes])
      BY Sizes, TreeEnds
    <3>5. PICK e \in Nat : e > 0 /\ Path(Tree(n, chunk), e, chunk[n])
      <4>1. n \in Nat \ {0}
        BY <1>1, <1>2
      <4> QED BY <2>1, <4>1, TreeEnds
    <3>6. Path(Tree(n, chunk), e + d, LaneSums(from, to)[Lanes])
      BY <3>3, <3>4, <3>5, PathJoin
    <3>7. PICK acc, i : LaneSums(0, k)[Lanes] = Plus(acc, Weighed(0, 0, i))
      <4>1. Lanes <= Super
        <5>1. PICK q \in Nat \ {0} : Super = Lanes * q
          BY Sizes
        <5>2. Lanes * 1 <= Lanes * q
          BY <5>1, Sizes, TimesMonotone
        <5> QED BY <5>1, <5>2, Sizes
      <4>2. Super <= Chunk
        <5>1. Super * 1 <= Super * SupersPerChunk
          BY Sizes, TimesMonotone
        <5> QED BY <5>1, Sizes
      <4>3. ~(k - 0 < Lanes)
        BY <1>7, <4>1, <4>2, Sizes
      <4>4. 0 < k /\ 0 \in Nat
        OBVIOUS
      <4>5. PICK zero \in Nat : zero = 0
        OBVIOUS
      <4>6. \/ k - zero < Lanes /\ LaneSums(zero, k)[Lanes] = Zero
            \/ \E acc, i : LaneSums(zero, k)[Lanes] = Plus(acc, Weighed(0, 0, i))
        BY <4>4, <4>5, LaneLast
      <4> QED BY <4>3, <4>5, <4>6
    <3>8. PICK leaf : leaf = Weighed(0, 0, i)
      OBVIOUS
    <3>9. Path(Tree(Lanes, LaneSums(0, k)), d + 1, leaf)
      <4>1. Path(leaf, 0, leaf)
        BY PathHere
      <4>2. PICK one \in Nat : one = 0 + 1 /\ one = 1
        OBVIOUS
      <4>3. Path(Plus(acc, leaf), one, leaf)
        BY <4>1, <4>2, PathOn
      <4>4. Path(Tree(Lanes, LaneSums(0, k)), d, Plus(acc, leaf))
        BY <3>4, <3>7, <3>8
      <4>5. Path(Tree(Lanes, LaneSums(0, k)), d + one, leaf)
        BY <4>3, <4>4, PathJoin
      <4> QED BY <4>2, <4>5
    <3>10. PICK x : x = Tree(n, chunk) /\ x = Tree(Lanes, LaneSums(0, k))
      BY <3>2
    <3>11. \A u, v : leaf # Plus(u, v) /\ leaf # Zero
      BY <3>8 DEF Weighed, Product, Plus, Zero
    <3>12. LaneSums(from, to)[Lanes] # leaf
      <4>1. \/ LaneSums(from, to)[Lanes] = Zero
            \/ \E a2, i2 : LaneSums(from, to)[Lanes] = Plus(a2, Weighed(0, 0, i2))
        BY <3>1, LaneLast
      <4> QED BY <3>11, <4>1
    <3>13. PICK short \in Nat, long \in Nat : short = d + 1 /\ long = e + d /\ short <= long
      BY <3>5
    <3>14. Path(x, short, leaf) /\ Path(x, long, LaneSums(from, to)[Lanes])
      BY <3>6, <3>9, <3>10, <3>13
    <3>15. LaneSums(from, to)[Lanes] = leaf \/ \E u, v : leaf = Plus(u, v)
      BY <3>13, <3>14, PathSame
    <3> QED BY <3>11, <3>12, <3>15
  <2> HIDE DEF chunk
  <2> QED BY <1>4, <1>7, <2>2, <2>3, <2>4
<1> QED BY <1>6, <1>7

\* A norm and a softmax of a row of any length.
LEMMA RowsAre ==
  ASSUME NEW k \in Nat \ {0}
  PROVE  Softmax(k) = RmsNorm(k) /\ (DeviceRow(k) = RmsNorm(k) <=> k <= Chunk)
<1>1. PICK a, b0, c : a = CanonicalSum(k) /\ b0 = CanonicalDot(0, 0, k) /\ c = ChunkSum(0, k)
  OBVIOUS
<1>2. a = b0 /\ (c = b0 <=> k <= Chunk)
  BY <1>1, RowSums
<1>3. /\ Softmax(k) = [i \in 0..k-1 |-> <<i, a>>]
      /\ RmsNorm(k) = [i \in 0..k-1 |-> <<i, b0>>]
      /\ DeviceRow(k) = [i \in 0..k-1 |-> <<i, c>>]
  BY <1>1 DEF Softmax, RmsNorm, DeviceRow
<1>4. [i \in 0..k-1 |-> <<i, c>>] = [i \in 0..k-1 |-> <<i, b0>>] => c = b0
  <2> DEFINE f == [i \in 0..k-1 |-> <<i, c>>]
             g == [i \in 0..k-1 |-> <<i, b0>>]
  <2>1. 0 \in 0..k-1
    OBVIOUS
  <2>2. f[0] = <<0, c>> /\ g[0] = <<0, b0>>
    BY <2>1
  <2> HIDE DEF f, g
  <2>3. f = g => c = b0
    BY <2>2
  <2> QED BY <2>3 DEF f, g
<1> QED BY <1>2, <1>3, <1>4

-----------------------------------------------------------------------------
(* The two together: the verifier works on the call of a launch that is over. *)
LinearInv == PoolInv /\ GpuInv /\ (returned => GpuDone)

(* It holds when the call is made ... *)
LEMMA LinearInitInv ==
  ASSUME Init
  PROVE  LinearInv
<1>1. call \in Call /\ PoolInit /\ GpuInit
  BY DEF Init
<1>2. PoolInv /\ GpuInv
  BY <1>1, PoolInitInv, GpuInitInv
<1>3. ~ returned
  BY <1>1 DEF PoolInit
<1> QED BY <1>2, <1>3 DEF LinearInv

(* ... and every step of either keeps it. *)
LEMMA LinearNextInv ==
  ASSUME LinearInv, [Next]_vars
  PROVE  LinearInv'
<1>1. PoolInv /\ GpuInv /\ (returned => GpuDone)
  BY DEF LinearInv
<1>2. CASE Issue
  <2>1. GpuNext /\ UNCHANGED cpu
    BY <1>2 DEF Issue
  <2>2. call' = call
    BY <2>1 DEF GpuNext, StartBlock, Barrier, RowDot, CoopSum, CoopCombine, WarpSum, WarpCombine,
                Load, Land, Arrive, Unpack, Compute, Store
  <2>3. PoolInv' /\ GpuInv'
    BY <1>1, <2>1, <2>2, PoolKeeps, GpuNextInv
  <2>4. ~ returned'
    BY <1>1, <2>1, GpuDoneStays DEF cpu
  <2> QED BY <2>3, <2>4 DEF LinearInv
<1>3. CASE Verify
  <2>1. GpuDone /\ PoolNext /\ UNCHANGED gpu
    BY <1>3 DEF Verify
  <2>2. call' = call
    BY <2>1 DEF PoolNext, Take, DotBlock, WriteRow, NextActivation, Return
  <2>3. PoolInv' /\ GpuInv'
    BY <1>1, <2>1, <2>2, PoolNextInv, GpuKeeps
  <2>4. GpuDone'
    BY <2>1, <2>2 DEF GpuDone, gpu, Thread
  <2> QED BY <2>3, <2>4 DEF LinearInv
<1>4. CASE UNCHANGED vars
  <2>1. UNCHANGED <<call, cpu>> /\ UNCHANGED <<call, gpu>> /\ returned' = returned
    BY <1>4 DEF vars, cpu
  <2>2. PoolInv' /\ GpuInv'
    BY <1>1, <2>1, PoolKeeps, GpuKeeps
  <2>3. GpuDone' = GpuDone
    BY <2>1 DEF GpuDone, gpu, Thread
  <2> QED BY <1>1, <2>1, <2>2, <2>3 DEF LinearInv
<1> QED BY <1>2, <1>3, <1>4 DEF Next, Done

(* Both sides have the reference's terms, so they have each other's. *)
LEMMA LinearInvAgrees ==
  ASSUME LinearInv
  PROVE  VerifierAgrees
<1>1. PoolIsSerial /\ GpuIsCanonical /\ (returned => GpuDone)
  BY PoolInvSerial, GpuInvCanonical DEF LinearInv
<1> QED BY <1>1 DEF PoolIsSerial, GpuIsCanonical, VerifierAgrees

(* In every reachable state of a call, whatever its shape, weights, regime and kernel, the
   pool's tasks and the device's threads are where the invariant says. *)
THEOREM LinearInvariant == Spec => []LinearInv
<1>1. Init => LinearInv
  BY LinearInitInv
<1>2. LinearInv /\ [Next]_vars => LinearInv'
  BY LinearNextInv
<1> QED BY <1>1, <1>2, PTL DEF Spec

(* TypeOK is an invariant: rows in progress end inside the output, blocks inside the grid. *)
THEOREM LinearTyped == Spec => []TypeOK
<1>1. LinearInv => TypeOK
  BY PoolInvTyped, GpuInvTyped DEF LinearInv, TypeOK
<1> QED BY <1>1, LinearInvariant, PTL

(* PoolIsSerial is an invariant: for any number of workers, threads and rows and any order
   of the tasks, the parallel kernels of src/ops/quant.rs return what the serial ones do. *)
THEOREM LinearPoolSerial == Spec => []PoolIsSerial
<1>1. LinearInv => PoolIsSerial
  BY PoolInvSerial DEF LinearInv
<1> QED BY <1>1, LinearInvariant, PTL

(* GpuIsCanonical is an invariant: for any block, tile and warp sizes and any interleaving
   of the threads and their copies, every kernel that lin() and pg() of the CUDA source launch
   writes each output once, with the term of the reference reduction. *)
THEOREM LinearGpuCanonical == Spec => []GpuIsCanonical
<1>1. LinearInv => GpuIsCanonical
  BY GpuInvCanonical DEF LinearInv
<1> QED BY <1>1, LinearInvariant, PTL

(* StagingIsWhole is an invariant: the barriers and the waits of the gemms keep a super-block
   that is staged or copied ahead from being read torn, or out of order. *)
THEOREM LinearStagingWhole == Spec => []StagingIsWhole
<1>1. LinearInv => StagingIsWhole
  BY GpuInvWhole DEF LinearInv
<1> QED BY <1>1, LinearInvariant, PTL

(* VerifierAgrees is an invariant: what the verifier's CPU returns has, element by element,
   the bits the issuer's device wrote. *)
THEOREM LinearVerifierAgrees == Spec => []VerifierAgrees
<1>1. LinearInv => VerifierAgrees
  BY LinearInvAgrees
<1> QED BY <1>1, LinearInvariant, PTL

(* RowsAgree is an invariant: canonical_sum adds a row of any length as canonical_dot adds its
   products, and the one chunk of the device's norm and softmax has the same bits for rows of
   at most a chunk and for no longer one. *)
THEOREM LinearRowsAgree == Spec => []RowsAgree
<1>1. TypeOK => RowsAgree
  <2> SUFFICES ASSUME TypeOK, NEW k \in call.k - SubBlock + 1..call.k
               PROVE  Softmax(k) = RmsNorm(k) /\ (DeviceRow(k) = RmsNorm(k) <=> k <= Chunk)
    BY DEF RowsAgree
  <2>1. call \in Call
    BY DEF TypeOK, GpuTypeOK
  <2>2. PICK m \in 1..MaxSupers * SubBlocks : call.k = m * SubBlock
    BY <2>1 DEF Call
  <2>3. SubBlock * 1 <= SubBlock * m /\ m \in Nat
    <3>1. m \in Int /\ 1 <= m
      BY <2>2, Sizes
    <3> QED BY <3>1, Sizes, TimesMonotone
  <2>4. call.k \in Nat /\ call.k - SubBlock + 1 >= 1
    BY <2>2, <2>3, Sizes
  <2>5. k \in Nat \ {0}
    BY <2>4, Sizes
  <2> QED BY <2>5, RowsAre
<1> QED BY <1>1, LinearTyped, PTL
=============================================================================

------------------------------ MODULE Reduction ------------------------------
(***************************************************************************)
(* The reductions of a linear layer: in which order the numbers of one     *)
(* output element are added (src/ops/quant.rs).  Adding floats is not      *)
(* associative, so a sum is represented by the term that computes it: two  *)
(* kernels give the same bits whatever the data exactly when they evaluate *)
(* the same term.  The integer dot of one super-block is exact, therefore  *)
(* independent of its own order, and is one leaf.                          *)
(*                                                                         *)
(* A row of Q4_K or Q6_K weights is a sequence of super-blocks, one of     *)
(* Q8_0 or Q5_0 a sequence of smaller blocks; a chunk is the unit a        *)
(* canonical dot product is cut into.                                      *)
(***************************************************************************)
EXTENDS Integers, Sequences

CONSTANTS
  Lanes,           \* CANON_LANES, 8
  SubBlock,        \* elements under one scale, 32
  SubBlocks,       \* sub-blocks of a super-block, 8
  SupersPerChunk,  \* CANON_CHUNK / Q4_K_BLOCK_NUMEL, 32
  MaxRows, MaxBatch, MaxSupers  \* bounds: the shape of a call

VARIABLE
  call             \* the layer's weights, the regime and the shape

Super == SubBlock * SubBlocks          \* Q4_K_BLOCK_NUMEL
Chunk == Super * SupersPerChunk        \* CANON_CHUNK

ASSUME ReductionAssumption ==
  /\ {Lanes, SubBlock, SubBlocks, SupersPerChunk, MaxRows, MaxBatch, MaxSupers}
       \subseteq Nat \ {0}
  /\ SubBlocks % 2 = 0 /\ Super % Lanes = 0

Lesser(m, n) == IF m < n THEN m ELSE n
CeilDiv(m, n) == (m + n - 1) \div n

-----------------------------------------------------------------------------
(* Terms.  Products and super-block dots name the activation row n, the    *)
(* weight row r and the place in the row they are taken from.              *)

Zero == << >>
Plus(left, right) == <<left, right>>

(* Where Q4_K keeps the weight of element e of a super-block: the byte, the
   nibble, and the sub-block whose scale and minimum apply.  Two sub-blocks
   share the bytes, one in the low nibbles, the next in the high ones. *)
WeightOf(e) ==
  LET pair == e \div (2 * SubBlock)
      l == e % (2 * SubBlock)
  IN IF l < SubBlock THEN <<pair * SubBlock + l, 0, 2 * pair>>
                     ELSE <<pair * SubBlock + l - SubBlock, 1, 2 * pair + 1>>

(* x[i] * w, i the place of element e of super-block s. *)
Product(n, r, s, e, w) == <<n, r, s * Super + e, s, w>>

(* The exact integer dot of super-block s, scaled: of Q4_K weights, with the
   minimums (d * xq.d * acc - dmin * xq.d * acc_m), and of Q6_K weights. *)
Q4Dot(n, r, s) == <<n, r, s, 4>>
Q6Dot(n, r, s) == <<n, r, s, 6>>
BlockDot(dtype, n, r, s) == IF dtype = "Q6_K" THEN Q6Dot(n, r, s) ELSE Q4Dot(n, r, s)

-----------------------------------------------------------------------------
(* One accumulator that starts at base and adds terms 1..len in order. *)
Accumulated(base, len, terms) ==
  LET acc[m \in 0..len] == IF m = 0 THEN base ELSE Plus(acc[m-1], terms[m])
  IN acc[len]

ChainFrom(base, len, term(_)) == Accumulated(base, len, [m \in 1..len |-> term(m)])

Chain(len, term(_)) == ChainFrom(Zero, len, term)

(* The pairwise tree over slots 1..len: at every level neighbours are added,
   and an odd last one is carried. *)
Tree(len, part) ==
  LET width[l \in 0..len] == IF l = 0 THEN len ELSE CeilDiv(width[l-1], 2)
      level[l \in 0..len] ==
        IF l = 0 THEN part
        ELSE [t \in 1..width[l] |-> IF 2*t <= width[l-1] THEN Plus(level[l-1][2*t-1], level[l-1][2*t])
                                    ELSE level[l-1][2*t-1]]
  IN IF len = 0 THEN Zero ELSE level[len][1]

TreeOver(len, part(_)) == Tree(len, [t \in 1..len |-> part(t)])

(* fixed_tree.  The code works in place: slot t is written after slots 2t
   and 2t+1 are read, and no later pair reads it. *)
FixedTree(part) == Tree(Len(part), part)

(* Lane j of canonical_chunk adds every Lanes-th product of the elements
   from .. to-1 of activation row n and weight row r to what it holds. *)
LaneSum(base, n, r, from, to, j) ==
  ChainFrom(base, (to - from - j) \div Lanes + 1,
    LAMBDA m : LET i == from + (m - 1) * Lanes + j - 1
               IN Product(n, r, i \div Super, i % Super, WeightOf(i % Super)))

CanonicalChunk(n, r, from, to) ==
  TreeOver(Lanes, LAMBDA j : LaneSum(Zero, n, r, from, to, j))

(* canonical_dot of k elements. *)
CanonicalDot(n, r, k) ==
  TreeOver(CeilDiv(k, Chunk),
    LAMBDA c : CanonicalChunk(n, r, (c - 1) * Chunk, Lesser(c * Chunk, k)))

-----------------------------------------------------------------------------
(* The rows of a norm and of a softmax.  A square or an exponential at i    *)
(* takes the place of the product of an activation row with itself.         *)

(* canonical_chunk_sum of the elements from .. to-1, as its two loops add
   them: element i of the chunk to lane i modulo Lanes. *)
ChunkSum(from, to) ==
  LET Element(i) == Product(0, 0, i \div Super, i % Super, WeightOf(i % Super))
      lanes[i \in from..to] ==
        IF i = from THEN [j \in 1..Lanes |-> Zero]
        ELSE [lanes[i-1] EXCEPT ![((i - 1 - from) % Lanes) + 1] = Plus(@, Element(i - 1))]
  IN FixedTree(lanes[to])

\* Mutant: an incomplete last chunk is left out.
ChunkCountWhole(k) == k \div Chunk

ChunkCount(k) == CeilDiv(k, Chunk)

(* canonical_sum, which goes by chunks only when there are several. *)
CanonicalSum(k) ==
  IF k <= Chunk THEN ChunkSum(0, k)
  ELSE TreeOver(ChunkCount(k), LAMBDA c : ChunkSum((c - 1) * Chunk, Lesser(c * Chunk, k)))

(* Every element of the row is scaled by a function of the one sum: of its
   squares (rms_norm_slice), of its exponentials (softmax_inplace). *)
RmsNorm(k) == [i \in 0..k-1 |-> <<i, CanonicalDot(0, 0, k)>>]
Softmax(k) == [i \in 0..k-1 |-> <<i, CanonicalSum(k)>>]

(* k_rms and the softmax of k_attention: one thread, one chunk. *)
DeviceRow(k) == [i \in 0..k-1 |-> <<i, ChunkSum(0, k)>>]

-----------------------------------------------------------------------------
(* The calls.  A linear layer is called for a decode step, for the batch of
   a prefill (whose kernels are those of regime 3), or by the isolation hook
   of the integer Q4_K kernels. *)
KQuant == {"Q4_K", "Q6_K"}

Call ==
  {c \in [entry : {"step", "prefill", "hook"}, dtype : KQuant \cup {"Q8_0", "Q5_0"},
          regime : {2, 3}, rows : 1..MaxRows, batch : 1..MaxBatch,
          k : {m * SubBlock : m \in 1..MaxSupers * SubBlocks}] :
     /\ c.dtype \in KQuant => c.k % Super = 0
     /\ c.entry = "prefill" => c.regime = 3
     /\ c.entry = "hook" => c.dtype = "Q4_K" /\ c.regime = 2
     /\ c.batch > 1 => c.entry = "prefill"}

Supers(c) == c.k \div Super

(* The reduction of a call, which linear_dispatch chooses: the integer dots
   in a running sum; the dequantized weights and a canonical dot, fused or
   row by row; the integer dots combined by the tree. *)
Scheme(c) ==
  CASE c.entry = "hook" -> "tree"
    [] c.entry # "hook" /\ c.regime = 3 /\ c.dtype \in KQuant -> "running"
    [] c.entry # "hook" /\ c.regime = 2 /\ c.dtype = "Q4_K" -> "fused"
    [] c.entry # "hook" /\ c.regime = 2 /\ c.dtype = "Q6_K" -> "tree"
    [] c.dtype \notin KQuant -> "dense"

(* The element of the output, as a serial kernel with that scheme for that
   dtype computes it. *)
Dot(scheme, dtype, n, r, k) ==
  CASE scheme \in {"fused", "dense"} -> CanonicalDot(n, r, k)
    [] scheme = "tree" -> TreeOver(k \div Super, LAMBDA s : BlockDot(dtype, n, r, s - 1))
    [] scheme = "running" -> Chain(k \div Super, LAMBDA s : BlockDot(dtype, n, r, s - 1))

Reference(c, n, r) == Dot(Scheme(c), c.dtype, n, r, c.k)
=============================================================================

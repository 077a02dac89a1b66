------------------------------ MODULE GpuLinear ------------------------------
(***************************************************************************)
(* A quantized linear layer on a CUDA device: the kernels of               *)
(* cuda/vt_cuda.cu that lin() and pg() launch.  The threads of a block     *)
(* share memory and meet at barriers; blocks share nothing but the output, *)
(* so one block at a time is resident here, in any order, and finds in     *)
(* shared memory what the block before it left there.                      *)
(*                                                                         *)
(*   row     one thread per output element (k_q6k_dot, k_q4k_rs, k_q6k_rs, *)
(*           k_q8_0, k_q5_0)                                               *)
(*   flat    the same over the elements of a batch (k_q6k_rs_gemm_simple)  *)
(*   coop    one thread per lane of a row (k_q4k_coop)                     *)
(*   warp    the threads of a warp share out the super-blocks of a row     *)
(*           (k_q4k_q8_dot_warp)                                           *)
(*   staged  a tile of outputs per block, each super-block staged in       *)
(*           shared memory (k_q4k_rs_gemm, k_q4k_rs_gemm_wmma,             *)
(*           k_q6k_rs_gemm)                                                *)
(*   async   the same with the raw super-blocks fetched one ahead by       *)
(*           asynchronous copies into two buffers (k_q4k_rs_gemm_mma)      *)
(*                                                                         *)
(* The quantization of the activations, a launch of its own in front of an *)
(* integer kernel, is part of the leaves Q4Dot and Q6Dot.  The tensor-core *)
(* kernels share out the outputs of a tile among their threads in another  *)
(* way than Outputs; which thread owns an output changes no value.         *)
(***************************************************************************)
EXTENDS Reduction

CONSTANTS
  BlockRows,   \* rows of a coop block, 8
  WarpSize,    \* 32
  RowThreads,  \* threads of a row or flat block, 64 and 128
  TileRows,    \* a gemm block has TileRows x TileCols threads (16 x 16) ...
  TileCols,
  Reg          \* ... of Reg x Reg outputs each (4 x 4)

Gemm == {"staged", "async"}

VARIABLES
  kernel,  \* the kernel the host launches: [grid, scheme, dtype]
  accum,   \* acc: the dot products are added to the residual in out
  blocks,  \* the blocks that have not started
  block,   \* the resident block <<x, y>>, or NoBlock
  th,      \* the threads of the block: [pc, s, got]
  sh,      \* coop and warp: the shared partial sums
  stage,   \* gemm: the tile and super-block of the part of the staged data each thread wrote
  raw,     \* async: the same of the two raw buffers
  flight,  \* async: the super-blocks of each thread's copies that have not landed
  out      \* out[n][row]

K(grid, scheme, dtype) == [grid |-> grid, scheme |-> scheme, dtype |-> dtype]

(* lin(): the kernel of a decode step. *)
StepKernel(c) ==
  CASE c.regime = 3 /\ c.dtype \in KQuant -> K("row", "running", c.dtype)
    [] c.regime = 2 /\ c.dtype = "Q6_K" -> K("row", "tree", "Q6_K")
    [] c.dtype \notin KQuant -> K("row", "dense", c.dtype)
    [] c.regime = 2 /\ c.dtype = "Q4_K" -> K("coop", "fused", "Q4_K")

\* Mutant: every dtype but Q4_K is sent to the Q6_K kernels.
PrefillKernelsTruthy(c) ==
  IF c.dtype # "Q4_K" THEN {K(g, "running", "Q6_K") : g \in {"flat", "staged"}}
  ELSE {K(g, "running", "Q4_K") :
          g \in {"staged"} \cup IF c.rows % (TileRows * Reg) = 0 THEN {"async"} ELSE {}}

(* pg(): the kernels of a prefill.  The environment may ask for the simple
   Q6_K kernel, and the device and the shape decide on the async one, which
   needs whole tiles of rows. *)
PrefillKernels(c) ==
  CASE c.dtype \notin KQuant -> {K("row", "dense", c.dtype)}
    [] c.dtype = "Q6_K" -> {K(g, "running", "Q6_K") : g \in {"flat", "staged"}}
    [] c.dtype = "Q4_K" ->
         {K(g, "running", "Q4_K") :
            g \in {"staged"} \cup IF c.rows % (TileRows * Reg) = 0 THEN {"async"} ELSE {}}

(* vt_cuda_test_linear_int: a thread or a warp per row. *)
HookKernels == {K(g, "tree", "Q4_K") : g \in {"row", "warp"}}

Launches(c) ==
  CASE c.entry = "step" -> {StepKernel(c)}
    [] c.entry = "prefill" -> PrefillKernels(c)
    [] c.entry = "hook" -> HookKernels

Junk == <<0>>                       \* shared memory before anything is written
Residual(n, r) == <<n, r, 0, 0, 0>> \* what out holds before the call
NoBlock == <<0>>
NotStaged == <<0>>
Torn == MaxSupers                   \* read from data that is not all of one super-block

Thread ==
  0 .. (CASE kernel.grid \in {"row", "flat"} -> RowThreads
          [] kernel.grid = "coop" -> BlockRows * Lanes
          [] kernel.grid = "warp" -> WarpSize
          [] kernel.grid \in Gemm -> TileRows * TileCols) - 1

(* A thread at pc, in round s, that has added the super-blocks got. *)
Doing(pc, s, got) == [pc |-> pc, s |-> s, got |-> got]

(* The blocks of a launch; a row kernel is launched for each activation. *)
Grid(c, g) ==
  CASE g = "row" -> (0 .. CeilDiv(c.rows, RowThreads) - 1) \X (0 .. c.batch - 1)
    [] g = "flat" -> (0 .. CeilDiv(c.rows * c.batch, RowThreads) - 1) \X {0}
    [] g = "coop" -> (0 .. CeilDiv(c.rows, BlockRows) - 1) \X {0}
    [] g = "warp" -> (0 .. c.rows - 1) \X {0}
    [] g \in Gemm -> (0 .. CeilDiv(c.rows, TileRows * Reg) - 1)
                       \X (0 .. CeilDiv(c.batch, TileCols * Reg) - 1)

Chunks == CeilDiv(Supers(call), SupersPerChunk)

(* __shared__ float sh[8][8][8] and parts[256]: neither is as large as the
   widest row there could be, and the launch does not compare. *)
SharedSlot ==
  CASE kernel.grid = "coop" -> (0..BlockRows-1) \X (0..Lanes-1) \X (0..Chunks-1)
    [] kernel.grid = "warp" -> 0..Supers(call)-1
    [] OTHER -> {}

FirstStep == CASE kernel.grid = "async" -> "load" [] kernel.grid = "staged" -> "unpack"
               [] kernel.grid \in {"row", "flat"} -> "row" [] OTHER -> "sum"

GpuInit ==
  /\ kernel \in Launches(call)
  /\ accum \in IF call.entry = "hook" THEN {FALSE} ELSE BOOLEAN
  /\ blocks = Grid(call, kernel.grid) /\ block = NoBlock
  /\ th = [t \in Thread |-> Doing("exit", 0, << >>)]
  /\ sh = [i \in SharedSlot |-> Junk]
  /\ stage = [t \in Thread |-> NotStaged]
  /\ raw = [buf \in {0, 1} |-> [t \in Thread |-> NotStaged]]
  /\ flight = [t \in Thread |-> {}]
  /\ out = [n \in 0..call.batch-1 |-> [r \in 0..call.rows-1 |-> Residual(n, r)]]

-----------------------------------------------------------------------------
At(t, pc) == block # NoBlock /\ th[t].pc = pc
Goto(t, pc) == th' = [th EXCEPT ![t].pc = pc]

(* out[o] = acc ? out[o] + v : v. *)
Stored(n, r, v) == IF accum THEN Plus(out[n][r], v) ELSE v

StartBlock ==
  /\ \A t \in Thread : th[t].pc = "exit"
  /\ \E bl \in blocks :
       /\ block' = bl
       /\ blocks' = blocks \ {bl}
  /\ th' = [t \in Thread |-> Doing(FirstStep, 0, << >>)]
  /\ UNCHANGED <<call, kernel, accum, sh, stage, raw, flight, out>>

(* __syncthreads: every thread of the block waits for all the others. *)
AfterBarrier(thread) ==
  CASE thread.pc = "summed" -> [thread EXCEPT !.pc = "combine"]
    [] thread.pc = "arrived" -> [thread EXCEPT !.pc = "unpack"]
    [] thread.pc = "unpacked" -> [thread EXCEPT !.pc = "compute"]
    [] thread.pc = "computed" /\ thread.s + 1 < Supers(call) ->
         Doing(FirstStep, thread.s + 1, thread.got)
    [] thread.pc = "computed" /\ thread.s + 1 = Supers(call) ->
         [thread EXCEPT !.pc = "store"]

Barrier ==
  /\ block # NoBlock
  /\ \E pc \in {"summed", "arrived", "unpacked", "computed"} :
       \A t \in Thread : th[t].pc = pc
  /\ th' = [t \in Thread |-> AfterBarrier(th[t])]
  /\ UNCHANGED <<call, kernel, accum, blocks, block, sh, stage, raw, flight, out>>

-----------------------------------------------------------------------------
(* The element of thread t: of one activation row, or counted over all. *)
Element(t) ==
  LET i == block[1] * RowThreads + t
  IN IF kernel.grid = "row" THEN <<block[2], i>> ELSE <<i \div call.rows, i % call.rows>>

(* One thread per element: everything it needs is its own. *)
RowDot(t) ==
  LET n == Element(t)[1]
      r == Element(t)[2]
  IN /\ At(t, "row")
     /\ out' = IF n < call.batch /\ r < call.rows
               THEN [out EXCEPT ![n][r] =
                       Stored(n, r, Dot(kernel.scheme, kernel.dtype, n, r, call.k))]
               ELSE out
     /\ Goto(t, "exit")
     /\ UNCHANGED <<call, kernel, accum, blocks, block, sh, stage, raw, flight>>

(* The cooperative kernel: thread t sums lane t % Lanes of one row. *)
CoopLane(t) == t % Lanes
CoopSlot(t) == t \div Lanes
CoopRow(t) == block[1] * BlockRows + CoopSlot(t)

(* Where the weight of position p is: p >> 6, p & 63, within & 31, within >> 5. *)
CoopWeight(p) ==
  LET pair == p \div (2 * SubBlock)
      within == p % (2 * SubBlock)
      half == within \div SubBlock
  IN <<pair * SubBlock + (within % SubBlock), half, 2 * pair + half>>

(* This thread's lane of chunk c: its positions of each super-block, in order. *)
LaneChunk(t, c) ==
  LET perSuper == Super \div Lanes
      supers == Lesser(SupersPerChunk, Supers(call) - c * SupersPerChunk)
  IN Chain(supers * perSuper,
       LAMBDA m : LET p == CoopLane(t) + (((m - 1) % perSuper) * Lanes)
                  IN Product(0, CoopRow(t), c * SupersPerChunk + ((m - 1) \div perSuper),
                             p, CoopWeight(p)))

\* Mutant: a thread without a row returns before the barrier.
CoopSumReturnsEarly(t) ==
  /\ kernel.grid = "coop" /\ At(t, "sum")
  /\ IF CoopRow(t) < call.rows /\ th[t].s < Chunks
     THEN /\ sh' = [sh EXCEPT ![<<CoopSlot(t), CoopLane(t), th[t].s>>] =
                      LaneChunk(t, th[t].s)]
          /\ th' = [th EXCEPT ![t].s = @ + 1]
     ELSE Goto(t, IF CoopRow(t) < call.rows THEN "summed" ELSE "exit") /\ UNCHANGED sh
  /\ UNCHANGED <<call, kernel, accum, blocks, block, stage, raw, flight, out>>

(* A chunk of a lane; a thread without a row goes straight to the barrier. *)
CoopSum(t) ==
  /\ kernel.grid = "coop" /\ At(t, "sum")
  /\ IF CoopRow(t) < call.rows /\ th[t].s < Chunks
     THEN /\ sh' = [sh EXCEPT ![<<CoopSlot(t), CoopLane(t), th[t].s>>] =
                      LaneChunk(t, th[t].s)]
          /\ th' = [th EXCEPT ![t].s = @ + 1]
     ELSE Goto(t, "summed") /\ UNCHANGED sh
  /\ UNCHANGED <<call, kernel, accum, blocks, block, stage, raw, flight, out>>

CoopTotal(t) ==
  TreeOver(Chunks, LAMBDA c :
    TreeOver(Lanes, LAMBDA j : sh[<<CoopSlot(t), j - 1, c - 1>>]))

(* The thread of lane 0 combines the lanes of its row. *)
CoopCombine(t) ==
  /\ kernel.grid = "coop" /\ At(t, "combine")
  /\ out' = IF CoopRow(t) < call.rows /\ CoopLane(t) = 0
            THEN [out EXCEPT ![0][CoopRow(t)] = Stored(0, CoopRow(t), CoopTotal(t))]
            ELSE out
  /\ Goto(t, "exit")
  /\ UNCHANGED <<call, kernel, accum, blocks, block, sh, stage, raw, flight>>

(* The warp kernel: thread t does super-blocks t, t + 32, ... of row blockIdx.x. *)
WarpSum(t) ==
  LET s == t + th[t].s * WarpSize
  IN /\ kernel.grid = "warp" /\ At(t, "sum")
     /\ IF s < Supers(call)
        THEN /\ sh' = [sh EXCEPT ![s] = BlockDot(kernel.dtype, 0, block[1], s)]
             /\ th' = [th EXCEPT ![t].s = @ + 1]
        ELSE Goto(t, "summed") /\ UNCHANGED sh
     /\ UNCHANGED <<call, kernel, accum, blocks, block, stage, raw, flight, out>>

WarpCombine(t) ==
  /\ kernel.grid = "warp" /\ At(t, "combine")
  /\ out' = IF t = 0 THEN [out EXCEPT ![0][block[1]] =
                             Stored(0, block[1], TreeOver(Supers(call), LAMBDA s : sh[s-1]))]
                     ELSE out
  /\ Goto(t, "exit")
  /\ UNCHANGED <<call, kernel, accum, blocks, block, sh, stage, raw, flight>>
-----------------------------------------------------------------------------
(* The gemms.  What a thread stages is recorded as the tile and the        *)
(* super-block it comes from; a thread that computes reads what all the    *)
(* threads staged, since each stages a stripe of every row.                *)

Whole(parts) ==
  IF \E s \in 0..Supers(call)-1 : \A t \in Thread : parts[t] = <<block, s>>
  THEN (CHOOSE s \in 0..Supers(call)-1 : \A t \in Thread : parts[t] = <<block, s>>)
  ELSE Torn

(* Issue the copies of the next super-block; before the first one, its own too. *)
Load(t) ==
  LET s == th[t].s
      ahead == {s + 1} \cap 0..Supers(call)-1
  IN /\ kernel.grid = "async" /\ At(t, "load")
     /\ flight' = [flight EXCEPT ![t] = @ \cup ahead \cup (IF s = 0 THEN {0} ELSE {})]
     /\ Goto(t, "loaded")
     /\ UNCHANGED <<call, kernel, accum, blocks, block, sh, stage, raw, out>>

(* A copy lands, at any time after it is issued. *)
Land(t) ==
  /\ \E s \in flight[t] :
       /\ flight' = [flight EXCEPT ![t] = @ \ {s}]
       /\ raw' = [raw EXCEPT ![s % 2][t] = <<block, s>>]
  /\ UNCHANGED <<call, kernel, accum, blocks, block, th, sh, stage, out>>

\* Mutant: the copies of the last super-block are not waited for.
WaitsForAllButOne(t) == \A s \in flight[t] : s >= Lesser(th[t].s + 1, Supers(call) - 1)

(* __pipeline_wait_prior(s + 1 < ns ? 1 : 0). *)
WaitPrior(t) == \A s \in flight[t] : s > th[t].s

Arrive(t) ==
  /\ At(t, "loaded") /\ WaitPrior(t)
  /\ Goto(t, "arrived")
  /\ UNCHANGED <<call, kernel, accum, blocks, block, sh, stage, raw, flight, out>>

(* Write this thread's stripe of the staged super-block: from global memory,
   or from the raw buffer all the threads filled. *)
Unpack(t) ==
  /\ At(t, "unpack")
  /\ stage' = [stage EXCEPT ![t] =
       IF kernel.grid = "async" THEN <<block, Whole(raw[th[t].s % 2])>> ELSE <<block, th[t].s>>]
  /\ Goto(t, "unpacked")
  /\ UNCHANGED <<call, kernel, accum, blocks, block, sh, raw, flight, out>>

(* Add the dots of the staged super-block to the running sums.  The async
   kernel reads the activations straight from the raw buffer. *)
Compute(t) ==
  LET s == Whole(stage)
  IN /\ At(t, "compute")
     /\ th' = [th EXCEPT ![t] = Doing("computed", @.s,
          Append(@.got, IF kernel.grid = "async" /\ Whole(raw[th[t].s % 2]) # s THEN Torn ELSE s))]
     /\ UNCHANGED <<call, kernel, accum, blocks, block, sh, stage, raw, flight, out>>

(* The outputs of thread t, those outside the matrix dropped. *)
Outputs(t) ==
  LET tm == block[1] * TileRows * Reg
      tn == block[2] * TileCols * Reg
  IN {o \in (0..call.batch-1) \X (0..call.rows-1) :
        /\ (o[2] - tm) \div Reg = t \div TileCols
        /\ (o[1] - tn) \div Reg = t % TileCols}

Store(t) ==
  /\ At(t, "store")
  /\ out' = [n \in 0..call.batch-1 |-> [r \in 0..call.rows-1 |->
       IF <<n, r>> \in Outputs(t)
       THEN Stored(n, r, Chain(Len(th[t].got), LAMBDA m : BlockDot(kernel.dtype, n, r, th[t].got[m])))
       ELSE out[n][r]]]
  /\ Goto(t, "exit")
  /\ UNCHANGED <<call, kernel, accum, blocks, block, sh, stage, raw, flight>>

-----------------------------------------------------------------------------
GpuNext ==
  \/ StartBlock \/ Barrier
  \/ \E t \in Thread :
       \/ RowDot(t)
       \/ CoopSum(t) \/ CoopCombine(t)
       \/ WarpSum(t) \/ WarpCombine(t)
       \/ Load(t) \/ Land(t) \/ Arrive(t) \/ Unpack(t) \/ Compute(t) \/ Store(t)

(* cudaDeviceSynchronize returns. *)
GpuDone == blocks = {} /\ \A t \in Thread : th[t].pc = "exit"

GpuTypeOK ==
  /\ call \in Call /\ kernel \in Launches(call) /\ accum \in BOOLEAN
  /\ blocks \subseteq Grid(call, kernel.grid) /\ block \in Grid(call, kernel.grid) \cup {NoBlock}
  /\ \A t \in Thread :
       /\ th[t].pc \in {"row", "sum", "summed", "combine", "load", "loaded", "arrived",
                        "unpack", "unpacked", "compute", "computed", "store", "exit"}
       /\ th[t].s \in 0..Supers(call)
       /\ flight[t] \subseteq 0..Supers(call)-1

(* Whatever the interleaving of the threads of a block and the order of the
   blocks, every output is written once, with the term of the reference
   reduction, added to the residual when the kernel accumulates.  (The
   kernels' claim to be bit-identical to the one-thread-per-row kernels and
   to the engine's CPU linears.) *)
GpuIsCanonical ==
  GpuDone =>
    \A n \in 0..call.batch-1, r \in 0..call.rows-1 :
      out[n][r] = IF accum THEN Plus(Residual(n, r), Reference(call, n, r))
                           ELSE Reference(call, n, r)

(* No thread computes with a super-block that is partly another one's, and
   each adds the super-blocks in their order: the double buffer is never
   overwritten while it is read. *)
StagingIsWhole ==
  \A t \in Thread : \A k \in 1..Len(th[t].got) : th[t].got[k] = k - 1
=============================================================================

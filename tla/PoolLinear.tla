----------------------------- MODULE PoolLinear -----------------------------
(***************************************************************************)
(* A quantized linear layer on the CPU: linear_dispatch and the kernels of *)
(* src/ops/quant.rs.  The rows of an output are cut into tasks that the    *)
(* workers of a rayon pool take in any order; a worker goes over its rows  *)
(* one after the other, block by block, with accumulators and scratch      *)
(* space that it reuses.  A call that is not parallel is one task.         *)
(***************************************************************************)
EXTENDS Reduction

CONSTANTS
  Worker,          \* the threads of the pool
  MaxThreads,      \* bound: the parallelism a call may find
  TasksPerThread,  \* 4
  ParMinRows       \* PAR_MIN_ROWS, 512

VARIABLES
  threads,   \* available_parallelism
  b,         \* the activation row being multiplied
  todo,      \* the tasks of this activation row that nobody has taken
  worker,    \* what each worker is doing
  y,         \* y_out[b][row], zeros before it is written
  returned   \* the call has returned Ok

(* The f32 Q4_K kernel and the integer kernels have a parallel twin; few
   rows are left to the serial one. *)
Parallel(c, k) ==
  k > 1 /\ Scheme(c) \in {"fused", "tree"} /\ (c.entry = "hook" \/ c.rows >= ParMinRows)

(* Rows of a task. *)
Grain(c, k) == IF Parallel(c, k) THEN CeilDiv(c.rows, k * TasksPerThread) ELSE c.rows

Tasks(c, k) == 0 .. CeilDiv(c.rows, Grain(c, k)) - 1

\* Mutant: the last task reaches over the end of the output.
TaskEndUnclamped(t) == (t + 1) * Grain(call, threads)

(* Task t is the rows from t * grain up to here. *)
TaskEnd(t) == Lesser((t + 1) * Grain(call, threads), call.rows)

(* The accumulators at the start of a row. *)
Fresh == [lanes |-> [j \in 1..Lanes |-> Zero], parts |-> << >>, sum |-> Zero]

\* Mutant: the scratch of the previous row is not cleared.
ClearForgotten(acc) == [acc EXCEPT !.lanes = Fresh.lanes, !.sum = Zero]

(* What the accumulators are when a worker starts its next row. *)
NextRow(acc) == Fresh

Idle == [busy |-> FALSE, row |-> 0, end |-> 0, step |-> 0, acc |-> Fresh]

(* With the rows from row to end - 1 before it, and step blocks of the first one done. *)
Working(row, end, step, acc) ==
  [busy |-> TRUE, row |-> row, end |-> end, step |-> step, acc |-> acc]

(* The steps of a row: super-blocks, or the chunks of a canonical dot. *)
Steps == IF Scheme(call) = "dense" THEN CeilDiv(call.k, Chunk) ELSE Supers(call)

\* Mutant: the incomplete chunk at the end of the row is lost.
ClosesOnBoundary(s) == (s + 1) % SupersPerChunk = 0

(* Super-block s closes a chunk. *)
Closes(s) == (s + 1) % SupersPerChunk = 0 \/ s + 1 = Supers(call)

(* The fused kernel carries its lanes from one super-block to the next. *)
FusedStep(acc, r, s) ==
  LET lane(j) == LaneSum(acc.lanes[j], b, r, s * Super, (s + 1) * Super, j)
  IN IF Closes(s)
     THEN [acc EXCEPT !.parts = Append(@, TreeOver(Lanes, lane)), !.lanes = Fresh.lanes]
     ELSE [acc EXCEPT !.lanes = [j \in 1..Lanes |-> lane(j)]]

(* Chunk c of a dequantized row. *)
DenseStep(acc, r, c) ==
  [acc EXCEPT !.parts =
     Append(@, CanonicalChunk(b, r, c * Chunk, Lesser((c + 1) * Chunk, call.k)))]

TreeStep(acc, r, s) == [acc EXCEPT !.parts = Append(@, BlockDot(call.dtype, b, r, s))]
RunningStep(acc, r, s) == [acc EXCEPT !.sum = Plus(@, BlockDot(call.dtype, b, r, s))]

Step(acc, r, s) ==
  CASE Scheme(call) = "fused" -> FusedStep(acc, r, s)
    [] Scheme(call) = "dense" -> DenseStep(acc, r, s)
    [] Scheme(call) = "tree" -> TreeStep(acc, r, s)
    [] Scheme(call) = "running" -> RunningStep(acc, r, s)

Total(acc) == IF Scheme(call) = "running" THEN acc.sum ELSE FixedTree(acc.parts)

-----------------------------------------------------------------------------
PoolInit ==
  /\ threads \in 1..MaxThreads
  /\ b = 0 /\ todo = Tasks(call, threads)
  /\ worker = [w \in Worker |-> Idle]
  /\ y = [n \in 0..call.batch-1 |-> [r \in 0..call.rows-1 |-> Zero]]
  /\ returned = FALSE

(* par_chunks_mut: an idle worker takes a task nobody has. *)
Take(w) ==
  /\ ~worker[w].busy
  /\ \E t \in todo :
       /\ todo' = todo \ {t}
       /\ worker' = [worker EXCEPT ![w] =
            Working(t * Grain(call, threads), TaskEnd(t), 0, Fresh)]
  /\ UNCHANGED <<call, threads, b, y, returned>>

(* The next block of the worker's row. *)
DotBlock(w) ==
  /\ worker[w].busy /\ worker[w].step < Steps
  /\ worker' = [worker EXCEPT ![w] =
       Working(@.row, @.end, @.step + 1, Step(@.acc, @.row, @.step))]
  /\ UNCHANGED <<call, threads, b, todo, y, returned>>

(* The row is complete; the worker goes on with the next one of its task. *)
WriteRow(w) ==
  /\ worker[w].busy /\ worker[w].step = Steps
  /\ y' = [y EXCEPT ![b][worker[w].row] = Total(worker[w].acc)]
  /\ worker' = [worker EXCEPT ![w] =
       IF @.row + 1 < @.end THEN Working(@.row + 1, @.end, 0, NextRow(@.acc)) ELSE Idle]
  /\ UNCHANGED <<call, threads, b, todo, returned>>

(* for_each returns when every task is done. *)
Joined == todo = {} /\ \A w \in Worker : ~worker[w].busy

NextActivation ==
  /\ Joined /\ b + 1 < call.batch
  /\ b' = b + 1 /\ todo' = Tasks(call, threads)
  /\ UNCHANGED <<call, threads, worker, y, returned>>

Return ==
  /\ Joined /\ b + 1 = call.batch /\ ~returned
  /\ returned' = TRUE
  /\ UNCHANGED <<call, threads, b, todo, worker, y>>

PoolNext ==
  \/ \E w \in Worker : Take(w) \/ DotBlock(w) \/ WriteRow(w)
  \/ NextActivation \/ Return

-----------------------------------------------------------------------------
PoolTypeOK ==
  /\ call \in Call /\ threads \in Nat \ {0} /\ b \in 0..call.batch-1
  /\ todo \subseteq 0..call.rows-1
  /\ \A w \in Worker :
       /\ worker[w].busy \in BOOLEAN /\ worker[w].step \in 0..Steps
       /\ worker[w].busy => worker[w].row < worker[w].end /\ worker[w].end <= call.rows
  /\ returned \in BOOLEAN

(* However the rows are cut into tasks, whoever takes them and in whatever
   order, when the call returns every element of the output has the bits of
   the serial reference: dequantize the row and take its canonical dot, or
   combine its integer dots with the tree or the running sum.
   (linear_q4_k_fused_parallel's claim, and
   parallel_q4k_matches_serial_at_every_thread_count.) *)
PoolIsSerial ==
  returned =>
    \A n \in 0..call.batch-1, r \in 0..call.rows-1 : y[n][r] = Reference(call, n, r)
=============================================================================

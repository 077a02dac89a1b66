--------------------------- MODULE LinearAgreement ---------------------------
(***************************************************************************)
(* The promise the kernels are written for: one linear layer, computed on  *)
(* a CUDA device by the issuer of a certificate and on a CPU by its        *)
(* verifier, has the same bits, whatever the number of threads of either   *)
(* and the order they run in.  The two share nothing but the call, so the  *)
(* verifier starts when the device is done.                                *)
(***************************************************************************)
EXTENDS PoolLinear, GpuLinear, Blocks

ASSUME LinearAssumption ==
  {MaxThreads, TasksPerThread, ParMinRows,
   BlockRows, WarpSize, RowThreads, TileRows, TileCols, Reg} \subseteq Nat \ {0}

cpu == <<threads, b, todo, worker, y, returned>>
gpu == <<kernel, accum, blocks, block, th, sh, stage, raw, flight, out>>
vars == <<call, cpu, gpu>>

Init == call \in Call /\ PoolInit /\ GpuInit

Issue == GpuNext /\ UNCHANGED cpu
Verify == GpuDone /\ PoolNext /\ UNCHANGED gpu
Done == returned /\ UNCHANGED vars

Next == Issue \/ Verify \/ Done

(* The hardware schedules every resident thread, and rayon every task. *)
Spec == Init /\ [][Next]_vars /\ WF_vars(Issue) /\ WF_vars(Verify)

-----------------------------------------------------------------------------
TypeOK == PoolTypeOK /\ GpuTypeOK

(* Every output element of the CPU is that of the device.  The CPU caller
   adds the residual after the call; the accumulating kernels add it
   themselves. *)
VerifierAgrees ==
  returned =>
    \A n \in 0..call.batch-1, r \in 0..call.rows-1 :
      out[n][r] = IF accum THEN Plus(Residual(n, r), y[n][r]) ELSE y[n][r]

(* The weights of a call, and those of type Q4_0, which only the CPU multiplies, are
   the same numbers to every kernel: loops, lanes, tiles and tables of bit positions
   agree, no bit is read twice and none is left out, or a certificate of one kernel
   could not be replayed by another. *)
LayoutsAgree == {call.dtype, "Q4_0"} \subseteq Agreeing

(* The scales of a call's weights, halves in every type but F32, are read exactly. *)
ScalesExact == call.dtype # "F32" => HalvesExact

(* The row a call multiplies, or one that ends within its last sub-block: a norm and a
   softmax of it have the bits of one canonical dot (canonical_sum_equals_dot_with_ones,
   for every length), and those of the device exactly as long as it is one chunk.  "feat
   < 8192 so one chunk is exact" is a condition no launch checks. *)
RowsAgree ==
  returned =>
    \A k \in call.k - SubBlock + 1..call.k :
      Softmax(k) = RmsNorm(k) /\ (DeviceRow(k) = RmsNorm(k) <=> k <= Chunk)

(* No call hangs: no thread waits at a barrier that another never reaches. *)
CallsReturn == <>returned
=============================================================================

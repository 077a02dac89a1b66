# Verification of vitni-tensor in TLA+

vitni-tensor runs LLM inference so that a *receipt* (a 32-byte digest over the
request, the regime of numerics and the output tokens) can be reproduced bit for
bit on another machine. What a verifier relies on is that the receipt of a
request is a function of the request: not of the driver that served it, of what
an engine did before, of the backend, of the order in which rows are computed.
These modules state that, and the parts it rests on, about the code under
`src/`, `cuda/` and `metal/`.

Paths below are relative to the repository's root.

## 1. The system

| Component | State it keeps | Operations |
|---|---|---|
| Generation drivers (`src/model/inference.rs`) | the locals of one call: `pos`, `cur`, `generated`, a `CertBuilder` | `run`, `run_with_sink`, `run_quantized`, `run_quantized_with_sink`, `run_quantized_regime3*`, `run_quantized_with_forward`, `run_quantized_with_prefill` |
| Certificate builder (`src/cert/builder.rs`) | five lists of records, three u32 counters, the `sealed` flag (debug builds) | `declare_input/output/op/activation/intervention`, `finalize`, `finalize_with_sink` |
| Sinks (`src/cert/sink.rs`) | the host runtime's certificate (outside the repository) | `on_request`, `on_input`, `on_op`, `on_activation`, `on_intervention`, `on_output`, `on_finalize` |
| Receipt bytes (`src/cert/builder.rs:450-605`) | none | `compute_digest` (v2), `compute_digest_v1`, `write_*` |
| CPU engines (`src/model/forward.rs`, `forward_quantized.rs`) | `RunState`: `key_cache`, `value_cache`, scratch, `regime` | `step*` (one token), `RunState::new`, `set_regime` |
| GPU engines (`cuda/`, `metal/`) | device caches `d_keyc`, `d_valc`, weights, the handle's `regime` | `vt_cuda_step`, `vt_cuda_prefill`, `vt_cuda_reset`; `MetalForward::step` |
| Recorders and interventions (`forward_quantized.rs:64-272`) | `PerOpRecorder`, `PerActivationRecorder`, `InterventionPlan`, `LensCapture` | the checkpoints of `step_with_recorders` |
| Canonical arithmetic (`src/ops/quant.rs`, `src/ops/matmul.rs`) | none between calls; per task, the lanes and the scratch of partial sums | `linear_dispatch`, `canonical_dot`, `canonical_sum`, `rms_norm`, `softmax`, `linear_q4_k_*`, `linear_q6_k_*` in serial, row-parallel and fused forms |
| CUDA linear kernels (`cuda/vt_cuda.cu`) | shared memory of a block, two raw buffers and copies in flight, accumulators of a thread | `lin`, `pg`, `vt_cuda_test_linear_int` and the kernels they launch |
| Container parser (`src/model/gguf.rs`) | a cursor, the metadata, the records, the slices and the table of names | `GgufFile::parse`, `tensor` |
| Loaders (`config.rs`, `quant_weights.rs`, `weights.rs`) | none (borrowed slices of a file) | `Config::from_gguf`, `QuantizedWeights::from_gguf`, `Config::from_header`, `Weights::from_blob` |
| Block formats (`src/ops/quant.rs`, `src/dtype.rs`, `cuda/vt_cuda.cu`) | none | `dequantize_*`, `quantize_*`, the fused and integer dots, `f16_to_f32`, `f32_to_f16` |
| Tokenizers (`src/tokenizer/`) | vocabulary, scores and merge ranks, read-only; the symbols of the text being encoded | loading, `encode`, `decode` for llama2.c, GGUF-SPM, GGUF-BPE |
| Tensors and float operations (`src/tensor.rs`, `src/ops/`) | none | shapes, matmul, softmax, rope, rms_norm, argmax |
| Gemma pass (`src/model/gemma.rs`), conformance forward (`kernels/conformance-forward/src/forward_gpu.rs`) | caches and scratch like the engines | `step` |
| Accelerator trait (`src/accel/`), tools and conformance programs | none of their own | see section 8 |

How they interact: a caller (or a server that keeps one engine for many
requests) calls a driver. The driver feeds tokens, one at a time or the prompt
as a batch, to a *forward* (a closure over an engine), takes the argmax of the
logits it returns, and declares inputs and outputs to a builder. The builder is
then consumed: it hashes its records into a software `Cert` and, with a sink,
replays every record into the host runtime's own certificate. Engines keep their
KV cache between calls; nothing but the length check of the driver keeps a
position inside it. Before all that, a process opens a model file (parser, then
loaders), makes a tokenizer from it, encodes the prompt, and creates the engine;
the engine's operations share scratch buffers, and on a GPU are ordered by a
stream (CUDA) or by barriers alone (Metal).

What is hard here:

- **State that outlives a call.** A CUDA engine is reused; the caches are never
  cleared by the public drivers. A pass that fails half way leaves rows of some
  layers written, possibly not yet rotated. Correctness depends on each step
  reading only rows its own call wrote.
- **Two forms of one computation.** A batched prefill processes a layer at a
  time over all positions; the per-token form processes all layers for a
  position. Both must leave the same cache, position, next token and receipt.
- **Off-by-ones.** The first predicted token is fed and not recorded; three
  different comparisons of `pos` with `prompt_len` must agree.
- **Widths.** `usize` length sums wrap in a release build, counters are `u32`,
  `n_new_tokens` is bound as a `u32`.
- **Partial failure.** Sinks may reject any call; the builder is consumed in the
  process; the next request uses the same sink.
- **Injectivity.** A digest is worth something only if no two receipts share the
  hashed bytes.
- **Ordering.** Records are replayed in another order than they are hashed;
  override, snapshot and capture at a checkpoint must come in one order; float
  sums must be associated the same way in every form.

- **Shared scratch.** The linears of a layer quantize their input into the same
  three buffers; one kernel does not rewrite one of them. Metal orders two
  dispatches only where a barrier names a buffer of both.
- **Untrusted sizes.** Every count, length, shape, offset and alignment of a file is
  added or multiplied before it can be compared with the file's size.
- **One format, many readers.** Each block type is decoded by up to five pieces of
  index arithmetic and written by one more.

The code has no timeouts, no retries of its own, no persistence and no messages;
the internal concurrency is rayon over the rows of a linear and, on a device, the
threads and asynchronous copies of a kernel.
`PROJECT.json` lists each hazard at its line with the properties that cover it.

### Correctness, by component

- *Drivers*: every receipt is the complete greedy continuation of its request;
  equal requests under one regime give equal receipts, whichever driver and
  engine history; no receipt exceeds the context.
- *Builder and sinks*: whatever the caller declares and wherever an earlier
  replay failed, a successful finalization leaves the runtime with exactly the
  records its sink forwards, in order; a record's number is its place in its section,
  modulo the width of the counter; inputs are sealed by the first output.
- *Receipt bytes*: injective, in each version and across versions.
- *Engines*: the cache below the position, and the logits, are a function of the
  tokens fed and of the regime's numerics; a pass is causal.
- *Recorders*: records and logits are those of the plan, whatever combination of
  recorders is attached.
- *Reductions*: every form computes one fixed association of the sum, whatever the
  number of threads and their order.
- *Kernels*: every output is written once; no dot mixes two super-blocks; no thread
  waits at a barrier another never reaches; the device and the CPU agree on every bit.
- *Parser*: every slice lies inside the file and has the length its record gives; a
  name finds one tensor; the memory reserved is bounded by the file; the cursor never
  goes back. *Loaders and engines*: every intermediate result is computed
  from the weight, with the kernel, the bias and the rotation the file defines, whatever
  a shared buffer held before.
- *Tokenizers*: a scan finds the best pair, leftmost of equals; decoding an encoding
  gives the text back; the pair-at-a-time loop gives what the merge list defines.
- *Block formats*: all readers of a type find the same bits of each weight, no bit is
  shared or lost, halves are converted exactly.

## 2. The modules

```
GreedyDecode          Decoder            Receipt    CertBuilder
     ^  refines          ^  refines          \        /
     |                   |                 ReceiptBinding <-- MCReceiptBinding
 Inference            Forward
     ^                   ^                      Recorder
 MCInference         MCForward                      ^
                                               MCRecorder
 Reduction <-- PoolLinear, GpuLinear
                   ^         ^
   Blocks <----- LinearAgreement <-- MCLinear

 Gguf, Tokenizer, Engine --> Checkpoint
    ^       ^       ^
    +---- Session --+--> Blocks          Session <-- MCSession

 InferenceProofs --> Inference           ReceiptProofs  --> ReceiptBinding
 ForwardProofs   --> Forward             RecorderProofs --> Recorder
 LinearProofs    --> LinearAgreement     EngineProofs   --> Engine
 SessionProofs   --> Session, EngineProofs
```

An arrow goes to a module that is extended. Each module of proofs also extends SeqLemmas.

**GreedyDecode** is the promise of a driver: an accepted request is answered by
the tokens greedy decoding appends one at a time, or by no receipt. It has no
cache, no driver and no receipt format. The model is a constant
`Argmax[regime][context]`: any function from contexts to tokens.

**Inference** is the drivers and the cache of the engine they drive, over several
calls. A cached row is represented by its *provenance*, the tokens fed at the
positions up to it; a step that reads rows that do not all belong to one sequence
writes `Torn`. One action per piece of control:

| Action | Code |
|---|---|
| `Begin`, `Refuse` | `run_with_sink` 119-161, `run_quantized_with_forward` 319-359, `run_quantized_with_prefill` 411-426: the checks in the order of the code, `Vec::with_capacity` before or after the prefill |
| `StartEngine` (in both) | `RunState::new`, `CudaForward::new`, `reset`, or an engine reused as it is |
| `TokenStep` | one iteration of the per-token loop (162-177, 359-374) |
| `Prefill` | the batched prompt (426-432) |
| `DecodeStep` | one iteration after a prefill (433-438) |
| `Finish`, `SinkRejects` | outputs bound, finalize, the outcome or the sink's error |
| `ForwardFails` | the closure's error or a device panic, with rows old, new or torn |

`kv` is the cache, `pos`, `cur` and `generated` the loop's locals, `issued` a
history of the outcomes. `n_new_tokens` ranges over `0..UsizeMax`, the sum
`prompt_len + n_new_tokens` wraps, and the value bound in the receipt is reduced
modulo `U32Mod`.

**Decoder** is the promise of an engine: the logits returned are those of the
tokens fed. **Forward** is one engine: layers, the key rows cached before they are
rotated in place, the value rows, the residual stream of each position, batches
that run a layer at a time, resets, restarts on a used cache, and failures at
every stage. `Qkv`, `Rope`, `AttendAll` and `LmHead` are the stages shared by
`step_with_accel`, `step_with_recorders`, `vt_cuda_step`, `vt_cuda_prefill` and
`MetalForward::step`. A vector is what it is a function of: its tokens and the
numerics of the linears that made it.

**CertBuilder** is the builder with its five sections, wrapping counters and debug
seal, and `finalize_with_sink` as the sequence of sink calls it makes, each of which
may fail. The runtime behind a sink is outside the repository: `kernel` is modelled
from the calls made and from `tests/cert_sink_wiring.rs`, which recomputes the digest
a runtime computes. **Receipt** is the bytes hashed, as sequences; `Leb128` is a
recursive function with the radix as a constant. **ReceiptBinding** composes the
two: the receipts a builder can make, and whether any two share their bytes.

**Recorder** is `step_with_recorders`, a step in five kinds of stage (`Embed`, `Attention`,
`FeedForward`, `FinalNorm`, `LmHead`) with, at each checkpoint, the override of the
intervention plan, the snapshot and the lens capture, and at each op its record; `Fail` ends a
step after any of its ops. A tensor is the op that made it and its *causes*: the tokens and the
replacements it is computed from. `Causes` is the reference: a function on the graph of
checkpoints, with no order of execution, that says what a plan means.

**Reduction** is the arithmetic of a linear layer as terms. Float addition is not
associative, so a sum is the tree of additions that computes it, with products and exact
integer dots as leaves that name the activation row, the weight row and the place they are
taken from: two kernels agree on every input exactly when they build the same term. It holds
the reference reductions (`CanonicalDot`, the tree and the running sum over super-blocks) and
`Scheme`, the choice of `linear_dispatch`. `CanonicalSum`, `RmsNorm` and `Softmax` are the
rows the float operations reduce, `DeviceRow` what `k_rms` and the device's softmax do of them.

**Blocks** is where a quantized block keeps its weights. A decoder is the set of the weights it
finds in two neighbouring blocks: the element, the bits its number is made of, and the bits of
the factors of its scale and minimum. `Decoders` has one for each loop of the source, from
`dequantize_*` to the lanes of the CUDA kernels, and for `quantize_*`; `F16ToF32` and `F32ToF16`
are the conversions of the scales. The sizes are the real ones.

**PoolLinear** is the layer on a CPU: the cut into tasks, workers that take them in any order,
and in each the loop over rows and blocks with the accumulators it carries and reuses
(`FusedStep`, `DenseStep`, `TreeStep`, `RunningStep`). **GpuLinear** is the layer on a device:
the choice of kernel by `lin` and `pg`, the blocks of a launch, and the threads of a block
with their barriers, shared memory and asynchronous copies. A thread's private work between
two of these is one action. Blocks share nothing but disjoint outputs, so one at a time is
resident, in any order, and each finds the shared memory of the one before.
**LinearAgreement** is issuer and verifier: one call, the device's kernel and then the pool's.

**Gguf** is `GgufFile::parse`: the header, the metadata entries with arrays skipped by their
byte total or string by string, the reservation, the records, the alignment and the slices, one
action each, over a file whose contents are revealed as they are read. Every checked sum is
`Some`, and a sum that is not checked wraps. `Refuse` is every error return.

**Checkpoint** is what the loaders ask of a file, as predicates: the numbers and tensors `Config`
and `QuantizedWeights` require, the fallbacks they allow, and the offsets at which `Weights`
slices a llama2.c blob.

**Tokenizer** is the three tokenizers as one loop with the differences of each: cutting the text
(`CutScored`, and for gpt2 `CutPiece`, the pretokenizer, where each slice of the text, behind a
quote or around a piece, panics unless both its ends are between characters), the
scan over the pairs (`ScanPair`), `Merge`, `EndMerge`, and the decoders.

**Engine** is a pass as a sequence of operations on named buffers: `QuantizedLayer`, `FloatLayer`,
`GemmaLayer`, `CudaLayer`, `PrefillLayer`, `MetalLayer` and `ConformanceLayer` are the bodies of the
loops of the source, operation by operation, with the barriers of Metal. A vector is which
intermediate result it is, `<<name, layer, position>>`; `Definitions` says how each result is
defined, and an operation with another weight, kernel or operand writes `Junk`. On Metal an
operation may run as soon as those a barrier puts before it have run. `Create` refuses what
`CudaForward::new` refuses, and `Embed` panics or returns an error where the code does.

**Session** composes the three: a process parses a file, encodes a text, or encodes and runs an
engine on the ids it got.

The modules named `...Proofs` hold the theorems of section 5, and **SeqLemmas** the facts about
sequences, division and recursive functions that several of them need. The `MC` modules give the
constants their values.

## 3. What the runs check

| Run | Properties | What it shows |
|---|---|---|
| `drivers` | `TypeOK`, `CacheServesThisCall`, `ReceiptsAreGreedy`, `SameRequestSameCert`, `NoOverlongReceipt`, `ImplementsGreedyDecode` | any two calls, by either driver, on a new, reset or reused engine, with a failure at any step: no row of an earlier call is ever read, receipts are complete and greedy, and the drivers refine `GreedyDecode` |
| `forward` | `TypeOK`, `CacheIsCanonical`, `PassIsCausal`, `ImplementsDecoder` | the cache is a function of the tokens fed however they were fed; the engine refines `Decoder` |
| `receipts` | `TypeOK`, `RecordsNumbered`, `SameDigestSameReceipt`, `RuntimeHoldsWhatSinkForwards` | the preimage is injective in v1, in v2, and no v1 preimage is a v2 one; in a builder, in every receipt and in what a runtime was given, a record stands where its number says, modulo the width of the counter, whatever is declared in between and whichever builder went before; a finalized replay leaves the runtime with exactly what its sink forwards, after any earlier failure |
| `recorders` | `TypeOK`, `CapturesFollowPlan`, `RecordsFitTogether`, `SnapshotsInOrder` | an override reaches exactly what it causes, in its token and through the cache in later ones; what is recorded does not depend on which recorders are attached; op records, snapshots and lens entries agree on the tensors they share |
| `linear` | `TypeOK`, `PoolIsSerial`, `GpuIsCanonical`, `StagingIsWhole`, `VerifierAgrees`, `LayoutsAgree`, `ScalesExact`, `RowsAgree`, `CallsReturn` | for every dtype, regime, entry point, shape and kernel the host may choose, under every interleaving: each output is the term of the reference reduction, on the device and on the CPU; the double buffer is never overwritten while it is read; every call returns. Every reader of a block finds each weight in the same bits; halves are exact; a norm and a softmax of a row have the bits of one canonical dot, and those of the device exactly for rows of one chunk |
| `session` | `TypeOK`, `RoundTrip`, `ScanFindsBest`, `RanksInOrder`, `PanicsOnlyAtQuote`, `EngineIsReference`, `TensorsInFile`, `LookupFindsLast`, `ReservationIsExact`, `CursorMovesForward`, `SessionEnds` | whatever a file states, its slices, names and reservation are sound; encodings are deterministic and decode to the text, parsing and encoding end, and no slice of the pretokenizer is inside a character except close behind a quote; every engine computes the results the file defines, on Metal in every order its barriers allow |
| `regime_tag` (violated) | `ReceiptReplays` | receipts of one request under regimes 2 and 3 both name `vitni-regime-2` |
| `first_token` (violated) | `OutcomeHoldsAllGenerated` | the first predicted token is not in the outcome |
| `basic_sink` (violated) | `SameDigestByConstruction` | a sink with the default `on_op`, `on_activation`, `on_intervention` drops those records |
| `declared_interventions` (violated) | `DeclaredWereApplied` | a receipt declares an intervention no step applied: nothing joins the builder's list and the plan |
| `release_sealing` (violated) | `InputsSealed` | in a release build an input can follow an output |
| `block_format` (violated) | `Q40MatchesGgml` | the two weights of a byte of a Q4_0 block are neighbours here and half a block apart in GGML |

The six violated runs state a sentence of the repository's own documentation; the
sentence and the counterexample are under `findings` in `PROJECT.json`. Every property
of a passing run has a mutant there: an operator `Mutant: ...` in the module, the code
with a plausible bug, for which TLC reports that property violated.

### Bounds, and why they are enough

- `drivers`: two tokens, a context of three, prompts up to four (one longer than the
  context), two calls, `CapMax = 4` and `UsizeMax = 9`, so that both the capacity panic
  and the wrapped sum occur, and `U32Mod = 8 < UsizeMax`, so that two lengths share their
  bound value. `Argmax` depends on every token of the context, on its length and on the
  regime. The second call meets every cache a first call can leave, complete, failed or
  torn. The theorems cover every value of these constants.
- `forward`: three layers, two positions, three passes: a pass, one that fails, a restart and a
  decode step fit, and there is a middle layer.
- `receipts`: four records in two receipts, `Radix = 2`, so that a length of two already takes
  two LEB128 bytes, hashes of one byte (`HashLen`), and names and contents that contain the very bytes
  which encode lengths; two
  replays into one sink, so that a second one follows a first that failed anywhere;
  `IndexMod = 2`, so that counters wrap.
- `recorders`: two layers and two tokens, so that an override of the first token can reach the
  second through either layer's rows, or be cut off; two overrides, added before or between the
  steps, at seven checkpoints, one of the wrong length at a checkpoint another one fits
  (so that it shadows it), one with a layer its checkpoint does not have; and three choices of
  recorders for each step.
- `linear`: super-blocks of 4 elements in 2 sub-blocks, 2 lanes and chunks of 2 super-blocks,
  so that a row of 5 super-blocks has three chunks, the last incomplete, and the tree carries
  an odd slot; two workers with up to three tasks, on a pool of one or two threads (`MaxThreads`); three rows and a batch of two against
  blocks of two rows and tiles of 1 x 2 threads with 2 x 2 outputs each, so that blocks reach
  over both edges and shapes with whole tiles (which the async kernel needs) occur too. Five
  super-blocks take the two buffers of the async kernel round twice. The sizes enter the code
  only through quotients and remainders, and the small ones take both sides of each. `RowsAgree`
  ranges over rows of 1 to 20 elements with chunks of 8. `Blocks` has the real sizes and two
  neighbouring blocks of each type, so that a decoder that runs into the next block is seen.
- `session`, parser: files of 60 or 124 bytes, which hold no record, one or two; u64s of twelve
  bits with the values 0, 2 and 4095, so that sums of three fields wrap and products of two do; a
  u32 of eight bits, so that alignment 0, 1 and 255 occur; two names, so that one repeats.
  `block_format` is the same parser with a Q4_0 tensor of 32 elements. Tokenizers: texts of up
  to three characters of six kinds (letters, space, quote, a digit, a character of two bytes), and
  of four letters; vocabularies of each kind with every order of the scores of their merged tokens,
  merge lists whose rules depend on each other in both orders, and vocabularies that are cut short
  or lack a piece. Engines: two layers, a prompt of two or three tokens (one batch for the prefill) and
  one generated token, so that a row is attended from the pass that wrote it, from a later row of
  it and from a later pass; files with each tensor type, all the ways neighbouring linears can
  share the scratch, biases complete and not, shared and own classifier, and files the loaders refuse.

`CHECK_DEADLOCK FALSE` is set where the caller stops at `MaxCalls`, `MaxPasses`, `NTokens` or
`MaxReceipts`, bounds of the model and not of the code, and in the session, which is over when its
last part has returned.

## 4. Fairness

`Inference` and `Forward` assume none: their loops are `for` loops over a range, whose end the
language provides, and what is checked of them is safety and refinement.
`LinearAgreement` assumes `WF_vars(Issue)` and `WF_vars(Verify)`: the hardware runs the resident
threads of a block and lands its copies, and the pool runs its tasks; which thread goes next is
free, since each action is a finite piece of work and no action is repeated. `Session` assumes
`WF_svars(Next)`, and `Gguf` `WF_pvars(ParseNext)`: parsing and encoding are loops on one thread that
wait for nothing, and an engine's dispatches are run by the device in some order. `CertBuilder`
and `Recorder` state no liveness and assume no fairness.

## 5. What is proved

`InferenceProofs` proves, for every vocabulary, context length, number of calls, engine
history and model, under `InferenceAssumption`:

| Theorem | Statement |
|---|---|
| `TypeCorrect` | `Spec => []TypeOK`; in particular `pos` stays within the cache |
| `Invariance` | `Spec => []IInv`, the inductive invariant |
| `CacheIsolation` | `Spec => []CacheServesThisCall` |
| `GreedyReceipts` | `Spec => []ReceiptsAreGreedy` |
| `LengthsHold` | `Spec => []NoOverlongReceipt` |
| `Reproducible` | `Spec => []SameRequestSameCert` |
| `Refinement` | `Spec => ImplementsGreedyDecode` |

The assumptions: the constants are natural numbers; prompts and caches fit in memory
(`MaxPrompt`, `SeqLen` at most `CapMax`, and `2 * CapMax <= UsizeMax`, which is what
`isize::MAX` bytes of `u32` give); `Torn` and `NoToken` are not data.

The argument. `ReceiptsAreGreedy` is not inductive: a receipt is right because the loop
recorded the argmax of the logits of its own tokens, which holds because the rows read were
its own, which holds because positions are written in order from 0. `IInv` adds those facts:
`CallInv` (an accepted call's loop never passes its bound), `CacheServesThisCall` (rows
below `pos` are those of the tokens fed, `cur` is the next of them) and `RecordedAreGreedy`.
`Holds` on an untorn row makes `Attend` return the right row (`RowWritten`); appending to
`generated` does not change the prefix already checked (`FedGrows`, with the prefix lemmas
of `SeqLemmas`). The length argument rests on the capacity panic: a wrapped sum needs
`nNew > CapMax`, which no loop is entered with (`AcceptedFits`). `Reproducible` follows from
`GreedyReceipts` by taking the least index at which two greedy answers to one request differ
(`GreedyIsDetermined`).

`SessionProofs` proves of the parser, for every file length, every set of values of its fields and
every width of a u64, under `GgufAssumption` (fields and file lengths are u64s):

| Theorem | Statement |
|---|---|
| `ParseTypeCorrect` | `ParseSpec => []ParseTypeOK` |
| `SlicesInFile` | `ParseSpec => []TensorsInFile` |
| `LookupIsLast` | `ParseSpec => []LookupFindsLast` |
| `ReservationHolds` | `ParseSpec => []ReservationIsExact` |
| `CursorForward` | `ParseSpec => CursorMovesForward` |

The argument. `ParseInv` adds to the two properties of the slices the types and, for each stage,
what is known of the counters. A checked sum is the sum (`CheckedSum`), so a read leaves the
cursor in the file (`ReadInFile`). That the capped reservation is exact for an accepted file needs
`Records`: there is a place, the cursor when the reservation was made, from which every record
took at least 24 bytes; so when all are read (`AllReserved`), the count cannot have been above the cap.
`CursorForward` needs besides that a 32-bit metadata value is a number (`MetadataTyped`) and that
rounding up to a multiple does not go back (`RoundUp`).

`ReceiptProofs` proves of the builder, for all records a caller can declare, all sinks, every counter width and any
number of declarations and receipts, under `CertBuilderAssumption`:

| Theorem | Statement |
|---|---|
| `CertTypeCorrect` | `Spec => []TypeOK`: what a section holds is numbered within its counter |
| `RecordsInOrder` | `Spec => []RecordsNumbered` |
| `ReplayIsComplete` | `Spec => []RuntimeHoldsWhatSinkForwards` |
| `SealedInDebugBuilds` | `~ Release => (Spec => InputsSealed)`; run `release_sealing` is the other half |

The argument. `RuntimeHoldsWhatSinkForwards` is about finished replays and says nothing of one in
progress, so it is not inductive. `CertInv` adds `Replaying`: the runtime holds, of every section
the sink forwards, all of it when its loop is over, the first `i` records when it is the current
one and nothing when its loop is to come (`Given`); that each section comes once in the order
is `OrderPlaces`. A finished replay is past the five places, so `Given` is then the whole section
(`FinalizeSinkStep`); a failed one leaves what it gave behind, and the next `on_request` opens an
empty receipt (`RequestStep`). `RecordsNumbered` is nearly inductive: an append puts the record that
carries the counter's value at the place of that number, and the counter moves on with the section
(`Incremented`, modulo the width); a runtime is given prefixes of the builder's sections.

`ForwardProofs` proves, for every vocabulary, number of layers and positions, and any passes,
batches, restarts and failures, under `ForwardAssumption` and `TornAssumption` (`Torn` is no vector):

| Theorem | Statement |
|---|---|
| `ForwardInvariant` | `Spec => []FInv` |
| `ForwardTyped` | `Spec => []TypeOK`; in particular a pass stays within the cache |
| `ForwardCacheIsCanonical` | `Spec => []CacheIsCanonical` |
| `ForwardPassIsCausal` | `Spec => []PassIsCausal` |
| `ForwardImplementsDecoder` | `Spec => ImplementsDecoder` |

The argument. The two properties support each other: the stream of a position is right because the
rows it attended to were, and a row is right because the stream it was projected from was. What they
do not say is where a pass stands between two stages: `FInv` adds `PassShape` (a batch only on a
regime-3 engine, the head only after the last layer) and `Unrotated` (after `qkv` the rows of the
batch are there, their keys not yet rotated; so the rotation happens once). What a position enters a
layer with is a function of a prefix of the tokens, and stays that when tokens are appended
(`EnteringPrefix`, `EnteringConcat`); attention over canonical rows is canonical. A failed pass may
leave any rows at its own positions and later ones, and none of these is below `Len(fed)`.

`ReceiptProofs` proves of the digests, for every radix of at least 2, every hash length, all names and contents and
any number of records, under `ReceiptAssumption`, `ArgsAssumption` (what a caller declares is of the
types the builder's functions take) and `CertBuilderAssumption`:

| Theorem | Statement |
|---|---|
| `ReceiptBound` | `Spec => []SameDigestSameReceipt` |

The argument. Call the codes of a set of values *apart* when no continuation makes two of them the
same string (`Code`): such a code tells its value from whatever follows. LEB128 numbers are apart
(`LebCode`), a length and that many bytes are, a field, an op and a checkpoint are, as concatenations
of such parts, and so is a count and that many of them; the preimage is a concatenation of sections.
A version 1 preimage begins with bytes no version 2 preimage begins with. `Leb128` is a recursive
function, and that it is what its definition says for every number is not an induction the prover
can do with the library's theorems; it is proved by a least counterexample instead (`Recursion` of
`SeqLemmas`: a function given by its value at a smaller argument exists).

`LinearProofs` proves, for every number of rows, columns, super-blocks, batch rows, workers, tasks,
threads of a block, warps, tiles and outputs per thread, every type, regime, entry point, kernel and
schedule, under `ReductionAssumption` and `LinearAssumption` (the sizes are positive, a super-block
is whole lanes and has an even number of sub-blocks):

| Theorem | Statement |
|---|---|
| `LinearInvariant` | `Spec => []LinearInv` |
| `LinearTyped` | `Spec => []TypeOK` |
| `LinearPoolSerial` | `Spec => []PoolIsSerial` |
| `LinearGpuCanonical` | `Spec => []GpuIsCanonical` |
| `LinearStagingWhole` | `Spec => []StagingIsWhole` |
| `LinearVerifierAgrees` | `Spec => []VerifierAgrees` |
| `LinearRowsAgree` | `Spec => []RowsAgree`, for rows and chunks of any length |

The argument. On the pool, `PoolInv` says of each row of the output that it is in a task not taken, is
held by a worker that has not come to it, or has the term of the reference; tasks are disjoint, so no
two workers hold one row; and the accumulators of the row in progress are those of the reference
after as many blocks (`AccAt`), although they are carried over and reused from row to row. When no
task is left and no worker is busy, every row is right. On the device, `OutInv` says that the blocks
done have written exactly their own outputs, and for each grid what its threads have in hand. With
a cooperative row or a warp (`CoopInv`, `WarpInv`) no thread combines before all have summed
(`Summing`), so the shared slots it reads are this block's and not what the block before left there.
In a gemm (`GemmInv`) the barriers keep all threads in one phase of one super-block (`Together`), the
stage holds that super-block from when it is unpacked until it is computed, and the copies in flight
go to the buffer that is not read (`CopiesInv`): they are of this super-block while it is awaited and
of the next one from then on. Both reductions are the same sums in two groupings; that a sum may
be interrupted and continued is `AccumulatedOn`. `VerifierAgrees` is the two together.

`RowsAgree` is about terms alone. That `canonical_sum` is `canonical_dot` is an equality of the sums
chunk by chunk (`ChunkSumIs`, `RowSums`). That the device's single chunk is *another* term for a
longer row compares two trees by their right ends (`Path`, `TreeEnds`): a tree over several
chunks has a sum of lanes at a depth where the one chunk's tree has a product, which is not a sum.

`RecorderProofs` proves, for any number of layers and tokens, every set of overrides, any number of
them and any recorders attached to each step, under `RecorderAssumption`:

| Theorem | Statement |
|---|---|
| `RecorderInvariant` | `Spec => []RecorderInv` |
| `RecorderTyped` | `Spec => []TypeOK` |
| `RecorderFollowsPlan` | `Spec => []CapturesFollowPlan` |
| `RecorderFits` | `Spec => []RecordsFitTogether` |
| `RecorderInOrder` | `Spec => []SnapshotsInOrder` |

The argument. None of the three properties is inductive: they speak of what was recorded, and what is
recorded next depends on the stream, the cache and the stage. `RecorderInv` numbers the checkpoints
of a token (a *site*) and adds that the stream has the causes of the site just made and each cached
row those of the site that entered its layer (`StreamInv`), that nothing was recorded of a site not
made yet (`Ordered`), that the stream is still the tensor last snapshotted (`SnapshotIsStream`), where
the list of snapshots ends (`LastSnapshot`) and what its last two entries of a token are the output
of (`HeadMade`). `Causes` is a recursive function on the graph of sites: that it has a
solution for every plan is `CausesDefined`, by `Recursion` on the number of the site, and that an
override added between steps leaves the causes of the tokens already processed alone is `CausesKept`.
`SiteUnique` and `OpUnique` (a checkpoint and layer name one site, an op belongs to one) let the lists
be matched; `StageStep` is the induction step for all stages but the last, `LmHeadInv` and `FailInv`
are the last and the error.

`EngineProofs` and `SessionProofs` prove, for every file, every engine, any number of layers and any
prompt, every vocabulary of the three tokenizers and every text, under `GgufAssumption`,
`EnginesAssumption`, `FilesAssumption` (see section 8) and `TokenizerAssumption` (a text is UTF-8; a
blob of llama2c has a score with each token, as the loader reads them together; there is a token for
BOS, see section 8):

| Theorem | Statement |
|---|---|
| `SessionInvariant` | `Spec => []SessionInv` |
| `ProgramExplained` | every pass of every engine has an annotation that explains it (`Explained`) |
| `SessionComputes` | `Spec => []EngineIsReference` |
| `SessionTyped` | `Spec => []TypeOK`; every id an encoder returns is one of the vocabulary's |
| `ScanFinds` | `Spec => []ScanFindsBest` |
| `RoundTrips` | `Spec => []RoundTrip` |
| `PanicsAtQuote` | `Spec => []PanicsOnlyAtQuote` |
| `SessionParses` | `Spec => [](TensorsInFile /\ LookupFindsLast /\ ReservationIsExact)` |
| `SessionCursor` | `Spec => CursorMovesForward` |

The argument for the engines. `EngineIsReference` says what is in memory when a pass has ended, and
that no operation read what it should not; neither says what a buffer holds in the middle of a pass,
when the same scratch has held other things before and, on Metal, operations that no barrier orders
have run in any order. The invariant is therefore about the program. An *annotation* gives each
operation the value it leaves. It is sound (`Annotated`) if every operation reads each operand from
a buffer in which another left it that precedes it in every order the barriers allow (`Source`,
`Precedes`), if whatever else writes that buffer has run before or comes after (`Keeps`), and if from
these operands the definitions of the file make its value (`Makes`). Of a program with a sound
annotation, memory holds at every moment what the operations that have run left and nothing
overwrites (`Holds`); a dispatch keeps that, whichever it is (`DispatchStep`). `EngineInv` is this for
the pass that runs (`Passing`), and that the caches have the rows of the passes before (`Serves`).

That every program has such an annotation (`ProgramExplained`) takes one numbering of the steps of a
layer. The body of each engine's layer, joined from its fragments, is shown to do the steps in the
order of their numbers, leaving out those of biases and copies a file or engine does not have
(`Labelled`); that what a step leaves is there for the step that reads it (`Clear`) is proved once,
of the numbers. On engines with a queue order is the order of the
program. On Metal it is the barriers: for each step that must precede another there is a chain of
barriers that name a buffer of both ends (`Edge`, `EdgeCovers`), within a layer and into the next
(`ChainedMetal`). For the float passes it is shown besides that where no slice of a llama2.c blob
panics, `Weights` slices each array where the exporter put it: both sum the lengths of the arrays
before it, and the heads divide the vector they are cut from, or some slice would be too long
(`SameOffsets`, `SliceIs`, `FloatIsReady`).

The proof found one mistake in the model: the conditions of the layers overlapped for the first pass
of a prefill, and TLC had taken the right one because it was first.

The argument for the tokenizers. `ScanFindsBest` speaks of a scan that has ended; `BestSoFar` says the same of the pairs
the scan has come past, which one comparison extends by one pair: a pair beats the best only if it
is before it, so of equals the leftmost stays. That comparing is a total preorder, and that the pair
found can be merged, needs each token to have a score and each known string an id
(`VocabularyInUse`); this is what the loaders check, and a merge keeps (`TokTypes`: the token it puts
is one of the vocabulary). For the panic, the offsets between characters are the sums of their lengths (`FlattenAt`,
`FlattenFrom`: a byte of the flat text is a byte of one character). Each piece must begin and end at
such an offset, and the property alone does not say that it does: the invariant has besides that
the pretokenizer always stands between two characters (`PieceStarts`). The bytes of a character above
127 are all letters, so a run of letters cannot end among them, wherever it begins (`LetterRun`),
and a run of digits, spaces or punctuation that begins between characters is of one-byte characters
and ends between two (`AsciiRun`); with the contractions, which are ASCII, every piece ends between two
characters (`PieceBoundary`). What is left are the two slices behind a quote, whose ends are two and
three bytes on, whatever is there.

That decoding gives the text back (`RoundTrips`) is proved of every state of the encoders, not only of
the last: `TextInv`. For llama2c and spm it says that the tokens at each moment say the text
(`SaysText`): what each id says, a raw byte for a token like `<0x41>` and its own bytes for the others
(`Said`), flattens to the text, and no id among them but the leading BOS is BOS or merged of a raw byte
(`Speaks`). A merge puts one id for two and keeps the flattened sequence (`FlattenSeq` of a sequence of which two
neighbours are joined is the same). That the id it puts says what the two said needs the conditions of
`Complete`: two texts joined are not spelled like BOS or a raw byte, as these have a "<", and a raw
byte is not merged at all. For gpt2 the ids and the symbols of the piece being merged spell the code points
of the text as far as it is read (`SymbolsText`), and the joined symbols of a rule have an id. Decoding
flattens what the ids say. That spm's replacement of marks by spaces then finds the marks of the text
and no others is that the first byte of a mark only leads a character (`LeadByte`, `MarksAt`; UTF-8), and
for gpt2 no two bytes have the same code point. A session's parser, tokenizer and engine
step one at a time, so each part's invariant is kept by the others (`EngineLeft`, `TokKept`, `ParseKept`).

## 6. Only model-checked

- Liveness (`CallsReturn`, `SessionEnds`), which is out of the proof system's reach.
- `LayoutsAgree`, `ScalesExact`: computations over the block formats at their real sizes and all halves.
  The runs evaluate them completely.
- `RanksInOrder`: no theorem. That merging by rank is applying the rules in order needs every rule to be
  made of earlier ones; it was not attempted.

## 7. Plan

In this order:

1. done: `Inference` (with `GreedyDecode`), its proofs; `CertBuilder`, `Receipt`,
   `ReceiptBinding`; `Forward` (with `Decoder`); `Recorder`.
2. done: `Reduction`, `Blocks`, `PoolLinear`, `GpuLinear`, `LinearAgreement`. Left there: the kernels
   of Q4_0 and F32 weights.
3. done: `Gguf`, `Tokenizer`, `Checkpoint`, `Engine`, `Session`.
4. done: the proofs about `Gguf`, `CertBuilder`, `ReceiptBinding`, `Forward`, `Recorder`,
   `LinearAgreement`, `Engine`, `Tokenizer` and `Session`.
5. left: `RanksInOrder`.

## 8. Not modelled, and why

- Float arithmetic and rope angles: represented by provenance. What the models show is *which*
  values enter a computation and in which order sums associate, not their rounding. Gemma's scaling
  of the embedding by `sqrt(dim)` is left out with it.
- BLAKE3 is taken to be injective. Hash contents are opaque.
- `Tensor`, `Storage` and `Shape` (`src/tensor.rs` and its neighbours): the forward passes work on
  slices; only the Gemma pass holds its vectors in tensors, of the sizes it slices them to. The accelerator trait has no state, and its CPU implementation runs the
  operations of the passes; command line tools, conformance programs and fuzz targets are thin.
- Strings of a model file are names or their lengths; metadata the loaders do not read has no value.
  Scores of tokens are natural numbers: NaN and infinite scores are left out.
- The engines of `Engine` have sizes that fit: an even head size, heads that divide the dimensions.
  With an odd head size `rope` rotates the last element of a head with the first of the next.
- In the kernels: the rounding inside a product or an integer dot, the quantization of the
  activations (taken to be the same on both sides, and exact from then on) and the `i32` widths
  (the largest sum is below `2^25` for Q4_K and `2^27` for Q6_K). The shared arrays
  `sh[8][8][8]`, `parts[256]` and `chunk_sums[64]` are as large as the row needs: that a row is
  not longer (65536 elements, 524288 for `chunk_sums`) is a precondition no launch checks.
  Tensor-core kernels assign the outputs of a tile to threads in their own way; the model uses
  one way.

Preconditions no code checks, which the models take as given:

- `EnginesAssumption`: only the engines whose entry points set it run in regime 3 (`RunState::new` gives
  regime 2, the quantized entry points and the device handles set 3), and the batched prefill
  has no other regime. `FilesAssumption`: the dimensions and the number of layers of a llama2.c header are
  positive and, where the heads divide the dimension, a head has an even size, as the exporter's
  rotation tables hold pairs.

- `CudaForward::new` caps the cache at 4096 positions or `VITNI_MAX_SEQ` ("Must exceed the longest
  sequence actually run"), while the drivers compare a request with `cfg.seq_len`; `k_attention` and
  Metal's attention keep 4096 and 512 scores on a thread's stack. `Forward` gives the cache the
  length the drivers check.
- `k_rms` adds a row as one chunk ("feat < 8192"): `RowsAgree` says exactly for which rows that is
  the CPU's sum.
- `encode` of `llama2c.rs` and `gguf_spm.rs` puts token 1 in front as BOS, and the scan of the first
  looks its bytes up; a vocabulary of one token does not have it. `TokenizerAssumption` gives it one.
- The kernels divide K by 256 where the CPU returns an error for a remainder.
- Metal takes a type it has no kernel for to be Q4_K, and all biases of a layer to be there when the
  query's is; the conformance forward reads Q4_K and Q6_K, without biases and with one rotation.
  `InScope` of `Engine` names these conditions, and outside them the model does write `Junk`.

Where a comment and the code part without a property to state it:

- The comment at `src/ops/quant.rs:1041` says regime 2 keeps `linear_q4_k_integer`, while
  `linear_dispatch` uses the fused f32 kernel for Q4_K; the model follows `linear_dispatch`.
- `block_numel` of `src/dtype.rs` gives 1 for Q4_K and Q6_K; nothing calls it for them.
- The comment on the recording accelerator in the tests of `src/accel/mod.rs` counts `4*N + 1`
  matrix products for a step, which has `7*N + 1`.
- `encode` of `llama2c.rs` drops the bytes of a text that have no token: `RoundTrip` is stated for
  vocabularies that have one for each (`Complete`).
- Text can be taken for something else: in a blob of llama2c whose BOS is spelled by letters of the
  text, pairs of the text merge into BOS or a merge takes BOS in; with spm "<0x41>" in a text may
  merge into the token of byte 0x41. `Complete` leaves these texts and vocabularies out: BOS and the
  raw bytes are spelled with a "<", which is not in the text, no token is BOS and another token, and
  none a raw byte and another.
- The pretokenizer of `gguf_bpe.rs` panics on a quote that a character of several bytes follows,
  directly or one character later; `PanicsOnlyAtQuote` says that no other slice panics, those around
  the pieces included.
- Metal's encoder is by default serial. `Engine` orders its dispatches by the barriers alone, which
  allows more orders than a serial encoder does.

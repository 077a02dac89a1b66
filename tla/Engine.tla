------------------------------- MODULE Engine -------------------------------
(***************************************************************************)
(* One engine runs a prompt, and then one token more, on one model file:   *)
(* the CPU passes of forward_quantized.rs (cpu), forward.rs (float) and    *)
(* gemma.rs, CUDA token by token or with a batched prefill (vt_cuda.cu),   *)
(* Metal (metal/src/lib.rs) and the conformance forward (forward_gpu.rs).  *)
(*                                                                         *)
(* A pass is a sequence of operations on named buffers.  A buffer holds a  *)
(* vector whose numbers are left out: only which intermediate result of    *)
(* which layer and position it is, or Junk when the operation that wrote   *)
(* it had another kernel, weight or operand than that result is defined    *)
(* by.  The host and a CUDA stream run the operations in order.  On Metal  *)
(* only a memory barrier orders two of them: the model lets every other    *)
(* pair run in either order, which includes the order of the encoder.      *)
(***************************************************************************)
EXTENDS Checkpoint, SequencesExt

CONSTANTS
  Engines,    \* [name, regime]: cpu, float, gemma, cuda, prefill, metal, conformance
  GgufFiles,  \* what the quantized engines are given
  BlobFiles   \* llama2.c files, [header, floats], for float and gemma

\* Only the entry points of the quantized CPU pass and the GPU engines select regime 3,
\* and the batched prefill has no other.
ASSUME EnginesAssumption ==
  \A e \in Engines :
    /\ e.name \in {"cpu", "float", "gemma", "cuda", "prefill", "metal", "conformance"}
    /\ e.name = "prefill" => e.regime = 3
    /\ e.name \in {"float", "gemma", "conformance"} => e.regime # 3
ASSUME FilesAssumption ==
  /\ \A f \in GgufFiles : f.blocks \in Nat
  /\ \A f \in BlobFiles : Shaped(f.header)

VARIABLES
  engine,  \* the engine in use
  file,    \* the file
  ids,     \* the tokens of the prompt
  epc,     \* "off", "load", "create", "embed", "run", "done", "refused", "panicked"
  mem,     \* what each row of each buffer holds
  prog,    \* the operations of the pass in their order
  ran,     \* those that have run
  base,    \* the position of the first row of the pass
  logits   \* what the passes returned

evars == <<engine, file, ids, epc, mem, prog, ran, base, logits>>

Quantized == engine.name \notin {"float", "gemma"}
Layers == IF Quantized THEN file.blocks ELSE file.header.n_layers
HasBias(s, l) == Quantized /\ Has(file, <<Biases[s], l>>)

\* Rows of a pass: a batched prefill takes the whole prompt, any other pass one token.
Rows == IF engine.name = "prefill" /\ base = 0 THEN Len(ids) ELSE 1
\* The token of a position; after the prompt one that was generated.
TokenAt(p) == IF p < Len(ids) THEN ids[p + 1] ELSE 0
LastPos == Len(ids)
-----------------------------------------------------------------------------
(* What each intermediate result is: forward_quantized.rs, and for the     *)
(* float engines forward.rs and gemma.rs.  A value is <<name, layer, pos>>.*)

Junk == <<"junk", 0, 0>>
Zero == <<"zero", 0, 0>>

Dtype(w) == IF Quantized THEN file.dtype[w] ELSE "F32"

\* The arithmetic of a linear: that of its type, but for the k-quants of regime 3.
Product(w) ==
  IF engine.regime = 3 /\ Dtype(w) \in {"Q4_K", "Q6_K"} THEN <<Dtype(w), "running sum">>
  ELSE <<Dtype(w), "canonical">>

Norm == IF engine.name = "gemma" THEN <<"1+w", "1e-6">>
        ELSE IF engine.name = "float" THEN <<"w", "1e-5">> ELSE <<"w", Epsilon(file)>>
Rotation == IF Quantized THEN <<IF Neox(file) THEN "neox" ELSE "interleaved", Theta(file)>>
            ELSE <<"interleaved", "1e4">>
Act == IF engine.name = "gemma" THEN "gelu" ELSE "silu"
Classifier == IF Quantized THEN HeadTensor(file)
              ELSE IF Shared(file.header) THEN <<"token_embd", 0>> ELSE <<"output", 0>>

\* What q, k and v are called before a bias is added to them.
Raw(s, l) == CASE s = "bq" -> IF HasBias(s, l) THEN "q0" ELSE "q"
               [] s = "bk" -> IF HasBias(s, l) THEN "k0" ELSE "k"
               [] s = "bv" -> IF HasBias(s, l) THEN "v0" ELSE "v"

\* Operation, arithmetic, weight, operands, result.
Linear(w, from, to) == <<"linear", Product(w), w, from, to>>
Definitions(l) ==
  {<<"norm", Norm, <<"attn_norm", l>>, <<"x">>, "xn">>,
   Linear(<<"attn_q", l>>, <<"xn">>, Raw("bq", l)),
   Linear(<<"attn_k", l>>, <<"xn">>, Raw("bk", l)),
   Linear(<<"attn_v", l>>, <<"xn">>, Raw("bv", l)),
   <<"bias", None, <<"attn_q.bias", l>>, <<"q0">>, "q">>,
   <<"bias", None, <<"attn_k.bias", l>>, <<"k0">>, "k">>,
   <<"bias", None, <<"attn_v.bias", l>>, <<"v0">>, "v">>,
   <<"rope", Rotation, None, <<"q">>, "qr">>,
   <<"rope", Rotation, None, <<"k">>, "kr">>,
   Linear(<<"attn_output", l>>, <<"a">>, "o"),
   <<"add", None, None, <<"x", "o">>, "y">>,
   <<"norm", Norm, <<"ffn_norm", l>>, <<"y">>, "yn">>,
   Linear(<<"ffn_gate", l>>, <<"yn">>, "g"),
   Linear(<<"ffn_up", l>>, <<"yn">>, "u"),
   <<"act", Act, None, <<"g", "u">>, "h">>,
   Linear(<<"ffn_down", l>>, <<"h">>, "d"),
   <<"add", None, None, <<"y", "d">>, "x">>}
\* After the last layer.
FinalDefinitions ==
  {<<"norm", Norm, <<"output_norm", 0>>, <<"x">>, "f">>, Linear(Classifier, <<"f">>, "logits")}

\* The result of an operation on operands of one layer and position.
Result(op, how, w, vs) ==
  LET l == vs[1][2]
      defs == IF l = Layers THEN FinalDefinitions ELSE Definitions(l)
      of == {d \in defs : /\ d[1] = op /\ d[2] = how /\ d[3] = w
                          /\ d[4] = [k \in DOMAIN vs |-> vs[k][1]]}
      to == (CHOOSE d \in of : TRUE)[5]
  IN  IF \E k \in DOMAIN vs : vs[k][2] # l \/ vs[k][3] # vs[1][3] THEN Junk
      ELSE IF of = {} THEN Junk
      ELSE <<to, IF op = "add" /\ vs[1][1] = "y" THEN l + 1 ELSE l, vs[1][3]>>

\* Attention at position p reads the rotated keys and the values of 0..p.
Attended(q, p, keys, values) ==
  LET l == q[2]
  IN  IF /\ q = <<"qr", l, p>>
         /\ \A t \in 0..p : keys[t] = <<"kr", l, t>> /\ values[t] = <<"v", l, t>>
      THEN <<"a", l, p>> ELSE Junk
-----------------------------------------------------------------------------
(* Operations.  A buffer is <<name, layer>>; one outside the caches has    *)
(* layer 0.  last: only the last row of the pass; acc: the result is added *)
(* to what the buffer holds.                                               *)

B(name) == <<name, 0>>
X == B("x")
Xb == B("xb")
Q == B("q")
Att == B("att")
Keys(l) == <<"keys", l>>
Values(l) == <<"values", l>>
Caches == {"keys", "values"}
Scratch == {B("dx"), B("qs"), B("bs")}

Op(op, how, w, ins, outs) ==
  [op |-> op, how |-> how, w |-> w, ins |-> ins, outs |-> outs, acc |-> FALSE, last |-> FALSE]
NormOp(how, w, from, to) == Op("norm", how, w, <<from>>, {to})
LinearOp(how, w, from, to) == Op("linear", how, w, <<from>>, {to})
QuantOp(from, to) == Op("quant", None, None, <<from>>, to)
DotOp(how, w, from, to) == Op("dot", how, w, from, {to})
BiasOp(s, l, to) == Op("bias", None, <<Biases[s], l>>, <<to>>, {to})
RopeOp(how, to) == Op("rope", how, None, <<to>>, {to})
AttentionOp(l) == Op("attention", None, None, <<Q, Keys(l), Values(l)>>, {Att})
AddOp(to, from) == Op("add", None, None, <<to, from>>, {to})
CopyOp(from, to) == Op("copy", None, None, <<from>>, {to})
ActOp(how) == Op("act", how, None, <<B("gate"), B("up")>>, {B("inner")})
Barrier(bufs) == <<Op("barrier", None, None, << >>, bufs)>>

Accumulating(ops) == [k \in DOMAIN ops |-> [ops[k] EXCEPT !.acc = k = Len(ops)]]
OnLastRow(ops) == [k \in DOMAIN ops |-> [ops[k] EXCEPT !.last = TRUE]]

Matrix(s, l) == <<Matrices[s], l>>
NormWeight(s, l) == <<Norms[s], l>>
FinalNorm == <<"output_norm", 0>>

\* add_bias with and without a bias.
IfBias(s, l, to) == IF HasBias(s, l) THEN <<BiasOp(s, l, to)>> ELSE << >>
-----------------------------------------------------------------------------
(* The CPU passes.                                                         *)

HostTypes == {"F32", "Q4_0", "Q4_K", "Q6_K", "Q8_0", "Q5_0"}

\* linear_dispatch: the kernel of the type, those of regime 3 for k-quants.
Dispatched(w) ==
  IF engine.regime = 3 /\ file.dtype[w] \in {"Q4_K", "Q6_K"}
  THEN <<file.dtype[w], "running sum">> ELSE <<file.dtype[w], "canonical">>
CpuLin(w, from, to) == <<LinearOp(Dispatched(w), w, from, to)>>

QuantizedLayer(l) ==
  LET norm == <<"w", Epsilon(file)>>
      rope == <<IF Neox(file) THEN "neox" ELSE "interleaved", Theta(file)>>
  IN  <<NormOp(norm, NormWeight("rms_att", l), X, Xb)>>
      \o CpuLin(Matrix("wq", l), Xb, Q) \o IfBias("bq", l, Q)
      \o CpuLin(Matrix("wk", l), Xb, B("k")) \o IfBias("bk", l, B("k"))
      \o CpuLin(Matrix("wv", l), Xb, B("v")) \o IfBias("bv", l, B("v"))
      \o <<CopyOp(B("k"), Keys(l)), CopyOp(B("v"), Values(l)),
           RopeOp(rope, Q), RopeOp(rope, Keys(l)), AttentionOp(l)>>
      \o CpuLin(Matrix("wo", l), Att, B("xb2"))
      \o <<AddOp(X, B("xb2")), NormOp(norm, NormWeight("rms_ffn", l), X, Xb)>>
      \o CpuLin(Matrix("w1", l), Xb, B("gate")) \o CpuLin(Matrix("w3", l), Xb, B("up"))
      \o <<ActOp("silu")>>
      \o CpuLin(Matrix("w2", l), B("inner"), B("xb2"))
      \o <<AddOp(X, B("xb2"))>>
QuantizedHead ==
  <<NormOp(<<"w", Epsilon(file)>>, FinalNorm, X, Xb)>>
  \o CpuLin(HeadTensor(file), Xb, B("logits"))

\* forward.rs slices the arrays of the blob; gemma.rs differs in norm and activation.
FloatLin(w, from, to) == LinearOp(<<"F32", "canonical">>, w, from, to)
Sliced(s, l) == SliceHolds(file.header, s, l)
LlamaNorm == <<"w", "1e-5">>
FloatLayer(l, norm, act) ==
  <<NormOp(norm, Sliced("rms_att", l), X, Xb),
    FloatLin(Sliced("wq", l), Xb, Q),
    FloatLin(Sliced("wk", l), Xb, B("k")),
    FloatLin(Sliced("wv", l), Xb, B("v")),
    CopyOp(B("k"), Keys(l)), CopyOp(B("v"), Values(l)),
    RopeOp(<<"interleaved", "1e4">>, Q), RopeOp(<<"interleaved", "1e4">>, Keys(l)),
    AttentionOp(l),
    FloatLin(Sliced("wo", l), Att, B("xb2")),
    AddOp(X, B("xb2")),
    NormOp(norm, Sliced("rms_ffn", l), X, Xb),
    FloatLin(Sliced("w1", l), Xb, B("gate")),
    FloatLin(Sliced("w3", l), Xb, B("up")),
    ActOp(act),
    FloatLin(Sliced("w2", l), B("inner"), B("xb2")),
    AddOp(X, B("xb2"))>>
FloatHead(norm) ==
  <<NormOp(norm, ArrayHolds(file.header, "rms_final"), X, Xb),
    FloatLin(BlobHead(file.header), Xb, B("logits"))>>

GemmaNorm == <<"1+w", "1e-6">>
GemmaLayer(l) == FloatLayer(l, GemmaNorm, "gelu")
GemmaHead == FloatHead(GemmaNorm)
-----------------------------------------------------------------------------
(* The GPU passes.                                                         *)

KernelTypes == <<"Q4_K", "Q6_K", "Q8_0", "Q5_0">>
KindOf(w) == CHOOSE k \in 0..3 : KernelTypes[k + 1] = file.dtype[w]
Ported(w) == \E k \in 0..3 : KernelTypes[k + 1] = file.dtype[w]

\* kind of the CUDA engine; dtype_kind of Metal takes what it does not know for Q4_K,
\* and so does is_q6k of the conformance forward for all but Q6_K.
Kind(w) ==
  IF engine.name = "conformance" THEN (IF file.dtype[w] = "Q6_K" THEN 1 ELSE 0)
  ELSE IF Ported(w) THEN KindOf(w) ELSE 0

\* lin: quantize the input into the scratch the linears share, then the integer dots.
CudaLin(w, from, to) ==
  LET k == Kind(w)
  IN  IF engine.regime = 3 /\ k = 0
      THEN <<QuantOp(from, Scratch),
             DotOp(<<"Q4_K", "running sum">>, w, <<B("dx"), B("qs"), B("bs")>>, to)>>
      ELSE IF k = 1
      THEN <<QuantOp(from, {B("dx"), B("qs")}),
             DotOp(<<"Q6_K", IF engine.regime = 3 THEN "running sum" ELSE "canonical">>, w,
                   <<B("dx"), B("qs")>>, to)>>
      ELSE <<LinearOp(<<KernelTypes[k + 1], "canonical">>, w, from, to)>>

\* pg: a batch has GEMMs for the k-quants, and loops over the rows for the rest.
Pg(w, from, to) ==
  LET k == Kind(w)
  IN  IF k \in {2, 3} THEN <<LinearOp(<<KernelTypes[k + 1], "canonical">>, w, from, to)>>
      ELSE <<QuantOp(from, Scratch),
             IF k = 1
             THEN DotOp(<<"Q6_K", "running sum">>, w, <<B("dx"), B("qs")>>, to)
             ELSE DotOp(<<"Q4_K", "running sum">>, w, <<B("dx"), B("qs"), B("bs")>>, to)>>

\* A mutant: no barrier between quantizing and the dot.
MetalLinUnordered(w, from, to) == CudaLin(w, from, to)

\* Metal's lin, with a barrier between the two dispatches.
MetalLin(w, from, to) ==
  LET k == Kind(w)
  IN  IF k \in {2, 3} THEN <<LinearOp(<<KernelTypes[k + 1], "canonical">>, w, from, to)>>
      ELSE IF engine.regime = 3
      THEN <<QuantOp(from, Scratch)>> \o Barrier(Scratch)
           \o (IF k = 1
               THEN <<DotOp(<<"Q6_K", "running sum">>, w, <<B("dx"), B("qs")>>, to)>>
               ELSE <<DotOp(<<"Q4_K", "running sum">>, w, <<B("dx"), B("qs"), B("bs")>>, to)>>)
      ELSE IF k = 1
      THEN <<QuantOp(from, {B("dx"), B("qs")})>> \o Barrier({B("dx"), B("qs")})
           \o <<DotOp(<<"Q6_K", "canonical">>, w, <<B("dx"), B("qs")>>, to)>>
      ELSE <<LinearOp(<<"Q4_K", "canonical">>, w, from, to)>>

MetalLinAcc(w, from, to) == Accumulating(MetalLin(w, from, to))

ConformanceLin(w, from, to) ==
  LinearOp(<<KernelTypes[Kind(w) + 1], "canonical">>, w, from, to)

GpuNorm == <<"w", Epsilon(file)>>
GpuRope == <<IF Neox(file) THEN "neox" ELSE "interleaved", Theta(file)>>

CudaLayer(l) ==
  <<NormOp(GpuNorm, NormWeight("rms_att", l), X, Xb)>>
  \o CudaLin(Matrix("wq", l), Xb, Q)
  \o CudaLin(Matrix("wk", l), Xb, Keys(l)) \o CudaLin(Matrix("wv", l), Xb, Values(l))
  \o IfBias("bq", l, Q) \o IfBias("bk", l, Keys(l)) \o IfBias("bv", l, Values(l))
  \o <<RopeOp(GpuRope, Q), RopeOp(GpuRope, Keys(l)), AttentionOp(l)>>
  \o Accumulating(CudaLin(Matrix("wo", l), Att, X))
  \o <<NormOp(GpuNorm, NormWeight("rms_ffn", l), X, Xb)>>
  \o CudaLin(Matrix("w1", l), Xb, B("gate")) \o CudaLin(Matrix("w3", l), Xb, B("up"))
  \o <<ActOp("silu")>>
  \o Accumulating(CudaLin(Matrix("w2", l), B("inner"), X))
CudaHead ==
  <<NormOp(GpuNorm, FinalNorm, X, Xb)>> \o CudaLin(HeadTensor(file), Xb, B("logits"))

PrefillLayer(l) ==
  <<NormOp(GpuNorm, NormWeight("rms_att", l), X, Xb)>>
  \o Pg(Matrix("wq", l), Xb, Q)
  \o Pg(Matrix("wk", l), Xb, Keys(l)) \o Pg(Matrix("wv", l), Xb, Values(l))
  \o IfBias("bq", l, Q) \o IfBias("bk", l, Keys(l)) \o IfBias("bv", l, Values(l))
  \o <<RopeOp(GpuRope, Q), RopeOp(GpuRope, Keys(l)), AttentionOp(l)>>
  \o Accumulating(Pg(Matrix("wo", l), Att, X))
  \o <<NormOp(GpuNorm, NormWeight("rms_ffn", l), X, Xb)>>
  \o Pg(Matrix("w1", l), Xb, B("gate")) \o Pg(Matrix("w3", l), Xb, B("up"))
  \o <<ActOp("silu")>>
  \o Accumulating(Pg(Matrix("w2", l), B("inner"), X))
PrefillHead ==
  <<NormOp(GpuNorm, FinalNorm, X, Xb)>> \o OnLastRow(Pg(HeadTensor(file), Xb, B("logits")))

\* Metal adds all three biases of a layer, or none.
MetalBiases(l) ==
  IF HasBias("bq", l)
  THEN <<BiasOp("bq", l, Q), BiasOp("bk", l, Keys(l)), BiasOp("bv", l, Values(l))>>
       \o Barrier({Q, Keys(l), Values(l)})
  ELSE << >>
MetalLayer(l) ==
  <<NormOp(GpuNorm, NormWeight("rms_att", l), X, Xb)>> \o Barrier({Xb})
  \o MetalLin(Matrix("wq", l), Xb, Q)
  \o MetalLin(Matrix("wk", l), Xb, Keys(l)) \o MetalLin(Matrix("wv", l), Xb, Values(l))
  \o Barrier({Q, Keys(l), Values(l)})
  \o MetalBiases(l)
  \o <<RopeOp(GpuRope, Q), RopeOp(GpuRope, Keys(l))>> \o Barrier({Q, Keys(l)})
  \o <<AttentionOp(l)>> \o Barrier({Att})
  \o MetalLinAcc(Matrix("wo", l), Att, X) \o Barrier({X})
  \o <<NormOp(GpuNorm, NormWeight("rms_ffn", l), X, Xb)>> \o Barrier({Xb})
  \o MetalLin(Matrix("w1", l), Xb, B("gate")) \o MetalLin(Matrix("w3", l), Xb, B("up"))
  \o Barrier({B("gate"), B("up")})
  \o <<ActOp("silu")>> \o Barrier({B("inner")})
  \o MetalLinAcc(Matrix("w2", l), B("inner"), X) \o Barrier({X})
MetalHead ==
  <<NormOp(GpuNorm, FinalNorm, X, Xb)>> \o Barrier({Xb})
  \o MetalLin(HeadTensor(file), Xb, B("logits"))

\* The conformance forward waits for every dispatch, rotates one way and adds no bias.
ConformanceLayer(l) ==
  LET rope == <<"interleaved", Theta(file)>>
  IN  <<NormOp(GpuNorm, NormWeight("rms_att", l), X, Xb),
        ConformanceLin(Matrix("wq", l), Xb, Q),
        ConformanceLin(Matrix("wk", l), Xb, B("k")),
        ConformanceLin(Matrix("wv", l), Xb, B("v")),
        CopyOp(B("k"), Keys(l)), CopyOp(B("v"), Values(l)),
        RopeOp(rope, Q), RopeOp(rope, Keys(l)), AttentionOp(l),
        ConformanceLin(Matrix("wo", l), Att, B("xb2")), AddOp(X, B("xb2")),
        NormOp(GpuNorm, NormWeight("rms_ffn", l), X, Xb),
        ConformanceLin(Matrix("w1", l), Xb, B("gate")),
        ConformanceLin(Matrix("w3", l), Xb, B("up")),
        ActOp("silu"),
        ConformanceLin(Matrix("w2", l), B("inner"), B("xb2")), AddOp(X, B("xb2"))>>
ConformanceHead ==
  <<NormOp(GpuNorm, FinalNorm, X, Xb), ConformanceLin(HeadTensor(file), Xb, B("logits"))>>
-----------------------------------------------------------------------------
(* A pass.                                                                 *)

Layer(l) == CASE engine.name = "cpu" -> QuantizedLayer(l)
              [] engine.name = "float" -> FloatLayer(l, LlamaNorm, "silu")
              [] engine.name = "gemma" -> GemmaLayer(l)
              [] engine.name = "prefill" /\ base = 0 -> PrefillLayer(l)
              [] engine.name = "cuda" \/ (engine.name = "prefill" /\ base # 0) -> CudaLayer(l)
              [] engine.name = "metal" -> MetalLayer(l)
              [] engine.name = "conformance" -> ConformanceLayer(l)
FinalOps == CASE engine.name = "cpu" -> QuantizedHead
              [] engine.name = "float" -> FloatHead(LlamaNorm)
              [] engine.name = "gemma" -> GemmaHead
              [] engine.name = "prefill" /\ base = 0 -> PrefillHead
              [] engine.name = "cuda" \/ (engine.name = "prefill" /\ base # 0) -> CudaHead
              [] engine.name = "metal" -> MetalHead
              [] engine.name = "conformance" -> ConformanceHead
Program == FlattenSeq([k \in 1..Layers |-> Layer(k - 1)]) \o FinalOps

IsBarrier(k) == prog[k].op = "barrier"
Accesses(k) == prog[k].outs \cup {prog[k].ins[j] : j \in DOMAIN prog[k].ins}

\* Operation i is over when operation k begins.
Ordered(i, k) ==
  \/ engine.name # "metal"
  \/ \E b \in i + 1..k - 1 :
       IsBarrier(b) /\ prog[b].outs \cap Accesses(i) \cap Accesses(k) # {}
Ready(k) == \A i \in (1..k - 1) \ ran : ~Ordered(i, k)

Temporaries == {"x", "xb", "xb2", "q", "k", "v", "att", "gate", "up", "inner",
                "dx", "qs", "bs", "logits"}
Cells == {<<n, 0, r>> : n \in Temporaries, r \in 0..Len(ids) - 1}
         \cup {<<n, l, p>> : n \in Caches, l \in 0..Layers - 1, p \in 0..LastPos}

RowOf(c) == IF c[1] \in Caches THEN c[3] - base ELSE c[3]
Held(buf, r) == mem[<<buf[1], buf[2], IF buf[1] \in Caches THEN base + r ELSE r>>]

\* What operation o writes for row r, before it is added to what was there.
Computed(o, r) ==
  LET vs == [k \in DOMAIN o.ins |-> Held(o.ins[k], r)]
  IN  CASE o.op \in {"quant", "copy"} -> vs[1]
        [] o.op = "dot" -> IF \E k \in DOMAIN vs : vs[k] # vs[1] THEN Junk
                           ELSE Result("linear", o.how, o.w, <<vs[1]>>)
        [] o.op = "attention" ->
             LET l == o.ins[2][2]
                 past(n) == [t \in 0..base + r |-> mem[<<n, l, t>>]]
             IN  Attended(vs[1], base + r, past("keys"), past("values"))
        [] OTHER -> Result(o.op, o.how, o.w, vs)
Written(o, c) ==
  LET v == Computed(o, RowOf(c))
  IN  IF o.acc THEN Result("add", None, None, <<mem[c], v>>) ELSE v
-----------------------------------------------------------------------------
EngineInit ==
  /\ engine \in Engines /\ file \in (IF Quantized THEN GgufFiles ELSE BlobFiles)
  /\ epc = "load" /\ mem = << >> /\ prog = << >> /\ ran = {} /\ base = 0 /\ logits = << >>

\* head_size divides by the number of heads.
Load ==
  /\ epc = "load"
  /\ epc' = IF Quantized THEN IF Loads(file) THEN "create" ELSE "refused"
            ELSE IF file.header.n_heads = 0 THEN "panicked"
            ELSE IF BlobLoads(file.header, file.floats) THEN "create" ELSE "refused"
  /\ UNCHANGED <<engine, file, ids, mem, prog, ran, base, logits>>

\* The tensors a GPU engine makes kernels' buffers of.
Uploaded == {HeadTensor(file)} \cup
            {Matrix(s, l) : s \in DOMAIN Matrices, l \in 0..file.blocks - 1}

\* CudaForward::new refuses a type without a kernel; caches are zero.
Create ==
  /\ epc = "create"
  /\ IF engine.name \in {"cuda", "prefill"} /\ \E w \in Uploaded : ~Ported(w)
     THEN epc' = "refused" /\ UNCHANGED mem
     ELSE epc' = "embed" /\ mem' = [c \in Cells |-> Zero]
  /\ UNCHANGED <<engine, file, ids, prog, ran, base, logits>>

EmbedTypes == {"F32", "Q4_0", "Q8_0", "Q5_0", "Q4_K", "Q6_K"}
TableRows == IF Quantized THEN file.rows ELSE VocabSize(file.header)
CanEmbed(p) ==
  /\ TokenAt(p) < TableRows
  /\ Quantized => file.dtype[<<"token_embd", 0>>] \in EmbedTypes

\* The row of a token; the conformance forward reads any table as one of Q4_K.
Embedded(p) ==
  IF engine.name = "conformance" /\ file.dtype[<<"token_embd", 0>>] # "Q4_K" THEN Junk
  ELSE <<"x", 0, p>>

\* kv_mul divides by n_kv_heads; a slice past its array panics.
FloatPanics ==
  \/ file.header.n_kv_heads = 0
  \/ \E a \in DOMAIN SlicePerLayer(file.header), l \in 0..Layers - 1 :
       ~SliceFits(file.header, a, l)
MetalPanics ==
  \E l \in 0..Layers - 1 : HasBias("bq", l) /\ ~(HasBias("bk", l) /\ HasBias("bv", l))

\* Embed the tokens of a pass and lay its operations out.
Embed ==
  /\ epc = "embed"
  /\ IF engine.name # "conformance" /\ \E r \in 0..Rows - 1 : ~CanEmbed(base + r)
     THEN epc' = (IF engine.name = "cpu" THEN "refused" ELSE "panicked")
          /\ UNCHANGED <<mem, prog, ran>>
     ELSE IF \/ ~Quantized /\ FloatPanics
             \/ engine.name = "metal" /\ MetalPanics
     THEN epc' = "panicked" /\ UNCHANGED <<mem, prog, ran>>
     ELSE /\ mem' = [c \in Cells |-> IF c[1] = "x" /\ RowOf(c) < Rows
                                     THEN Embedded(base + RowOf(c)) ELSE mem[c]]
          /\ prog' = Program
          /\ ran' = {k \in DOMAIN prog' : prog'[k].op = "barrier"}
          /\ epc' = "run"
  /\ UNCHANGED <<engine, file, ids, base, logits>>

\* One operation, on every row of the pass.
Dispatch(k) ==
  /\ epc = "run" /\ k \in DOMAIN prog \ ran /\ Ready(k)
  /\ IF engine.name = "cpu" /\ prog[k].op = "linear" /\ file.dtype[prog[k].w] \notin HostTypes
     THEN epc' = "refused" /\ UNCHANGED <<mem, ran>>
     ELSE /\ mem' = [c \in Cells |->
                       IF /\ <<c[1], c[2]>> \in prog[k].outs
                          /\ RowOf(c) \in (IF prog[k].last THEN Rows - 1 ELSE 0)..Rows - 1
                       THEN Written(prog[k], c) ELSE mem[c]]
          /\ ran' = ran \cup {k}
          /\ UNCHANGED epc
  /\ UNCHANGED <<engine, file, ids, prog, base, logits>>

\* The logits of the last row; CUDA and Metal keep their buffers for the next pass.
EndPass ==
  /\ epc = "run" /\ ran = DOMAIN prog
  /\ logits' = Append(logits, Held(B("logits"), Rows - 1))
  /\ base' = base + Rows
  /\ epc' = IF base' > LastPos THEN "done" ELSE "embed"
  /\ mem' = IF engine.name \in {"cuda", "metal"} THEN mem
            ELSE [c \in Cells |-> IF c[1] \in Caches THEN mem[c] ELSE Zero]
  /\ prog' = << >> /\ ran' = {}
  /\ UNCHANGED <<engine, file, ids>>

EngineNext == Load \/ Create \/ Embed \/ EndPass \/ \E k \in DOMAIN prog : Dispatch(k)

EngineEnded == epc \in {"done", "refused", "panicked"}
-----------------------------------------------------------------------------
(* Correctness.                                                            *)

AllOrNoBias == \A l \in 0..Layers - 1 : HasBias("bq", l) = HasBias("bk", l)
                                        /\ HasBias("bq", l) = HasBias("bv", l)

\* The files an engine is written for: Metal's comment at dtype_kind names four
\* types, the conformance forward is for Llama files of Q4_K and Q6_K.
ForMetal == AllOrNoBias /\ \A w \in Uploaded : Ported(w)
ForConformance ==
  /\ ~Neox(file) /\ file.dtype[<<"token_embd", 0>>] = "Q4_K"
  /\ \A w \in Uploaded : file.dtype[w] \in {"Q4_K", "Q6_K"}
  /\ \A l \in 0..Layers - 1, s \in DOMAIN Biases : ~HasBias(s, l)
  /\ \A p \in 0..LastPos : TokenAt(p) < TableRows
InScope == (engine.name = "metal" => ForMetal) /\ (engine.name = "conformance" => ForConformance)

\* Every engine computes the function the file defines: each vector of logits is
\* that of the last layer at its position, and every intermediate result on the
\* way had the weight, the kernel, the bias, the rotation and the operands of its
\* definition, whatever a shared buffer held before and, on Metal, in whatever
\* order the dispatches ran that no barrier orders.
EngineIsReference ==
  /\ epc = "run" /\ (\E c \in Cells : mem[c] = Junk) => ~InScope
  /\ epc = "done" /\ InScope =>
       LET first == IF engine.name = "prefill" THEN LastPos - 1 ELSE 0
       IN  logits = [k \in 1..LastPos - first + 1 |-> <<"logits", Layers, first + k - 1>>]
=============================================================================

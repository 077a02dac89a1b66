---------------------------- MODULE SessionProofs ----------------------------
(***************************************************************************)
(* Proofs about a session: what its engine holds between and during the    *)
(* passes, the parser, and the tokenizers, for every file, every           *)
(* vocabulary and every text.                                              *)
(***************************************************************************)
EXTENDS Session, EngineProofs
-----------------------------------------------------------------------------
(* The engine between its steps.                                           *)

\* The model that is served, and the prompt.
Same == UNCHANGED <<engine, file, ids>>

\* Nothing that defines a model changes while it is served ...
LEMMA SameModel ==
  ASSUME Same
  PROVE  /\ Quantized' = Quantized /\ Layers' = Layers /\ Metal' = Metal
         /\ LastPos' = LastPos /\ Norm' = Norm /\ Rotation' = Rotation /\ Act' = Act /\ Classifier' = Classifier
<1>1. Quantized' = Quantized /\ engine' = engine /\ file' = file /\ ids' = ids
  BY DEF Same, Quantized
<1>2. Layers' = Layers /\ Metal' = Metal /\ LastPos' = LastPos
  BY <1>1 DEF Layers, Metal, LastPos
<1>3. Norm' = Norm
  BY <1>1 DEF Norm
<1>4. Rotation' = Rotation
  BY <1>1 DEF Rotation
<1>5. Act' = Act
  BY <1>1 DEF Act
<1>6. Classifier' = Classifier
  BY <1>1 DEF Classifier
<1> QED BY <1>1, <1>2, <1>3, <1>4, <1>5, <1>6

\* ... no bias ...
LEMMA SameBias ==
  ASSUME Same, NEW s, NEW l
  PROVE  HasBias(s, l)' = HasBias(s, l)
<1>1. Quantized' = Quantized /\ file' = file
  BY SameModel DEF Same
<1> QED BY <1>1 DEF HasBias

\* ... no name of what a bias is added to ...
LEMMA SameRaw ==
  ASSUME Same, NEW s, NEW l
  PROVE  Raw(s, l)' = Raw(s, l)
<1>1. HasBias(s, l)' <=> HasBias(s, l)
  BY SameBias
<1> QED BY <1>1 DEF Raw

\* ... no arithmetic ...
LEMMA SameProduct ==
  ASSUME Same, NEW w
  PROVE  Product(w)' = Product(w) /\ Dtype(w)' = Dtype(w)
<1>1. Quantized' = Quantized /\ file' = file /\ engine' = engine
  BY SameModel DEF Same
<1>2. Dtype(w)' = Dtype(w)
  BY <1>1 DEF Dtype
<1> QED BY <1>1, <1>2 DEF Product

\* ... no linear ...
LEMMA SameLinear ==
  ASSUME Same, NEW w, NEW from, NEW to
  PROVE  Linear(w, from, to)' = Linear(w, from, to)
<1>1. Product(w)' = Product(w)
  BY SameProduct
<1> QED BY <1>1 DEF Linear

\* ... no definition ...
LEMMA SameDefinitions ==
  ASSUME Same, NEW l
  PROVE  Definitions(l)' = Definitions(l) /\ FinalDefinitions' = FinalDefinitions
<1>1. Norm' = Norm /\ Rotation' = Rotation /\ Act' = Act /\ Classifier' = Classifier
  BY SameModel
<1>2. Raw("bq", l)' = Raw("bq", l) /\ Raw("bk", l)' = Raw("bk", l) /\ Raw("bv", l)' = Raw("bv", l)
  BY SameRaw
<1>3. /\ Product(<<"attn_q", l>>)' = Product(<<"attn_q", l>>) /\ Product(<<"attn_k", l>>)' = Product(<<"attn_k", l>>)
      /\ Product(<<"attn_v", l>>)' = Product(<<"attn_v", l>>) /\ Product(<<"attn_output", l>>)' = Product(<<"attn_output", l>>)
      /\ Product(<<"ffn_gate", l>>)' = Product(<<"ffn_gate", l>>) /\ Product(<<"ffn_up", l>>)' = Product(<<"ffn_up", l>>)
      /\ Product(<<"ffn_down", l>>)' = Product(<<"ffn_down", l>>)
  BY SameProduct
<1>4. Definitions(l)' = Definitions(l)
  BY <1>1, <1>2, <1>3 DEF Definitions, Linear
<1>5. Product(Classifier)' = Product(Classifier)
  <2>1. PICK c : c = Classifier
    OBVIOUS
  <2>2. Classifier' = c
    BY <1>1, <2>1
  <2>3. Product(c)' = Product(c)
    BY SameProduct
  <2>4. Quantized' = Quantized /\ file' = file /\ engine' = engine
    BY SameModel DEF Same
  <2> QED BY <2>1, <2>2, <2>4 DEF Product, Dtype
<1>6. FinalDefinitions' = FinalDefinitions
  BY <1>1, <1>5 DEF FinalDefinitions, Linear, FinalNorm
<1> QED BY <1>4, <1>6

\* ... no result ...
LEMMA SameResult ==
  ASSUME Same, NEW op, NEW how, NEW w, NEW vs
  PROVE  Result(op, how, w, vs)' = Result(op, how, w, vs)
<1>1. PICK l : l = vs[1][2]
  OBVIOUS
<1>2. Definitions(l)' = Definitions(l) /\ FinalDefinitions' = FinalDefinitions /\ Layers' = Layers
  BY SameDefinitions, SameModel
<1>3. Definitions(vs[1][2])' = Definitions(vs[1][2])
  BY SameDefinitions
<1> QED BY <1>2, <1>3 DEF Result

\* ... not what an operation makes ...
LEMMA SameMakes ==
  ASSUME Same, NEW o, NEW u, NEW v, Makes(o, u, v)
  PROVE  Makes(o, u, v)'
<1>1. \A op, how, w, vs : Result(op, how, w, vs)' = Result(op, how, w, vs)
  BY SameResult
<1>2. Layers' = Layers
  BY SameModel
<1>3. PICK y : MakesRaw(o, u, y)
               /\ IF o.acc
                  THEN \A b \in o.outs, q \in Nat :
                         Result("add", None, None, <<ValueAt(u[b], q), ValueAt(y, q)>>) = ValueAt(v, q)
                  ELSE y = v
  BY DEF Makes
<1>4. MakesRaw(o, u, y)'
  BY <1>1, <1>2, <1>3 DEF MakesRaw
<1>5. (IF o.acc
                  THEN \A b \in o.outs, q \in Nat :
                         Result("add", None, None, <<ValueAt(u[b], q), ValueAt(y, q)>>) = ValueAt(v, q)
                  ELSE y = v)'
  BY <1>1, <1>3
<1> QED BY <1>4, <1>5 DEF Makes

\* ... nor what a program computes.
LEMMA SameExplained ==
  ASSUME Same, NEW p, NEW m, NEW val, Explained(p, m, val)
  PROVE  Explained(p, m, val)'
<1>1. Layers' = Layers /\ Buffers' = Buffers
  BY SameModel DEF Buffers
<1>2. Final(p, m, val)'
  BY <1>1 DEF Explained, Final
<1>3. ASSUME NEW k \in DOMAIN p, ~Fenced(p[k])
      PROVE  Sound(p, m, val, k)'
  <2>1. Sound(p, m, val, k)
    BY <1>3 DEF Explained, Annotated
  <2>2. PICK u : /\ \A b \in Reads(p[k]) : b \in Buffers /\ \E x : Source(p, m, val, b, x, k) /\ u[b] = val[x]
                 /\ Makes(p[k], u, val[k])
    BY <2>1 DEF Sound
  <2>3. Makes(p[k], u, val[k])'
    BY <2>2, SameMakes
  <2> QED BY <1>1, <2>1, <2>2, <2>3 DEF Sound
<1>4. Annotated(p, m, val)'
  BY <1>3 DEF Annotated
<1> QED BY <1>2, <1>4 DEF Explained

\* The files an engine is for stay so.
LEMMA SameScope ==
  ASSUME Same
  PROVE  (InScope' <=> InScope) /\ Uploaded' = Uploaded /\ (\A w : Ported(w)' <=> Ported(w)) /\ Cells' = Cells
         /\ TableRows' = TableRows
<1>1. Quantized' = Quantized /\ Layers' = Layers /\ LastPos' = LastPos /\ engine' = engine /\ file' = file /\ ids' = ids
  BY SameModel DEF Same
<1>2. Uploaded' = Uploaded
  BY <1>1 DEF Uploaded
<1>3. \A w : Ported(w)' <=> Ported(w)
  BY <1>1 DEF Ported
<1>4. \A s, l : HasBias(s, l)' <=> HasBias(s, l)
  BY SameBias
<1>5. AllOrNoBias' <=> AllOrNoBias
  BY <1>1, <1>4 DEF AllOrNoBias
<1>6. TableRows' = TableRows /\ \A p : TokenAt(p)' = TokenAt(p)
  BY <1>1 DEF TableRows, TokenAt
<1>7. ASSUME engine.name = "metal" PROVE ForMetal' <=> ForMetal
  BY <1>1, <1>2, <1>3, <1>5, <1>7 DEF ForMetal
<1>8. ASSUME engine.name = "conformance" PROVE ForConformance' <=> ForConformance
  <2>2. (\A p \in 0..LastPos : TokenAt(p) < TableRows)' <=> (\A p \in 0..LastPos : TokenAt(p) < TableRows)
    BY <1>1, <1>6
  <2>3. (\A l \in 0..Layers - 1, s \in DOMAIN Biases : ~HasBias(s, l))' <=> \A l \in 0..Layers - 1, s \in DOMAIN Biases : ~HasBias(s, l)
    BY <1>1, <1>4
  <2>4. (\A w \in Uploaded : file.dtype[w] \in {"Q4_K", "Q6_K"})' <=> \A w \in Uploaded : file.dtype[w] \in {"Q4_K", "Q6_K"}
    BY <1>1, <1>2
  <2>5. Neox(file)' <=> Neox(file)
    BY <1>1 DEF Neox
  <2> QED BY <1>1, <2>2, <2>3, <2>4, <2>5 DEF ForConformance
<1>9. InScope' <=> InScope
  BY <1>1, <1>7, <1>8 DEF InScope
<1>10. Cells' = Cells
  BY <1>1 DEF Cells
<1> QED BY <1>2, <1>3, <1>6, <1>9, <1>10
-----------------------------------------------------------------------------
\* What the passes up to position b returned.
Returned(b) ==
  LET first == IF engine.name = "prefill" THEN LastPos - 1 ELSE 0
      n == IF engine.name = "prefill" /\ b = 0 THEN 0 ELSE b - first
  IN  [k \in 1..n |-> <<"logits", Layers, first + k - 1>>]

\* An engine that was created: the passes before this one did what they should.
Serves ==
  /\ engine.name \in {"cuda", "prefill"} => \A w \in Uploaded : Ported(w)
  /\ ~Quantized => file.header.n_heads # 0
  /\ base \in 0..LastPos + 1
  /\ engine.name = "prefill" => base \in {0, LastPos, LastPos + 1}
  /\ IF epc = "done" THEN base = LastPos + 1 ELSE base =< LastPos
  /\ InScope => Past /\ NoJunk /\ logits = Returned(base)

\* A pass: what has run could, and left what the annotation of the program says.
Passing ==
  /\ Closed(prog, Metal, ran)
  /\ \E p, m, val : p = prog /\ m = Metal /\ Explained(p, m, val) /\ Holds(val)

EngineInv ==
  /\ engine \in Engines /\ file \in (IF Quantized THEN GgufFiles ELSE BlobFiles)
  /\ epc \in {"load", "create", "embed", "run", "done", "refused", "panicked"}
  /\ epc \in {"load", "create"} => base = 0 /\ logits = << >>
  /\ epc = "create" => (~Quantized => file.header.n_heads # 0)
  /\ epc \in {"embed", "run", "done"} => Serves
  /\ epc = "run" => ran \subseteq DOMAIN prog /\ (InScope => Passing)

\* The invariant implies that the engine computes the function its file defines.
LEMMA InvImplies ==
  ASSUME EngineInv, ids \in Seq(Nat)
  PROVE  EngineIsReference
<1>1. ASSUME epc = "run", \E c \in Cells : mem[c] = Junk PROVE ~InScope
  BY <1>1 DEF EngineInv, Serves, NoJunk
<1>2. ASSUME epc = "done", InScope
      PROVE  LET first == IF engine.name = "prefill" THEN LastPos - 1 ELSE 0
             IN  logits = [k \in 1..LastPos - first + 1 |-> <<"logits", Layers, first + k - 1>>]
  <2>1. base = LastPos + 1 /\ logits = Returned(base) /\ (engine.name = "prefill" => base # 0)
    BY <1>2 DEF EngineInv, Serves, LastPos
  <2>2. LastPos \in Nat
    BY DEF LastPos
  <2>3. PICK first : first = IF engine.name = "prefill" THEN LastPos - 1 ELSE 0
    OBVIOUS
  <2>4. LastPos + 1 - first = LastPos - first + 1
    BY <2>2, <2>3
  <2> QED BY <2>2, <2>3, <2>4, <2>1 DEF Returned
<1> QED BY <1>1, <1>2 DEF EngineIsReference

\* It holds when an engine is started.
LEMMA InvStarts == EngineInit => EngineInv
  BY DEF EngineInit, EngineInv

\* The slices of a float pass are the weights they are asked for.
FloatReady ==
  ~Quantized => /\ \A l \in 0..Layers - 1 : SlicesAre(l)
                /\ ArrayHolds(file.header, "rms_final") = FinalNorm /\ BlobHead(file.header) = Classifier

\* A prompt.
Prompted == ids \in Seq(Nat) /\ ids # << >> /\ KnownEngine /\ Layers \in Nat

\* A prompt has a first token.
LEMMA PromptLength ==
  ASSUME Prompted
  PROVE  LastPos \in Nat \ {0} /\ Len(ids) = LastPos
<1>1. Len(ids) \in Nat \ {0}
  BY EmptySeq DEF Prompted
<1> QED BY <1>1 DEF LastPos

\* The rows of a pass fit the prompt.
LEMMA ServesFits ==
  ASSUME Prompted, Serves, epc # "done"
  PROVE  Fits
<1>1. LastPos \in Nat \ {0} /\ Len(ids) = LastPos
  BY PromptLength
<1>2. base \in Nat /\ base =< LastPos
  BY <1>1 DEF Serves
<1>3. Rows = IF engine.name = "prefill" /\ base = 0 THEN LastPos ELSE 1
  BY <1>1 DEF Rows
<1>4. Layers \in Nat
  BY DEF Prompted
<1> QED BY <1>1, <1>2, <1>3, <1>4 DEF Fits

\* Load keeps the invariant ...
LEMMA LoadStep ==
  ASSUME EngineInv, Load
  PROVE  EngineInv'
<1>1. Same /\ Quantized' = Quantized
  BY SameModel DEF Load, Same
<1>2. epc = "load" /\ epc' \in {"create", "refused", "panicked"} /\ base' = base /\ logits' = logits
      /\ (epc' = "create" => (~Quantized => file.header.n_heads # 0))
  BY DEF Load
<1> QED BY <1>1, <1>2 DEF EngineInv, Same

\* ... so does Create, with caches of zeros ...
LEMMA CreateStep ==
  ASSUME EngineInv, Create, Prompted
  PROVE  EngineInv'
<1>1. Same /\ Quantized' = Quantized /\ Layers' = Layers /\ LastPos' = LastPos /\ Uploaded' = Uploaded
      /\ (\A w : Ported(w)' <=> Ported(w)) /\ Cells' = Cells /\ (InScope' <=> InScope)
  BY SameModel, SameScope DEF Create, Same
<1>2. epc = "create" /\ base' = base /\ logits' = logits /\ base = 0 /\ logits = << >>
      /\ (~Quantized => file.header.n_heads # 0)
  BY DEF Create, EngineInv
<1>3. CASE epc' = "refused"
  BY <1>1, <1>2, <1>3 DEF EngineInv, Same
<1>4. CASE epc' # "refused"
  <2>1. epc' = "embed" /\ mem' = [c \in Cells |-> Zero] /\ (engine.name \in {"cuda", "prefill"} => \A w \in Uploaded : Ported(w))
    BY <1>4 DEF Create
  <2>2. LastPos \in Nat \ {0}
    BY PromptLength
  <2>3. Past'
    BY <1>2 DEF Past
  <2>4. NoJunk'
    BY <1>1, <2>1 DEF NoJunk, Zero, Junk
  <2>5. Returned(base)' = << >>
    BY <1>1, <1>2 DEF Returned, Same
  <2>6. Serves'
    BY <1>1, <1>2, <2>1, <2>2, <2>3, <2>4, <2>5 DEF Serves, Same
  <2> QED BY <1>1, <1>2, <2>1, <2>6 DEF EngineInv, Same
<1> QED BY <1>3, <1>4

\* What embedding writes is no junk.
LEMMA EmbeddedIs ==
  ASSUME InScope
  PROVE  \A q : Embedded(q) = <<"x", 0, q>> /\ Embedded(q) # Junk
<1>1. engine.name = "conformance" => file.dtype[<<"token_embd", 0>>] = "Q4_K"
  BY DEF InScope, ForConformance
<1> QED BY <1>1 DEF Embedded, Junk

\* What has run when a pass begins.
LEMMA PassBegins ==
  ASSUME Fits, Same, base' = base, InScope, NEW val, NEW p, NEW m, Explained(p, m, val),
         m = Metal, prog' = p, ran' = {k \in DOMAIN p : Fenced(p[k])},
         mem' = [c \in Cells |-> IF c[1] = "x" /\ RowOf(c) < Rows THEN Embedded(base + RowOf(c)) ELSE mem[c]]
  PROVE  Passing'
<1>1. Explained(p, m, val)' /\ Metal' = m /\ Rows' = Rows
  <2>1. Rows' = Rows
    BY DEF Same, Rows
  <2> QED BY <2>1, SameExplained, SameModel
<1>2. Closed(p, m, {k \in DOMAIN p : Fenced(p[k])})
  BY DEF Closed
<1>3. ASSUME NEW r \in 0..Rows - 1
      PROVE  mem'[CellOf(X, r)] = <<"x", 0, base + r>>
  <2>1. CellOf(X, r) = <<"x", 0, r>> /\ CellOf(X, r) \in Cells /\ RowOf(CellOf(X, r)) = r
    <3>1. X \in Buffers
      BY BufferNames
    <3>2. CellOf(X, r) \in Cells /\ RowOf(CellOf(X, r)) = r
      BY <3>1, CellIsCell
    <3> QED BY <3>2 DEF CellOf, X, B, Caches
  <2>2. r < Rows
    BY DEF Fits
  <2>3. mem'[CellOf(X, r)] = Embedded(base + r)
    BY <2>1, <2>2
  <2> QED BY <2>3, EmbeddedIs
<1>4. Holds(val)'
  <2> SUFFICES ASSUME NEW x \in ran' \cup {0}, x # 0 => ~Fenced(p[x]), NEW b \in OutsOf(p, x), NEW r \in RowsOf(p, x)'
               PROVE  mem'[CellOf(b, r)'] = ValueAt(val[x], base + r)
    BY DEF Holds
  <2>1. x = 0
    OBVIOUS
  <2>2. b = X /\ r \in 0..Rows - 1 /\ val[x] = <<"x", 0>> /\ CellOf(b, r)' = CellOf(b, r)
    BY <1>1, <2>1 DEF OutsOf, RowsOf, Explained, CellOf
  <2> QED BY <1>3, <2>2 DEF ValueAt
<1> QED BY <1>1, <1>2, <1>4 DEF Passing

\* ... Embed ...
LEMMA EmbedStep ==
  ASSUME EngineInv, Embed, Prompted, ~Quantized /\ ~FloatPanics => FloatReady
  PROVE  EngineInv'
<1>1. Same /\ Quantized' = Quantized /\ Layers' = Layers /\ LastPos' = LastPos /\ Uploaded' = Uploaded
      /\ (\A w : Ported(w)' <=> Ported(w)) /\ Cells' = Cells /\ (InScope' <=> InScope)
  BY SameModel, SameScope DEF Embed, Same
<1>2. epc = "embed" /\ base' = base /\ logits' = logits /\ Serves
  BY DEF Embed, EngineInv
<1>3. CASE epc' \in {"refused", "panicked"}
  BY <1>1, <1>2, <1>3 DEF EngineInv, Same
<1>4. CASE epc' \notin {"refused", "panicked"}
  <2>1. /\ mem' = [c \in Cells |-> IF c[1] = "x" /\ RowOf(c) < Rows THEN Embedded(base + RowOf(c)) ELSE mem[c]]
        /\ prog' = Program /\ ran' = {k \in DOMAIN prog' : prog'[k].op = "barrier"} /\ epc' = "run"
        /\ (~Quantized => ~FloatPanics)
    BY <1>4 DEF Embed
  <2>2. LastPos \in Nat \ {0} /\ Len(ids) = LastPos /\ Fits
    BY <1>2, PromptLength, ServesFits
  <2>3. ran' \subseteq DOMAIN prog'
    BY <2>1
  <2>4. ASSUME InScope PROVE Past' /\ NoJunk' /\ Passing'
    <3>1. Past /\ NoJunk
      BY <1>2, <2>4 DEF Serves
    <3>2. NoJunk'
      BY <1>1, <2>1, <2>4, <3>1, EmbeddedIs DEF NoJunk
    <3>3. Past'
      <4>1. ASSUME NEW l \in 0..Layers - 1, NEW t \in 0..base - 1, NEW n \in {"keys", "values"}
            PROVE  mem'[<<n, l, t>>] = mem[<<n, l, t>>]
        <5>1. t \in 0..LastPos
          BY <1>2, <2>2 DEF Serves
        <5>2. <<n, l, t>> \in Cells
          BY <5>1 DEF Cells, Caches
        <5> QED BY <2>1, <5>2
      <4>2. ASSUME NEW l \in 0..Layers - 1, NEW t \in 0..base - 1
            PROVE  mem'[<<"keys", l, t>>] = <<"kr", l, t>> /\ mem'[<<"values", l, t>>] = <<"v", l, t>>
        <5>1. mem'[<<"keys", l, t>>] = mem[<<"keys", l, t>>] /\ mem'[<<"values", l, t>>] = mem[<<"values", l, t>>]
          BY <4>1
        <5> QED BY <3>1, <5>1 DEF Past
      <4> QED BY <1>1, <1>2, <4>2 DEF Past
    <3>4. \E val : Explained(Program, Metal, val)
      <4>1. EngineReady
        BY <1>2, <2>1 DEF EngineReady, Serves, FloatReady
      <4> QED BY <2>4, <4>1, ProgramExplained DEF Prompted
    <3>5. PICK val, p, m : p = Program /\ m = Metal /\ Explained(p, m, val)
      BY <3>4
    <3>6. Passing'
      BY <1>1, <1>2, <2>1, <2>2, <2>4, <3>5, PassBegins DEF Fenced
    <3> QED BY <3>2, <3>3, <3>6
  <2>5. Returned(base)' = Returned(base)
    BY <1>1, <1>2 DEF Returned, Same
  <2>6. Serves'
    BY <1>1, <1>2, <2>1, <2>4, <2>5 DEF Serves, Same
  <2> QED BY <1>1, <2>1, <2>3, <2>4, <2>6 DEF EngineInv, Same
<1> QED BY <1>3, <1>4

\* ... Dispatch ...
LEMMA DispatchStep ==
  ASSUME EngineInv, NEW k \in DOMAIN prog, Dispatch(k), Prompted
  PROVE  EngineInv'
<1>1. Same /\ Quantized' = Quantized /\ Layers' = Layers /\ LastPos' = LastPos /\ Uploaded' = Uploaded
      /\ (\A w : Ported(w)' <=> Ported(w)) /\ Cells' = Cells /\ (InScope' <=> InScope) /\ Metal' = Metal
  BY SameModel, SameScope DEF Dispatch, Same
<1>2. epc = "run" /\ base' = base /\ logits' = logits /\ Serves /\ ran \subseteq DOMAIN prog /\ prog' = prog
      /\ (InScope => Passing)
  BY DEF Dispatch, EngineInv
<1>3. CASE epc' = "refused"
  BY <1>1, <1>2, <1>3 DEF EngineInv, Same
<1>4. CASE epc' # "refused"
  <2>1. Runs(k) /\ epc' = "run" /\ k \in DOMAIN prog \ ran /\ Ready(k)
    BY <1>2, <1>4 DEF Dispatch, Runs
  <2>2. LastPos \in Nat \ {0} /\ Len(ids) = LastPos /\ Fits
    BY <1>2, PromptLength, ServesFits
  <2>3. ran' \subseteq DOMAIN prog'
    BY <1>2, <2>1 DEF Runs
  <2>4. ASSUME InScope PROVE Past' /\ NoJunk' /\ Passing'
    <3>1. Past /\ NoJunk /\ Passing
      BY <1>2, <2>4 DEF Serves
    <3>2. PICK p, m, val : p = prog /\ m = Metal /\ Explained(p, m, val) /\ Holds(val)
      BY <3>1 DEF Passing
    <3>3. Annotated(prog, Metal, val) /\ DOMAIN prog \subseteq Nat \ {0} /\ Closed(prog, Metal, ran)
      BY <3>1, <3>2 DEF Explained, Passing
    <3>4. DispatchedOp(val, k)
      BY <2>1, <2>2, <3>1, <3>2, <3>3 DEF DispatchedOp
    <3>5. ~Fenced(prog[k])
      BY <2>1, <3>3 DEF Closed
    <3>6. Holds(val)' /\ Closed(prog, Metal, ran)' /\ Past' /\ NoJunk'
      BY <2>1, <3>1, <3>4, <3>5, RunKeepsValues, RunKeepsRest
    <3>7. Explained(p, m, val)'
      BY <1>1, <3>2, SameExplained
    <3>8. p = prog' /\ m = Metal'
      BY <1>1, <1>2, <3>2
    <3> QED BY <3>6, <3>7, <3>8 DEF Passing
  <2>5. Returned(base)' = Returned(base)
    BY <1>1, <1>2 DEF Returned, Same
  <2>6. Serves'
    BY <1>1, <1>2, <2>1, <2>4, <2>5 DEF Serves, Same
  <2> QED BY <1>1, <2>1, <2>3, <2>4, <2>6 DEF EngineInv, Same
<1> QED BY <1>3, <1>4

\* What an operation left that nothing overwrites is there at the end of the pass.
LEMMA LeftThere ==
  ASSUME Fits, NEW val, Holds(val), ran = DOMAIN prog, NEW b \in Buffers, NEW x, NEW v,
         Leaves(prog, Metal, val, b, x, v), x # 0
  PROVE  \A r \in RowsOf(prog, x) : mem[CellOf(b, r)] = ValueAt(v, base + r)
<1>1. x \in ran /\ ~Fenced(prog[x]) /\ b \in OutsOf(prog, x) /\ Keeps(prog, Metal, val, b, x, {}) /\ val[x] = v
  BY DEF Leaves, OutsOf
<1>2. PICK K : K = {}
  OBVIOUS
<1>3. K \in SUBSET DOMAIN prog /\ K \cap ran = {} /\ Keeps(prog, Metal, val, b, x, K)
  BY <1>1, <1>2
<1> QED BY <1>1, <1>3 DEF Holds

\* What has been computed when a pass ends.
LEMMA PassEnds ==
  ASSUME Fits, Passing, ran = DOMAIN prog
  PROVE  /\ Held(B("logits"), Rows - 1) = <<"logits", Layers, base + Rows - 1>>
         /\ \A l \in 0..Layers - 1, r \in 0..Rows - 1 :
              /\ mem[<<"keys", l, base + r>>] = <<"kr", l, base + r>>
              /\ mem[<<"values", l, base + r>>] = <<"v", l, base + r>>
<1>1. PICK p, m, val : p = prog /\ m = Metal /\ Explained(p, m, val) /\ Holds(val)
  BY DEF Passing
<1>2. 0 \notin DOMAIN prog /\ Final(prog, Metal, val) /\ Rows - 1 \in 0..Rows - 1
  BY <1>1 DEF Explained, Fits
<1>3. Held(B("logits"), Rows - 1) = <<"logits", Layers, base + Rows - 1>>
  <2>1. PICK x : Leaves(prog, Metal, val, B("logits"), x, <<"logits", Layers>>)
    BY <1>2 DEF Final
  <2>2. Rows - 1 \in RowsOf(prog, x) /\ x # 0
    BY <1>2, <2>1 DEF RowsOf, Leaves
  <2>3. B("logits") \in Buffers
    BY BufferNames
  <2>4. mem[CellOf(B("logits"), Rows - 1)] = ValueAt(<<"logits", Layers>>, base + (Rows - 1))
    BY <1>1, <2>1, <2>2, <2>3, LeftThere
  <2>5. base + (Rows - 1) = base + Rows - 1
    BY DEF Fits
  <2> QED BY <2>4, <2>5 DEF Held, CellOf, ValueAt
<1>4. ASSUME NEW l \in 0..Layers - 1, NEW r \in 0..Rows - 1
      PROVE  mem[<<"keys", l, base + r>>] = <<"kr", l, base + r>>
  <2>1. PICK x : Leaves(prog, Metal, val, Keys(l), x, <<"kr", l>>) /\ ~prog[x].last
    BY <1>2 DEF Final
  <2>2. r \in RowsOf(prog, x) /\ x # 0
    BY <1>2, <2>1 DEF RowsOf, Leaves
  <2>3. Keys(l) \in Buffers
    BY BufferNames
  <2>4. mem[CellOf(Keys(l), r)] = ValueAt(<<"kr", l>>, base + r)
    BY <1>1, <2>1, <2>2, <2>3, LeftThere
  <2> QED BY <2>4 DEF CellOf, ValueAt, Keys, Caches
<1>5. ASSUME NEW l \in 0..Layers - 1, NEW r \in 0..Rows - 1
      PROVE  mem[<<"values", l, base + r>>] = <<"v", l, base + r>>
  <2>1. PICK x : Leaves(prog, Metal, val, Values(l), x, <<"v", l>>) /\ ~prog[x].last
    BY <1>2 DEF Final
  <2>2. r \in RowsOf(prog, x) /\ x # 0
    BY <1>2, <2>1 DEF RowsOf, Leaves
  <2>3. Values(l) \in Buffers
    BY BufferNames
  <2>4. mem[CellOf(Values(l), r)] = ValueAt(<<"v", l>>, base + r)
    BY <1>1, <2>1, <2>2, <2>3, LeftThere
  <2> QED BY <2>4 DEF CellOf, ValueAt, Values, Caches
<1> QED BY <1>3, <1>4, <1>5

\* One more vector of logits.
LEMMA ReturnedNext ==
  ASSUME Prompted, Serves, epc = "run"
  PROVE  Returned(base + Rows) = Append(Returned(base), <<"logits", Layers, base + Rows - 1>>)
<1>1. LastPos \in Nat \ {0} /\ Len(ids) = LastPos
  BY PromptLength
<1> DEFINE first == IF engine.name = "prefill" THEN LastPos - 1 ELSE 0
           n == IF engine.name = "prefill" /\ base = 0 THEN 0 ELSE base - first
<1>2. base \in Nat /\ first \in Nat /\ n \in Nat
      /\ base + Rows # 0 /\ base + Rows - first = n + 1 /\ first + (n + 1) - 1 = base + Rows - 1
  <2>1. base \in 0..LastPos + 1 /\ base =< LastPos /\ (engine.name = "prefill" => base \in {0, LastPos, LastPos + 1})
    BY DEF Serves
  <2>2. CASE engine.name # "prefill"
    <3>1. Rows = 1 /\ first = 0 /\ n = base
      BY <1>1, <2>1, <2>2 DEF Rows
    <3> QED BY <1>1, <2>1, <3>1
  <2>3. CASE engine.name = "prefill" /\ base = 0
    <3>1. Rows = LastPos /\ first = LastPos - 1 /\ n = 0
      BY <1>1, <2>3 DEF Rows
    <3> QED BY <1>1, <2>3, <3>1
  <2>4. CASE engine.name = "prefill" /\ base # 0
    <3>1. Rows = 1 /\ first = LastPos - 1 /\ n = base - first /\ base = LastPos
      BY <1>1, <2>1, <2>4 DEF Rows
    <3> QED BY <1>1, <3>1
  <2> QED BY <2>2, <2>3, <2>4
<1>3. Returned(base) = [k \in 1..n |-> <<"logits", Layers, first + k - 1>>]
  BY DEF Returned
<1>4. Returned(base + Rows) = [k \in 1..n + 1 |-> <<"logits", Layers, first + k - 1>>]
  <2>1. PICK d : d = base + Rows
    OBVIOUS
  <2>2. d # 0 /\ d - first = n + 1
    <3>1. Rows \in Int
      BY <1>1 DEF Rows
    <3> HIDE DEF first, n
    <3> QED BY <1>2, <2>1, <3>1
  <2>3. Returned(d) = [k \in 1..d - first |-> <<"logits", Layers, first + k - 1>>]
    BY <2>2 DEF Returned
  <2> QED BY <2>1, <2>2, <2>3
<1> HIDE DEF n, first
<1>5. PICK p, q : p = Returned(base) /\ q = Returned(base + Rows)
  OBVIOUS
<1>6. IsTable(p, n) /\ IsTable(q, n + 1) /\ (\A t \in 1..n : q[t] = p[t]) /\ q[n + 1] = <<"logits", Layers, base + Rows - 1>>
  <2>1. p = [k \in 1..n |-> <<"logits", Layers, first + k - 1>>] /\ q = [k \in 1..n + 1 |-> <<"logits", Layers, first + k - 1>>]
    BY <1>3, <1>4, <1>5
  <2>2. n + 1 \in 1..n + 1 /\ \A t \in 1..n : t \in 1..n + 1
    BY <1>2
  <2>3. q[n + 1] = <<"logits", Layers, base + Rows - 1>>
    BY <1>2, <2>1, <2>2
  <2>4. \A t \in 1..n : q[t] = p[t]
    BY <2>1, <2>2
  <2> QED BY <2>1, <2>3, <2>4 DEF IsTable
<1>7. PICK e : e = <<"logits", Layers, base + Rows - 1>>
  OBVIOUS
<1>8. Append(p, e) = q
  BY <1>2, <1>6, <1>7, AppendTable
<1> QED BY <1>5, <1>7, <1>8

\* ... and EndPass.
LEMMA EndStep ==
  ASSUME EngineInv, EndPass, Prompted
  PROVE  EngineInv'
<1>1. Same /\ Quantized' = Quantized /\ Layers' = Layers /\ LastPos' = LastPos /\ Uploaded' = Uploaded
      /\ (\A w : Ported(w)' <=> Ported(w)) /\ Cells' = Cells /\ (InScope' <=> InScope) /\ Metal' = Metal
  BY SameModel, SameScope DEF EndPass, Same
<1>2. epc = "run" /\ base' = base + Rows /\ logits' = Append(logits, Held(B("logits"), Rows - 1)) /\ Serves
      /\ ran = DOMAIN prog /\ (InScope => Passing) /\ epc' = (IF base' > LastPos THEN "done" ELSE "embed")
  BY <1>1 DEF EndPass, EngineInv
<1>3. LastPos \in Nat \ {0} /\ Len(ids) = LastPos /\ Fits
  BY <1>2, PromptLength, ServesFits
<1>4. base' \in 0..LastPos + 1 /\ (IF epc' = "done" THEN base' = LastPos + 1 ELSE base' =< LastPos)
  BY <1>2, <1>3 DEF Fits
<1>5. engine.name = "prefill" => base' \in {0, LastPos, LastPos + 1}
  BY <1>2, <1>3 DEF Serves, Rows
<1>6. ASSUME InScope PROVE Past' /\ NoJunk' /\ logits' = Returned(base')
  <2>1. Past /\ NoJunk /\ Passing /\ logits = Returned(base)
    BY <1>2, <1>6 DEF Serves
  <2>2. NoJunk'
    <3>1. mem' = mem \/ mem' = [c \in Cells |-> IF c[1] \in Caches THEN mem[c] ELSE Zero]
      BY DEF EndPass
    <3>2. ASSUME NEW c \in Cells PROVE mem'[c] # Junk
      BY <2>1, <3>1 DEF NoJunk, Zero, Junk
    <3> QED BY <1>1, <3>2 DEF NoJunk
  <2>3. ASSUME NEW l \in 0..Layers - 1, NEW t \in 0..base' - 1
        PROVE  mem'[<<"keys", l, t>>] = <<"kr", l, t>> /\ mem'[<<"values", l, t>>] = <<"v", l, t>>
    <3>0. base \in Nat /\ t \in 0..LastPos
      <4>1. base \in Nat
        BY <1>3 DEF Fits
      <4>2. PICK d : d = base'
        OBVIOUS
      <4>3. d \in 0..LastPos + 1 /\ t \in 0..d - 1
        BY <1>4, <4>2
      <4> QED BY <1>3, <4>1, <4>3
    <3>1. <<"keys", l, t>> \in Cells /\ <<"values", l, t>> \in Cells
      BY <3>0 DEF Cells, Caches
    <3>2. mem'[<<"keys", l, t>>] = mem[<<"keys", l, t>>] /\ mem'[<<"values", l, t>>] = mem[<<"values", l, t>>]
      <4>1. mem' = mem \/ mem' = [c \in Cells |-> IF c[1] \in Caches THEN mem[c] ELSE Zero]
        BY DEF EndPass
      <4> QED BY <3>1, <4>1 DEF Caches
    <3>3. mem[<<"keys", l, t>>] = <<"kr", l, t>> /\ mem[<<"values", l, t>>] = <<"v", l, t>>
      <4>1. CASE t < base
        <5>1. t \in 0..base - 1
          BY <3>0, <4>1
        <5> QED BY <2>1, <5>1 DEF Past
      <4>2. CASE t >= base
        <5>1. PICK r \in 0..Rows - 1 : t = base + r
          <6>1. t - base \in 0..Rows - 1 /\ t = base + (t - base)
            BY <1>2, <1>3, <3>0, <4>2 DEF Fits
          <6> QED BY <6>1
        <5> QED BY <1>2, <1>3, <2>1, <5>1, PassEnds
      <4> QED BY <3>0, <4>1, <4>2
    <3> QED BY <3>2, <3>3
  <2>4. Past'
    BY <1>1, <2>3 DEF Past
  <2>5. logits' = Returned(base')
    BY <1>2, <1>3, <2>1, PassEnds, ReturnedNext
  <2> QED BY <2>2, <2>4, <2>5
<1>7. ASSUME NEW b PROVE Returned(b)' = Returned(b)
  BY <1>1 DEF Returned, Same
<1>8. (InScope => logits = Returned(base))'
  <2>1. PICK b : b = base'
    OBVIOUS
  <2>2. Returned(base)' = Returned(b)
    BY <1>1, <2>1 DEF Returned, Same
  <2> QED BY <1>1, <1>6, <2>1, <2>2
<1>9. Serves'
  BY <1>1, <1>2, <1>4, <1>5, <1>6, <1>8 DEF Serves, Same
<1>10. epc' \in {"embed", "done"}
  BY <1>2
<1> QED BY <1>1, <1>9, <1>10 DEF EngineInv, Same

\* Sums of the lengths of arrays that follow one another.
Sums(f, t) == f \in [Nat -> Int] /\ f[0] = 0 /\ \A n \in Nat \ {0} : f[n] = f[n - 1] + t[n]

\* There are such sums.
LEMMA SumsExist ==
  ASSUME NEW t \in [Nat -> Int]
  PROVE  \E f : Sums(f, t)
<1> DEFINE D == Nat \ {0}
           h == [n \in Nat |-> IF n = 0 THEN 0 ELSE n - 1]
           zero == [n \in Nat |-> 0]
           step == [n \in Nat |-> [v \in Int |-> v + t[n]]]
<1>1. D \in SUBSET Nat /\ h \in [Nat -> Nat] /\ zero \in [Nat -> Int] /\ \A n \in D : h[n] < n
  OBVIOUS
<1>2. step \in [Nat -> [Int -> Int]]
  OBVIOUS
<1>3. \A n \in Nat \ {0} : h[n] = n - 1 /\ n - 1 \in Nat /\ n \in D
  OBVIOUS
<1>4. 0 \notin D /\ zero[0] = 0
  OBVIOUS
<1>5. \A n \in Nat, v \in Int : step[n][v] = v + t[n]
  OBVIOUS
<1> HIDE DEF D, h, zero, step
<1>6. PICK f \in [Nat -> Int] : Solves(f, D, h, zero, step)
  BY <1>1, <1>2, Recursion
<1>7. f[0] = 0
  BY <1>4, <1>6 DEF Solves
<1>8. ASSUME NEW n \in Nat \ {0} PROVE f[n] = f[n - 1] + t[n]
  <2>1. f[n] = step[n][f[h[n]]]
    BY <1>3, <1>6 DEF Solves
  <2>2. f[n - 1] \in Int
    BY <1>3, <1>6
  <2> QED BY <1>3, <1>5, <2>1, <2>2
<1> QED BY <1>6, <1>7, <1>8 DEF Sums

\* A sum defined up to m is theirs.
LEMMA SumsAgree ==
  ASSUME NEW t, NEW f, Sums(f, t), NEW m \in Nat, NEW g,
         g = [j \in 0..m |-> IF j = 0 THEN 0 ELSE g[j - 1] + t[j]]
  PROVE  g[m] = f[m]
<1> DEFINE T == {j \in 0..m : g[j] # f[j]}
<1>1. SUFFICES ASSUME T # {} PROVE FALSE
  OBVIOUS
<1>2. PICK j \in T : \A k \in T : j <= k
  <2>1. T \subseteq Nat
    OBVIOUS
  <2> HIDE DEF T
  <2> QED BY <1>1, <2>1, LeastElement
<1>3. CASE j = 0
  <2>1. g[0] = 0 /\ f[0] = 0
    BY DEF Sums
  <2> QED BY <1>3, <2>1
<1>4. CASE j # 0
  <2>1. j - 1 \in 0..m /\ j - 1 \notin T /\ j \in 0..m
    BY <1>2, <1>4
  <2>2. g[j - 1] = f[j - 1]
    BY <2>1
  <2>3. g[j] = g[j - 1] + t[j]
    BY <1>4, <2>1
  <2>4. f[j] = f[j - 1] + t[j]
    BY <1>4, <2>1 DEF Sums
  <2> QED BY <1>2, <2>2, <2>3, <2>4
<1> QED BY <1>3, <1>4

\* The lengths of the arrays, in their order.
Lengths(h) == [j \in Nat |-> IF j \in DOMAIN Arrays THEN Taken(h, Arrays[j]) ELSE 0]
ExportLengths(h) == [j \in Nat |-> IF j \in DOMAIN ExportOrder THEN Exported(h, ExportOrder[j]) ELSE 0]

\* The names of the arrays differ.
LEMMA ArraysDiffer ==
  /\ DOMAIN Arrays = 1..14 /\ DOMAIN ExportOrder = 1..13
  /\ \A j, k \in 1..14 : Arrays[j] = Arrays[k] => j = k
  /\ \A j, k \in 1..13 : ExportOrder[j] = ExportOrder[k] => j = k
<1>1. DOMAIN Arrays = 1..14 /\ DOMAIN ExportOrder = 1..13
  BY DEF Arrays, ExportOrder
<1>2. ASSUME NEW j \in 1..14, NEW k \in 1..14, Arrays[j] = Arrays[k] PROVE j = k
  BY <1>2 DEF Arrays
<1>3. ASSUME NEW j \in 1..13, NEW k \in 1..13, ExportOrder[j] = ExportOrder[k] PROVE j = k
  BY <1>3 DEF ExportOrder
<1> QED BY <1>1, <1>2, <1>3

\* Where an array of the blob starts ...
LEMMA OffsetIs ==
  ASSUME NEW h, NEW f, Sums(f, Lengths(h)), NEW k \in 1..14
  PROVE  Offset(h, Arrays[k]) = f[k - 1]
<1>1. (CHOOSE j \in DOMAIN Arrays : Arrays[j] = Arrays[k]) = k
  BY ArraysDiffer
<1>2. PICK m \in Nat : m = k - 1
  OBVIOUS
<1>3. \A j \in 0..m : j # 0 => j \in Nat /\ j \in DOMAIN Arrays
  BY <1>2, ArraysDiffer
<1> DEFINE G(g) == g = [j \in 0..m |-> IF j = 0 THEN 0 ELSE g[j - 1] + Taken(h, Arrays[j])]
           r == [j \in 0..m |-> f[j]]
           c == CHOOSE g : G(g)
<1>4. \A j \in 0..m : j # 0 => Lengths(h)[j] = Taken(h, Arrays[j])
  BY <1>3 DEF Lengths
<1>5. G(r)
  <2>1. \A j \in 0..m : j # 0 => j - 1 \in 0..m /\ j \in Nat \ {0}
    OBVIOUS
  <2>2. \A j \in 0..m : r[j] = IF j = 0 THEN 0 ELSE r[j - 1] + Taken(h, Arrays[j])
    BY <1>4, <2>1 DEF Sums
  <2> QED BY <2>2
<1>6. G(c)
  <2> HIDE DEF G
  <2> QED BY <1>5
<1>7. c = [j \in 0..m |-> IF j = 0 THEN 0 ELSE c[j - 1] + Lengths(h)[j]]
  BY <1>4, <1>6
<1>8. c[m] = f[m]
  <2> HIDE DEF c
  <2> QED BY <1>7, SumsAgree
<1>9. Offset(h, Arrays[k]) = c[m]
  BY <1>1, <1>2 DEF Offset
<1> QED BY <1>2, <1>8, <1>9

\* ... and where the exporter puts one.
LEMMA ExportedAtIs ==
  ASSUME NEW h, NEW f, Sums(f, ExportLengths(h)), NEW k \in 1..13
  PROVE  ExportedAt(h, ExportOrder[k]) = f[k - 1]
<1>1. (CHOOSE j \in DOMAIN ExportOrder : ExportOrder[j] = ExportOrder[k]) = k
  BY ArraysDiffer
<1>2. PICK m \in Nat : m = k - 1
  OBVIOUS
<1>3. \A j \in 0..m : j # 0 => j \in Nat /\ j \in DOMAIN ExportOrder
  BY <1>2, ArraysDiffer
<1> DEFINE G(g) == g = [j \in 0..m |-> IF j = 0 THEN 0 ELSE g[j - 1] + Exported(h, ExportOrder[j])]
           r == [j \in 0..m |-> f[j]]
           c == CHOOSE g : G(g)
<1>4. \A j \in 0..m : j # 0 => ExportLengths(h)[j] = Exported(h, ExportOrder[j])
  BY <1>3 DEF ExportLengths
<1>5. G(r)
  <2>1. \A j \in 0..m : j # 0 => j - 1 \in 0..m /\ j \in Nat \ {0}
    OBVIOUS
  <2>2. \A j \in 0..m : r[j] = IF j = 0 THEN 0 ELSE r[j - 1] + Exported(h, ExportOrder[j])
    BY <1>4, <2>1 DEF Sums
  <2> QED BY <2>2
<1>6. G(c)
  <2> HIDE DEF G
  <2> QED BY <1>5
<1>7. c = [j \in 0..m |-> IF j = 0 THEN 0 ELSE c[j - 1] + ExportLengths(h)[j]]
  BY <1>4, <1>6
<1>8. c[m] = f[m]
  <2> HIDE DEF c
  <2> QED BY <1>7, SumsAgree
<1>9. ExportedAt(h, ExportOrder[k]) = c[m]
  BY <1>1, <1>2 DEF ExportedAt
<1> QED BY <1>2, <1>8, <1>9

\* No slice of a layer panics.
Sliceable(h) ==
  /\ h.n_heads # 0 /\ h.n_kv_heads # 0
  /\ \A a \in DOMAIN SlicePerLayer(h), l \in 0..h.n_layers - 1 : SliceFits(h, a, l)

\* The slices fit only where the heads divide the vector they are cut from.
LEMMA HeadsDivide ==
  ASSUME NEW h, Shaped(h), Sliceable(h)
  PROVE  /\ HeadSize(h) \in Nat \ {0} /\ h.n_heads * HeadSize(h) = h.dim
         /\ KvDim(h) = h.n_kv_heads * HeadSize(h) /\ KvDim(h) \in Nat \ {0}
         /\ h.dim % h.n_heads = 0
<1> DEFINE d == h.dim
           n == h.n_heads
           s == HeadSize(h)
           L == h.n_layers
           kv == h.n_kv_heads
<1>1. d \in Nat \ {0} /\ n \in Nat \ {0} /\ L \in Nat \ {0} /\ s = d \div n /\ kv \in Nat \ {0}
  BY DEF Shaped, Sliceable, HeadSize
<1>2. s \in Nat /\ n * s =< d
  <2> HIDE DEF d, n, s, L, kv
  <2>1. s \in Nat /\ d % n \in 0..n - 1 /\ d = n * s + (d % n)
    BY <1>1, DivNat
  <2> QED BY <1>1, <2>1
<1>3. L * (d * d) =< L * (d * (n * s))
  <2>1. SliceFits(h, "wq", L - 1)
    <3>1. "wq" \in DOMAIN SlicePerLayer(h) /\ L - 1 \in 0..L - 1
      BY <1>1 DEF SlicePerLayer
    <3> QED BY <3>1 DEF Sliceable
  <2>2. SlicePerLayer(h)["wq"] = d * d
    BY DEF SlicePerLayer
  <2>3. Taken(h, "wq") = L * (d * (n * s))
    BY DEF Taken, TakenPerLayer
  <2>4. Slice(h, "wq", L - 1)[2] = (L - 1 + 1) * (d * d)
    BY <2>2 DEF Slice
  <2>5. L - 1 + 1 = L
    BY <1>1
  <2> QED BY <2>1, <2>3, <2>4, <2>5 DEF SliceFits
<1>4. d =< n * s
  <2> DEFINE t == n * s
  <2>1. t \in Nat /\ t =< d
    BY <1>1, <1>2
  <2> HIDE DEF d, n, s, L, kv, t
  <2>2. SUFFICES ASSUME t < d PROVE FALSE
    BY <1>1, <2>1 DEF t
  <2>3. d * (t + 1) =< d * d
    BY <1>1, <2>1, <2>2, TimesMonotone
  <2>4. d * t < d * d
    BY <1>1, <2>1, <2>3
  <2>5. PICK x \in Nat, y \in Nat : x = d * t /\ y = d * d
    BY <1>1, <2>1
  <2>6. L * (x + 1) =< L * y
    BY <1>1, <2>4, <2>5, TimesMonotone
  <2>7. L * (x + 1) = L * x + L /\ L * x \in Int /\ L * y \in Int
    BY <1>1, <2>5
  <2>8. L * y =< L * x
    BY <1>3, <2>5 DEF t
  <2> QED BY <1>1, <2>6, <2>7, <2>8
<1>5. n * s = d
  <2> HIDE DEF d, n, s
  <2> QED BY <1>1, <1>2, <1>4
<1>6. s # 0
  <2> HIDE DEF d, n, s
  <2> QED BY <1>1, <1>2, <1>5
<1>7. d % n = 0
  <2> HIDE DEF d, n, s
  <2> QED BY <1>1, <1>2, <1>5, DivExact
<1>8. (d * kv) \div n = kv * s
  <2> HIDE DEF d, n, s, kv
  <2>1. d * kv = n * (kv * s) /\ d * kv \in Int /\ kv * s \in Int
    <3>1. (n * s) * kv = n * (kv * s)
      BY <1>1, <1>2
    <3> QED BY <1>1, <1>2, <1>5, <3>1
  <2> QED BY <1>1, <2>1, DivExact
<1>9. kv * s \in Nat \ {0}
  <2> HIDE DEF d, n, s, kv
  <2> QED BY <1>1, <1>2, <1>6
<1> QED BY <1>1, <1>2, <1>5, <1>6, <1>7, <1>8, <1>9 DEF KvDim

\* What is sliced for a layer is what was taken for it and what was exported.
LEMMA LayerSizes ==
  ASSUME NEW h, Shaped(h), Sliceable(h)
  PROVE  /\ DOMAIN ExportedPerLayer(h) = {ExportOrder[j] : j \in 2..10}
         /\ \A j \in 2..10 :
              /\ SlicePerLayer(h)[Arrays[j]] = ExportedPerLayer(h)[ExportOrder[j]]
              /\ ExportedPerLayer(h)[ExportOrder[j]] \in Nat \ {0}
              /\ Taken(h, Arrays[j]) = h.n_layers * ExportedPerLayer(h)[ExportOrder[j]]
              /\ Exported(h, ExportOrder[j]) = h.n_layers * ExportedPerLayer(h)[ExportOrder[j]]
<1> DEFINE d == h.dim
           s == HeadSize(h)
           ff == h.hidden_dim
           k == KvDim(h)
           P(j, v) == /\ SlicePerLayer(h)[Arrays[j]] = v
                      /\ ExportedPerLayer(h)[ExportOrder[j]] = v
                      /\ Taken(h, Arrays[j]) = h.n_layers * v
                      /\ Exported(h, ExportOrder[j]) = h.n_layers * v
<1>1. /\ d \in Nat \ {0} /\ ff \in Nat \ {0} /\ k \in Nat \ {0} /\ h.n_layers \in Nat \ {0}
      /\ h.n_heads * s = d /\ h.n_kv_heads * s = k /\ ff * d = d * ff
  BY HeadsDivide DEF Shaped
<1>2. DOMAIN ExportedPerLayer(h) = {"attn_norm", "attn_q", "attn_k", "attn_v", "attn_output", "ffn_norm",
                                    "ffn_gate", "ffn_down", "ffn_up"}
  BY DEF ExportedPerLayer
<1>3. DOMAIN TakenPerLayer(h) = {"rms_att", "rms_ffn", "wq", "wk", "wv", "wo", "w1", "w2", "w3"}
  BY DEF TakenPerLayer
<1>4. /\ Arrays[2] = "rms_att" /\ Arrays[3] = "wq" /\ Arrays[4] = "wk" /\ Arrays[5] = "wv" /\ Arrays[6] = "wo"
      /\ Arrays[7] = "rms_ffn" /\ Arrays[8] = "w1" /\ Arrays[9] = "w2" /\ Arrays[10] = "w3"
      /\ ExportOrder[2] = "attn_norm" /\ ExportOrder[3] = "attn_q" /\ ExportOrder[4] = "attn_k"
      /\ ExportOrder[5] = "attn_v" /\ ExportOrder[6] = "attn_output" /\ ExportOrder[7] = "ffn_norm"
      /\ ExportOrder[8] = "ffn_gate" /\ ExportOrder[9] = "ffn_down" /\ ExportOrder[10] = "ffn_up"
  BY DEF Arrays, ExportOrder
<1>5. P(2, d)
  BY <1>2, <1>3, <1>4 DEF SlicePerLayer, ExportedPerLayer, Taken, TakenPerLayer, Exported
<1>6. P(3, d * d)
  BY <1>1, <1>2, <1>3, <1>4 DEF SlicePerLayer, ExportedPerLayer, Taken, TakenPerLayer, Exported
<1>7. P(4, d * k)
  BY <1>1, <1>2, <1>3, <1>4 DEF SlicePerLayer, ExportedPerLayer, Taken, TakenPerLayer, Exported
<1>8. P(5, d * k)
  BY <1>1, <1>2, <1>3, <1>4 DEF SlicePerLayer, ExportedPerLayer, Taken, TakenPerLayer, Exported
<1>9. P(6, d * d)
  BY <1>1, <1>2, <1>3, <1>4 DEF SlicePerLayer, ExportedPerLayer, Taken, TakenPerLayer, Exported
<1>10. P(7, d)
  BY <1>2, <1>3, <1>4 DEF SlicePerLayer, ExportedPerLayer, Taken, TakenPerLayer, Exported
<1>11. P(8, d * ff)
  BY <1>1, <1>2, <1>3, <1>4 DEF SlicePerLayer, ExportedPerLayer, Taken, TakenPerLayer, Exported
<1>12. P(9, d * ff)
  BY <1>1, <1>2, <1>3, <1>4 DEF SlicePerLayer, ExportedPerLayer, Taken, TakenPerLayer, Exported
<1>13. P(10, d * ff)
  BY <1>1, <1>2, <1>3, <1>4 DEF SlicePerLayer, ExportedPerLayer, Taken, TakenPerLayer, Exported
<1>14. d * d \in Nat \ {0} /\ d * k \in Nat \ {0} /\ d * ff \in Nat \ {0}
  <2> HIDE DEF d, k, ff
  <2> QED BY <1>1
<1>15. ASSUME NEW j \in 2..10 PROVE \E v \in Nat \ {0} : P(j, v)
  <2>1. j \in {2, 3, 4, 5, 6, 7, 8, 9, 10}
    OBVIOUS
  <2> HIDE DEF P, d, k, ff
  <2> QED BY <1>1, <1>5, <1>6, <1>7, <1>8, <1>9, <1>10, <1>11, <1>12, <1>13, <1>14, <2>1
<1>16. {ExportOrder[j] : j \in 2..10} = DOMAIN ExportedPerLayer(h)
  <2>1. 2..10 = {2, 3, 4, 5, 6, 7, 8, 9, 10}
    OBVIOUS
  <2>2. {ExportOrder[j] : j \in {2, 3, 4, 5, 6, 7, 8, 9, 10}} =
          {ExportOrder[2], ExportOrder[3], ExportOrder[4], ExportOrder[5], ExportOrder[6], ExportOrder[7],
           ExportOrder[8], ExportOrder[9], ExportOrder[10]}
    OBVIOUS
  <2> QED BY <1>2, <1>4, <2>1, <2>2
<1> QED BY <1>15, <1>16

\* The arrays outside the layers.
LEMMA OtherSizes ==
  ASSUME NEW h, Shaped(h), Sliceable(h)
  PROVE  /\ Taken(h, Arrays[1]) = VocabSize(h) * h.dim /\ Exported(h, ExportOrder[1]) = VocabSize(h) * h.dim
         /\ Taken(h, Arrays[14]) = VocabSize(h) * h.dim /\ Exported(h, ExportOrder[13]) = VocabSize(h) * h.dim
         /\ VocabSize(h) * h.dim \in Nat
         /\ Taken(h, Arrays[11]) = h.dim /\ Exported(h, ExportOrder[11]) = h.dim
         /\ Taken(h, Arrays[12]) \in Nat /\ Taken(h, Arrays[13]) \in Nat
         /\ Exported(h, ExportOrder[12]) = Taken(h, Arrays[12]) + Taken(h, Arrays[13])
<1> DEFINE s == HeadSize(h)
           n == h.seq_len
           V == VocabSize(h)
<1>1. DOMAIN ExportedPerLayer(h) = {"attn_norm", "attn_q", "attn_k", "attn_v", "attn_output", "ffn_norm",
                                    "ffn_gate", "ffn_down", "ffn_up"}
  BY DEF ExportedPerLayer
<1>2. DOMAIN TakenPerLayer(h) = {"rms_att", "rms_ffn", "wq", "wk", "wv", "wo", "w1", "w2", "w3"}
  BY DEF TakenPerLayer
<1>3. /\ Arrays[1] = "token_embd" /\ Arrays[11] = "rms_final" /\ Arrays[12] = "freq_real"
      /\ Arrays[13] = "freq_imag" /\ Arrays[14] = "wcls"
      /\ ExportOrder[1] = "token_embd" /\ ExportOrder[11] = "output_norm" /\ ExportOrder[12] = "freqs"
      /\ ExportOrder[13] = "output"
  BY DEF Arrays, ExportOrder
<1>4. Taken(h, Arrays[1]) = V * h.dim /\ Taken(h, Arrays[14]) = V * h.dim
  BY <1>2, <1>3 DEF Taken
<1>5. Exported(h, ExportOrder[1]) = V * h.dim /\ Exported(h, ExportOrder[13]) = V * h.dim
  BY <1>1, <1>3 DEF Exported
<1>6. Taken(h, Arrays[11]) = h.dim /\ Exported(h, ExportOrder[11]) = h.dim
  BY <1>1, <1>2, <1>3 DEF Exported, Taken
<1>7. Taken(h, Arrays[12]) = (n * s) \div 2 /\ Taken(h, Arrays[13]) = (n * s) \div 2
  BY <1>2, <1>3 DEF Taken
<1>8. Exported(h, ExportOrder[12]) = 2 * (n * (s \div 2))
  BY <1>1, <1>3 DEF Exported
<1>9. V * h.dim \in Nat
  <2>1. V \in Nat /\ h.dim \in Nat
    BY DEF VocabSize, Shaped
  <2> HIDE DEF V
  <2> QED BY <2>1
<1>10. (n * s) \div 2 \in Nat /\ 2 * (n * (s \div 2)) = (n * s) \div 2 + (n * s) \div 2
  <2>1. n \in Nat /\ s \in Nat /\ s % 2 = 0
    BY HeadsDivide DEF Shaped, Sliceable
  <2> HIDE DEF n, s
  <2>2. PICK q \in Nat : s = 2 * q /\ s \div 2 = q
    <3>1. s \div 2 \in Nat /\ s = 2 * (s \div 2)
      BY <2>1
    <3> QED BY <3>1
  <2>3. n * s = 2 * (n * q) /\ n * q \in Nat /\ n * s \in Int
    <3>1. n * (2 * q) = 2 * (n * q)
      BY <2>1, <2>2
    <3> QED BY <2>1, <2>2, <3>1
  <2>4. (n * s) \div 2 = n * q
    BY <2>3, DivExact
  <2> QED BY <2>2, <2>3, <2>4
<1> QED BY <1>4, <1>5, <1>6, <1>7, <1>8, <1>9, <1>10

\* The arrays start where the exporter put them, each after the one before.
LEMMA SameOffsets ==
  ASSUME NEW h, Shaped(h), Sliceable(h)
  PROVE  \E f : /\ f \in [1..13 -> Int] /\ f[1] = 0
                /\ \A j \in 1..11 : Offset(h, Arrays[j]) = f[j] /\ ExportedAt(h, ExportOrder[j]) = f[j]
                /\ Offset(h, Arrays[14]) = f[13] /\ ExportedAt(h, ExportOrder[13]) = f[13]
                /\ f[1] =< f[2] /\ (\A j \in 2..11 : f[j] < f[j + 1]) /\ f[12] =< f[13]
<1> DEFINE t == Lengths(h)
           u == ExportLengths(h)
<1>1. /\ \A j \in 1..11 : t[j] = u[j] /\ t[j] \in Nat
      /\ \A j \in 2..11 : t[j] > 0
      /\ t[12] \in Nat /\ t[13] \in Nat /\ u[12] = t[12] + t[13] /\ u[13] \in Nat /\ t[14] \in Nat
  <2>1. \A j \in 1..14 : t[j] = Taken(h, Arrays[j])
    BY ArraysDiffer DEF Lengths
  <2>2. \A j \in 1..13 : u[j] = Exported(h, ExportOrder[j])
    BY ArraysDiffer DEF ExportLengths
  <2> HIDE DEF t, u
  <2>3. ASSUME NEW j \in 2..10 PROVE t[j] = u[j] /\ t[j] \in Nat \ {0}
    <3>1. PICK v \in Nat \ {0} : v = ExportedPerLayer(h)[ExportOrder[j]]
      BY LayerSizes
    <3>2. Taken(h, Arrays[j]) = h.n_layers * v /\ Exported(h, ExportOrder[j]) = h.n_layers * v
      BY <3>1, LayerSizes
    <3>3. h.n_layers \in Nat \ {0}
      BY DEF Shaped
    <3> QED BY <2>1, <2>2, <3>2, <3>3
  <2>4. t[1] = u[1] /\ t[1] \in Nat /\ t[11] = u[11] /\ t[11] \in Nat \ {0}
        /\ t[12] \in Nat /\ t[13] \in Nat /\ u[12] = t[12] + t[13] /\ u[13] \in Nat /\ t[14] \in Nat
    <3>1. h.dim \in Nat \ {0}
      BY DEF Shaped
    <3> QED BY <2>1, <2>2, <3>1, OtherSizes
  <2>5. \A j \in 1..11 : j = 1 \/ j \in 2..10 \/ j = 11
    OBVIOUS
  <2> QED BY <2>3, <2>4, <2>5
<1>2. t \in [Nat -> Int] /\ u \in [Nat -> Int]
  <2>1. \A j \in 1..14 : t[j] \in Int
    BY <1>1
  <2>2. \A j \in 1..13 : u[j] \in Int
    BY <1>1
  <2> QED BY <2>1, <2>2, ArraysDiffer DEF Lengths, ExportLengths
<1>3. PICK f : Sums(f, t)
  BY <1>2, SumsExist
<1>4. PICK g : Sums(g, u)
  BY <1>2, SumsExist
<1>5. \A k \in 1..14 : Offset(h, Arrays[k]) = f[k - 1]
  BY <1>3, OffsetIs
<1>6. \A k \in 1..13 : ExportedAt(h, ExportOrder[k]) = g[k - 1]
  BY <1>4, ExportedAtIs
<1> HIDE DEF t, u
<1>7. /\ f[0] = 0 /\ f[1] = f[0] + t[1] /\ f[2] = f[1] + t[2] /\ f[3] = f[2] + t[3] /\ f[4] = f[3] + t[4]
      /\ f[5] = f[4] + t[5] /\ f[6] = f[5] + t[6] /\ f[7] = f[6] + t[7] /\ f[8] = f[7] + t[8]
      /\ f[9] = f[8] + t[9] /\ f[10] = f[9] + t[10] /\ f[11] = f[10] + t[11] /\ f[12] = f[11] + t[12]
      /\ f[13] = f[12] + t[13]
  BY <1>3 DEF Sums
<1>8. /\ g[0] = 0 /\ g[1] = g[0] + u[1] /\ g[2] = g[1] + u[2] /\ g[3] = g[2] + u[3] /\ g[4] = g[3] + u[4]
      /\ g[5] = g[4] + u[5] /\ g[6] = g[5] + u[6] /\ g[7] = g[6] + u[7] /\ g[8] = g[7] + u[8]
      /\ g[9] = g[8] + u[9] /\ g[10] = g[9] + u[10] /\ g[11] = g[10] + u[11] /\ g[12] = g[11] + u[12]
  BY <1>4 DEF Sums
<1>9. \A j \in 0..13 : f[j] \in Int /\ g[j] \in Int
  BY <1>3, <1>4 DEF Sums
<1>10. \A j \in 1..11 : f[j - 1] = g[j - 1]
  <2>1. f[0] = g[0] /\ f[1] = g[1] /\ f[2] = g[2] /\ f[3] = g[3] /\ f[4] = g[4] /\ f[5] = g[5] /\ f[6] = g[6]
        /\ f[7] = g[7] /\ f[8] = g[8] /\ f[9] = g[9] /\ f[10] = g[10]
    BY <1>1, <1>7, <1>8, <1>9
  <2>2. \A j \in 1..11 : j - 1 \in {0, 1, 2, 3, 4, 5, 6, 7, 8, 9, 10}
    OBVIOUS
  <2> QED BY <2>1, <2>2
<1>11. f[13] = g[12]
  <2>1. f[10] = g[10]
    BY <1>10
  <2> QED BY <1>1, <1>7, <1>8, <1>9, <2>1
<1> DEFINE r == [j \in 1..13 |-> IF j = 13 THEN f[13] ELSE f[j - 1]]
<1>12. r \in [1..13 -> Int] /\ r[1] = 0
  BY <1>7, <1>9
<1>13. /\ \A j \in 1..11 : Offset(h, Arrays[j]) = r[j] /\ ExportedAt(h, ExportOrder[j]) = r[j]
       /\ Offset(h, Arrays[14]) = r[13] /\ ExportedAt(h, ExportOrder[13]) = r[13]
  BY <1>5, <1>6, <1>10, <1>11
<1>14. r[1] =< r[2] /\ (\A j \in 2..11 : r[j] < r[j + 1]) /\ r[12] =< r[13]
  <2>1. \A j \in 1..11 : f[j] = f[j - 1] + t[j]
    BY <1>3 DEF Sums
  <2>2. \A j \in 2..11 : j - 1 \in 0..13 /\ j + 1 # 13 /\ j # 13 /\ j + 1 - 1 = j /\ j \in 1..11 /\ j + 1 \in 1..13 /\ j \in 0..13
    OBVIOUS
  <2>3. \A j \in 2..11 : r[j] = f[j - 1] /\ r[j + 1] = f[j]
    BY <2>2
  <2>4. \A j \in 2..11 : f[j - 1] < f[j]
    BY <1>1, <1>9, <2>1, <2>2
  <2>5. r[1] = f[0] /\ r[2] = f[1] /\ r[12] = f[11] /\ r[13] = f[13]
    OBVIOUS
  <2>6. t[1] \in Nat
    BY <1>1
  <2> QED BY <1>1, <1>7, <1>9, <2>3, <2>4, <2>5, <2>6
<1> QED BY <1>12, <1>13, <1>14

\* A later array of the layers starts at a higher offset.
LEMMA OffsetsClimb ==
  ASSUME NEW f, f \in [1..13 -> Int], \A j \in 2..11 : f[j] < f[j + 1]
  PROVE  \A j, k \in 2..12 : j < k => f[j] < f[k]
<1> DEFINE P(a, b) == f[a] < f[b]
<1>1. /\ f[2] < f[3] /\ f[3] < f[4] /\ f[4] < f[5] /\ f[5] < f[6] /\ f[6] < f[7] /\ f[7] < f[8]
      /\ f[8] < f[9] /\ f[9] < f[10] /\ f[10] < f[11] /\ f[11] < f[12]
  OBVIOUS
<1>2. /\ f[2] \in Int /\ f[3] \in Int /\ f[4] \in Int /\ f[5] \in Int /\ f[6] \in Int /\ f[7] \in Int
      /\ f[8] \in Int /\ f[9] \in Int /\ f[10] \in Int /\ f[11] \in Int /\ f[12] \in Int
  OBVIOUS
<1>3. \A j \in 2..12 : j = 2 \/ j = 3 \/ j = 4 \/ j = 5 \/ j = 6 \/ j = 7 \/ j = 8 \/ j = 9 \/ j = 10 \/ j = 11 \/ j = 12
  OBVIOUS
<1> QED BY <1>1, <1>2, <1>3

\* A slice for a layer holds the weight of that name and layer.
LEMMA SliceIs ==
  ASSUME NEW h, Shaped(h), Sliceable(h), NEW j \in 2..10, NEW l \in 0..h.n_layers - 1
  PROVE  SliceHolds(h, Arrays[j], l) = <<ExportOrder[j], l>>
<1> DEFINE from == Offset(h, Arrays[j]) + Slice(h, Arrays[j], l)[1]
           n == {m \in DOMAIN ExportedPerLayer(h) :
                   /\ ExportedAt(h, m) + l * ExportedPerLayer(h)[m] = from
                   /\ ExportedPerLayer(h)[m] = SlicePerLayer(h)[Arrays[j]]}
<1>1. PICK f : /\ f \in [1..13 -> Int]
               /\ \A k \in 1..11 : Offset(h, Arrays[k]) = f[k] /\ ExportedAt(h, ExportOrder[k]) = f[k]
               /\ \A k \in 2..11 : f[k] < f[k + 1]
  BY SameOffsets
<1>2. PICK v \in Nat \ {0} : SlicePerLayer(h)[Arrays[j]] = v /\ ExportedPerLayer(h)[ExportOrder[j]] = v
  BY LayerSizes
<1>3. PICK t \in Int : t = l * v
  <2>1. l \in Int
    BY DEF Shaped
  <2> QED BY <1>2, <2>1
<1>4. Slice(h, Arrays[j], l)[1] = t
  BY <1>2, <1>3 DEF Slice
<1>5. from = f[j] + t /\ f[j] \in Int
  <2>1. j \in 1..11 /\ j \in 1..13
    OBVIOUS
  <2> QED BY <1>1, <1>4, <2>1
<1> HIDE DEF from
<1>0. DOMAIN ExportedPerLayer(h) = {ExportOrder[k] : k \in 2..10}
  BY LayerSizes
<1>6. ExportOrder[j] \in n
  <2>0. j \in 1..11
    OBVIOUS
  <2>1. j \in 1..11 /\ ExportOrder[j] \in DOMAIN ExportedPerLayer(h)
    BY <1>0, <2>0
  <2>2. ExportedAt(h, ExportOrder[j]) = f[j]
    BY <1>1, <2>1
  <2> QED BY <1>2, <1>3, <1>5, <2>1, <2>2
<1>7. ASSUME NEW m \in n PROVE m = ExportOrder[j]
  <2>1. PICK k \in 2..10 : m = ExportOrder[k]
    <3>1. m \in {ExportOrder[k] : k \in 2..10}
      BY <1>0
    <3> HIDE DEF n
    <3> QED BY <3>1
  <2>2. ExportedPerLayer(h)[m] = v
    BY <1>2
  <2>3. ExportedAt(h, m) = f[k] /\ f[k] \in Int
    <3>1. k \in 1..11 /\ k \in 1..13
      OBVIOUS
    <3> QED BY <1>1, <2>1, <3>1
  <2>4. f[k] + t = f[j] + t
    BY <1>3, <1>5, <2>2, <2>3
  <2>5. f[k] = f[j]
    <3>1. PICK a \in Int : a = f[k]
      BY <2>3
    <3>2. PICK b \in Int : b = f[j]
      BY <1>5
    <3>3. a + t = b + t
      BY <2>4, <3>1, <3>2
    <3>4. a = b
      BY <1>3, <3>3
    <3> QED BY <3>1, <3>2, <3>4
  <2>6. k = j
    <3>1. \A a, b \in 2..12 : a < b => f[a] < f[b]
      BY <1>1, OffsetsClimb
    <3>2. j \in 2..12 /\ k \in 2..12 /\ (j < k \/ k < j \/ j = k)
      OBVIOUS
    <3> QED BY <1>5, <2>3, <2>5, <3>1, <3>2
  <2> QED BY <2>1, <2>6
<1> HIDE DEF n
<1>8. n = {ExportOrder[j]}
  BY <1>6, <1>7
<1>9. SliceHolds(h, Arrays[j], l) = <<IF n = {} THEN None ELSE CHOOSE m \in n : TRUE, l>>
  BY DEF SliceHolds, n, from
<1> QED BY <1>8, <1>9

\* The arrays outside the layers.
LEMMA ArrayIs ==
  ASSUME NEW h, Shaped(h), Sliceable(h)
  PROVE  /\ ArrayHolds(h, "rms_final") = <<"output_norm", 0>>
         /\ ArrayHolds(h, "token_embd") = <<"token_embd", 0>>
         /\ ArrayHolds(h, "wcls") = <<"output", 0>>
<1>1. PICK f : /\ f \in [1..13 -> Int] /\ f[1] = 0
               /\ \A k \in 1..11 : Offset(h, Arrays[k]) = f[k] /\ ExportedAt(h, ExportOrder[k]) = f[k]
               /\ Offset(h, Arrays[14]) = f[13] /\ ExportedAt(h, ExportOrder[13]) = f[13]
               /\ f[1] =< f[2] /\ (\A j \in 2..11 : f[j] < f[j + 1]) /\ f[12] =< f[13]
  BY SameOffsets
<1>2. /\ Arrays[1] = "token_embd" /\ Arrays[11] = "rms_final" /\ Arrays[14] = "wcls"
      /\ ExportOrder[1] = "token_embd" /\ ExportOrder[11] = "output_norm" /\ ExportOrder[13] = "output"
  BY DEF Arrays, ExportOrder
<1>3. f[1] = 0 /\ f[1] =< f[2] /\ f[2] < f[11] /\ f[11] < f[12] /\ f[12] =< f[13]
  <2>1. \A j, k \in 2..12 : j < k => f[j] < f[k]
    BY <1>1, OffsetsClimb
  <2>2. 2 \in 2..12 /\ 11 \in 2..12 /\ 12 \in 2..12 /\ 2 < 11 /\ 11 < 12
    OBVIOUS
  <2> QED BY <1>1, <2>1, <2>2
<1>4. f[1] \in Int /\ f[2] \in Int /\ f[11] \in Int /\ f[12] \in Int /\ f[13] \in Int
  BY <1>1
<1>5. f[1] # f[11] /\ f[11] # f[13] /\ f[1] # f[13]
  BY <1>3, <1>4
<1>6. /\ Offset(h, "token_embd") = f[1] /\ Offset(h, "rms_final") = f[11] /\ Offset(h, "wcls") = f[13]
      /\ ExportedAt(h, "token_embd") = f[1] /\ ExportedAt(h, "output_norm") = f[11]
      /\ ExportedAt(h, "output") = f[13]
  <2>1. 1 \in 1..11 /\ 11 \in 1..11
    OBVIOUS
  <2>2. Offset(h, Arrays[1]) = f[1] /\ ExportedAt(h, ExportOrder[1]) = f[1]
    BY <1>1, <2>1
  <2>3. Offset(h, Arrays[11]) = f[11] /\ ExportedAt(h, ExportOrder[11]) = f[11]
    BY <1>1, <2>1
  <2> QED BY <1>1, <1>2, <2>2, <2>3
<1>7. /\ Exported(h, "token_embd") = Taken(h, "token_embd")
      /\ Exported(h, "output_norm") = Taken(h, "rms_final")
      /\ Exported(h, "output") = Taken(h, "wcls")
  BY <1>2, OtherSizes
<1> DEFINE n(a) == {m \in {"token_embd", "output_norm", "output"} :
                      ExportedAt(h, m) = Offset(h, a) /\ Exported(h, m) = Taken(h, a)}
<1>8. n("rms_final") = {"output_norm"} /\ n("token_embd") = {"token_embd"} /\ n("wcls") = {"output"}
  <2>1. n("rms_final") = {"output_norm"}
    BY <1>5, <1>6, <1>7
  <2>2. n("token_embd") = {"token_embd"}
    BY <1>5, <1>6, <1>7
  <2>3. n("wcls") = {"output"}
    BY <1>5, <1>6, <1>7
  <2> QED BY <2>1, <2>2, <2>3
<1>9. \A a : ArrayHolds(h, a) = <<IF n(a) = {} THEN None ELSE CHOOSE m \in n(a) : TRUE, 0>>
  BY DEF ArrayHolds
<1> HIDE DEF n
<1> QED BY <1>8, <1>9

\* An engine and a file it may be given.
LEMMA KnownModel ==
  ASSUME EngineInv
  PROVE  /\ KnownEngine /\ Layers \in Nat
         /\ ~Quantized => Shaped(file.header) /\ Layers = file.header.n_layers
<1>1. KnownEngine
  BY EnginesAssumption DEF EngineInv, KnownEngine
<1>2. CASE Quantized
  <2>1. file \in GgufFiles
    BY <1>2 DEF EngineInv
  <2>2. Layers = file.blocks
    BY <1>2 DEF Layers
  <2> QED BY <1>1, <1>2, <2>1, <2>2, FilesAssumption
<1>3. CASE ~Quantized
  <2>1. file \in BlobFiles
    BY <1>3 DEF EngineInv
  <2>2. Layers = file.header.n_layers
    BY <1>3 DEF Layers
  <2>3. Shaped(file.header)
    BY <2>1, FilesAssumption
  <2> QED BY <1>1, <1>3, <2>2, <2>3 DEF Shaped
<1> QED BY <1>2, <1>3

\* A float pass that does not panic slices every weight where the exporter put it.
LEMMA FloatIsReady ==
  ASSUME EngineInv, epc = "embed", ~FloatPanics
  PROVE  FloatReady
<1> SUFFICES ASSUME ~Quantized PROVE FloatReady
  BY DEF FloatReady
<1>1. PICK h : h = file.header
  OBVIOUS
<1>2. Shaped(h) /\ Layers = h.n_layers
  BY <1>1, KnownModel
<1>3. Sliceable(h)
  <2>1. h.n_heads # 0
    BY <1>1 DEF EngineInv, Serves
  <2> QED BY <1>1, <1>2, <2>1 DEF Sliceable, FloatPanics
<1>4. ASSUME NEW l \in 0..Layers - 1 PROVE SlicesAre(l)
  <2>1. ASSUME NEW j \in 2..10 PROVE Sliced(Arrays[j], l) = <<ExportOrder[j], l>>
    BY <1>1, <1>2, <1>3, SliceIs DEF Sliced
  <2>2. /\ Arrays[2] = "rms_att" /\ Arrays[3] = "wq" /\ Arrays[4] = "wk" /\ Arrays[5] = "wv"
        /\ Arrays[6] = "wo" /\ Arrays[7] = "rms_ffn" /\ Arrays[8] = "w1" /\ Arrays[9] = "w2"
        /\ Arrays[10] = "w3"
    BY DEF Arrays
  <2>3. /\ ExportOrder[2] = "attn_norm" /\ ExportOrder[3] = "attn_q" /\ ExportOrder[4] = "attn_k"
        /\ ExportOrder[5] = "attn_v" /\ ExportOrder[6] = "attn_output" /\ ExportOrder[7] = "ffn_norm"
        /\ ExportOrder[8] = "ffn_gate" /\ ExportOrder[9] = "ffn_down" /\ ExportOrder[10] = "ffn_up"
    BY DEF ExportOrder
  <2>4. /\ Sliced(Arrays[2], l) = <<ExportOrder[2], l>> /\ Sliced(Arrays[3], l) = <<ExportOrder[3], l>>
        /\ Sliced(Arrays[4], l) = <<ExportOrder[4], l>> /\ Sliced(Arrays[5], l) = <<ExportOrder[5], l>>
        /\ Sliced(Arrays[6], l) = <<ExportOrder[6], l>> /\ Sliced(Arrays[7], l) = <<ExportOrder[7], l>>
        /\ Sliced(Arrays[8], l) = <<ExportOrder[8], l>> /\ Sliced(Arrays[9], l) = <<ExportOrder[9], l>>
        /\ Sliced(Arrays[10], l) = <<ExportOrder[10], l>>
    <3>1. /\ 2 \in 2..10 /\ 3 \in 2..10 /\ 4 \in 2..10 /\ 5 \in 2..10 /\ 6 \in 2..10 /\ 7 \in 2..10
          /\ 8 \in 2..10 /\ 9 \in 2..10 /\ 10 \in 2..10
      OBVIOUS
    <3> QED BY <2>1, <3>1
  <2> QED BY <2>2, <2>3, <2>4, Zenon DEF SlicesAre
<1>5. ArrayHolds(file.header, "rms_final") = FinalNorm /\ BlobHead(file.header) = Classifier
  <2>1. ArrayHolds(h, "rms_final") = FinalNorm
    BY <1>2, <1>3, ArrayIs DEF FinalNorm
  <2>2. BlobHead(h) = IF Shared(h) THEN <<"token_embd", 0>> ELSE <<"output", 0>>
    BY <1>2, <1>3, ArrayIs DEF BlobHead
  <2>3. Classifier = IF Shared(h) THEN <<"token_embd", 0>> ELSE <<"output", 0>>
    BY <1>1 DEF Classifier
  <2> QED BY <1>1, <2>1, <2>2, <2>3
<1> QED BY <1>4, <1>5 DEF FloatReady

\* Every operation of the engine keeps the invariant.
LEMMA EngineKept ==
  ASSUME EngineInv, EngineNext, ids \in Seq(Nat), ids # << >>
  PROVE  EngineInv'
<1>1. Prompted
  BY KnownModel DEF Prompted
<1>2. CASE Load
  BY <1>2, LoadStep
<1>3. CASE Create
  BY <1>1, <1>3, CreateStep
<1>4. CASE Embed
  <2>1. epc = "embed"
    BY <1>4 DEF Embed
  <2>2. ~Quantized /\ ~FloatPanics => FloatReady
    BY <2>1, FloatIsReady
  <2> QED BY <1>1, <1>4, <2>2, EmbedStep
<1>5. CASE EndPass
  BY <1>1, <1>5, EndStep
<1>6. ASSUME NEW k \in DOMAIN prog, Dispatch(k) PROVE EngineInv'
  BY <1>1, <1>6, DispatchStep
<1> QED BY <1>2, <1>3, <1>4, <1>5, <1>6 DEF EngineNext

\* What is not the engine's leaves it as it is.
LEMMA EngineLeft ==
  ASSUME EngineInv, UNCHANGED evars
  PROVE  EngineInv'
<1>1. Same /\ epc' = epc /\ mem' = mem /\ prog' = prog /\ ran' = ran /\ base' = base /\ logits' = logits
  BY DEF evars, Same
<1>2. /\ Quantized' = Quantized /\ Layers' = Layers /\ Metal' = Metal /\ LastPos' = LastPos
      /\ (InScope' <=> InScope) /\ Uploaded' = Uploaded /\ (\A w : Ported(w)' <=> Ported(w)) /\ Cells' = Cells
  BY <1>1, SameModel, SameScope
<1>3. engine' = engine /\ file' = file /\ ids' = ids
  BY <1>1 DEF Same
<1>4. Serves => Serves'
  <2> SUFFICES ASSUME Serves PROVE Serves'
    OBVIOUS
  <2>1. Returned(base)' = Returned(base)
    BY <1>1, <1>2, <1>3 DEF Returned
  <2>2. Past' <=> Past
    BY <1>1, <1>2, <1>3 DEF Past
  <2>3. NoJunk' <=> NoJunk
    BY <1>1, <1>2, <1>3 DEF NoJunk
  <2> QED BY <1>1, <1>2, <1>3, <2>1, <2>2, <2>3 DEF Serves
<1>5. Passing => Passing'
  <2> SUFFICES ASSUME Passing PROVE Passing'
    OBVIOUS
  <2>1. PICK p, m, val : p = prog /\ m = Metal /\ Explained(p, m, val) /\ Holds(val)
    BY DEF Passing
  <2>2. Explained(p, m, val)'
    BY <1>1, <2>1, SameExplained
  <2>3. Holds(val)'
    <3>1. Buffers' = Buffers /\ Rows' = Rows
      BY <1>1, SamePass DEF Same
    <3>2. /\ \A x : OutsOf(prog, x)' = OutsOf(prog, x) /\ RowsOf(prog, x)' = RowsOf(prog, x)
          /\ \A b, r : CellOf(b, r)' = CellOf(b, r)
      BY <1>1, <3>1 DEF OutsOf, RowsOf, CellOf
    <3>3. \A b, x, K : Keeps(prog, Metal, val, b, x, K)' <=> Keeps(prog, Metal, val, b, x, K)
      <4>1. PICK m2 : m2 = Metal
        OBVIOUS
      <4>2. m2 = Metal'
        BY <1>2, <4>1
      <4> QED BY <1>1, <4>1, <4>2
    <3> SUFFICES ASSUME NEW x \in ran \cup {0}, NEW K \in SUBSET DOMAIN prog,
                        x # 0 => ~Fenced(prog[x]), K \cap ran = {},
                        NEW b \in OutsOf(prog, x), b \in Buffers /\ Keeps(prog, Metal, val, b, x, K),
                        NEW r \in RowsOf(prog, x)
                 PROVE  mem[CellOf(b, r)] = ValueAt(val[x], base + r)
      BY <1>1, <3>1, <3>2, <3>3 DEF Holds
    <3> QED BY <2>1 DEF Holds
  <2>4. p = prog' /\ m = Metal'
    BY <1>1, <1>2, <2>1
  <2>5. Closed(prog, Metal, ran)'
    BY <1>1, <1>2 DEF Passing
  <2> QED BY <2>2, <2>3, <2>4, <2>5 DEF Passing
<1> QED BY <1>1, <1>2, <1>3, <1>4, <1>5 DEF EngineInv

\* A prompt reaches the engine before it loads its file.
LEMMA EnginePrompted ==
  ASSUME EngineInv, epc = "load", UNCHANGED <<engine, file, epc, mem, prog, ran, base, logits>>
  PROVE  EngineInv'
<1>1. engine' = engine /\ file' = file /\ epc' = epc /\ base' = base /\ logits' = logits
  OBVIOUS
<1>2. Quantized' = Quantized
  BY <1>1 DEF Quantized
<1> QED BY <1>1, <1>2 DEF EngineInv
-----------------------------------------------------------------------------
(* The parser.                                                             *)

Info == [name : TensorName, shape : UNION {[1..n -> Word64] : n \in 0..RankCap},
         dtype : DtypeTag, offset : Word64]
TensorSlice == [name : TensorName, start : 0..U64Max, end : 0..U64Max]
Header == {"header", "metadata", "strings"}

Types ==
  /\ len \in 0..U64Max
  /\ pc \in Header \cup {"infos", "slices", "done", "refused"}
  /\ pos \in 0..U64Max /\ data_base \in 0..U64Max
  /\ count \in 0..U64Max /\ left \in 0..U64Max /\ entries \in 0..U64Max
  /\ reserved \in 0..U64Max
  /\ infos \in Seq(Info) /\ tensors \in Seq(TensorSlice)

\* While the records are read: what the reservation was computed from, and that
\* each of them took at least MinTensorInfoBytes since.
Records ==
  /\ Len(infos) + left = count
  /\ \E first \in 0..pos :
       /\ first + 24 * Len(infos) =< pos
       /\ \/ reserved = count /\ count =< (len - first) \div 24 + 1
          \/ reserved = (len - first) \div 24 + 1 /\ reserved < count

Stages ==
  /\ pc \in Header \cup {"infos"} => pos =< len
  /\ pc \in Header \cup {"refused"} => infos = << >> /\ reserved = 0
  /\ pc \notin {"slices", "done"} => tensors = << >> /\ by_name = << >>
  /\ pc = "infos" => Records
  /\ pc \in {"slices", "done"} => Len(infos) = count /\ reserved = count
  /\ Len(tensors) =< Len(infos)
  /\ reserved * 24 =< len + 24

\* Inductive: types, what holds at each stage, and the two properties of the slices.
ParseInv == Types /\ Stages /\ TensorsInFile /\ LookupFindsLast
-----------------------------------------------------------------------------
\* The fields of a file are u64s.
LEMMA Fields ==
  /\ U64Max \in Nat /\ RankCap \in Nat
  /\ \A n \in Word64 : n \in 0..U64Max
  /\ \A n \in Word32 : n \in 0..U64Max
  /\ \A n \in BlobLen : n \in 0..U64Max
BY GgufAssumption DEF GgufAssumption

\* A read that succeeds moves the cursor within the file, and does not wrap.
LEMMA ReadInFile ==
  ASSUME NEW n, CanRead(n)
  PROVE  /\ Plus(pos, n) = pos + n /\ Plus(pos, n) \in 0..U64Max /\ Plus(pos, n) =< len
BY Fields DEF CanRead, Some, Plus

\* A checked sum is the sum.
LEMMA CheckedSum ==
  ASSUME NEW a, NEW b, Some(a + b)
  PROVE  Plus(a, b) = a + b /\ Plus(a, b) \in 0..U64Max
BY Fields DEF Some, Plus

\* Without slices there is nothing to be in the file, and nothing to find.
LEMMA NoSlices ==
  ASSUME tensors = << >>, by_name = << >>
  PROVE  TensorsInFile /\ LookupFindsLast
<1>1. Len(tensors) = 0
  OBVIOUS
<1>2. 1..Len(tensors) = {} /\ DOMAIN by_name = {}
  BY <1>1
<1> QED
  BY <1>2 DEF TensorsInFile, LookupFindsLast

\* The state after an error satisfies every part.
LEMMA Refused ==
  ASSUME len \in 0..U64Max, Refuse
  PROVE  ParseInv'
<1>1. Types'
  BY Fields DEF Refuse, Types, Header
<1>2. Len(tensors') = 0 /\ Len(infos') = 0 /\ reserved' = 0 /\ pc' = "refused" /\ len' = len
  BY DEF Refuse
<1>3. Stages'
  BY <1>2 DEF Refuse, Stages, Header
<1>4. TensorsInFile' /\ LookupFindsLast'
  <2>1. tensors' = << >> /\ by_name' = << >>
    BY DEF Refuse
  <2>2. 1..Len(tensors') = {} /\ DOMAIN by_name' = {} /\ Len(tensors') = 0
    BY <2>1
  <2> QED
    BY <2>2 DEF TensorsInFile, LookupFindsLast
<1> QED
  BY <1>1, <1>3, <1>4 DEF ParseInv

\* The same of the next state.
LEMMA NoSlicesNext ==
  ASSUME tensors' = << >>, by_name' = << >>
  PROVE  TensorsInFile' /\ LookupFindsLast'
<1>1. 1..Len(tensors') = {} /\ DOMAIN by_name' = {} /\ Len(tensors') = 0
  OBVIOUS
<1> QED
  BY <1>1 DEF TensorsInFile, LookupFindsLast
-----------------------------------------------------------------------------
\* Parsing starts in a state of the invariant.
LEMMA ParseStarts == ParseInit => ParseInv
<1> SUFFICES ASSUME ParseInit PROVE ParseInv
  OBVIOUS
<1>1. Types
  BY Fields DEF ParseInit, Types, Header
<1>2. Len(tensors) = 0 /\ Len(infos) = 0
  BY DEF ParseInit
<1>3. Stages
  BY <1>1, <1>2 DEF ParseInit, Stages, Types, Header
<1>4. TensorsInFile /\ LookupFindsLast
  BY NoSlices DEF ParseInit
<1> QED
  BY <1>1, <1>3, <1>4 DEF ParseInv

\* A step of the header or of the metadata: it may move the cursor within the
\* file and change the counts, and leaves the index and the slices empty.
LEMMA HeaderStep ==
  ASSUME ParseInv, pc \in Header, pc' \in Header,
         pos' \in 0..U64Max, pos' =< len, count' \in 0..U64Max,
         left' \in 0..U64Max, entries' \in 0..U64Max,
         UNCHANGED <<len, infos, reserved, data_base, tensors, by_name>>
  PROVE  ParseInv'
<1> USE DEF ParseInv
<1>1. tensors = << >> /\ by_name = << >> /\ infos = << >> /\ reserved = 0
  BY DEF Stages, Header
<1>2. Types'
  BY DEF Types
<1>3. Len(tensors') = 0 /\ Len(infos') = 0
  BY <1>1
<1>4. Stages'
  BY <1>1, <1>2, <1>3 DEF Stages, Types, Header
<1>5. TensorsInFile' /\ LookupFindsLast'
  BY <1>1, NoSlicesNext
<1> QED
  BY <1>2, <1>4, <1>5

\* A header is read, or refused.
LEMMA HeaderRead == ASSUME ParseInv, ReadHeader PROVE ParseInv'
<1> HIDE DEF ParseInv
<1>0. len \in 0..U64Max
  BY DEF ParseInv, Types
<1>1. CASE Refuse
  BY <1>0, <1>1, Refused
<1>2. CASE ~Refuse
  <2>1. CanRead(24)
    BY <1>2 DEF ReadHeader
  <2>2. pos' \in 0..U64Max /\ pos' =< len
    BY <1>2, <2>1, ReadInFile DEF ReadHeader
  <2>3. count' \in 0..U64Max /\ left' \in 0..U64Max /\ entries' \in 0..U64Max
    BY <1>2, Fields DEF ReadHeader, ParseInv, Types
  <2>4. pc \in Header /\ pc' \in Header
    BY <1>2 DEF ReadHeader, Header
  <2>5. UNCHANGED <<len, infos, reserved, data_base, tensors, by_name>>
    BY <1>2 DEF ReadHeader
  <2> QED
    BY <2>2, <2>3, <2>4, <2>5, HeaderStep
<1> QED
  BY <1>1, <1>2

\* What the ways to read a metadata entry have in common.
LEMMA EntryIsRead ==
  ASSUME pc = "metadata", left \in 1..U64Max, entries \in 0..U64Max,
         NEW key, NEW n \in Word64,
         \/ \E tag \in TypeTag \cap DOMAIN ScalarSize : ReadScalar(key, n, tag)
         \/ ReadText(key, n)
         \/ BeginStringArray(key, n)
         \/ ReadArray(key, n)
  PROVE  /\ pc' \in Header /\ left' \in 0..U64Max /\ entries' \in 0..U64Max
         /\ pos' \in 0..U64Max /\ pos' =< len
<1>1. CASE \E tag \in TypeTag \cap DOMAIN ScalarSize : ReadScalar(key, n, tag)
  <2>1. PICK tag \in TypeTag \cap DOMAIN ScalarSize : ReadScalar(key, n, tag)
    BY <1>1
  <2> DEFINE size == 8 + n + 4 + ScalarSize[tag]
  <2>2. CanRead(size) /\ pos' = Plus(pos, size)
    BY <2>1 DEF ReadScalar
  <2>3. left' = left - 1 /\ pc' = "metadata" /\ entries' = entries
    BY <2>1 DEF ReadScalar, EntryRead
  <2> HIDE DEF size
  <2>4. pos' \in 0..U64Max /\ pos' =< len
    BY <2>2, ReadInFile
  <2> QED
    BY <2>3, <2>4, Fields DEF Header
<1>2. CASE ReadText(key, n)
  <2>1. PICK m \in Word64 :
          /\ CanRead(8 + n + 4 + 8 + m) /\ pos' = Plus(pos, 8 + n + 4 + 8 + m)
          /\ left' = left - 1 /\ pc' = "metadata" /\ entries' = entries
    BY <1>2 DEF ReadText, EntryRead
  <2>2. pos' \in 0..U64Max /\ pos' =< len
    BY <2>1, ReadInFile
  <2> QED
    BY <2>1, <2>2, Fields DEF Header
<1>3. CASE BeginStringArray(key, n)
  <2>1. PICK m \in Word64 :
          /\ CanRead(8 + n + 4 + 4 + 8) /\ pos' = Plus(pos, 8 + n + 4 + 4 + 8)
          /\ entries' = left - 1 /\ left' = m /\ pc' = "strings"
    BY <1>3 DEF BeginStringArray
  <2>2. pos' \in 0..U64Max /\ pos' =< len
    BY <2>1, ReadInFile
  <2> QED
    BY <2>1, <2>2, Fields DEF Header
<1>4. CASE ReadArray(key, n)
  <2>1. PICK tag \in TypeTag \cap DOMAIN ScalarSize, m \in Word64 :
          /\ CanRead(8 + n + 4 + 4 + 8 + m * ScalarSize[tag])
          /\ pos' = Plus(pos, 8 + n + 4 + 4 + 8 + m * ScalarSize[tag])
          /\ left' = left - 1 /\ pc' = "metadata" /\ entries' = entries
    BY <1>4 DEF ReadArray, EntryRead
  <2> DEFINE size == 8 + n + 4 + 4 + 8 + m * ScalarSize[tag]
  <2>2. CanRead(size) /\ pos' = Plus(pos, size)
    BY <2>1
  <2> HIDE DEF size
  <2>3. pos' \in 0..U64Max /\ pos' =< len
    BY <2>2, ReadInFile
  <2> QED
    BY <2>1, <2>3, Fields DEF Header
<1> QED
  BY <1>1, <1>2, <1>3, <1>4

\* A metadata entry is read whole, or up to the strings of its array.
LEMMA EntryStep == ASSUME ParseInv, ReadEntry PROVE ParseInv'
<1>0. len \in 0..U64Max /\ left \in 0..U64Max /\ entries \in 0..U64Max /\ count \in 0..U64Max
  BY DEF ParseInv, Types
<1>1. CASE Refuse
  BY <1>0, <1>1, Refused
<1>2. CASE ~Refuse
  <2>1. /\ pc = "metadata" /\ left > 0
        /\ UNCHANGED <<len, count, infos, reserved, data_base, tensors, by_name>>
    BY <1>2 DEF ReadEntry
  <2>2. PICK key \in Key, n \in Word64 :
          \/ \E tag \in TypeTag \cap DOMAIN ScalarSize : ReadScalar(key, n, tag)
          \/ ReadText(key, n)
          \/ BeginStringArray(key, n)
          \/ ReadArray(key, n)
    BY <1>2 DEF ReadEntry
  <2>3. left \in 1..U64Max
    BY <1>0, <2>1, Fields
  <2>4. /\ pc' \in Header /\ left' \in 0..U64Max /\ entries' \in 0..U64Max
        /\ pos' \in 0..U64Max /\ pos' =< len
    BY <1>0, <2>1, <2>2, <2>3, EntryIsRead
  <2>5. pc \in Header /\ count' \in 0..U64Max
    BY <1>0, <2>1 DEF Header
  <2> QED
    BY <2>1, <2>4, <2>5, HeaderStep
<1> QED
  BY <1>1, <1>2

\* A string of an array is skipped within the file.
LEMMA SkipStep == ASSUME ParseInv, SkipString PROVE ParseInv'
<1>0. len \in 0..U64Max /\ left \in 0..U64Max /\ entries \in 0..U64Max /\ count \in 0..U64Max
  BY DEF ParseInv, Types
<1>1. CASE Refuse
  BY <1>0, <1>1, Refused
<1>2. CASE ~Refuse
  <2>1. PICK n \in Word64 :
          /\ pc = "strings" /\ left > 0
          /\ CanRead(8 + n) /\ pos' = Plus(pos, 8 + n) /\ left' = left - 1
          /\ UNCHANGED <<len, pc, count, entries, infos, reserved, data_base, tensors, by_name>>
    BY <1>2 DEF SkipString
  <2>2. pos' \in 0..U64Max /\ pos' =< len
    BY <2>1, ReadInFile
  <2>3. left' \in 0..U64Max /\ count' \in 0..U64Max /\ entries' \in 0..U64Max
    BY <1>0, <2>1, Fields
  <2>4. pc \in Header /\ pc' \in Header
    BY <2>1 DEF Header
  <2> QED
    BY <2>1, <2>2, <2>3, <2>4, HeaderStep
<1> QED
  BY <1>1, <1>2

\* The loop over the entries goes on where the array left it.
LEMMA EndStringsStep == ASSUME ParseInv, EndStringArray PROVE ParseInv'
<1>1. /\ pc \in Header /\ pc' \in Header /\ left' = entries
      /\ UNCHANGED <<len, pos, count, entries, infos, reserved, data_base, tensors, by_name>>
  BY DEF EndStringArray, Header
<1>2. /\ pos' \in 0..U64Max /\ pos' =< len /\ count' \in 0..U64Max
      /\ left' \in 0..U64Max /\ entries' \in 0..U64Max
  BY <1>1 DEF ParseInv, Types, Stages
<1> QED
  BY <1>1, <1>2, HeaderStep

\* The reservation is the count, or one more than the records there is room for.
LEMMA ReservationFits ==
  ASSUME len \in Nat, pos \in Nat, pos =< len, count \in Nat
  PROVE  /\ Reservation(count) \in Nat /\ Reservation(count) =< count
         /\ 24 * Reservation(count) =< len + 24
         /\ \/ Reservation(count) = count /\ count =< (len - pos) \div 24 + 1
            \/ Reservation(count) = (len - pos) \div 24 + 1 /\ Reservation(count) < count
<1> DEFINE room == (len - pos) \div 24
<1>1. room \in Nat /\ 24 * room =< len - pos
  OBVIOUS
<1>2. Reservation(count) = IF count < room + 1 THEN count ELSE room + 1
  BY DEF Reservation, MinTensorInfoBytes
<1> HIDE DEF room
<1>3. /\ Reservation(count) \in Nat /\ Reservation(count) =< count
      /\ 24 * Reservation(count) =< len + 24
      /\ \/ Reservation(count) = count /\ count =< room + 1
         \/ Reservation(count) = room + 1 /\ Reservation(count) < count
  BY <1>1, <1>2
<1> QED
  BY <1>3 DEF room

\* The reservation is made where the records begin: the first record is at the cursor.
LEMMA ReserveStep == ASSUME ParseInv, EndMetadata PROVE ParseInv'
<1>1. /\ pc = "metadata" /\ pc' = "infos" /\ left' = count
      /\ reserved' = Reservation(count)
      /\ UNCHANGED <<len, pos, count, entries, infos, data_base, tensors, by_name>>
  BY DEF EndMetadata
<1>2. /\ len \in 0..U64Max /\ pos \in 0..U64Max /\ count \in 0..U64Max /\ pos =< len
      /\ infos = << >> /\ tensors = << >> /\ by_name = << >>
  BY <1>1 DEF ParseInv, Types, Stages, Header
<1>3. len \in Nat /\ pos \in Nat /\ count \in Nat /\ count =< U64Max
  BY <1>2, Fields
<1>4. /\ reserved' \in Nat /\ reserved' =< count
      /\ 24 * reserved' =< len + 24
      /\ \/ reserved' = count /\ count =< (len - pos) \div 24 + 1
         \/ reserved' = (len - pos) \div 24 + 1 /\ reserved' < count
  BY <1>1, <1>2, <1>3, ReservationFits
<1>5. reserved' \in 0..U64Max
  BY <1>3, <1>4, Fields
<1>6. Types'
  BY <1>1, <1>5 DEF ParseInv, Types
<1>7. Len(infos') = 0 /\ Len(tensors') = 0
  BY <1>1, <1>2
<1>8. Records'
  <2>1. Len(infos') + left' = count'
    BY <1>1, <1>3, <1>7
  <2>2. pos \in 0..pos' /\ pos + 24 * Len(infos') =< pos'
    BY <1>1, <1>3, <1>7
  <2>3. \/ reserved' = count' /\ count' =< (len' - pos) \div 24 + 1
        \/ reserved' = (len' - pos) \div 24 + 1 /\ reserved' < count'
    BY <1>1, <1>4
  <2> QED
    BY <2>1, <2>2, <2>3 DEF Records
<1>9. Stages'
  <2>1. reserved' * 24 =< len' + 24
    BY <1>1, <1>3, <1>4
  <2> QED
    BY <1>1, <1>2, <1>7, <1>8, <2>1 DEF Stages, Header
<1>10. TensorsInFile' /\ LookupFindsLast'
  BY <1>1, <1>2, NoSlicesNext
<1> QED
  BY <1>6, <1>9, <1>10 DEF ParseInv

\* A record is appended, and took the cursor at least 24 bytes on.
LEMMA RecordStep == ASSUME ParseInv, ReadInfo PROVE ParseInv'
<1>0. /\ len \in 0..U64Max /\ left \in 0..U64Max /\ pos \in 0..U64Max
      /\ count \in 0..U64Max /\ infos \in Seq(Info)
  BY DEF ParseInv, Types
<1>1. CASE Refuse
  BY <1>0, <1>1, Refused
<1>2. CASE ~Refuse
  <2>1. PICK name \in TensorName, n \in Word64, rank \in Word32 :
          /\ pc = "infos" /\ left > 0 /\ rank =< RankCap
          /\ CanRead(8 + n + 4 + 8 * rank + 4 + 8)
          /\ pos' = Plus(pos, 8 + n + 4 + 8 * rank + 4 + 8)
          /\ \E shape \in [1..rank -> Word64], dtype \in DtypeTag, offset \in Word64 :
               infos' = Append(infos, [name |-> name, shape |-> shape, dtype |-> dtype,
                                       offset |-> offset])
          /\ left' = left - 1
          /\ UNCHANGED <<len, pc, count, entries, reserved, data_base, tensors, by_name>>
    BY <1>2 DEF ReadInfo
  <2>2. PICK shape \in [1..rank -> Word64], dtype \in DtypeTag, offset \in Word64 :
          infos' = Append(infos, [name |-> name, shape |-> shape, dtype |-> dtype,
                                  offset |-> offset])
    BY <2>1
  <2> DEFINE info == [name |-> name, shape |-> shape, dtype |-> dtype, offset |-> offset]
  <2>3. rank \in 0..RankCap
    BY <2>1, Fields
  <2>4. info \in Info
    BY <2>3 DEF Info
  <2> HIDE DEF info
  <2>5. infos' = Append(infos, info)
    BY <2>2 DEF info
  <2>6. infos' \in Seq(Info) /\ Len(infos') = Len(infos) + 1 /\ Len(infos) \in Nat
    BY <1>0, <2>4, <2>5
  <2>7. n \in Nat /\ rank \in Nat
    BY Fields
  <2>8. /\ pos' = pos + (8 + n + 4 + 8 * rank + 4 + 8)
        /\ pos' \in 0..U64Max /\ pos' =< len
    BY <2>1, ReadInFile
  <2>9. pos \in Nat /\ pos' \in Nat /\ pos + 24 =< pos'
    BY <1>0, <2>7, <2>8
  <2>10. left' \in 0..U64Max
    BY <1>0, <2>1, Fields
  <2>11. Types'
    BY <2>1, <2>6, <2>8, <2>10 DEF ParseInv, Types
  <2>12. tensors = << >> /\ by_name = << >> /\ Records /\ reserved * 24 =< len + 24
    BY <2>1 DEF ParseInv, Stages
  <2>13. Records'
    <3>1. PICK first \in 0..pos :
            /\ first + 24 * Len(infos) =< pos
            /\ \/ reserved = count /\ count =< (len - first) \div 24 + 1
               \/ reserved = (len - first) \div 24 + 1 /\ reserved < count
      BY <2>12 DEF Records
    <3>2. first \in 0..pos' /\ first + 24 * Len(infos') =< pos'
      BY <2>6, <2>9, <3>1
    <3>3. \/ reserved' = count' /\ count' =< (len' - first) \div 24 + 1
          \/ reserved' = (len' - first) \div 24 + 1 /\ reserved' < count'
      BY <2>1, <3>1
    <3>4. Len(infos) + left = count
      BY <2>12 DEF Records
    <3>5. Len(infos') + left' = count'
      BY <1>0, <2>1, <2>6, <3>4
    <3> QED
      BY <3>2, <3>3, <3>5 DEF Records
  <2>14. Len(tensors') = 0 /\ Len(tensors') =< Len(infos')
    BY <2>1, <2>6, <2>12
  <2>15. Stages'
    BY <2>1, <2>8, <2>12, <2>13, <2>14 DEF Stages, Header
  <2>16. TensorsInFile' /\ LookupFindsLast'
    BY <2>1, <2>12, NoSlicesNext
  <2> QED
    BY <2>11, <2>15, <2>16 DEF ParseInv
<1> QED
  BY <1>1, <1>2

\* Once every record is read, exactly as many as the header counts fitted the
\* file, so the cap on the reservation was not what it was computed from.
LEMMA AllReserved ==
  ASSUME Records, left = 0, pos \in Nat, len \in Nat, pos =< len,
         count \in Nat, Len(infos) \in Nat
  PROVE  Len(infos) = count /\ reserved = count
<1>1. PICK first \in 0..pos :
        /\ first + 24 * Len(infos) =< pos
        /\ \/ reserved = count /\ count =< (len - first) \div 24 + 1
           \/ reserved = (len - first) \div 24 + 1 /\ reserved < count
  BY DEF Records
<1>2. Len(infos) = count
  BY DEF Records
<1>3. first \in Nat /\ 24 * count =< len - first
  BY <1>1, <1>2
<1> DEFINE room == (len - first) \div 24
<1>4. room \in Nat /\ count =< room
  BY <1>3
<1>5. ~(room + 1 < count)
  BY <1>4
<1> QED
  BY <1>1, <1>2, <1>5

\* The data section is found after the last record.
LEMMA AlignStep == ASSUME ParseInv, Align PROVE ParseInv'
<1>0. /\ len \in 0..U64Max /\ pos \in 0..U64Max /\ count \in 0..U64Max
      /\ infos \in Seq(Info)
  BY DEF ParseInv, Types
<1>1. CASE Refuse
  BY <1>0, <1>1, Refused
<1>2. CASE ~Refuse
  <2>1. /\ pc = "infos" /\ left = 0 /\ Some(Aligned)
        /\ pos' = Aligned /\ data_base' = Aligned /\ pc' = "slices"
        /\ UNCHANGED <<len, count, left, entries, metadata, infos, reserved, tensors, by_name>>
    BY <1>2 DEF Align
  <2>2. pos' \in 0..U64Max /\ data_base' \in 0..U64Max
    BY <2>1 DEF Some
  <2>3. Types'
    BY <2>1, <2>2 DEF ParseInv, Types, Header
  <2>4. /\ Records /\ pos =< len /\ tensors = << >> /\ by_name = << >>
        /\ reserved * 24 =< len + 24
    BY <2>1 DEF ParseInv, Stages
  <2>5. len \in Nat /\ pos \in Nat /\ count \in Nat /\ Len(infos) \in Nat
    BY <1>0, Fields
  <2>6. Len(infos) = count /\ reserved = count
    BY <2>1, <2>4, <2>5, AllReserved
  <2>7. Len(tensors') =< Len(infos')
    BY <2>1, <2>4, <2>5
  <2>8. Stages'
    BY <2>1, <2>4, <2>6, <2>7 DEF Stages, Header
  <2>9. TensorsInFile' /\ LookupFindsLast'
    BY <2>1, <2>4, NoSlicesNext
  <2> QED
    BY <2>3, <2>8, <2>9 DEF ParseInv
<1> QED
  BY <1>1, <1>2

\* A slice that starts an offset after the base and ends some bytes later runs forward.
LEMMA RunsForward ==
  ASSUME NEW from \in Nat, NEW offset \in Nat, NEW bytes \in Nat, NEW s, NEW f,
         s = from + offset, f = s + bytes
  PROVE  from =< s /\ s =< f /\ f - s = bytes
OBVIOUS

\* A slice is appended for the next record, with the name and the bytes it says.
LEMMA SliceAppended ==
  ASSUME ParseInv, Materialize, ~Refuse
  PROVE  \E slice \in TensorSlice :
           /\ pc = "slices"
           /\ tensors' = Append(tensors, slice)
           /\ by_name' = [x \in DOMAIN by_name \cup {slice.name} |->
                            IF x = slice.name THEN Len(tensors) + 1 ELSE by_name[x]]
           /\ Len(tensors) < Len(infos)
           /\ data_base =< slice.start /\ slice.start =< slice.end /\ slice.end =< len
           /\ slice.end - slice.start
                = BytesForNumel(infos[Len(tensors) + 1].dtype,
                                CheckedNumel(infos[Len(tensors) + 1].shape))
           /\ UNCHANGED <<len, pc, pos, count, left, entries, infos, reserved, data_base>>
<1>1. /\ infos \in Seq(Info) /\ tensors \in Seq(TensorSlice) /\ data_base \in 0..U64Max
  BY DEF ParseInv, Types
<1> DEFINE u == Len(tensors) + 1
           nbytes == BytesForNumel(infos[u].dtype, CheckedNumel(infos[u].shape))
           start == Plus(data_base, infos[u].offset)
           end == Plus(start, nbytes)
           slice == [name |-> infos[u].name, start |-> start, end |-> end]
<1>2. /\ pc = "slices" /\ Len(tensors) < Len(infos)
      /\ Some(nbytes) /\ Some(data_base + infos[u].offset) /\ Some(start + nbytes)
      /\ end =< len
      /\ tensors' = Append(tensors, slice)
      /\ InsertName(infos[u].name, u)
      /\ UNCHANGED <<len, pc, pos, count, left, entries, metadata, infos, reserved, data_base>>
  BY DEF Materialize
<1>3. infos[u] \in Info
  BY <1>1, <1>2
<1>4. infos[u].name \in TensorName /\ infos[u].offset \in Word64
  BY <1>3 DEF Info
<1>5. infos[u].offset \in 0..U64Max
  BY <1>4, Fields
<1> HIDE DEF nbytes
<1>6. start = data_base + infos[u].offset /\ start \in 0..U64Max
  BY <1>2, CheckedSum
<1>7. nbytes \in 0..U64Max
  BY <1>2 DEF Some
<1>8. end = start + nbytes /\ end \in 0..U64Max
  BY <1>2, CheckedSum
<1> HIDE DEF start, end
<1>9. data_base =< start /\ start =< end /\ end - start = nbytes
  <2>1. /\ data_base \in Nat /\ infos[u].offset \in Nat /\ nbytes \in Nat
        /\ start = data_base + infos[u].offset /\ end = start + nbytes
    BY <1>1, <1>5, <1>6, <1>7, <1>8
  <2>2. PICK d \in Nat, o \in Nat, n \in Nat : d = data_base /\ o = infos[u].offset /\ n = nbytes
    BY <2>1
  <2>3. start = d + o /\ end = start + n
    BY <2>1, <2>2
  <2>4. d =< start /\ start =< end /\ end - start = n
    BY <2>3, RunsForward
  <2> QED BY <2>2, <2>4
<1>10. slice \in TensorSlice
  BY <1>4, <1>6, <1>8 DEF TensorSlice
<1>11. slice.name = infos[u].name /\ slice.start = start /\ slice.end = end
  OBVIOUS
<1>12. by_name' = [x \in DOMAIN by_name \cup {slice.name} |->
                     IF x = slice.name THEN u ELSE by_name[x]]
  <2>1. InsertName(infos[u].name, u) /\ slice.name = infos[u].name
    BY <1>2, <1>11
  <2> HIDE DEF slice, u
  <2> QED
    BY <2>1 DEF InsertName
<1> QED
  BY <1>2, <1>9, <1>10, <1>11, <1>12 DEF nbytes, start, end

\* The slice that is appended keeps what held of the others; its name finds it from now on.
LEMMA SliceStep == ASSUME ParseInv, Materialize PROVE ParseInv'
<1>0. /\ len \in 0..U64Max /\ infos \in Seq(Info) /\ tensors \in Seq(TensorSlice)
      /\ Types /\ Stages /\ TensorsInFile /\ LookupFindsLast
  BY DEF ParseInv, Types
<1>1. CASE Refuse
  BY <1>0, <1>1, Refused
<1>2. CASE ~Refuse
  <2>1. PICK slice \in TensorSlice :
          /\ pc = "slices"
          /\ tensors' = Append(tensors, slice)
          /\ by_name' = [x \in DOMAIN by_name \cup {slice.name} |->
                           IF x = slice.name THEN Len(tensors) + 1 ELSE by_name[x]]
          /\ Len(tensors) < Len(infos)
          /\ data_base =< slice.start /\ slice.start =< slice.end /\ slice.end =< len
          /\ slice.end - slice.start
               = BytesForNumel(infos[Len(tensors) + 1].dtype,
                               CheckedNumel(infos[Len(tensors) + 1].shape))
          /\ UNCHANGED <<len, pc, pos, count, left, entries, infos, reserved, data_base>>
    BY <1>2, SliceAppended
  <2> DEFINE n == Len(tensors)
  <2>2. /\ tensors' \in Seq(TensorSlice) /\ Len(tensors') = n + 1 /\ n \in Nat
        /\ tensors'[n + 1] = slice
        /\ \A u \in 1..n : tensors'[u] = tensors[u]
        /\ Len(infos) \in Nat
    BY <1>0, <2>1
  <2>3. Types'
    BY <1>0, <2>1, <2>2 DEF Types
  <2>4. Stages'
    <3>1. Len(tensors') =< Len(infos')
      BY <2>1, <2>2
    <3> QED
      BY <1>0, <2>1, <3>1 DEF Stages, Header
  <2>5. TensorsInFile'
    <3> SUFFICES ASSUME NEW u \in 1..(n + 1)
                 PROVE  /\ data_base' =< tensors'[u].start
                        /\ tensors'[u].start =< tensors'[u].end
                        /\ tensors'[u].end =< len'
                        /\ tensors'[u].end - tensors'[u].start
                             = BytesForNumel(infos'[u].dtype, CheckedNumel(infos'[u].shape))
      BY <2>2 DEF TensorsInFile
    <3>1. CASE u = n + 1
      BY <2>1, <2>2, <3>1
    <3>2. CASE u \in 1..n
      <4>1. /\ data_base =< tensors[u].start
            /\ tensors[u].start =< tensors[u].end
            /\ tensors[u].end =< len
            /\ tensors[u].end - tensors[u].start
                 = BytesForNumel(infos[u].dtype, CheckedNumel(infos[u].shape))
        BY <1>0, <3>2 DEF TensorsInFile
      <4> QED
        BY <2>1, <2>2, <3>2, <4>1
    <3> QED
      BY <2>2, <3>1, <3>2
  <2>6. LookupFindsLast'
    <3>1. DOMAIN by_name = {tensors[u].name : u \in 1..n}
      BY <1>0 DEF LookupFindsLast
    <3>2. DOMAIN by_name' = DOMAIN by_name \cup {slice.name}
      BY <2>1
    <3>3. 1..(n + 1) = 1..n \cup {n + 1}
      BY <2>2
    <3>4. {tensors'[u].name : u \in 1..(n + 1)} = {tensors[u].name : u \in 1..n} \cup {slice.name}
      BY <2>2, <3>3
    <3>5. DOMAIN by_name' = {tensors'[u].name : u \in 1..Len(tensors')}
      BY <2>2, <3>1, <3>2, <3>4
    <3>6. ASSUME NEW name \in DOMAIN by_name'
          PROVE  /\ by_name'[name] \in 1..(n + 1)
                 /\ tensors'[by_name'[name]].name = name
                 /\ \A u \in by_name'[name] + 1..(n + 1) : tensors'[u].name # name
      <4>1. CASE name = slice.name
        <5>1. by_name'[name] = n + 1
          BY <2>1, <3>2, <4>1
        <5> QED
          BY <2>2, <4>1, <5>1
      <4>2. CASE name # slice.name
        <5>1. name \in DOMAIN by_name /\ by_name'[name] = by_name[name]
          BY <2>1, <3>2, <3>6, <4>2
        <5>2. /\ by_name[name] \in 1..n /\ tensors[by_name[name]].name = name
              /\ \A u \in by_name[name] + 1..n : tensors[u].name # name
          BY <1>0, <5>1 DEF LookupFindsLast
        <5>3. by_name'[name] \in 1..(n + 1) /\ tensors'[by_name'[name]].name = name
          BY <2>2, <5>1, <5>2
        <5>4. ASSUME NEW u \in by_name[name] + 1..(n + 1) PROVE tensors'[u].name # name
          <6>1. CASE u = n + 1
            BY <2>2, <4>2, <6>1
          <6>2. CASE u # n + 1
            <7>1. u \in 1..n /\ u \in by_name[name] + 1..n
              BY <2>2, <5>2, <5>4, <6>2
            <7> QED
              BY <2>2, <5>2, <7>1
          <6> QED
            BY <6>1, <6>2
        <5> QED
          BY <5>1, <5>3, <5>4
      <4> QED
        BY <4>1, <4>2
    <3> QED
      BY <2>2, <3>5, <3>6 DEF LookupFindsLast
  <2> QED
    BY <2>3, <2>4, <2>5, <2>6 DEF ParseInv
<1> QED
  BY <1>1, <1>2

\* A step that leaves everything but the stage alone, at the end or as a stutter.
LEMMA QuietStep ==
  ASSUME ParseInv,
         UNCHANGED <<len, pos, count, left, entries, infos, reserved, data_base, tensors, by_name>>,
         pc' = pc \/ (pc = "slices" /\ pc' = "done")
  PROVE  ParseInv'
<1>1. Types'
  BY DEF ParseInv, Types
<1>2. Stages'
  BY DEF ParseInv, Stages, Records, Header
<1>3. TensorsInFile'
  BY DEF ParseInv, TensorsInFile
<1>4. LookupFindsLast'
  BY DEF ParseInv, LookupFindsLast
<1> QED
  BY <1>1, <1>2, <1>3, <1>4 DEF ParseInv

\* Every step of the parser keeps the invariant.
LEMMA ParseInvStep == ParseInv /\ [ParseNext]_pvars => ParseInv'
<1> SUFFICES ASSUME ParseInv, [ParseNext]_pvars PROVE ParseInv'
  OBVIOUS
<1>1. CASE ReadHeader
  BY <1>1, HeaderRead
<1>2. CASE ReadEntry
  BY <1>2, EntryStep
<1>3. CASE SkipString
  BY <1>3, SkipStep
<1>4. CASE EndStringArray
  BY <1>4, EndStringsStep
<1>5. CASE EndMetadata
  BY <1>5, ReserveStep
<1>6. CASE ReadInfo
  BY <1>6, RecordStep
<1>7. CASE Align
  BY <1>7, AlignStep
<1>8. CASE Materialize
  BY <1>8, SliceStep
<1>9. CASE ParseDone
  BY <1>9, QuietStep DEF ParseDone
<1>10. CASE UNCHANGED pvars
  BY <1>10, QuietStep DEF pvars
<1> QED
  BY <1>1, <1>2, <1>3, <1>4, <1>5, <1>6, <1>7, <1>8, <1>9, <1>10 DEF ParseNext

\* The invariant holds throughout every parse.
LEMMA ParseInvAlways == ParseSpec => []ParseInv
<1>1. ParseInit => ParseInv
  BY ParseStarts
<1>2. ParseInv /\ [ParseNext]_pvars => ParseInv'
  BY ParseInvStep
<1> QED
  BY <1>1, <1>2, PTL DEF ParseSpec
-----------------------------------------------------------------------------
\* GgufFile::parse: the cursor, the counters and the slices stay u64s.
THEOREM ParseTypeCorrect == ParseSpec => []ParseTypeOK
<1>1. ParseInv => ParseTypeOK
  BY DEF ParseInv, Types, Stages, Header, ParseTypeOK
<1> QED
  BY <1>1, ParseInvAlways, PTL

\* GgufFile::parse: whatever the file states, every slice lies within it and
\* has the length its record gives it.
THEOREM SlicesInFile == ParseSpec => []TensorsInFile
<1>1. ParseInv => TensorsInFile
  BY DEF ParseInv
<1> QED
  BY <1>1, ParseInvAlways, PTL

\* GgufFile::tensor: a name finds its last tensor and no other.
THEOREM LookupIsLast == ParseSpec => []LookupFindsLast
<1>1. ParseInv => LookupFindsLast
  BY DEF ParseInv
<1> QED
  BY <1>1, ParseInvAlways, PTL

\* GgufFile::parse: the records are reserved within the room the file has, and
\* a file that is accepted got exactly the reservation its header asks for.
THEOREM ReservationHolds == ParseSpec => []ReservationIsExact
<1>1. ParseInv => ReservationIsExact
  <2> SUFFICES ASSUME ParseInv PROVE ReservationIsExact
    OBVIOUS
  <2>1. reserved * 24 =< len + 24
    BY DEF ParseInv, Stages
  <2>2. pc = "done" => Len(infos) = count /\ reserved = count
    BY DEF ParseInv, Stages
  <2> QED
    BY <2>1, <2>2 DEF ReservationIsExact, MinTensorInfoBytes
<1> QED
  BY <1>1, ParseInvAlways, PTL
-----------------------------------------------------------------------------
\* A 32-bit metadata value is a field of 32 bits.
MetadataTyped ==
  \A key \in DOMAIN metadata :
    metadata[key].tag = "UINT32" => metadata[key].value \in Word32

\* An entry that is read keeps it, whatever its tag.
LEMMA EntryTyped ==
  ASSUME MetadataTyped, NEW key, NEW tag, NEW value, Insert(key, tag, value),
         tag = "UINT32" => value \in Word32
  PROVE  MetadataTyped'
BY DEF MetadataTyped, Insert

\* Every step of the parser keeps it.
LEMMA MetadataStep == MetadataTyped /\ [ParseNext]_pvars => MetadataTyped'
<1> SUFFICES ASSUME MetadataTyped, [ParseNext]_pvars PROVE MetadataTyped'
  OBVIOUS
<1>1. CASE Refuse
  BY <1>1 DEF Refuse, MetadataTyped
<1>2. CASE UNCHANGED metadata
  BY <1>2 DEF MetadataTyped
<1>3. CASE ReadEntry /\ ~Refuse
  <2>1. PICK key \in Key, n \in Word64 :
          \/ \E tag \in TypeTag \cap DOMAIN ScalarSize : ReadScalar(key, n, tag)
          \/ ReadText(key, n)
          \/ BeginStringArray(key, n)
          \/ ReadArray(key, n)
    BY <1>3 DEF ReadEntry
  <2>2. CASE \E tag \in TypeTag \cap DOMAIN ScalarSize : ReadScalar(key, n, tag)
    <3>1. PICK tag \in TypeTag :
            \E v \in (IF tag = "UINT32" THEN Word32 ELSE {0}) : Insert(key, tag, v)
      BY <2>2 DEF ReadScalar
    <3>2. PICK v \in (IF tag = "UINT32" THEN Word32 ELSE {0}) : Insert(key, tag, v)
      BY <3>1
    <3> QED
      BY <3>2, EntryTyped
  <2>3. CASE ReadText(key, n) \/ BeginStringArray(key, n) \/ ReadArray(key, n)
    <3>1. Insert(key, "STRING", 0) \/ Insert(key, "ARRAY", 0)
      BY <2>3 DEF ReadText, BeginStringArray, ReadArray
    <3> QED
      BY <3>1, EntryTyped
  <2> QED
    BY <2>1, <2>2, <2>3
<1>4. Refuse \/ UNCHANGED metadata \/ ReadEntry
  BY DEF ParseNext, pvars, ReadHeader, SkipString, EndStringArray, EndMetadata, ReadInfo,
         Align, Materialize, ParseDone
<1> QED
  BY <1>1, <1>2, <1>3, <1>4

\* It holds throughout every parse.
LEMMA MetadataAlways == ParseSpec => []MetadataTyped
<1>1. ParseInit => MetadataTyped
  BY DEF ParseInit, MetadataTyped
<1>2. MetadataTyped /\ [ParseNext]_pvars => MetadataTyped'
  BY MetadataStep
<1> QED
  BY <1>1, <1>2, PTL DEF ParseSpec

\* A read moves the cursor on.
LEMMA ReadAdvances ==
  ASSUME pos \in Nat, NEW n \in Nat, CanRead(n), pos' = Plus(pos, n)
  PROVE  pos' >= pos
<1>1. pos' = pos + n
  BY ReadInFile
<1> QED
  BY <1>1

\* Rounding up to a multiple does not go back.
LEMMA RoundUp ==
  ASSUME NEW p \in Nat, NEW d \in Nat \ {0}
  PROVE  ((p + d - 1) \div d) * d >= p
<1> DEFINE a == p + d - 1
           q == a \div d
<1>1. a \in Nat
  OBVIOUS
<1>2. a = d * q + (a % d) /\ a % d \in 0..(d - 1) /\ q \in Nat
  BY <1>1
<1> HIDE DEF q
<1>3. d * q = q * d
  BY <1>2
<1>4. q * d >= p
  BY <1>2, <1>3
<1> QED
  BY <1>4 DEF q

\* The bytes of an array of fixed-size elements are a number.
LEMMA ArraySize ==
  ASSUME NEW tag \in DOMAIN ScalarSize, NEW m \in Nat
  PROVE  ScalarSize[tag] \in Nat /\ m * ScalarSize[tag] \in Nat
<1>1. ScalarSize[tag] \in {1, 2, 4, 8}
  BY DEF ScalarSize
<1>2. \A k \in {1, 2, 4, 8} : k \in Nat /\ m * k \in Nat
  OBVIOUS
<1> QED
  BY <1>1, <1>2

\* Reading an entry moves the cursor on.
LEMMA EntryAdvances ==
  ASSUME pos \in Nat, NEW key, NEW n \in Word64,
         \/ \E tag \in TypeTag \cap DOMAIN ScalarSize : ReadScalar(key, n, tag)
         \/ ReadText(key, n)
         \/ BeginStringArray(key, n)
         \/ ReadArray(key, n)
  PROVE  pos' >= pos
<1>0. n \in Nat
  BY Fields
<1>1. CASE \E tag \in TypeTag \cap DOMAIN ScalarSize : ReadScalar(key, n, tag)
  <2>1. PICK tag \in DOMAIN ScalarSize :
          CanRead(8 + n + 4 + ScalarSize[tag]) /\ pos' = Plus(pos, 8 + n + 4 + ScalarSize[tag])
    BY <1>1 DEF ReadScalar
  <2>2. ScalarSize[tag] \in Nat
    BY ArraySize
  <2>3. 8 + n + 4 + ScalarSize[tag] \in Nat
    BY <1>0, <2>2
  <2> QED
    BY <2>1, <2>3, ReadAdvances
<1>2. CASE ReadText(key, n)
  <2>1. PICK m \in Word64 :
          CanRead(8 + n + 4 + 8 + m) /\ pos' = Plus(pos, 8 + n + 4 + 8 + m)
    BY <1>2 DEF ReadText
  <2>2. 8 + n + 4 + 8 + m \in Nat
    BY <1>0, Fields
  <2> QED
    BY <2>1, <2>2, ReadAdvances
<1>3. CASE BeginStringArray(key, n)
  <2>1. CanRead(8 + n + 4 + 4 + 8) /\ pos' = Plus(pos, 8 + n + 4 + 4 + 8)
    BY <1>3 DEF BeginStringArray
  <2>2. 8 + n + 4 + 4 + 8 \in Nat
    BY <1>0
  <2> QED
    BY <2>1, <2>2, ReadAdvances
<1>4. CASE ReadArray(key, n)
  <2>1. PICK tag \in DOMAIN ScalarSize, m \in Word64 :
          /\ CanRead(8 + n + 4 + 4 + 8 + m * ScalarSize[tag])
          /\ pos' = Plus(pos, 8 + n + 4 + 4 + 8 + m * ScalarSize[tag])
    BY <1>4 DEF ReadArray
  <2>2. m * ScalarSize[tag] \in Nat
    BY ArraySize, Fields
  <2>3. 8 + n + 4 + 4 + 8 + m * ScalarSize[tag] \in Nat
    BY <1>0, <2>2
  <2> QED
    BY <2>1, <2>3, ReadAdvances
<1> QED
  BY <1>1, <1>2, <1>3, <1>4

\* So does every step that does not refuse the file.
LEMMA CursorAdvances ==
  ASSUME ParseInv, MetadataTyped, [ParseNext]_pvars, pc' # "refused"
  PROVE  pos' >= pos
<1>0. pos \in Nat /\ ~Refuse
  BY Fields DEF ParseInv, Types, Refuse
<1>1. CASE ReadHeader
  <2>1. CanRead(24) /\ pos' = Plus(pos, 24)
    BY <1>0, <1>1 DEF ReadHeader
  <2> QED
    BY <1>0, <2>1, ReadAdvances
<1>2. CASE ReadEntry
  <2>1. PICK key \in Key, n \in Word64 :
          \/ \E tag \in TypeTag \cap DOMAIN ScalarSize : ReadScalar(key, n, tag)
          \/ ReadText(key, n)
          \/ BeginStringArray(key, n)
          \/ ReadArray(key, n)
    BY <1>0, <1>2 DEF ReadEntry
  <2> QED
    BY <1>0, <2>1, EntryAdvances
<1>3. CASE SkipString
  <2>1. PICK n \in Word64 : CanRead(8 + n) /\ pos' = Plus(pos, 8 + n)
    BY <1>0, <1>3 DEF SkipString
  <2>2. 8 + n \in Nat
    BY Fields
  <2> QED
    BY <1>0, <2>1, <2>2, ReadAdvances
<1>4. CASE ReadInfo
  <2>1. PICK n \in Word64, rank \in Word32 :
          /\ CanRead(8 + n + 4 + 8 * rank + 4 + 8)
          /\ pos' = Plus(pos, 8 + n + 4 + 8 * rank + 4 + 8)
    BY <1>0, <1>4 DEF ReadInfo
  <2>2. 8 + n + 4 + 8 * rank + 4 + 8 \in Nat
    BY Fields
  <2> QED
    BY <1>0, <2>1, <2>2, ReadAdvances
<1>5. CASE Align
  <2>1. pos' = Aligned /\ Alignment # 0
    BY <1>0, <1>5 DEF Align
  <2>2. Alignment \in Nat
    BY Fields DEF Alignment, MetadataTyped
  <2> QED
    BY <1>0, <2>1, <2>2, RoundUp DEF Aligned
<1>6. CASE UNCHANGED pos
  BY <1>0, <1>6
<1>7. CASE Materialize
  BY <1>0, <1>6, <1>7 DEF Materialize
<1> QED
  BY <1>1, <1>2, <1>3, <1>4, <1>5, <1>6, <1>7
     DEF ParseNext, pvars, EndStringArray, EndMetadata, ParseDone

\* Cursor: no byte of the index is read twice, and the data section begins at
\* or after its end, whatever alignment the file states.
THEOREM CursorForward == ParseSpec => CursorMovesForward
<1>1. ParseInv /\ MetadataTyped /\ [ParseNext]_pvars => [pc' # "refused" => pos' >= pos]_pvars
  <2> SUFFICES ASSUME ParseInv, MetadataTyped, [ParseNext]_pvars, pc' # "refused"
               PROVE  pos' >= pos
    OBVIOUS
  <2> QED
    BY CursorAdvances
<1> QED
  BY <1>1, ParseInvAlways, MetadataAlways, PTL DEF ParseSpec, CursorMovesForward
-----------------------------------------------------------------------------
(* Concatenations of sequences.                                            *)

\* Two concatenations in either order.
Regroups(S, x, y) == \A z \in Seq(S) : (x \o y) \o z = x \o (y \o z)

LEMMA Regrouped ==
  ASSUME NEW S, NEW x \in Seq(S), NEW y \in Seq(S)
  PROVE  Regroups(S, x, y)
BY ConcatAssociative DEF Regroups

\* ... and the concatenation of two parts for their concatenation.
LEMMA FlattenConcat ==
  ASSUME NEW S, NEW s \in Seq(Seq(S)), NEW t \in Seq(Seq(S))
  PROVE  FlattenSeq(s \o t) = FlattenSeq(s) \o FlattenSeq(t)
<1> DEFINE P(n) == FlattenSeq(s \o SubSeq(t, 1, n)) = FlattenSeq(s) \o FlattenSeq(SubSeq(t, 1, n))
           T == {n \in Nat : n \in 0..Len(t) /\ ~P(n)}
<1>0. Len(t) \in Nat /\ SubSeq(t, 1, Len(t)) = t
  <2>1. SubSeq(t, 1, Len(t)) \in Seq(Seq(S)) /\ Len(SubSeq(t, 1, Len(t))) = Len(t)
        /\ \A x \in 1..Len(t) : SubSeq(t, 1, Len(t))[x] = t[x]
    BY PrefixFacts
  <2> QED BY <2>1, SeqEqual
<1>1. P(0)
  <2>1. SubSeq(t, 1, 0) = << >>
    BY PrefixFacts, EmptySeq
  <2>2. s \o << >> = s /\ FlattenSeq(s) \o << >> = FlattenSeq(s)
    BY FlattenType, ConcatEmptySeq
  <2> QED BY <2>1, <2>2, FlattenEmpty
<1>2. ASSUME NEW n \in 0..Len(t) - 1, P(n) PROVE P(n + 1)
  <2> DEFINE p == SubSeq(t, 1, n)
  <2>1. p \in Seq(Seq(S)) /\ t[n + 1] \in Seq(S) /\ Append(p, t[n + 1]) = SubSeq(t, 1, n + 1)
    <3>1. n \in 0..Len(t) /\ n + 1 \in 1..Len(t)
      BY <1>0
    <3> QED BY <3>1, PrefixFacts, PrefixExtended, ElementOfSeq
  <2> HIDE DEF p
  <2> HIDE DEF P, T
  <2>8. p \in Seq(Seq(S)) /\ t[n + 1] \in Seq(S)
    BY <2>1
  <2>3. FlattenSeq(s) \in Seq(S) /\ FlattenSeq(p) \in Seq(S)
    BY <2>1, FlattenType
  <2>9. \A e \in Seq(S) : /\ s \o Append(p, e) = Append(s \o p, e)
                           /\ (FlattenSeq(s) \o FlattenSeq(p)) \o e = FlattenSeq(s) \o (FlattenSeq(p) \o e)
    <3> DEFINE V == Seq(S)
    <3>1. s \in Seq(V) /\ p \in Seq(V)
      BY <2>8
    <3> HIDE DEF V
    <3>2. \A e \in V : s \o Append(p, e) = Append(s \o p, e)
      BY <3>1, AppendToConcat
    <3>3. \A e \in Seq(S) : (FlattenSeq(s) \o FlattenSeq(p)) \o e = FlattenSeq(s) \o (FlattenSeq(p) \o e)
      <4>1. Regroups(S, FlattenSeq(s), FlattenSeq(p))
        BY <2>3, Regrouped, Zenon
      <4> QED BY <4>1, Zenon DEF Regroups
    <3> USE DEF V
    <3>4. ASSUME NEW e \in Seq(S) PROVE s \o Append(p, e) = Append(s \o p, e)
      BY <3>2, Zenon
    <3> QED BY <3>3, <3>4, Zenon
  <2>2. s \o p \in Seq(Seq(S))
    BY <2>8, ConcatProperties, Zenon
  <2>4. FlattenSeq(Append(s \o p, t[n + 1])) = FlattenSeq(s \o p) \o t[n + 1]
    BY <2>1, <2>2, FlattenAppend
  <2>5. FlattenSeq(Append(p, t[n + 1])) = FlattenSeq(p) \o t[n + 1]
    BY <2>1, FlattenAppend
  <2>6. (FlattenSeq(s) \o FlattenSeq(p)) \o t[n + 1] = FlattenSeq(s) \o (FlattenSeq(p) \o t[n + 1])
    BY <2>8, <2>9
  <2>7. FlattenSeq(s \o p) = FlattenSeq(s) \o FlattenSeq(p)
    BY <1>2 DEF p, P
  <2> QED BY <2>1, <2>2, <2>4, <2>5, <2>6, <2>7, <2>9 DEF P
<1> HIDE DEF P
<1>3. CASE T = {}
  <2>1. P(Len(t))
    BY <1>0, <1>3
  <2> QED BY <1>0, <2>1 DEF P
<1>4. CASE T # {}
  <2>1. PICK m \in T : \A k \in T : m <= k
    BY <1>4, LeastElement
  <2>2. m # 0
    BY <1>1, <2>1
  <2>3. m - 1 \in 0..Len(t) - 1 /\ m - 1 \in Nat /\ ~(m <= m - 1) /\ m - 1 + 1 = m
    BY <1>0, <2>1, <2>2
  <2>4. P(m - 1)
    BY <1>0, <2>1, <2>3
  <2> QED BY <1>2, <2>1, <2>3, <2>4
<1> QED BY <1>3, <1>4

\* A sequence is its first n elements and the rest.
LEMMA Parts ==
  ASSUME NEW S, NEW s \in Seq(S), NEW n \in 0..Len(s)
  PROVE  /\ SubSeq(s, 1, n) \in Seq(S) /\ SubSeq(s, n + 1, Len(s)) \in Seq(S)
         /\ Len(SubSeq(s, 1, n)) = n /\ Len(SubSeq(s, n + 1, Len(s))) = Len(s) - n
         /\ s = SubSeq(s, 1, n) \o SubSeq(s, n + 1, Len(s))
<1>0. Len(s) \in Nat /\ n \in Nat /\ \A x \in 1..Len(s) : s[x] \in S
  BY ElementOfSeq
<1> DEFINE p == SubSeq(s, 1, n)
           r == SubSeq(s, n + 1, Len(s))
<1>1. p \in Seq(S) /\ Len(p) = n /\ \A x \in 1..n : p[x] = s[x]
  BY PrefixFacts
<1>2. /\ r \in Seq(S)
      /\ Len(r) = Len(s) - n
      /\ \A x \in 1..Len(s) - n : r[x] = s[n + x]
  <2>1. /\ r \in Seq(S)
        /\ Len(r) = IF n + 1 <= Len(s) THEN Len(s) - (n + 1) + 1 ELSE 0
        /\ \A x \in 1..Len(s) - (n + 1) + 1 : r[x] = s[(n + 1) + x - 1]
    <3>1. \A x \in n + 1..Len(s) : s[x] \in S
      BY <1>0
    <3>2. n + 1 \in Int /\ Len(s) \in Int
      BY <1>0
    <3> QED BY <3>1, <3>2, SubSeqProperties
  <2>2. Len(s) - (n + 1) + 1 = Len(s) - n /\ (n + 1 <= Len(s) \/ Len(s) - n = 0)
        /\ \A x \in 1..Len(s) - n : (n + 1) + x - 1 = n + x
    BY <1>0
  <2> HIDE DEF r
  <2> QED BY <1>0, <2>1, <2>2
<1> HIDE DEF p, r
<1>3. p \o r \in Seq(S) /\ Len(p \o r) = Len(s)
      /\ \A x \in 1..Len(s) : (p \o r)[x] = IF x <= n THEN p[x] ELSE r[x - n]
  <2>1. /\ p \o r \in Seq(S) /\ Len(p \o r) = Len(p) + Len(r)
        /\ \A x \in 1..Len(p) + Len(r) : (p \o r)[x] = IF x <= Len(p) THEN p[x] ELSE r[x - Len(p)]
    BY <1>1, <1>2, ConcatProperties
  <2>2. Len(p) + Len(r) = Len(s)
    BY <1>0, <1>1, <1>2
  <2> QED BY <1>1, <2>1, <2>2
<1>4. \A x \in 1..Len(s) : (p \o r)[x] = s[x]
  <2> TAKE x \in 1..Len(s)
  <2>1. CASE x <= n
    BY <1>0, <1>1, <1>3, <2>1
  <2>2. CASE ~(x <= n)
    <3>1. x - n \in 1..Len(s) - n /\ n + (x - n) = x
      BY <1>0, <2>2
    <3> QED BY <1>2, <1>3, <2>2, <3>1
  <2> QED BY <2>1, <2>2
<1>5. s = p \o r
  BY <1>3, <1>4, SeqEqual
<1> QED BY <1>1, <1>2, <1>5 DEF p, r

\* The offset where the n-th of the sequences begins in the flat one.
StartOf(s, n) == Len(FlattenSeq(SubSeq(s, 1, n - 1)))

\* Where its elements are.
LEMMA FlattenAt ==
  ASSUME NEW S, NEW s \in Seq(Seq(S)), NEW n \in 1..Len(s)
  PROVE  /\ StartOf(s, n) \in Nat /\ Len(s[n]) \in Nat
         /\ StartOf(s, n + 1) = StartOf(s, n) + Len(s[n])
         /\ StartOf(s, n + 1) <= Len(FlattenSeq(s))
         /\ \A j \in 1..Len(s[n]) : FlattenSeq(s)[StartOf(s, n) + j] = s[n][j]
<1> DEFINE p == SubSeq(s, 1, n - 1)
           q == SubSeq(s, 1, n)
           r == SubSeq(s, n + 1, Len(s))
<1>0. n - 1 \in 0..Len(s) - 1 /\ n - 1 \in 0..Len(s) /\ n \in 0..Len(s) /\ n - 1 + 1 = n
      /\ n + 1 - 1 = n /\ s[n] \in Seq(S)
  BY ElementOfSeq
<1>1. p \in Seq(Seq(S)) /\ q = Append(p, s[n])
  BY <1>0, PrefixFacts, PrefixExtended
<1>2. q \in Seq(Seq(S)) /\ r \in Seq(Seq(S)) /\ s = q \o r
  BY <1>0, Parts
<1> DEFINE P == FlattenSeq(p)
           R == FlattenSeq(r)
<1>3. P \in Seq(S) /\ R \in Seq(S)
  BY <1>1, <1>2, FlattenType
<1>4. FlattenSeq(q) = P \o s[n]
  BY <1>0, <1>1, FlattenAppend
<1>5. FlattenSeq(s) = (P \o s[n]) \o R
  BY <1>2, <1>4, FlattenConcat
<1>6. StartOf(s, n) = Len(P) /\ StartOf(s, n + 1) = Len(P \o s[n])
  <2>1. StartOf(s, n) = Len(P)
    BY DEF StartOf
  <2>2. StartOf(s, n + 1) = Len(FlattenSeq(SubSeq(s, 1, n + 1 - 1)))
    BY DEF StartOf
  <2> QED BY <1>0, <1>4, <2>1, <2>2
<1> HIDE DEF P, R, p, q, r
<1>7. /\ P \o s[n] \in Seq(S) /\ Len(P \o s[n]) = Len(P) + Len(s[n])
      /\ \A j \in 1..Len(P) + Len(s[n]) : (P \o s[n])[j] = IF j <= Len(P) THEN P[j] ELSE s[n][j - Len(P)]
  BY <1>0, <1>3, ConcatProperties
<1>8. Len(P) \in Nat /\ Len(s[n]) \in Nat /\ Len(R) \in Nat
  BY <1>0, <1>3
<1> DEFINE W == P \o s[n]
<1>9. /\ Len(W \o R) = Len(W) + Len(R)
      /\ \A j \in 1..Len(W) + Len(R) : (W \o R)[j] = IF j <= Len(W) THEN W[j] ELSE R[j - Len(W)]
  <2>1. W \in Seq(S)
    BY <1>7
  <2> HIDE DEF W
  <2> QED BY <1>3, <2>1, ConcatProperties
<1> HIDE DEF W
<1>10. ASSUME NEW j \in 1..Len(s[n]) PROVE FlattenSeq(s)[StartOf(s, n) + j] = s[n][j]
  <2>1. Len(P) + j \in 1..Len(P) + Len(s[n]) /\ ~(Len(P) + j <= Len(P)) /\ Len(P) + j - Len(P) = j
    BY <1>8
  <2>2. Len(P) + j \in 1..Len(W) + Len(R) /\ Len(P) + j <= Len(W)
    BY <1>7, <1>8, <2>1 DEF W
  <2>3. (W \o R)[Len(P) + j] = W[Len(P) + j]
    BY <1>9, <2>2
  <2>4. W[Len(P) + j] = s[n][j]
    BY <1>7, <2>1 DEF W
  <2> QED BY <1>5, <1>6, <2>3, <2>4 DEF W
<1>11. StartOf(s, n + 1) = Len(W) /\ Len(FlattenSeq(s)) = Len(W) + Len(R)
  BY <1>5, <1>6, <1>9 DEF W
<1>12. Len(W) = Len(P) + Len(s[n])
  BY <1>7 DEF W
<1>13. StartOf(s, n) = Len(P) /\ Len(W) \in Nat
  BY <1>6, <1>8, <1>12
<1>14. StartOf(s, n + 1) = StartOf(s, n) + Len(s[n])
  BY <1>11, <1>12, <1>13
<1>15. StartOf(s, n + 1) <= Len(FlattenSeq(s))
  BY <1>8, <1>11, <1>13
<1>16. StartOf(s, n) \in Nat /\ Len(s[n]) \in Nat
  BY <1>8, <1>13
<1> QED BY <1>10, <1>14, <1>15, <1>16

\* Each element of the flat sequence comes from one of them.
LEMMA FlattenFrom ==
  ASSUME NEW S, NEW s \in Seq(Seq(S)), NEW j \in 1..Len(FlattenSeq(s))
  PROVE  \E n \in 1..Len(s) :
           /\ StartOf(s, n) < j /\ j <= StartOf(s, n + 1)
           /\ j - StartOf(s, n) \in 1..Len(s[n])
           /\ FlattenSeq(s)[j] = s[n][j - StartOf(s, n)]
<1> DEFINE T == {n \in Nat : n \in 0..Len(s) /\ j <= StartOf(s, n + 1)}
<1>0. Len(s) \in Nat /\ SubSeq(s, 1, Len(s)) = s
  <2>1. SubSeq(s, 1, Len(s)) \in Seq(Seq(S)) /\ Len(SubSeq(s, 1, Len(s))) = Len(s)
        /\ \A x \in 1..Len(s) : SubSeq(s, 1, Len(s))[x] = s[x]
    BY PrefixFacts
  <2> QED BY <2>1, SeqEqual
<1>1. Len(s) \in T
  <2>1. Len(s) + 1 - 1 = Len(s) /\ j <= Len(FlattenSeq(s))
    BY <1>0
  <2>2. StartOf(s, Len(s) + 1) = Len(FlattenSeq(SubSeq(s, 1, Len(s) + 1 - 1)))
    BY DEF StartOf
  <2>3. j <= StartOf(s, Len(s) + 1)
    BY <1>0, <2>1, <2>2
  <2> QED BY <1>0, <2>3
<1>2. PICK n \in T : \A k \in T : n <= k
  BY <1>1, LeastElement
<1>3. n # 0
  <2>1. SubSeq(s, 1, 0) = << >>
    BY <1>0, PrefixFacts, EmptySeq
  <2>2. StartOf(s, 1) = Len(FlattenSeq(SubSeq(s, 1, 1 - 1)))
    BY DEF StartOf
  <2>3. 1 - 1 = 0 /\ 0 + 1 = 1 /\ Len(<< >>) = 0
    OBVIOUS
  <2>4. StartOf(s, 0 + 1) = 0
    BY <2>1, <2>2, <2>3, FlattenEmpty
  <2> QED BY <1>2, <2>4
<1>4. n \in 1..Len(s) /\ n - 1 \in 0..Len(s) /\ n - 1 \in Nat /\ ~(n <= n - 1) /\ n - 1 + 1 = n
  BY <1>0, <1>2, <1>3
<1>5. ~(j <= StartOf(s, n))
  BY <1>2, <1>4
<1>6. /\ StartOf(s, n) \in Nat /\ Len(s[n]) \in Nat
      /\ StartOf(s, n + 1) = StartOf(s, n) + Len(s[n])
      /\ \A x \in 1..Len(s[n]) : FlattenSeq(s)[StartOf(s, n) + x] = s[n][x]
  BY <1>4, FlattenAt
<1>7. j <= StartOf(s, n) + Len(s[n]) /\ j \in Nat
  BY <1>2, <1>6
<1>8. j - StartOf(s, n) \in 1..Len(s[n]) /\ StartOf(s, n) + (j - StartOf(s, n)) = j
  BY <1>5, <1>6, <1>7
<1>9. FlattenSeq(s)[j] = s[n][j - StartOf(s, n)]
  BY <1>6, <1>8
<1>10. StartOf(s, n) < j /\ j <= StartOf(s, n + 1)
  BY <1>5, <1>6, <1>7
<1>11. j - StartOf(s, n) \in 1..Len(s[n])
  BY <1>8
<1> QED BY <1>4, <1>9, <1>10, <1>11
-----------------------------------------------------------------------------
(* The invariant.                                                          *)

TokStages == {"load", "cut", "scan", "done", "refused", "panicked"}

\* The pair at k is of a smaller rank, or of a higher score, than the one at b.
Before(k, b) == IF model.kind = "gpt2" THEN Rank(k) < Rank(b) ELSE Score(k) > Score(b)

\* The best of the pairs the scan has come past.
BestSoFar ==
  LET met == {k \in ScanStart..i - 1 : CanMerge(k)}
  IN  IF best = NoPair THEN met = {}
      ELSE /\ best \in met
           /\ \A k \in met : ~Before(k, best) /\ (k < best => Before(best, k))

VocabularyInUse ==
  /\ model \in VocabularyFiles
  /\ model.kind # "gpt2" => Bos < Len(model.vocab)
  /\ tpc = "load" => IsVocabulary(model)
  /\ model.kind # "gpt2" /\ tpc \notin {"load", "refused"} => Len(model.vocab) =< Len(model.scores)

Id == 0..Len(model.vocab) - 1

TokTypes ==
  /\ IsText(text) /\ bos \in BOOLEAN /\ tpc \in TokStages
  /\ at \in 0..Len(Flat)
  /\ tokens \in (IF model.kind = "gpt2" THEN Seq(Seq(Nat)) ELSE Seq(Id))
  /\ out \in Seq(Id)
  /\ i \in Nat \ {0} /\ best \in 0..i - 1
  /\ tpc = "load" => tokens = << >> /\ out = << >>

ScanState ==
  /\ tpc # "scan" => best = NoPair
  /\ tpc = "scan" => BestSoFar /\ (i = 1 \/ i =< Len(tokens))

\* Pieces begin between two characters.
PieceStarts == Boundary(at)

TokInv == VocabularyInUse /\ TokTypes /\ ScanState /\ PieceStarts /\ PanicsOnlyAtQuote

\* Inductive: each part of the session is off or as it should be.
SessionInv ==
  /\ NoParse \/ (ParseInv /\ MetadataTyped)
  /\ NoText \/ TokInv
  /\ ids \in Seq(Nat)
  /\ epc = "off" \/ EngineInv
-----------------------------------------------------------------------------
(* Vocabularies.                                                           *)

\* The id of a known string is that of a token of these bytes.
LEMMA IdOfKnown ==
  ASSUME model.vocab \in Seq(Seq(Nat)), NEW bytes, Known(bytes)
  PROVE  IdOf(bytes) \in Id /\ Bytes(IdOf(bytes)) = bytes
<1> DEFINE T == {k \in Nat : k \in DOMAIN model.vocab /\ model.vocab[k] = bytes}
           First(k) == /\ model.vocab[k] = bytes
                       /\ \A j \in 1..k - 1 : model.vocab[j] # bytes
<1>0. Len(model.vocab) \in Nat /\ DOMAIN model.vocab = 1..Len(model.vocab)
  OBVIOUS
<1>1. T # {}
  BY <1>0 DEF Known
<1>2. PICK m \in T : \A k \in T : m <= k
  BY <1>1, LeastElement
<1>3. \A j \in 1..m - 1 : j \in Nat /\ j \in DOMAIN model.vocab /\ ~(m <= j)
  BY <1>0, <1>2
<1>4. First(m) /\ m \in DOMAIN model.vocab
  BY <1>2, <1>3
<1> DEFINE c == CHOOSE k \in DOMAIN model.vocab : First(k)
<1>5. c \in DOMAIN model.vocab /\ First(c)
  <2> HIDE DEF First
  <2> QED BY <1>4
<1>6. IdOf(bytes) = c - 1
  BY DEF IdOf
<1> HIDE DEF c
<1>7. c \in 1..Len(model.vocab) /\ model.vocab[c] = bytes /\ c - 1 + 1 = c
  BY <1>0, <1>5
<1> QED BY <1>0, <1>6, <1>7 DEF Id, Bytes

\* So is the id of the fallback for a byte.
LEMMA FallbackKnown ==
  ASSUME model.vocab \in Seq(Seq(Nat)), NEW byte, Fallbacks(byte) # {}
  PROVE  FallbackOf(byte) \in Id /\ RawByte(Bytes(FallbackOf(byte))) = byte
<1> DEFINE N == Len(model.vocab)
           F == Fallbacks(byte)
           T == {n \in Nat : \E k \in F : n = N - k}
           Highest(k) == \A j \in F : j =< k
<1>0. N \in Nat /\ F \subseteq 1..N
  BY DEF Fallbacks
<1> HIDE DEF F, N
<1>1. T # {}
  <2>1. PICK k \in F : TRUE
    BY DEF F
  <2>2. N - k \in Nat
    BY <1>0, <2>1
  <2> QED BY <2>1, <2>2
<1>2. PICK m \in T : \A n \in T : m <= n
  BY <1>1, LeastElement
<1>3. PICK k \in F : m = N - k
  BY <1>2
<1>4. Highest(k)
  <2> TAKE j \in F
  <2>1. N - j \in Nat
    BY <1>0
  <2>2. m <= N - j
    BY <1>2, <2>1
  <2>3. k \in 1..N /\ j \in 1..N
    BY <1>0, <1>3
  <2> QED BY <1>0, <1>3, <2>2, <2>3
<1> DEFINE c == CHOOSE x \in F : Highest(x)
<1>5. c \in F
  <2> HIDE DEF Highest
  <2> QED BY <1>3, <1>4
<1>6. FallbackOf(byte) = c - 1
  BY DEF FallbackOf, F
<1> HIDE DEF c
<1>7. c \in 1..N /\ c - 1 \in Id /\ c - 1 + 1 = c
  BY <1>0, <1>5 DEF Id, N
<1>8. RawByte(model.vocab[c]) = byte
  BY <1>5 DEF F, Fallbacks
<1> QED BY <1>6, <1>7, <1>8 DEF Bytes

\* The rank of a pair that can be merged is the first of its rules.
LEMMA RankFirst ==
  ASSUME model.merges \in Seq(Seq(Nat)), NEW k, Ranks(Pair(k)) # {}
  PROVE  Rank(k) \in Nat
<1> DEFINE R == Ranks(Pair(k))
           First(r) == \A s \in R : r =< s
<1>1. R \subseteq Nat /\ R # {}
  BY DEF Ranks
<1>2. Rank(k) = CHOOSE r \in R : First(r)
  BY DEF Rank
<1> HIDE DEF R
<1>3. \E r \in R : First(r)
  BY <1>1, LeastElement
<1> HIDE DEF First
<1> QED BY <1>1, <1>2, <1>3

\* The score of a pair that can be merged is that of the token it is merged to.
LEMMA ScoreKnown ==
  ASSUME model \in VocabularyFiles, Len(model.vocab) =< Len(model.scores),
         NEW k, Known(Joined(k))
  PROVE  Score(k) \in Nat
<1>1. model.vocab \in Seq(Seq(Nat)) /\ model.scores \in Seq(Nat)
  BY DEF VocabularyFiles
<1>2. IdOf(Joined(k)) \in Id
  BY <1>1, IdOfKnown
<1>3. IdOf(Joined(k)) + 1 \in 1..Len(model.scores)
  <2>1. Len(model.vocab) \in Nat /\ Len(model.scores) \in Nat
    BY <1>1
  <2> QED BY <1>2, <2>1 DEF Id
<1>4. model.scores[IdOf(Joined(k)) + 1] \in Nat
  BY <1>1, <1>3, ElementOfSeq
<1> QED BY <1>4 DEF Score

\* The pairs that can be merged are compared by a number.
LEMMA BeforeIsAnOrder ==
  ASSUME VocabularyInUse, tpc = "scan",
         NEW k, NEW l, NEW m, CanMerge(k), CanMerge(l), CanMerge(m)
  PROVE  /\ ~Before(k, k)
         /\ Before(k, l) => ~Before(l, k)
         /\ Before(k, l) /\ ~Before(m, l) => Before(k, m)
<1>1. CASE model.kind = "gpt2"
  <2>1. Rank(k) \in Nat /\ Rank(l) \in Nat /\ Rank(m) \in Nat
    BY <1>1, RankFirst DEF VocabularyInUse, VocabularyFiles, CanMerge
  <2> QED BY <1>1, <2>1 DEF Before
<1>2. CASE model.kind # "gpt2"
  <2>1. Score(k) \in Nat /\ Score(l) \in Nat /\ Score(m) \in Nat
    BY <1>2, ScoreKnown DEF VocabularyInUse, CanMerge
  <2> QED BY <1>2, <2>1 DEF Before
<1> QED BY <1>1, <1>2

\* Comparing pairs depends on the vocabulary and the tokens alone.
LEMMA RuleKept == ASSUME model' = model, NEW r PROVE RuleAt(r)' = RuleAt(r)
BY DEF RuleAt, Min

\* The pairs, their ranks and their scores depend on the vocabulary and the tokens alone.
LEMMA PairsKept ==
  ASSUME model' = model, tokens' = tokens, NEW k
  PROVE  CanMerge(k)' = CanMerge(k) /\ Rank(k)' = Rank(k) /\ Score(k)' = Score(k)
<1>1. Ranks(Pair(k))' = Ranks(Pair(k))
  BY RuleKept DEF Ranks, Pair
<1>2. Joined(k)' = Joined(k)
  BY DEF Joined, Bytes
<1>3. IdOf(Joined(k))' = IdOf(Joined(k)) /\ Known(Joined(k))' = Known(Joined(k))
  BY <1>2 DEF IdOf, Known
<1>4. Score(k)' = Score(k)
  BY <1>3 DEF Score
<1>5. Rank(k)' = Rank(k)
  BY <1>1 DEF Rank
<1> QED BY <1>1, <1>3, <1>4, <1>5 DEF CanMerge
-----------------------------------------------------------------------------
(* Sequences the tokenizers build.                                         *)

\* What is computed of each element of a sequence.
LEMMA MapSeq ==
  ASSUME NEW s, NEW A, s \in Seq(A), NEW R, NEW f \in [DOMAIN s -> R]
  PROVE  f \in Seq(R) /\ Len(f) = Len(s)
<1>1. Len(s) \in Nat /\ DOMAIN s = 1..Len(s)
  OBVIOUS
<1> QED BY <1>1, LenProperties, SeqDef

\* A text flattens to bytes.
LEMMA FlatBytes ==
  ASSUME IsText(text)
  PROVE  Flat \in Seq(0..255) /\ Len(Flat) \in Nat
<1>1. Flat \in Seq(0..255)
  BY FlattenType DEF IsText, Flat
<1> QED BY <1>1

\* What spm makes of it is characters still.
LEMMA NormalizedChars ==
  ASSUME IsText(text)
  PROVE  Normalized \in Seq(Seq(0..255))
<1> DEFINE rest == [k \in DOMAIN text |-> IF text[k] = <<Space>> THEN Mark ELSE text[k]]
<1>1. Mark \in Seq(0..255)
  BY DEF Mark
<1>2. text \in Seq(Seq(0..255))
  BY DEF IsText
<1>3. rest \in [DOMAIN text -> Seq(0..255)]
  <2>1. \A k \in DOMAIN text : text[k] \in Seq(0..255)
    BY <1>2, ElementOfSeq
  <2> QED BY <1>1, <2>1
<1> HIDE DEF rest
<1>4. rest \in Seq(Seq(0..255))
  BY <1>2, <1>3, MapSeq
<1>5. <<Mark>> \in Seq(Seq(0..255))
  BY <1>1
<1>6. <<Mark>> \o rest \in Seq(Seq(0..255))
  BY <1>4, <1>5, ConcatProperties
<1> QED BY <1>6 DEF Normalized, rest

\* The ids of a character are ids.
LEMMA CharIdsAreIds ==
  ASSUME model.vocab \in Seq(Seq(Nat)), NEW ch \in Seq(0..255)
  PROVE  CharIds(ch) \in Seq(Id)
<1>1. CASE Known(ch)
  <2>1. IdOf(ch) \in Id
    BY <1>1, IdOfKnown
  <2> QED BY <1>1, <2>1 DEF CharIds
<1>2. CASE ~Known(ch)
  <2> DEFINE f == [k \in DOMAIN ch |->
                     IF Fallbacks(ch[k]) = {} THEN << >> ELSE <<FallbackOf(ch[k])>>]
  <2>1. f \in [DOMAIN ch -> Seq(Id)]
    <3>1. \A k \in DOMAIN ch : Fallbacks(ch[k]) # {} => FallbackOf(ch[k]) \in Id
      BY FallbackKnown
    <3> QED BY <3>1
  <2>2. FlattenSeq(f) = CharIds(ch)
    BY <1>2 DEF CharIds
  <2> HIDE DEF f
  <2>3. f \in Seq(Seq(Id))
    BY <2>1, MapSeq
  <2> QED BY <2>2, <2>3, FlattenType
<1> QED BY <1>1, <1>2

\* So is what a text is cut into.
LEMMA CutIsIds ==
  ASSUME TokInv, CutScored
  PROVE  tokens' \in Seq(Id)
<1>1. model.vocab \in Seq(Seq(Nat)) /\ IsText(text) /\ bos \in BOOLEAN
  BY DEF TokInv, VocabularyInUse, VocabularyFiles, TokTypes
<1>2. Bos \in Id
  <2>1. Len(model.vocab) \in Nat
    BY <1>1
  <2> QED BY <2>1 DEF TokInv, VocabularyInUse, CutScored, Id, Bos
<1>3. Head1 \in Seq(Id)
  BY <1>1, <1>2 DEF Head1
<1> DEFINE f == [k \in DOMAIN Normalized |-> CharIds(Normalized[k])]
           g == [k \in DOMAIN Flat |-> ByteIds(Flat[k])]
<1>4. FlattenSeq(f) \in Seq(Id)
  <2>1. Normalized \in Seq(Seq(0..255))
    BY <1>1, NormalizedChars
  <2>2. \A k \in DOMAIN Normalized : Normalized[k] \in Seq(0..255)
    BY <2>1, ElementOfSeq
  <2>3. f \in [DOMAIN Normalized -> Seq(Id)]
    BY <1>1, <2>2, CharIdsAreIds
  <2> HIDE DEF f
  <2>4. f \in Seq(Seq(Id))
    BY <2>1, <2>3, MapSeq
  <2> QED BY <2>4, FlattenType
<1>5. FlattenSeq(g) \in Seq(Id)
  <2>1. Flat \in Seq(0..255)
    BY <1>1, FlatBytes
  <2>2. \A k \in DOMAIN Flat : ByteIds(Flat[k]) \in Seq(Id)
    BY <1>1, IdOfKnown DEF ByteIds
  <2>3. g \in [DOMAIN Flat -> Seq(Id)]
    BY <2>2
  <2> HIDE DEF g
  <2>4. g \in Seq(Seq(Id))
    BY <2>1, <2>3, MapSeq
  <2> QED BY <2>4, FlattenType
<1>6. tokens' = Head1 \o (IF model.kind = "spm" THEN FlattenSeq(f) ELSE FlattenSeq(g))
  BY DEF CutScored
<1> HIDE DEF f, g
<1>7. Head1 \o FlattenSeq(f) \in Seq(Id) /\ Head1 \o FlattenSeq(g) \in Seq(Id)
  BY <1>3, <1>4, <1>5, ConcatProperties
<1> QED BY <1>6, <1>7

\* The code point of a byte is a number.
LEMMA ByteEncoded == \A b \in 0..255 : ByteEncoder[b] \in Nat
<1> SUFFICES ASSUME NEW b \in 0..255 PROVE ByteEncoder[b] \in Nat
  OBVIOUS
<1> DEFINE S == {c \in 0..b - 1 : ~Printable(c)}
<1>1. IsFiniteSet(0..b - 1) /\ S \subseteq 0..b - 1
  BY FS_Interval
<1>2. IsFiniteSet(S)
  BY <1>1, FS_Subset
<1>3. Cardinality(S) \in Nat
  BY <1>2, FS_CardinalityType
<1>4. ByteEncoder[b] = IF Printable(b) THEN b ELSE 256 + Cardinality(S)
  BY DEF ByteEncoder
<1> HIDE DEF S
<1> QED BY <1>3, <1>4

\* A run of offsets of G that begins at k ends, at the end of the text or where G does.
LEMMA RunExists ==
  ASSUME NEW N \in Nat, NEW k \in 0..N, NEW G
  PROVE  \E e \in k..N : (\A j \in k..e - 1 : j \in G) /\ (e = N \/ e \notin G)
<1> DEFINE T == {e \in Nat : e \in k..N /\ (e = N \/ e \notin G)}
<1>1. N \in T
  OBVIOUS
<1>2. PICK e \in T : \A x \in T : e <= x
  BY <1>1, LeastElement
<1>3. ASSUME NEW j \in k..e - 1 PROVE j \in G
  <2>1. j \in Nat /\ j \in k..N /\ ~(e <= j)
    BY <1>2
  <2> QED BY <1>2, <2>1
<1> QED BY <1>2, <1>3

\* A run of one kind of bytes ends within the text.
LEMMA RunLetters ==
  ASSUME Len(Flat) \in Nat, NEW m \in 0..Len(Flat)
  PROVE  /\ RunEnd(m, IsLetter) \in m..Len(Flat)
         /\ \A j \in m..RunEnd(m, IsLetter) - 1 : IsLetter(Flat[j + 1])
         /\ RunEnd(m, IsLetter) = Len(Flat) \/ ~IsLetter(Flat[RunEnd(m, IsLetter) + 1])
<1> DEFINE N == Len(Flat)
           G == {j \in m..N : IsLetter(Flat[j + 1])}
           Ends(e) == /\ \A j \in m..e - 1 : IsLetter(Flat[j + 1])
                      /\ e = N \/ ~IsLetter(Flat[e + 1])
<1>1. PICK e \in m..N : (\A j \in m..e - 1 : j \in G) /\ (e = N \/ e \notin G)
  BY RunExists
<1>2. Ends(e)
  BY <1>1
<1>3. RunEnd(m, IsLetter) = CHOOSE x \in m..N : Ends(x)
  BY DEF RunEnd
<1> HIDE DEF Ends, N
<1>4. (CHOOSE x \in m..N : Ends(x)) \in m..N /\ Ends(CHOOSE x \in m..N : Ends(x))
  BY <1>1, <1>2
<1>5. RunEnd(m, IsLetter) \in m..N /\ Ends(RunEnd(m, IsLetter))
  BY <1>3, <1>4
<1> QED BY <1>5 DEF N, Ends

\* A run of digits ends in the text.
LEMMA RunDigits ==
  ASSUME Len(Flat) \in Nat, NEW m \in 0..Len(Flat)
  PROVE  /\ RunEnd(m, IsDigit) \in m..Len(Flat)
         /\ \A j \in m..RunEnd(m, IsDigit) - 1 : IsDigit(Flat[j + 1])
         /\ RunEnd(m, IsDigit) = Len(Flat) \/ ~IsDigit(Flat[RunEnd(m, IsDigit) + 1])
<1> DEFINE N == Len(Flat)
           G == {j \in m..N : IsDigit(Flat[j + 1])}
           Ends(e) == /\ \A j \in m..e - 1 : IsDigit(Flat[j + 1])
                      /\ e = N \/ ~IsDigit(Flat[e + 1])
<1>1. PICK e \in m..N : (\A j \in m..e - 1 : j \in G) /\ (e = N \/ e \notin G)
  BY RunExists
<1>2. Ends(e)
  BY <1>1
<1>3. RunEnd(m, IsDigit) = CHOOSE x \in m..N : Ends(x)
  BY DEF RunEnd
<1> HIDE DEF Ends, N
<1>4. (CHOOSE x \in m..N : Ends(x)) \in m..N /\ Ends(CHOOSE x \in m..N : Ends(x))
  BY <1>1, <1>2
<1>5. RunEnd(m, IsDigit) \in m..N /\ Ends(RunEnd(m, IsDigit))
  BY <1>3, <1>4
<1> QED BY <1>5 DEF N, Ends

\* A run of other characters ends in the text.
LEMMA RunPuncts ==
  ASSUME Len(Flat) \in Nat, NEW m \in 0..Len(Flat)
  PROVE  /\ RunEnd(m, IsPunct) \in m..Len(Flat)
         /\ \A j \in m..RunEnd(m, IsPunct) - 1 : IsPunct(Flat[j + 1])
         /\ RunEnd(m, IsPunct) = Len(Flat) \/ ~IsPunct(Flat[RunEnd(m, IsPunct) + 1])
<1> DEFINE N == Len(Flat)
           G == {j \in m..N : IsPunct(Flat[j + 1])}
           Ends(e) == /\ \A j \in m..e - 1 : IsPunct(Flat[j + 1])
                      /\ e = N \/ ~IsPunct(Flat[e + 1])
<1>1. PICK e \in m..N : (\A j \in m..e - 1 : j \in G) /\ (e = N \/ e \notin G)
  BY RunExists
<1>2. Ends(e)
  BY <1>1
<1>3. RunEnd(m, IsPunct) = CHOOSE x \in m..N : Ends(x)
  BY DEF RunEnd
<1> HIDE DEF Ends, N
<1>4. (CHOOSE x \in m..N : Ends(x)) \in m..N /\ Ends(CHOOSE x \in m..N : Ends(x))
  BY <1>1, <1>2
<1>5. RunEnd(m, IsPunct) \in m..N /\ Ends(RunEnd(m, IsPunct))
  BY <1>3, <1>4
<1> QED BY <1>5 DEF N, Ends

\* A run of spaces ends in the text.
LEMMA RunSpaces ==
  ASSUME Len(Flat) \in Nat, NEW m \in 0..Len(Flat)
  PROVE  /\ RunEnd(m, IsSpace) \in m..Len(Flat)
         /\ \A j \in m..RunEnd(m, IsSpace) - 1 : IsSpace(Flat[j + 1])
         /\ RunEnd(m, IsSpace) = Len(Flat) \/ ~IsSpace(Flat[RunEnd(m, IsSpace) + 1])
<1> DEFINE N == Len(Flat)
           G == {j \in m..N : IsSpace(Flat[j + 1])}
           Ends(e) == /\ \A j \in m..e - 1 : IsSpace(Flat[j + 1])
                      /\ e = N \/ ~IsSpace(Flat[e + 1])
<1>1. PICK e \in m..N : (\A j \in m..e - 1 : j \in G) /\ (e = N \/ e \notin G)
  BY RunExists
<1>2. Ends(e)
  BY <1>1
<1>3. RunEnd(m, IsSpace) = CHOOSE x \in m..N : Ends(x)
  BY DEF RunEnd
<1> HIDE DEF Ends, N
<1>4. (CHOOSE x \in m..N : Ends(x)) \in m..N /\ Ends(CHOOSE x \in m..N : Ends(x))
  BY <1>1, <1>2
<1>5. RunEnd(m, IsSpace) \in m..N /\ Ends(RunEnd(m, IsSpace))
  BY <1>3, <1>4
<1> QED BY <1>5 DEF N, Ends

\* A piece ends within the text.
LEMMA PieceEnds ==
  ASSUME IsText(text), NEW k \in 0..Len(Flat) - 1
  PROVE  PieceEnd(k) \in k..Len(Flat)
<1> DEFINE N == Len(Flat)
           led == IF Flat[k + 1] = Space /\ k + 1 < N THEN k + 1 ELSE k
           d == Flat[led + 1]
<1>0. N \in Nat
  BY FlatBytes
<1>1. led \in k..N /\ led \in 0..N /\ k \in 0..N
  BY <1>0
<1>2. AtQuote(k) => k + 2 \in k..N
  BY <1>0 DEF AtQuote
<1>3. LongContraction(k) => k + 3 \in k..N
  BY <1>0 DEF LongContraction
<1>4. PieceEnd(k) = IF AtQuote(k) /\ ShortContraction(k) THEN k + 2
                    ELSE IF AtQuote(k) /\ LongContraction(k) THEN k + 3
                    ELSE IF IsLetter(d) THEN RunEnd(led, IsLetter)
                    ELSE IF IsDigit(d) THEN RunEnd(led, IsDigit)
                    ELSE IF IsPunct(d) THEN RunEnd(led, IsPunct)
                    ELSE RunEnd(k, IsSpace)
  BY DEF PieceEnd
<1> HIDE DEF led, d
<1>5. /\ RunEnd(led, IsLetter) \in led..N /\ RunEnd(led, IsDigit) \in led..N
      /\ RunEnd(led, IsPunct) \in led..N /\ RunEnd(k, IsSpace) \in k..N
  BY <1>0, <1>1, RunLetters, RunDigits, RunPuncts, RunSpaces
<1>6. \A e \in led..N : e \in k..N
  BY <1>0, <1>1
<1> HIDE DEF N
<1>7. /\ RunEnd(led, IsLetter) \in k..N /\ RunEnd(led, IsDigit) \in k..N
      /\ RunEnd(led, IsPunct) \in k..N
  BY <1>5, <1>6
<1> QED BY <1>2, <1>3, <1>4, <1>5, <1>7 DEF N

\* The symbols of a piece are strings of code points.
LEMMA PieceSymbols ==
  ASSUME TokInv, CutPiece, tpc' # "panicked"
  PROVE  at' \in 0..Len(Flat) /\ tokens' \in Seq(Seq(Nat))
<1>1. IsText(text) /\ at \in 0..Len(Flat) - 1 /\ Len(Flat) \in Nat /\ Flat \in Seq(0..255)
  BY FlatBytes DEF TokInv, TokTypes, CutPiece
<1>2. PieceEnd(at) \in at..Len(Flat)
  BY <1>1, PieceEnds
<1>3. at' = PieceEnd(at) /\ tokens' = [j \in 1..PieceEnd(at) - at |-> <<ByteEncoder[Flat[at + j]]>>]
  BY DEF CutPiece
<1>4. PICK n \in Nat : n = PieceEnd(at) - at /\ at + n <= Len(Flat)
  BY <1>1, <1>2
<1>5. \A j \in 1..n : <<ByteEncoder[Flat[at + j]]>> \in Seq(Nat)
  <2> TAKE j \in 1..n
  <2>1. at + j \in 1..Len(Flat)
    BY <1>1, <1>4
  <2>2. Flat[at + j] \in 0..255
    BY <1>1, <2>1, ElementOfSeq
  <2>3. ByteEncoder[Flat[at + j]] \in Nat
    BY <2>2, ByteEncoded
  <2> QED BY <2>3
<1>6. tokens' \in [1..n -> Seq(Nat)]
  BY <1>3, <1>4, <1>5
<1>7. tokens' \in Seq(Seq(Nat))
  BY <1>6, SeqDef
<1>8. PieceEnd(at) \in 0..Len(Flat)
  BY <1>1, <1>2
<1> QED BY <1>3, <1>7, <1>8
-----------------------------------------------------------------------------
(* Where the pretokenizer can panic.                                       *)

\* Between two characters one may slice.
LEMMA BoundaryAt ==
  ASSUME IsText(text), NEW n \in 1..Len(text)
  PROVE  Boundary(StartOf(text, n)) /\ Boundary(StartOf(text, n + 1))
<1>1. Len(text) \in Nat
  BY DEF IsText
<1>2. n - 1 \in 0..Len(text) /\ n \in 0..Len(text) /\ n + 1 - 1 = n
  BY <1>1
<1> QED BY <1>2 DEF Boundary, StartOf

\* A byte below 128 is a character of its own.
LEMMA AsciiChar ==
  ASSUME IsText(text), NEW j \in 1..Len(Flat), Flat[j] < 128
  PROVE  \E n \in 1..Len(text) :
           text[n] = <<Flat[j]>> /\ StartOf(text, n) = j - 1 /\ StartOf(text, n + 1) = j
<1>1. text \in Seq(Seq(0..255)) /\ j \in 1..Len(FlattenSeq(text)) /\ Len(text) \in Nat
  BY DEF IsText, Flat
<1>2. PICK n \in 1..Len(text) :
        /\ StartOf(text, n) < j /\ j <= StartOf(text, n + 1)
        /\ j - StartOf(text, n) \in 1..Len(text[n])
        /\ FlattenSeq(text)[j] = text[n][j - StartOf(text, n)]
  BY <1>1, FlattenFrom
<1>3. /\ StartOf(text, n) \in Nat /\ Len(text[n]) \in Nat
      /\ StartOf(text, n + 1) = StartOf(text, n) + Len(text[n])
  BY <1>1, FlattenAt
<1>4. IsChar(text[n])
  <2>1. n \in DOMAIN text
    BY <1>1
  <2> QED BY <2>1 DEF IsText
<1>5. Len(text[n]) = 1
  <2>1. CASE text[n] \in Seq(128..255)
    <3>1. text[n][j - StartOf(text, n)] \in 128..255
      BY <1>2, <2>1, ElementOfSeq
    <3>2. Flat[j] \in 128..255
      BY <1>2, <3>1 DEF Flat
    <3>3. \A x \in 128..255 : ~(x < 128)
      OBVIOUS
    <3> QED BY <3>2, <3>3, Zenon
  <2>2. CASE Len(text[n]) = 1
    BY <2>2
  <2>3. text[n] \in Seq(128..255) \/ Len(text[n]) = 1
    BY <1>4, Zenon DEF IsChar
  <2> QED BY <2>1, <2>2, <2>3
<1>6. j - StartOf(text, n) = 1
  BY <1>2, <1>3, <1>5
<1>7. text[n] = <<Flat[j]>>
  <2>1. text[n] \in Seq(0..255) /\ Flat[j] = text[n][1]
    BY <1>1, <1>2, <1>6, ElementOfSeq DEF Flat
  <2>2. <<Flat[j]>> \in Seq(0..255)
    <3>1. text[n][1] \in 0..255
      <4>1. 1 \in 1..Len(text[n])
        BY <1>5
      <4> QED BY <2>1, <4>1, ElementOfSeq
    <3> QED BY <2>1, <3>1
  <2>3. \A x \in 1..1 : text[n][x] = <<Flat[j]>>[x]
    BY <2>1
  <2> QED BY <1>5, <2>1, <2>2, <2>3, SeqEqual
<1>8. StartOf(text, n) = j - 1 /\ StartOf(text, n + 1) = j
  BY <1>3, <1>5, <1>6
<1> QED BY <1>7, <1>8

\* A positive number is one or more.
LEMMA OneOrMore == (\A L \in Nat \ {0} : L = 1 \/ L > 1) /\ ~(1 > 1) /\ 1 # 0 /\ ~(0 > 1)
OBVIOUS

\* A character that begins before the end of the text is there.
LEMMA NextChar ==
  ASSUME IsText(text), NEW n \in 0..Len(text), StartOf(text, n + 1) < Len(Flat)
  PROVE  n + 1 \in 1..Len(text) /\ StartOf(text, n + 2) = StartOf(text, n + 1) + Len(text[n + 1])
         /\ Len(text[n + 1]) \in Nat \ {0}
<1>1. text \in Seq(Seq(0..255)) /\ Len(text) \in Nat
  BY DEF IsText
<1>2. n # Len(text)
  <2>1. SubSeq(text, 1, Len(text)) = text
    <3>1. SubSeq(text, 1, Len(text)) \in Seq(Seq(0..255)) /\ Len(SubSeq(text, 1, Len(text))) = Len(text)
          /\ \A x \in 1..Len(text) : SubSeq(text, 1, Len(text))[x] = text[x]
      BY <1>1, PrefixFacts
    <3> QED BY <1>1, <3>1, SeqEqual
  <2>2. StartOf(text, Len(text) + 1) = Len(FlattenSeq(SubSeq(text, 1, Len(text) + 1 - 1)))
    BY DEF StartOf
  <2>3. Len(text) + 1 - 1 = Len(text)
    BY <1>1
  <2>4. StartOf(text, Len(text) + 1) = Len(Flat)
    BY <2>1, <2>2, <2>3 DEF Flat
  <2>5. Len(Flat) \in Nat
    BY FlatBytes
  <2> QED BY <2>4, <2>5
<1>3. n + 1 \in 1..Len(text) /\ n + 1 + 1 = n + 2
  BY <1>1, <1>2
<1>4. StartOf(text, n + 1 + 1) = StartOf(text, n + 1) + Len(text[n + 1]) /\ Len(text[n + 1]) \in Nat
  BY <1>1, <1>3, FlattenAt
<1>5. Len(text[n + 1]) # 0
  <2>1. n + 1 \in DOMAIN text
    BY <1>1, <1>3
  <2>2. IsChar(text[n + 1])
    BY <2>1 DEF IsText
  <2>3. \/ Len(text[n + 1]) = 1 \/ Len(text[n + 1]) = 2 \/ Len(text[n + 1]) = 3
        \/ Len(text[n + 1]) = 4
    BY <2>2, Zenon DEF IsChar
  <2>4. \A y : y = 1 \/ y = 2 \/ y = 3 \/ y = 4 => y # 0
    OBVIOUS
  <2> QED BY <2>3, <2>4, Zenon
<1> QED BY <1>3, <1>4, <1>5

\* The text begins and ends between two characters.
LEMMA TextBoundaries ==
  ASSUME IsText(text)
  PROVE  Boundary(0) /\ Boundary(Len(Flat))
<1>1. text \in Seq(Seq(0..255)) /\ Len(text) \in Nat
  BY DEF IsText
<1>2. SubSeq(text, 1, Len(text)) = text
  <2>1. /\ SubSeq(text, 1, Len(text)) \in Seq(Seq(0..255)) /\ Len(SubSeq(text, 1, Len(text))) = Len(text)
        /\ \A x \in 1..Len(text) : SubSeq(text, 1, Len(text))[x] = text[x]
    BY <1>1, PrefixFacts
  <2> QED BY <1>1, <2>1, SeqEqual
<1>3. Len(FlattenSeq(SubSeq(text, 1, 0))) = 0
  <2>1. SubSeq(text, 1, 0) = << >>
    BY <1>1
  <2>2. Len(<< >>) = 0
    OBVIOUS
  <2> QED BY <2>1, <2>2, FlattenEmpty, Zenon
<1>4. 0 \in 0..Len(text) /\ Len(text) \in 0..Len(text)
  BY <1>1
<1> QED BY <1>2, <1>3, <1>4 DEF Boundary, Flat

\* A run of bytes below 128 that begins between two characters ends between two.
LEMMA AsciiRun ==
  ASSUME IsText(text), NEW m \in 0..Len(Flat), Boundary(m), NEW e \in m..Len(Flat),
         \A j \in m..e - 1 : Flat[j + 1] < 128
  PROVE  Boundary(e)
<1>0. Len(Flat) \in Nat
  BY FlatBytes
<1>1. CASE e = m
  BY <1>1
<1>2. CASE e # m
  <2>1. e \in 1..Len(Flat) /\ e - 1 \in m..e - 1 /\ e - 1 + 1 = e
    BY <1>0, <1>2
  <2>2. Flat[e] < 128
    BY <2>1
  <2>3. PICK n \in 1..Len(text) : StartOf(text, n + 1) = e
    BY <2>1, <2>2, AsciiChar
  <2> QED BY <2>3, BoundaryAt
<1> QED BY <1>1, <1>2

\* The bytes of a character above 127 are all letters: a run of letters does
\* not end among them, wherever it begins.
LEMMA LetterRun ==
  ASSUME IsText(text), NEW e \in 0..Len(Flat), e = Len(Flat) \/ ~IsLetter(Flat[e + 1])
  PROVE  Boundary(e)
<1>0. Len(Flat) \in Nat /\ Flat \in Seq(0..255)
  BY FlatBytes
<1>1. CASE e = Len(Flat)
  BY <1>1, TextBoundaries
<1>2. CASE e # Len(Flat)
  <2>1. PICK j \in 1..Len(Flat) : j = e + 1 /\ j - 1 = e
    BY <1>0, <1>2
  <2>2. ~(Flat[j] >= 128)
    BY <1>2, <2>1 DEF IsLetter
  <2>3. Flat[j] < 128
    <3>1. j \in 1..Len(Flat)
      BY <2>1
    <3>2. Flat[j] \in 0..255
      BY <1>0, <3>1, ElementOfSeq
    <3>3. \A c \in 0..255 : ~(c >= 128) => c < 128
      OBVIOUS
    <3> QED BY <2>2, <3>2, <3>3, Zenon
  <2>4. PICK n \in 1..Len(text) : StartOf(text, n) = j - 1
    BY <2>3, AsciiChar
  <2> QED BY <2>1, <2>4, BoundaryAt
<1> QED BY <1>1, <1>2

\* A digit, a space and a punctuation mark are ASCII.
LEMMA AsciiClasses ==
  ASSUME NEW c \in 0..255, IsDigit(c) \/ IsSpace(c) \/ IsPunct(c)
  PROVE  c < 128
BY DEF IsDigit, IsSpace, IsPunct, IsLetter

\* A piece that begins between two characters ends between two, whatever branch
\* finds its end.
LEMMA PieceBoundary ==
  ASSUME IsText(text), NEW k \in 0..Len(Flat) - 1, Boundary(k), ~ContractionPanics(k)
  PROVE  Boundary(PieceEnd(k))
<1> DEFINE N == Len(Flat)
           led == IF Flat[k + 1] = Space /\ k + 1 < N THEN k + 1 ELSE k
           d == Flat[led + 1]
<1>0. N \in Nat /\ Flat \in Seq(0..255)
  BY FlatBytes
<1>1. led \in 0..N /\ k \in 0..N
  BY <1>0
<1>2. Boundary(led)
  <2>1. CASE Flat[k + 1] = Space /\ k + 1 < N
    <3>1. k + 1 \in 0..Len(Flat) /\ k + 1 \in k..Len(Flat) /\ k \in 0..Len(Flat)
      BY <1>0
    <3>2. \A j \in k..k + 1 - 1 : Flat[j + 1] < 128
      BY <1>0, <2>1 DEF Space
    <3>3. Boundary(k + 1)
      BY <3>1, <3>2, AsciiRun
    <3> QED BY <2>1, <3>3
  <2>2. CASE ~(Flat[k + 1] = Space /\ k + 1 < N)
    BY <2>2
  <2> QED BY <2>1, <2>2
<1>3. PieceEnd(k) = IF AtQuote(k) /\ ShortContraction(k) THEN k + 2
                    ELSE IF AtQuote(k) /\ LongContraction(k) THEN k + 3
                    ELSE IF IsLetter(d) THEN RunEnd(led, IsLetter)
                    ELSE IF IsDigit(d) THEN RunEnd(led, IsDigit)
                    ELSE IF IsPunct(d) THEN RunEnd(led, IsPunct)
                    ELSE RunEnd(k, IsSpace)
  BY DEF PieceEnd
<1> HIDE DEF led, d
<1>4. AtQuote(k) /\ ShortContraction(k) => Boundary(k + 2)
  BY DEF ContractionPanics
<1>5. AtQuote(k) /\ ~ShortContraction(k) /\ LongContraction(k) => Boundary(k + 3)
  BY DEF ContractionPanics, LongContraction
<1>6. Boundary(RunEnd(led, IsLetter))
  <2>1. PICK e : e = RunEnd(led, IsLetter)
    OBVIOUS
  <2>2. e \in led..N /\ (e = N \/ ~IsLetter(Flat[e + 1]))
    BY <1>0, <1>1, <2>1, RunLetters
  <2>3. e \in 0..Len(Flat)
    BY <1>0, <1>1, <2>2
  <2> QED BY <2>1, <2>2, <2>3, LetterRun
<1>7. ASSUME NEW m \in 0..N, Boundary(m), NEW e \in m..N,
             \A j \in m..e - 1 : IsDigit(Flat[j + 1]) \/ IsSpace(Flat[j + 1]) \/ IsPunct(Flat[j + 1])
      PROVE  Boundary(e)
  <2>1. ASSUME NEW j \in m..e - 1 PROVE Flat[j + 1] < 128
    <3>1. PICK x \in 1..N : x = j + 1
      BY <1>0
    <3>2. Flat[x] \in 0..255
      BY <1>0, ElementOfSeq
    <3>3. IsDigit(Flat[x]) \/ IsSpace(Flat[x]) \/ IsPunct(Flat[x])
      BY <1>7, <3>1
    <3>4. Flat[x] < 128
      BY <3>2, <3>3, AsciiClasses
    <3> QED BY <3>1, <3>4
  <2> QED BY <1>7, <2>1, AsciiRun
<1>8. Boundary(RunEnd(led, IsDigit))
  BY <1>0, <1>1, <1>2, <1>7, RunDigits
<1>9. Boundary(RunEnd(led, IsPunct))
  BY <1>0, <1>1, <1>2, <1>7, RunPuncts
<1>10. Boundary(RunEnd(k, IsSpace))
  BY <1>0, <1>1, <1>7, RunSpaces
<1> QED BY <1>3, <1>4, <1>5, <1>6, <1>8, <1>9, <1>10

\* A slice that panics is taken at a quote with a longer character behind it.
LEMMA PanicAtQuote ==
  ASSUME IsText(text), NEW k \in 0..Len(Flat) - 1, Boundary(k), SlicePanics(k)
  PROVE  \E q \in DOMAIN text :
           /\ text[q] = <<Quote>> /\ StartOf(text, q) = k
           /\ \E m \in q + 1..q + 2 : m \in DOMAIN text /\ Len(text[m]) > 1
<1>0. Len(Flat) \in Nat /\ Len(text) \in Nat /\ DOMAIN text = 1..Len(text)
  BY FlatBytes DEF IsText
<1>9. ContractionPanics(k)
  BY PieceBoundary DEF SlicePanics
<1>1. Flat[k + 1] = Quote /\ k + 1 < Len(Flat)
  BY <1>9 DEF ContractionPanics, AtQuote
<1>2. PICK n \in 1..Len(text) :
        text[n] = <<Quote>> /\ StartOf(text, n) = k /\ StartOf(text, n + 1) = k + 1
  <2>1. k + 1 \in 1..Len(Flat) /\ Flat[k + 1] < 128
    BY <1>0, <1>1 DEF Quote
  <2>2. PICK j \in 1..Len(Flat) : j = k + 1 /\ j - 1 = k
    BY <1>0, <2>1
  <2> QED BY <1>1, <2>1, <2>2, AsciiChar
<1>3. n + 1 \in 1..Len(text) /\ StartOf(text, n + 2) = k + 1 + Len(text[n + 1])
      /\ Len(text[n + 1]) \in Nat \ {0}
  <2>1. n \in 0..Len(text)
    BY <1>0
  <2> QED BY <1>1, <1>2, <2>1, NextChar
<1>4. CASE Len(text[n + 1]) > 1
  BY <1>0, <1>2, <1>3, <1>4
<1>5. CASE ~(Len(text[n + 1]) > 1)
  <2>9. Len(text[n + 1]) = 1
    BY <1>3, <1>5, OneOrMore, Zenon
  <2>0. Len(text[n + 1]) = 1 /\ k \in Nat
    BY <1>0, <2>9
  <2>1. StartOf(text, n + 2) = k + 2
    BY <1>3, <2>0
  <2>2. Boundary(k + 2)
    <3>1. n + 1 + 1 = n + 2
      OBVIOUS
    <3> QED BY <1>3, <2>1, <3>1, BoundaryAt
  <2>3. k + 3 <= Len(Flat) /\ ~Boundary(k + 3)
    BY <1>9, <2>2 DEF ContractionPanics
  <2>4. n + 2 \in 1..Len(text) /\ StartOf(text, n + 3) = k + 2 + Len(text[n + 2])
        /\ Len(text[n + 2]) \in Nat \ {0}
    <3>1. n + 1 \in 0..Len(text) /\ n + 1 + 1 = n + 2 /\ n + 1 + 2 = n + 3
      BY <1>3
    <3>2. StartOf(text, n + 1 + 1) < Len(Flat)
      BY <1>0, <2>1, <2>3, <3>1
    <3> QED BY <2>1, <3>1, <3>2, NextChar
  <2>5. Len(text[n + 2]) # 1
    <3>1. n + 2 + 1 = n + 3 /\ k + 2 + 1 = k + 3
      OBVIOUS
    <3> QED BY <2>3, <2>4, <3>1, BoundaryAt
  <2>6. Len(text[n + 2]) > 1
    BY <2>4, <2>5, OneOrMore, Zenon
  <2>7. n \in DOMAIN text /\ n + 2 \in n + 1..n + 2 /\ n + 2 \in DOMAIN text
    BY <1>0, <2>4
  <2> QED BY <1>2, <2>6, <2>7
<1> QED BY <1>4, <1>5
-----------------------------------------------------------------------------
(* The tokenizer's steps.                                                  *)

\* What the steps after loading have in common: the vocabulary and the text stay.
LEMMA SameVocabulary ==
  ASSUME VocabularyInUse, UNCHANGED <<model, text, bos>>,
         tpc' = "load" => tpc = "load",
         tpc \in {"load", "refused"} => tpc' \in {"load", "refused"}
  PROVE  VocabularyInUse' /\ Id' = Id /\ Flat' = Flat /\ IsText(text)' = IsText(text)
BY DEF VocabularyInUse, Id, Flat, IsText, VocabularyFiles, IsVocabulary, IsChar

\* A step that leaves the text and the offset alone.
LEMMA StartKept == ASSUME PieceStarts, UNCHANGED <<text, at>> PROVE PieceStarts'
BY DEF PieceStarts, Boundary

\* No step but a slice that panics ends in a panic.
LEMMA NoPanic == tpc # "panicked" => PanicsOnlyAtQuote
BY DEF PanicsOnlyAtQuote

\* The invariant of the tokenizer holds when a text is given to it.
LEMMA TokStarts == TokInit => TokInv
<1> SUFFICES ASSUME TokInit PROVE TokInv
  OBVIOUS
<1>1. IsVocabulary(model) /\ IsText(text) /\ bos \in BOOLEAN
  BY TokenizerAssumption DEF TokInit, TokenizerAssumption
<1>2. VocabularyInUse
  BY <1>1 DEF VocabularyInUse, IsVocabulary, TokInit
<1>3. TokTypes
  <2>1. 0 \in 0..Len(Flat) /\ best \in 0..i - 1 /\ i \in Nat \ {0}
    BY <1>1, FlatBytes DEF TokInit, NoPair
  <2>2. << >> \in Seq(Id) /\ << >> \in Seq(Seq(Nat))
    OBVIOUS
  <2> QED BY <1>1, <2>1, <2>2 DEF TokTypes, TokInit, TokStages
<1>4. PieceStarts
  BY <1>1, TextBoundaries DEF PieceStarts, TokInit
<1> QED BY <1>2, <1>3, <1>4, NoPanic DEF TokInv, ScanState, TokInit

\* A blob is cut to the size it is asked for, which leaves BOS in it, or refused.
LEMMA LoadBlobStep == ASSUME TokInv, LoadBlob PROVE TokInv'
<1>1. IsVocabulary(model) /\ model \in VocabularyFiles /\ TokTypes /\ best = NoPair
  BY DEF TokInv, VocabularyInUse, LoadBlob, ScanState
<1>2. model.vocab \in Seq(Seq(Nat)) /\ model.size \in Nat /\ Len(model.vocab) \in Nat
  BY <1>1 DEF VocabularyFiles
<1>3. tpc' \in {"cut", "refused"} /\ tokens' = << >> /\ out' = << >> /\ best' = NoPair
      /\ text' = text /\ bos' = bos /\ at' = at /\ i' = i
  BY <1>1 DEF LoadBlob, TokTypes
<1>4. /\ model' \in VocabularyFiles
      /\ model'.kind = "llama2c" /\ model'.scores = model.scores
      /\ Bos < Len(model'.vocab) /\ (tpc' = "cut" => Len(model'.vocab) =< Len(model'.scores))
  <2>1. CASE model.size > Len(model.vocab)
    BY <1>1, <2>1 DEF LoadBlob, IsVocabulary
  <2>2. CASE ~(model.size > Len(model.vocab))
    <3> DEFINE v == SubSeq(model.vocab, 1, model.size)
    <3>1. v \in Seq(Seq(Nat)) /\ Len(v) = model.size
      <4>1. model.size \in 0..Len(model.vocab)
        BY <1>2, <2>2
      <4> QED BY <1>2, <4>1, PrefixFacts
    <3>2. model' = [model EXCEPT !.vocab = v]
      BY <2>2 DEF LoadBlob
    <3> HIDE DEF v
    <3>3. /\ model' \in VocabularyFiles /\ model'.vocab = v
          /\ model'.kind = model.kind /\ model'.scores = model.scores
      BY <1>1, <3>1, <3>2 DEF VocabularyFiles
    <3>4. Len(v) =< Len(model.scores) /\ Bos < Len(v)
      BY <1>1, <1>2, <2>2, <3>1 DEF IsVocabulary, LoadBlob
    <3> QED BY <3>3, <3>4 DEF LoadBlob
  <2> QED BY <2>1, <2>2
<1>5. VocabularyInUse'
  BY <1>3, <1>4 DEF VocabularyInUse, VocabularyFiles
<1>6. TokTypes'
  <2>1. Flat' = Flat /\ IsText(text)'
    BY <1>1, <1>3 DEF Flat, TokTypes, IsText, IsChar
  <2>2. << >> \in Seq(Id)' /\ << >> \in Seq(Seq(Nat))
    BY DEF Id
  <2> QED BY <1>1, <1>3, <2>1, <2>2 DEF TokTypes, TokStages
<1> QED BY <1>3, <1>5, <1>6, StartKept, NoPanic DEF TokInv, ScanState, PanicsOnlyAtQuote

\* A file's vocabulary is in use when every token has a score.
LEMMA LoadGgufStep == ASSUME TokInv, LoadGguf PROVE TokInv'
<1>1. IsVocabulary(model) /\ VocabularyInUse /\ TokTypes /\ best = NoPair /\ tpc' \in {"cut", "refused"}
      /\ UNCHANGED <<model, text, bos, at, tokens, i, best, out>>
  BY DEF TokInv, VocabularyInUse, LoadGguf, ScanState
<1>2. VocabularyInUse'
  <2>1. Len(model.scores) \in Nat /\ Len(model.vocab) \in Nat
    BY <1>1 DEF VocabularyInUse, VocabularyFiles
  <2>2. tpc' = "cut" /\ model.kind # "gpt2" => Len(model.vocab) =< Len(model.scores)
    BY <1>1, <2>1 DEF LoadGguf, VocabularyInUse, VocabularyFiles
  <2> QED BY <1>1, <2>2 DEF VocabularyInUse, VocabularyFiles
<1>3. TokTypes'
  <2>1. Flat' = Flat /\ IsText(text)' /\ Id' = Id
    BY <1>1 DEF Flat, TokTypes, IsText, IsChar, Id
  <2> QED BY <1>1, <2>1 DEF TokTypes, TokStages
<1> QED BY <1>1, <1>2, <1>3, StartKept, NoPanic DEF TokInv, ScanState, PanicsOnlyAtQuote

\* The pieces of a text are ids of the vocabulary.
LEMMA CutScoredStep == ASSUME TokInv, CutScored PROVE TokInv'
<1>1. VocabularyInUse /\ TokTypes /\ best = NoPair /\ tpc = "cut" /\ model.kind # "gpt2"
      /\ tpc' = "scan" /\ i' = 1 /\ UNCHANGED <<model, text, bos, at, best, out>>
  BY DEF TokInv, CutScored, ScanState
<1>2. VocabularyInUse' /\ Id' = Id /\ Flat' = Flat /\ IsText(text)' = IsText(text)
  BY <1>1, SameVocabulary
<1>3. TokTypes'
  <2>1. tokens' \in Seq(Id)
    BY CutIsIds
  <2> QED BY <1>1, <1>2, <2>1 DEF TokTypes, TokStages, NoPair
<1>4. BestSoFar'
  BY <1>1 DEF BestSoFar, ScanStart
<1> QED BY <1>1, <1>2, <1>3, <1>4, StartKept, NoPanic DEF TokInv, ScanState, PanicsOnlyAtQuote

\* A piece ends within the text, or its slice panics at a quote.
LEMMA CutPieceStep == ASSUME TokInv, CutPiece PROVE TokInv'
<1>1. VocabularyInUse /\ TokTypes /\ PieceStarts /\ best = NoPair /\ tpc = "cut" /\ model.kind = "gpt2"
      /\ tpc' \in {"panicked", "scan"} /\ UNCHANGED <<model, text, bos, best, out>>
  BY DEF TokInv, CutPiece, ScanState
<1>2. VocabularyInUse' /\ Id' = Id /\ Flat' = Flat /\ IsText(text)' = IsText(text)
  BY <1>1, SameVocabulary
<1>3. CASE tpc' = "panicked"
  <2>1. UNCHANGED <<at, tokens, i>> /\ SlicePanics(at)
    BY <1>3 DEF CutPiece
  <2>2. TokTypes'
    BY <1>1, <1>2, <1>3, <2>1 DEF TokTypes, TokStages
  <2>3. at \in 0..Len(Flat) - 1 /\ IsText(text)
    BY <1>1, FlatBytes DEF TokTypes, CutPiece
  <2>4. PanicsOnlyAtQuote'
    BY <1>1, <2>1, <2>3, PanicAtQuote DEF PanicsOnlyAtQuote, PieceStarts, StartOf
  <2>5. PieceStarts'
    BY <1>1, <2>1, StartKept
  <2> QED BY <1>1, <1>2, <1>3, <2>2, <2>4, <2>5 DEF TokInv, ScanState
<1>4. CASE tpc' = "scan"
  <2>1. at' \in 0..Len(Flat) /\ tokens' \in Seq(Seq(Nat)) /\ i' = 1
    BY <1>4, PieceSymbols DEF CutPiece
  <2>2. TokTypes'
    BY <1>1, <1>2, <1>4, <2>1 DEF TokTypes, TokStages, NoPair
  <2>3. BestSoFar'
    BY <1>1, <2>1 DEF BestSoFar, ScanStart
  <2>4. PieceStarts'
    <3>1. Boundary(PieceEnd(at)) /\ at' = PieceEnd(at)
      BY <1>4 DEF CutPiece, SlicePanics
    <3>2. PICK e : e = PieceEnd(at)
      OBVIOUS
    <3>3. Boundary(e) /\ at' = e /\ text' = text
      BY <1>1, <3>1, <3>2
    <3> QED BY <3>3 DEF PieceStarts, Boundary
  <2> QED BY <1>1, <1>2, <1>4, <2>1, <2>2, <2>3, <2>4, NoPanic DEF TokInv, ScanState, PanicsOnlyAtQuote
<1> QED BY <1>1, <1>3, <1>4

\* Nothing changes when the text has been cut.
LEMMA EndTextStep == ASSUME TokInv, EndText PROVE TokInv'
<1>1. VocabularyInUse /\ TokTypes /\ best = NoPair /\ tpc = "cut" /\ tpc' = "done"
      /\ UNCHANGED <<model, text, bos, at, tokens, i, best, out>>
  BY DEF TokInv, EndText, ScanState
<1>2. VocabularyInUse' /\ Id' = Id /\ Flat' = Flat /\ IsText(text)' = IsText(text)
  BY <1>1, SameVocabulary
<1>3. TokTypes'
  BY <1>1, <1>2 DEF TokTypes, TokStages
<1> QED BY <1>1, <1>2, <1>3, StartKept, NoPanic DEF TokInv, ScanState, PanicsOnlyAtQuote

\* The scan keeps the best of the pairs it has met, the leftmost of equals.
LEMMA ScanPairStep == ASSUME TokInv, ScanPair PROVE TokInv'
<1>1. VocabularyInUse /\ TokTypes /\ BestSoFar /\ tpc = "scan" /\ tpc' = "scan" /\ i < Len(tokens)
      /\ i' = i + 1 /\ UNCHANGED <<model, text, bos, tpc, at, tokens, out>>
  BY DEF TokInv, ScanPair, ScanState
<1>2. VocabularyInUse' /\ Id' = Id /\ Flat' = Flat /\ IsText(text)' = IsText(text)
  BY <1>1, SameVocabulary
<1>3. i \in Nat \ {0} /\ best \in 0..i - 1 /\ Len(tokens) \in Nat /\ NoPair = 0
  BY <1>1 DEF TokTypes, NoPair
<1>4. best' = IF i >= ScanStart /\ CanMerge(i) /\ Beats(i, best) THEN i ELSE best
  BY DEF ScanPair
<1>5. ScanStart \in 1..2 /\ ScanStart' = ScanStart
  BY <1>1 DEF ScanStart
<1>6. TokTypes'
  <2>1. i' \in Nat \ {0} /\ best' \in 0..i' - 1
    BY <1>1, <1>3, <1>4
  <2> QED BY <1>1, <1>2, <2>1 DEF TokTypes
<1> DEFINE met == {k \in ScanStart..i - 1 : CanMerge(k)}
           next == {k \in ScanStart..i : CanMerge(k)}
<1>7. met = {k \in next : k # i} /\ (i \in next <=> i >= ScanStart /\ CanMerge(i))
      /\ \A k \in next : k \in Nat /\ CanMerge(k) /\ k =< i
  BY <1>3, <1>5
<1>8. BestSoFar' <=> IF best' = NoPair THEN next = {}
                     ELSE /\ best' \in next
                          /\ \A k \in next : ~Before(k, best') /\ (k < best' => Before(best', k))
  <2>1. \A k : CanMerge(k)' = CanMerge(k) /\ Rank(k)' = Rank(k) /\ Score(k)' = Score(k)
    BY <1>1, PairsKept
  <2>2. \A k, l : Before(k, l)' = Before(k, l)
    BY <1>1, <2>1 DEF Before
  <2> DEFINE met1 == {k \in ScanStart..i' - 1 : CanMerge(k)'}
  <2>3. met1 = next
    BY <1>1, <1>3, <2>1
  <2>4. PICK b : b = best'
    OBVIOUS
  <2>5. \A k : Before(k, best)' = Before(k, b)' /\ Before(best, k)' = Before(b, k)'
    BY <2>4 DEF Before, Rank, Ranks, Pair, Score, Joined, IdOf, Bytes
  <2>6. BestSoFar' <=> IF b = NoPair THEN met1 = {}
                       ELSE /\ b \in met1
                            /\ \A k \in met1 : ~Before(k, best)' /\ (k < b => Before(best, k)')
    BY <1>5, <2>4 DEF BestSoFar
  <2> QED BY <2>2, <2>3, <2>4, <2>5, <2>6, Zenon
<1>9. IF best = NoPair THEN met = {}
      ELSE best \in met /\ \A k \in met : ~Before(k, best) /\ (k < best => Before(best, k))
  BY <1>1 DEF BestSoFar
<1>10. Beats(i, best) <=> best = NoPair \/ Before(i, best)
  BY DEF Beats, Before
<1> HIDE DEF met, next
<1>11. \A k, l, m \in next : /\ ~Before(k, k)
                             /\ Before(k, l) => ~Before(l, k)
                             /\ Before(k, l) /\ ~Before(m, l) => Before(k, m)
  BY <1>1, <1>7, BeforeIsAnOrder
<1>12. BestSoFar'
  <2>1. CASE i \in next /\ Beats(i, best)
    <3>1. best' = i /\ i # NoPair
      BY <1>3, <1>4, <1>7, <2>1
    <3>2. CASE best = NoPair
      <4>1. \A k \in next : k = i
        BY <1>7, <1>9, <3>2
      <4>2. ~(i < i)
        BY <1>3
      <4> QED BY <1>8, <1>11, <2>1, <3>1, <4>1, <4>2
    <3>3. CASE best # NoPair
      <4>1. best \in next /\ Before(i, best)
        BY <1>7, <1>9, <1>10, <2>1, <3>3
      <4>2. ASSUME NEW k \in next, k # i PROVE Before(i, k) /\ ~Before(k, i)
        <5>1. ~Before(k, best)
          BY <1>7, <1>9, <3>3, <4>2
        <5> QED BY <1>11, <2>1, <4>1, <4>2, <5>1
      <4>3. ~Before(i, i) /\ ~(i < i)
        BY <1>3, <1>11, <2>1
      <4>4. \A k \in next : ~Before(k, i) /\ (k < i => Before(i, k))
        BY <4>2, <4>3
      <4> QED BY <1>8, <2>1, <3>1, <4>4
    <3> QED BY <3>2, <3>3
  <2>2. CASE i \in next /\ ~Beats(i, best)
    <3>1. best' = best /\ best # NoPair /\ ~Before(i, best)
      BY <1>4, <1>7, <1>10, <2>2
    <3>2. ~(i < best) /\ best \in next
      BY <1>3, <1>7, <1>9, <3>1
    <3>3. \A k \in next : ~Before(k, best) /\ (k < best => Before(best, k))
      BY <1>7, <1>9, <3>1, <3>2
    <3> QED BY <1>8, <3>1, <3>2, <3>3
  <2>3. CASE i \notin next
    <3>1. best' = best /\ met = next
      BY <1>4, <1>7, <2>3
    <3> QED BY <1>8, <1>9, <3>1, Zenon
  <2> QED BY <2>1, <2>2, <2>3, Zenon
<1>13. i' = 1 \/ i' =< Len(tokens')
  BY <1>1, <1>3
<1> QED BY <1>1, <1>2, <1>6, <1>12, <1>13, StartKept, NoPanic DEF TokInv, ScanState, PanicsOnlyAtQuote

\* The token a merge puts for two is in the vocabulary, and the scan starts again.
LEMMA MergeStep == ASSUME TokInv, Merge PROVE TokInv'
<1>1. VocabularyInUse /\ TokTypes /\ BestSoFar /\ tpc = "scan" /\ best # NoPair
      /\ (i = 1 \/ i =< Len(tokens)) /\ i' = 1 /\ best' = NoPair /\ tokens' = MergedAt(best)
      /\ UNCHANGED <<model, text, bos, tpc, at, out>>
  BY DEF TokInv, Merge, ScanEnded, ScanState
<1>2. VocabularyInUse' /\ Id' = Id /\ Flat' = Flat /\ IsText(text)' = IsText(text)
  BY <1>1, SameVocabulary
<1>3. CanMerge(best) /\ best \in 1..i - 1 /\ i \in Nat \ {0}
  BY <1>1 DEF BestSoFar, TokTypes, NoPair
<1> DEFINE V == IF model.kind = "gpt2" THEN Seq(Nat) ELSE Id
           joined == IF model.kind = "gpt2" THEN tokens[best] \o tokens[best + 1]
                     ELSE IdOf(Joined(best))
<1>4. tokens \in Seq(V) /\ Len(tokens) \in Nat
  BY <1>1 DEF TokTypes
<1>5. best \in 1..Len(tokens) /\ best + 1 \in 1..Len(tokens)
  BY <1>1, <1>3, <1>4
<1>6. joined \in V
  <2>1. CASE model.kind = "gpt2"
    <3>1. tokens[best] \in Seq(Nat) /\ tokens[best + 1] \in Seq(Nat)
      BY <1>4, <1>5, <2>1, ElementOfSeq
    <3> QED BY <2>1, <3>1, ConcatProperties
  <2>2. CASE model.kind # "gpt2"
    <3>1. Known(Joined(best))
      BY <1>3, <2>2 DEF CanMerge
    <3>2. model.vocab \in Seq(Seq(Nat))
      BY <1>1 DEF VocabularyInUse, VocabularyFiles
    <3> QED BY <2>2, <3>1, <3>2, IdOfKnown
  <2> QED BY <2>1, <2>2
<1>7. tokens' = [j \in 1..Len(tokens) - 1 |->
                   IF j < best THEN tokens[j] ELSE IF j > best THEN tokens[j + 1] ELSE joined]
  BY <1>1 DEF MergedAt
<1> HIDE DEF V, joined
<1>8. \A j \in 1..Len(tokens) - 1 :
        (IF j < best THEN tokens[j] ELSE IF j > best THEN tokens[j + 1] ELSE joined) \in V
  <2> TAKE j \in 1..Len(tokens) - 1
  <2>1. j \in 1..Len(tokens) /\ j + 1 \in 1..Len(tokens)
    BY <1>4
  <2>2. tokens[j] \in V /\ tokens[j + 1] \in V
    BY <1>4, <2>1, ElementOfSeq
  <2> QED BY <1>6, <2>2
<1>9. PICK n \in Nat : n = Len(tokens) - 1
  BY <1>4, <1>5
<1>10. tokens' \in [1..n -> V]
  BY <1>7, <1>8, <1>9
<1>11. tokens' \in Seq(V)
  BY <1>9, <1>10, SeqDef
<1>12. TokTypes'
  <2>1. tokens' \in (IF model'.kind = "gpt2" THEN Seq(Seq(Nat)) ELSE Seq(Id)')
    BY <1>1, <1>2, <1>11 DEF V
  <2> QED BY <1>1, <1>2, <2>1 DEF TokTypes, NoPair
<1>13. BestSoFar'
  BY <1>1 DEF BestSoFar, ScanStart
<1> QED BY <1>1, <1>2, <1>12, <1>13, StartKept, NoPanic DEF TokInv, ScanState, PanicsOnlyAtQuote

\* What cannot be merged further is looked up, and a symbol with no id is dropped.
LEMMA EndMergeStep == ASSUME TokInv, EndMerge PROVE TokInv'
<1>1. VocabularyInUse /\ TokTypes /\ tpc = "scan" /\ best = NoPair /\ tpc' \in {"cut", "done"}
      /\ UNCHANGED <<model, text, bos, at, i, best>>
  BY DEF TokInv, EndMerge, ScanEnded, ScanState
<1>2. VocabularyInUse' /\ Id' = Id /\ Flat' = Flat /\ IsText(text)' = IsText(text)
  BY <1>1, SameVocabulary
<1>3. CASE model.kind = "gpt2"
  <2> DEFINE f == [j \in DOMAIN tokens |-> IF Known(tokens[j]) THEN <<IdOf(tokens[j])>> ELSE << >>]
  <2>1. tokens' = << >> /\ out' = out \o FlattenSeq(f)
    BY <1>3 DEF EndMerge
  <2>2. f \in [DOMAIN tokens -> Seq(Id)]
    <3>1. model.vocab \in Seq(Seq(Nat))
      BY <1>1 DEF VocabularyInUse, VocabularyFiles
    <3>2. \A j \in DOMAIN tokens : Known(tokens[j]) => IdOf(tokens[j]) \in Id
      BY <3>1, IdOfKnown
    <3> QED BY <3>2
  <2>3. tokens \in Seq(Seq(Nat)) /\ out \in Seq(Id)
    BY <1>1, <1>3 DEF TokTypes
  <2> HIDE DEF f
  <2>4. FlattenSeq(f) \in Seq(Id)
    <3>1. f \in Seq(Seq(Id))
      BY <2>2, <2>3, MapSeq
    <3> QED BY <3>1, FlattenType
  <2>5. out' \in Seq(Id) /\ tokens' \in Seq(Seq(Nat))
    BY <2>1, <2>3, <2>4, ConcatProperties
  <2>6. TokTypes'
    BY <1>1, <1>2, <1>3, <2>5 DEF TokTypes, TokStages
  <2> QED BY <1>1, <1>2, <2>6, StartKept, NoPanic DEF TokInv, ScanState, PanicsOnlyAtQuote
<1>4. CASE model.kind # "gpt2"
  <2>1. tokens' = tokens /\ out' = tokens
    BY <1>4 DEF EndMerge
  <2>2. TokTypes'
    BY <1>1, <1>2, <1>4, <2>1 DEF TokTypes, TokStages
  <2> QED BY <1>1, <1>2, <2>2, StartKept, NoPanic DEF TokInv, ScanState, PanicsOnlyAtQuote
<1> QED BY <1>3, <1>4

\* What a scan has met depends on the tokens, the vocabulary and the scan alone.
LEMMA BestKept ==
  ASSUME UNCHANGED <<model, bos, tokens, i, best>>
  PROVE  BestSoFar' = BestSoFar
<1>1. \A k : CanMerge(k)' = CanMerge(k)
  BY PairsKept
<1>2. \A k : Before(k, best)' = Before(k, best) /\ Before(best, k)' = Before(best, k)
  <2>1. PICK b : b = best /\ b = best'
    OBVIOUS
  <2>2. \A k, l : Before(k, l)' = Before(k, l)
    BY PairsKept DEF Before
  <2>3. \A k : Before(k, best)' = Before(k, b)' /\ Before(best, k)' = Before(b, k)'
    BY <2>1 DEF Before, Rank, Ranks, Pair, Score, Joined, IdOf, Bytes
  <2> QED BY <2>1, <2>2, <2>3
<1>3. ScanStart' = ScanStart
  BY DEF ScanStart
<1> QED BY <1>1, <1>2, <1>3 DEF BestSoFar

\* The other parts of a session leave the tokenizer alone.
LEMMA TokKept == ASSUME TokInv, UNCHANGED tvars PROVE TokInv'
<1>1. /\ VocabularyInUse /\ TokTypes /\ ScanState /\ PieceStarts /\ PanicsOnlyAtQuote
      /\ UNCHANGED <<model, text, bos, tpc, at, tokens, i, best, out>>
  BY DEF TokInv, tvars
<1>2. VocabularyInUse' /\ Id' = Id /\ Flat' = Flat /\ IsText(text)' = IsText(text)
  BY <1>1, SameVocabulary
<1>3. TokTypes'
  BY <1>1, <1>2 DEF TokTypes
<1>4. ScanState'
  BY <1>1, BestKept DEF ScanState
<1>5. PanicsOnlyAtQuote'
  BY <1>1 DEF PanicsOnlyAtQuote
<1>6. PieceStarts'
  BY <1>1, StartKept
<1> QED BY <1>2, <1>3, <1>4, <1>5, <1>6 DEF TokInv

\* Every step of the tokenizer keeps the invariant.
LEMMA TokStep == TokInv /\ TokNext => TokInv'
BY LoadBlobStep, LoadGgufStep, CutScoredStep, CutPieceStep, EndTextStep, ScanPairStep, MergeStep,
   EndMergeStep DEF TokNext
-----------------------------------------------------------------------------
(* Flattened sequences.                                                    *)

\* What holds of 0, and of n + 1 when of n, holds of N.
LEMMA Reaches ==
  ASSUME NEW N \in Nat, NEW T, 0 \in T, \A n \in 0..N - 1 : n \in T => n + 1 \in T
  PROVE  N \in T
<1> DEFINE R == {n \in Nat : n <= N /\ n \notin T}
<1>1. CASE R = {}
  BY <1>1
<1>2. CASE R # {}
  <2>1. PICK m \in R : \A k \in R : m <= k
    BY <1>2, LeastElement
  <2>2. m - 1 \in 0..N - 1 /\ m - 1 \in Nat /\ m - 1 <= N /\ ~(m <= m - 1) /\ m - 1 + 1 = m
    BY <2>1
  <2>3. m - 1 \in T
    BY <2>1, <2>2
  <2> QED BY <2>1, <2>2, <2>3
<1> QED BY <1>1, <1>2

\* The prefix of full length is the sequence.
LEMMA WholePrefix ==
  ASSUME NEW S, NEW s \in Seq(S)
  PROVE  SubSeq(s, 1, Len(s)) = s /\ SubSeq(s, 1, 0) = << >>
<1>1. SubSeq(s, 1, Len(s)) \in Seq(S) /\ Len(SubSeq(s, 1, Len(s))) = Len(s)
      /\ \A x \in 1..Len(s) : SubSeq(s, 1, Len(s))[x] = s[x]
  BY PrefixFacts
<1>2. SubSeq(s, 1, 0) \in Seq(S) /\ Len(SubSeq(s, 1, 0)) = 0
  BY PrefixFacts
<1> QED BY <1>1, <1>2, SeqEqual, EmptySeq

\* A sequence of one.
LEMMA OneIs ==
  ASSUME NEW S, NEW x \in S
  PROVE  <<x>> \in Seq(S) /\ Len(<<x>>) = 1 /\ <<x>>[1] = x
OBVIOUS

\* A sequence of one flattens to it ...
LEMMA FlattenOne ==
  ASSUME NEW S, NEW x \in Seq(S)
  PROVE  FlattenSeq(<<x>>) = x
<1>1. << >> \in Seq(Seq(S)) /\ Append(<< >>, x) = <<x>>
  OBVIOUS
<1>2. FlattenSeq(Append(<< >>, x)) = FlattenSeq(<< >>) \o x
  BY <1>1, FlattenAppend
<1>3. << >> \o x = x
  BY ConcatEmptySeq
<1> QED BY <1>1, <1>2, <1>3, FlattenEmpty

\* ... and the first of several comes first.
LEMMA FlattenFirst ==
  ASSUME NEW S, NEW x \in Seq(S), NEW s \in Seq(Seq(S))
  PROVE  FlattenSeq(<<x>> \o s) = x \o FlattenSeq(s)
<1>0. << >> \in Seq(Seq(S)) /\ Append(<< >>, x) = <<x>>
  OBVIOUS
<1>1. PICK o \in Seq(Seq(S)) : o = <<x>>
  BY <1>0, AppendProperties
<1>2. FlattenSeq(o \o s) = FlattenSeq(o) \o FlattenSeq(s)
  BY FlattenConcat
<1>3. FlattenSeq(<<x>>) = x
  BY FlattenOne
<1> QED BY <1>1, <1>2, <1>3

\* Each element put in a sequence of its own.
Singles(s) == [k \in DOMAIN s |-> <<s[k]>>]

\* Singles flatten to the sequence.
LEMMA FlattenSingles ==
  ASSUME NEW S, NEW s \in Seq(S)
  PROVE  Singles(s) \in Seq(Seq(S)) /\ FlattenSeq(Singles(s)) = s
<1> DEFINE N == Len(s)
           d == Singles(s)
           T == {n \in 0..N : FlattenSeq(SubSeq(d, 1, n)) = SubSeq(s, 1, n)}
<1>0. N \in Nat /\ DOMAIN s = 1..N
  OBVIOUS
<1>1. d \in Seq(Seq(S)) /\ Len(d) = N /\ \A k \in 1..N : d[k] = <<s[k]>>
  <2>1. \A k \in DOMAIN s : s[k] \in S
    BY <1>0, ElementOfSeq
  <2>2. d \in [DOMAIN s -> Seq(S)]
    BY <2>1 DEF Singles
  <2>3. \A k \in 1..N : d[k] = <<s[k]>>
    BY <1>0 DEF Singles
  <2> HIDE DEF d
  <2> QED BY <2>2, <2>3, MapSeq
<1> HIDE DEF d, N
<1>2. 0 \in T
  <2>1. SubSeq(d, 1, 0) = << >> /\ SubSeq(s, 1, 0) = << >>
    BY <1>1, WholePrefix
  <2>2. FlattenSeq(SubSeq(d, 1, 0)) = SubSeq(s, 1, 0)
    BY <2>1, FlattenEmpty, Zenon
  <2> QED BY <1>0, <2>2
<1>3. ASSUME NEW n \in 0..N - 1, n \in T PROVE n + 1 \in T
  <2> DEFINE p == SubSeq(d, 1, n)
             q == SubSeq(s, 1, n)
             e == s[n + 1]
  <2>0. n \in 0..N /\ n + 1 \in 0..N /\ n + 1 \in 1..N
    BY <1>0
  <2>1. p \in Seq(Seq(S)) /\ q \in Seq(S) /\ e \in S
    BY <1>1, <2>0, PrefixFacts, ElementOfSeq DEF N
  <2>2. Append(p, <<e>>) = SubSeq(d, 1, n + 1)
    <3>1. n \in 0..Len(d) - 1 /\ d[n + 1] = <<e>>
      BY <1>1, <2>0
    <3> QED BY <1>1, <3>1, PrefixExtended
  <2>3. Append(q, e) = SubSeq(s, 1, n + 1)
    <3>1. n \in 0..Len(s) - 1
      BY DEF N
    <3> QED BY <3>1, PrefixExtended
  <2>4. FlattenSeq(p) = q
    BY <1>3
  <2> HIDE DEF p, q, e
  <2>5. FlattenSeq(Append(p, <<e>>)) = FlattenSeq(p) \o <<e>>
    <3>1. <<e>> \in Seq(S)
      BY <2>1
    <3> QED BY <2>1, <3>1, FlattenAppend
  <2>6. q \o <<e>> = Append(q, e)
    BY <2>1, AppendIsConcat
  <2> QED BY <2>0, <2>2, <2>3, <2>4, <2>5, <2>6
<1>4. N \in T
  <2> HIDE DEF T
  <2> QED BY <1>0, <1>2, <1>3, Reaches
<1>5. SubSeq(d, 1, N) = d /\ SubSeq(s, 1, N) = s
  BY <1>1, WholePrefix DEF N
<1> QED BY <1>1, <1>4, <1>5 DEF d

\* A function applied to every element.
Mapped(F, s) == [k \in DOMAIN s |-> F[s[k]]]

\* The result is as long, and each element that of the element at its place.
MapsTo(F, R, s, u) ==
  u \in Seq(R) /\ Len(u) = Len(s) /\ \A k \in 1..Len(s) : u[k] = F[s[k]]

\* Mapping does that.
LEMMA MappedIs ==
  ASSUME NEW A, NEW R, NEW F \in [A -> R], NEW s \in Seq(A)
  PROVE  MapsTo(F, R, s, Mapped(F, s))
<1>0. Len(s) \in Nat /\ DOMAIN s = 1..Len(s)
  OBVIOUS
<1>1. \A k \in DOMAIN s : s[k] \in A
  BY <1>0, ElementOfSeq
<1>2. Mapped(F, s) \in [DOMAIN s -> R]
  BY <1>1 DEF Mapped
<1>3. \A k \in 1..Len(s) : Mapped(F, s)[k] = F[s[k]]
  BY <1>0 DEF Mapped
<1>4. Mapped(F, s) \in Seq(R) /\ Len(Mapped(F, s)) = Len(s)
  BY <1>2, MapSeq
<1> QED BY <1>3, <1>4 DEF MapsTo

\* It is applied to both parts of a concatenation.
MapsParts(F, s, t) == Mapped(F, s \o t) = Mapped(F, s) \o Mapped(F, t)

\* A concatenation is mapped part by part.
LEMMA MappedConcat ==
  ASSUME NEW A, NEW R, NEW F \in [A -> R], NEW s \in Seq(A), NEW t \in Seq(A)
  PROVE  MapsParts(F, s, t)
<1>0. Len(s) \in Nat /\ Len(t) \in Nat
  OBVIOUS
<1> DEFINE c == s \o t
           u == Mapped(F, s)
           v == Mapped(F, t)
           w == Mapped(F, c)
           z == u \o v
<1>1. c \in Seq(A) /\ Len(c) = Len(s) + Len(t)
      /\ \A k \in 1..Len(s) + Len(t) : c[k] = IF k <= Len(s) THEN s[k] ELSE t[k - Len(s)]
  BY ConcatProperties
<1> HIDE DEF c
<1>2. u \in Seq(R) /\ Len(u) = Len(s) /\ \A k \in 1..Len(s) : u[k] = F[s[k]]
  <2>1. MapsTo(F, R, s, u)
    BY MappedIs
  <2> QED BY <2>1 DEF MapsTo
<1>3. v \in Seq(R) /\ Len(v) = Len(t) /\ \A k \in 1..Len(t) : v[k] = F[t[k]]
  <2>1. MapsTo(F, R, t, v)
    BY MappedIs
  <2> QED BY <2>1 DEF MapsTo
<1>4. w \in Seq(R) /\ Len(w) = Len(c) /\ \A k \in 1..Len(c) : w[k] = F[c[k]]
  <2>1. MapsTo(F, R, c, w)
    BY <1>1, MappedIs
  <2> QED BY <2>1 DEF MapsTo
<1> HIDE DEF u, v, w
<1>5. z \in Seq(R) /\ Len(z) = Len(s) + Len(t)
      /\ \A k \in 1..Len(s) + Len(t) : z[k] = IF k <= Len(s) THEN u[k] ELSE v[k - Len(s)]
  <2>1. /\ u \o v \in Seq(R) /\ Len(u \o v) = Len(u) + Len(v)
        /\ \A k \in 1..Len(u) + Len(v) : (u \o v)[k] = IF k <= Len(u) THEN u[k] ELSE v[k - Len(u)]
    BY <1>2, <1>3, ConcatProperties
  <2> HIDE DEF z
  <2>2. z = u \o v
    BY DEF z
  <2> QED BY <1>2, <1>3, <2>1, <2>2
<1> HIDE DEF z
<1>6. ASSUME NEW k \in 1..Len(w) PROVE w[k] = z[k]
  <2>0. k \in 1..Len(s) + Len(t) /\ k \in 1..Len(c)
    BY <1>1, <1>4
  <2>1. CASE k <= Len(s)
    <3>1. k \in 1..Len(s)
      BY <1>0, <2>0, <2>1
    <3> QED BY <1>1, <1>2, <1>4, <1>5, <2>0, <2>1, <3>1, SMTT(20)
  <2>2. CASE ~(k <= Len(s))
    <3>1. k - Len(s) \in 1..Len(t)
      BY <1>0, <2>0, <2>2
    <3> QED BY <1>1, <1>3, <1>4, <1>5, <2>0, <2>2, <3>1
  <2> QED BY <2>1, <2>2
<1>7. w = z
  BY <1>1, <1>4, <1>5, <1>6, SeqEqual
<1> QED BY <1>7 DEF w, z, u, v, c, MapsParts

\* What several sequences of elements map to is what each of them maps to, in turn.
LEMMA FlattenNested ==
  ASSUME NEW A, NEW R, NEW F \in [A -> Seq(R)], NEW f \in Seq(Seq(A)), NEW g \in Seq(Seq(R)),
         Len(f) = Len(g), \A k \in 1..Len(f) : FlattenSeq(Mapped(F, f[k])) = g[k]
  PROVE  FlattenSeq(Mapped(F, FlattenSeq(f))) = FlattenSeq(g)
<1> DEFINE N == Len(f)
           T == {n \in 0..N : FlattenSeq(Mapped(F, FlattenSeq(SubSeq(f, 1, n)))) = FlattenSeq(SubSeq(g, 1, n))}
<1>0. N \in Nat /\ Len(g) = N
  OBVIOUS
<1>1. 0 \in T
  <2>1. SubSeq(f, 1, 0) = << >> /\ SubSeq(g, 1, 0) = << >>
    BY WholePrefix
  <2>2. Mapped(F, << >>) = << >>
    BY DEF Mapped
  <2>3. FlattenSeq(Mapped(F, FlattenSeq(SubSeq(f, 1, 0)))) = FlattenSeq(SubSeq(g, 1, 0))
    BY <2>1, <2>2, FlattenEmpty, Zenon
  <2> QED BY <1>0, <2>3
<1>2. ASSUME NEW n \in 0..N - 1, n \in T PROVE n + 1 \in T
  <2> DEFINE p == SubSeq(f, 1, n)
             q == SubSeq(g, 1, n)
             P == FlattenSeq(p)
  <2>0. n \in 0..N /\ n + 1 \in 0..N /\ n + 1 \in 1..N /\ n \in 0..Len(g) - 1 /\ n \in 0..Len(f) - 1
    BY <1>0
  <2>1. p \in Seq(Seq(A)) /\ q \in Seq(Seq(R))
    BY <1>0, <2>0, PrefixFacts
  <2>2. f[n + 1] \in Seq(A) /\ g[n + 1] \in Seq(R)
    BY <1>0, <2>0, ElementOfSeq
  <2>3. Append(p, f[n + 1]) = SubSeq(f, 1, n + 1)
    BY <2>0, PrefixExtended
  <2>4. Append(q, g[n + 1]) = SubSeq(g, 1, n + 1)
    BY <2>0, PrefixExtended
  <2>5. FlattenSeq(Mapped(F, P)) = FlattenSeq(q)
    BY <1>2
  <2>6. P \in Seq(A)
    BY <2>1, FlattenType
  <2>7. FlattenSeq(Append(p, f[n + 1])) = P \o f[n + 1]
    BY <2>1, <2>2, FlattenAppend
  <2>8. FlattenSeq(Append(q, g[n + 1])) = FlattenSeq(q) \o g[n + 1]
    BY <2>1, <2>2, FlattenAppend
  <2> HIDE DEF p, q, P
  <2>9. Mapped(F, P \o f[n + 1]) = Mapped(F, P) \o Mapped(F, f[n + 1])
    <3>1. MapsParts(F, P, f[n + 1])
      BY <2>2, <2>6, MappedConcat
    <3> QED BY <3>1, Zenon DEF MapsParts
  <2>10. Mapped(F, P) \in Seq(Seq(R)) /\ Mapped(F, f[n + 1]) \in Seq(Seq(R))
    <3>1. MapsTo(F, Seq(R), P, Mapped(F, P)) /\ MapsTo(F, Seq(R), f[n + 1], Mapped(F, f[n + 1]))
      BY <2>2, <2>6, MappedIs
    <3> QED BY <3>1 DEF MapsTo
  <2>11. FlattenSeq(Mapped(F, P) \o Mapped(F, f[n + 1])) = FlattenSeq(Mapped(F, P)) \o FlattenSeq(Mapped(F, f[n + 1]))
    BY <2>10, FlattenConcat
  <2>12. FlattenSeq(Mapped(F, f[n + 1])) = g[n + 1]
    BY <2>0
  <2> QED BY <2>0, <2>3, <2>4, <2>5, <2>7, <2>8, <2>9, <2>11, <2>12
<1>3. N \in T
  <2> HIDE DEF T, N
  <2> QED BY <1>0, <1>1, <1>2, Reaches
<1>4. SubSeq(f, 1, N) = f /\ SubSeq(g, 1, N) = g
  BY <1>0, WholePrefix
<1> QED BY <1>3, <1>4

\* A sequence whose elements k and k + 1 are joined flattens to the same.
JoinedAt(s, t, k) ==
  /\ Len(t) = Len(s) - 1
  /\ \A j \in 1..Len(t) : t[j] = IF j < k THEN s[j] ELSE IF j > k THEN s[j + 1] ELSE s[k] \o s[k + 1]

\* Joining two adjacent sequences does not change what all flatten to.
LEMMA FlattenJoined ==
  ASSUME NEW S, NEW s \in Seq(Seq(S)), NEW t \in Seq(Seq(S)), NEW k \in 1..Len(s) - 1, JoinedAt(s, t, k)
  PROVE  FlattenSeq(t) = FlattenSeq(s)
<1> DEFINE N == Len(s)
           p == SubSeq(s, 1, k - 1)
           p1 == SubSeq(s, 1, k)
           p2 == SubSeq(s, 1, k + 1)
           r == SubSeq(s, k + 2, N)
           o == SubSeq(t, 1, k - 1)
           o1 == SubSeq(t, 1, k)
           v == SubSeq(t, k + 1, N - 1)
           a == s[k]
           b == s[k + 1]
<1>0. /\ N \in Nat /\ Len(t) = N - 1 /\ k \in Nat
      /\ k - 1 \in 0..N /\ k - 1 \in 0..N - 1 /\ k \in 0..N /\ k \in 0..N - 1 /\ k + 1 \in 0..N
      /\ k \in 1..N /\ k + 1 \in 1..N /\ k - 1 + 1 = k /\ k + 1 + 1 = k + 2
      /\ k - 1 \in 0..(N - 1) - 1 /\ k \in 1..N - 1
  BY DEF JoinedAt
<1>1. a \in Seq(S) /\ b \in Seq(S)
  BY <1>0, ElementOfSeq
<1>2. p \in Seq(Seq(S)) /\ Len(p) = k - 1 /\ \A x \in 1..k - 1 : p[x] = s[x]
  BY <1>0, PrefixFacts
<1>3. Append(p, a) = p1
  BY <1>0, PrefixExtended
<1>4. Append(p1, b) = p2
  BY <1>0, PrefixExtended
<1>5. p1 \in Seq(Seq(S)) /\ p2 \in Seq(Seq(S)) /\ r \in Seq(Seq(S)) /\ s = p2 \o r
      /\ Len(p2) = k + 1 /\ Len(r) = N - (k + 1)
  <2>1. p1 \in Seq(Seq(S))
    BY <1>0, PrefixFacts
  <2>2. k + 1 \in 0..Len(s)
    BY <1>0
  <2>3. PICK h \in 0..Len(s) : h = k + 1
    BY <2>2
  <2>4. /\ SubSeq(s, 1, h) \in Seq(Seq(S)) /\ SubSeq(s, h + 1, Len(s)) \in Seq(Seq(S))
        /\ Len(SubSeq(s, 1, h)) = h /\ Len(SubSeq(s, h + 1, Len(s))) = Len(s) - h
        /\ s = SubSeq(s, 1, h) \o SubSeq(s, h + 1, Len(s))
    BY Parts
  <2>5. h + 1 = k + 2
    BY <1>0, <2>3
  <2> QED BY <2>1, <2>3, <2>4, <2>5
<1>6. o \in Seq(Seq(S)) /\ Len(o) = k - 1 /\ \A x \in 1..k - 1 : o[x] = t[x]
  BY <1>0, PrefixFacts
<1>7. Append(o, t[k]) = o1
  BY <1>0, PrefixExtended
<1>8. o1 \in Seq(Seq(S)) /\ v \in Seq(Seq(S)) /\ t = o1 \o v /\ Len(o1) = k /\ Len(v) = N - 1 - k
  <2>1. k \in 0..Len(t) /\ Len(t) = N - 1
    BY <1>0
  <2> QED BY <2>1, Parts, SMTT(20)
<1>9. /\ \A j \in 1..N - 1 : j < k => t[j] = s[j]
      /\ \A j \in 1..N - 1 : j > k => t[j] = s[j + 1]
      /\ t[k] = a \o b
  <2>1. \A j \in 1..N - 1 : t[j] = IF j < k THEN s[j] ELSE IF j > k THEN s[j + 1] ELSE a \o b
    BY <1>0, Zenon DEF JoinedAt
  <2>2. ~(k < k) /\ ~(k > k) /\ \A j \in 1..N - 1 : j > k => ~(j < k)
    BY <1>0
  <2> QED BY <1>0, <2>1, <2>2, Zenon
<1>10. o = p
  <2>1. \A x \in 1..k - 1 : o[x] = p[x]
    <3> TAKE x \in 1..k - 1
    <3>1. x \in 1..N - 1 /\ x < k
      BY <1>0
    <3> QED BY <1>2, <1>6, <1>9, <3>1
  <2> HIDE DEF o, p
  <2> QED BY <1>2, <1>6, <2>1, SeqEqual
<1>11. v = r
  <2>1. ASSUME NEW x \in 1..N - 1 - k PROVE v[x] = r[x]
    <3>1. k + x \in 1..N - 1 /\ k + x > k /\ k + 1 + x \in 1..N /\ x \in Nat /\ k + x + 1 = k + 1 + x
          /\ ~(k + x <= k) /\ ~(k + 1 + x <= k + 1) /\ k + x - k = x /\ k + 1 + x - (k + 1) = x
      BY <1>0
    <3>2. t[k + x] = s[k + 1 + x]
      BY <1>9, <3>1
    <3>3. t[k + x] = v[x]
      <4>5. PICK y : y = k + x
        OBVIOUS
      <4>0. Len(o1) = k /\ Len(v) = N - 1 - k /\ o1 \in Seq(Seq(S)) /\ v \in Seq(Seq(S)) /\ t = o1 \o v
        BY <1>8
      <4> HIDE DEF o1, v
      <4>1. y \in 1..Len(o1) + Len(v) /\ ~(y <= Len(o1)) /\ y - Len(o1) = x
        BY <1>0, <3>1, <4>0, <4>5
      <4>2. \A h \in 1..Len(o1) + Len(v) : (o1 \o v)[h] = IF h <= Len(o1) THEN o1[h] ELSE v[h - Len(o1)]
        BY <4>0, ConcatProperties
      <4>3. (o1 \o v)[y] = v[x]
        BY <4>1, <4>2
      <4> QED BY <4>0, <4>3, <4>5
    <3>4. s[k + 1 + x] = r[x]
      <4>1. k + 1 + x \in 1..Len(p2) + Len(r) /\ ~(k + 1 + x <= Len(p2)) /\ k + 1 + x - Len(p2) = x
        BY <1>0, <1>5, <3>1
      <4> HIDE DEF p2, r
      <4>2. \A y \in 1..Len(p2) + Len(r) : (p2 \o r)[y] = IF y <= Len(p2) THEN p2[y] ELSE r[y - Len(p2)]
        BY <1>5, ConcatProperties
      <4> QED BY <1>5, <4>1, <4>2
    <3> QED BY <3>2, <3>3, <3>4
  <2>2. N - 1 - k = N - (k + 1)
    BY <1>0
  <2> HIDE DEF v, r
  <2> QED BY <1>5, <1>8, <2>1, <2>2, SeqEqual
<1> HIDE DEF N, p, p1, p2, r, o, o1, v, a, b
<1> DEFINE P == FlattenSeq(p)
           R == FlattenSeq(r)
<1>12. P \in Seq(S) /\ R \in Seq(S)
  BY <1>2, <1>5, FlattenType
<1>13. FlattenSeq(p1) = P \o a
  BY <1>1, <1>2, <1>3, FlattenAppend
<1>14. FlattenSeq(p2) = (P \o a) \o b
  BY <1>1, <1>4, <1>5, <1>13, FlattenAppend
<1>15. FlattenSeq(s) = ((P \o a) \o b) \o R
  BY <1>5, <1>14, FlattenConcat
<1>16. a \o b \in Seq(S)
  BY <1>1, ConcatProperties
<1>17. FlattenSeq(o1) = P \o (a \o b)
  BY <1>2, <1>7, <1>9, <1>10, <1>16, FlattenAppend
<1>18. FlattenSeq(t) = (P \o (a \o b)) \o R
  BY <1>8, <1>11, <1>17, FlattenConcat
<1>19. (P \o a) \o b = P \o (a \o b)
  <2>1. Regroups(S, P, a)
    BY <1>1, <1>12, Regrouped
  <2> QED BY <1>1, <2>1, Zenon DEF Regroups
<1> QED BY <1>15, <1>18, <1>19

\* A later sequence begins where an earlier one has ended, or behind.
LEMMA StartsClimb ==
  ASSUME NEW S, NEW s \in Seq(Seq(S)), NEW n \in 1..Len(s), NEW m \in 1..Len(s), n < m
  PROVE  StartOf(s, n + 1) <= StartOf(s, m)
<1> DEFINE T == {x \in Nat : n + 1 + x <= m => StartOf(s, n + 1) <= StartOf(s, n + 1 + x)}
<1>0. Len(s) \in Nat /\ n \in Nat /\ m \in Nat
  OBVIOUS
<1>1. \A x \in 1..Len(s) : StartOf(s, x) \in Nat /\ Len(s[x]) \in Nat
                           /\ StartOf(s, x + 1) = StartOf(s, x) + Len(s[x])
  BY FlattenAt
<1>2. 0 \in T
  <2>1. n + 1 + 0 = n + 1 /\ (n + 1 <= m => n + 1 \in 1..Len(s))
    BY <1>0
  <2> QED BY <1>1, <2>1
<1>3. ASSUME NEW x \in 0..m - (n + 1) - 1, x \in T PROVE x + 1 \in T
  <2>0. x \in Nat /\ n + 1 + x \in 1..Len(s) /\ n + 1 + x <= m /\ n + 1 + (x + 1) = n + 1 + x + 1
        /\ n + 1 \in 1..Len(s)
    BY <1>0
  <2>1. StartOf(s, n + 1) <= StartOf(s, n + 1 + x)
    BY <1>3, <2>0
  <2>2. StartOf(s, n + 1 + x + 1) = StartOf(s, n + 1 + x) + Len(s[n + 1 + x])
        /\ StartOf(s, n + 1 + x) \in Nat /\ Len(s[n + 1 + x]) \in Nat /\ StartOf(s, n + 1) \in Nat
    BY <1>1, <2>0
  <2>3. StartOf(s, n + 1) <= StartOf(s, n + 1 + x + 1)
    BY <2>1, <2>2
  <2>4. x + 1 \in Nat
    BY <2>0
  <2> QED BY <2>0, <2>3, <2>4
<1>4. m - (n + 1) \in T
  <2>1. m - (n + 1) \in Nat
    BY <1>0
  <2> HIDE DEF T
  <2> QED BY <1>2, <1>3, <2>1, Reaches
<1>5. n + 1 + (m - (n + 1)) = m /\ m <= m
  BY <1>0
<1> QED BY <1>4, <1>5

\* So a place in the flat sequence is a place in one of the sequences.
LEMMA SamePart ==
  ASSUME NEW S, NEW s \in Seq(Seq(S)), NEW n \in 1..Len(s), NEW m \in 1..Len(s),
         NEW x \in 1..Len(s[n]), NEW y \in 1..Len(s[m]), StartOf(s, n) + x = StartOf(s, m) + y
  PROVE  n = m /\ x = y
<1>1. /\ StartOf(s, n) \in Nat /\ StartOf(s, n + 1) = StartOf(s, n) + Len(s[n]) /\ Len(s[n]) \in Nat
      /\ StartOf(s, m) \in Nat /\ StartOf(s, m + 1) = StartOf(s, m) + Len(s[m]) /\ Len(s[m]) \in Nat
  BY FlattenAt
<1>2. ~(n < m)
  <2> SUFFICES ASSUME n < m PROVE FALSE
    OBVIOUS
  <2>1. StartOf(s, n + 1) <= StartOf(s, m)
    BY StartsClimb
  <2>2. PICK a \in Nat, b \in Nat, l \in Nat : a = StartOf(s, n) /\ b = StartOf(s, m) /\ l = Len(s[n])
    BY <1>1
  <2>3. a + l <= b /\ a + x = b + y /\ x \in 1..l
    BY <1>1, <2>1, <2>2
  <2>4. y >= 1 /\ y \in Int
    OBVIOUS
  <2> QED BY <2>3, <2>4
<1>3. ~(m < n)
  <2> SUFFICES ASSUME m < n PROVE FALSE
    OBVIOUS
  <2>1. StartOf(s, m + 1) <= StartOf(s, n)
    BY StartsClimb
  <2>2. PICK a \in Nat, b \in Nat, l \in Nat : a = StartOf(s, m) /\ b = StartOf(s, n) /\ l = Len(s[m])
    BY <1>1
  <2>3. a + l <= b /\ a + y = b + x /\ y \in 1..l
    BY <1>1, <2>1, <2>2
  <2>4. x >= 1 /\ x \in Int
    OBVIOUS
  <2> QED BY <2>3, <2>4
<1>4. n = m
  BY <1>2, <1>3
<1> QED BY <1>1, <1>4

-----------------------------------------------------------------------------
(* What ids say of the text.                                               *)

\* The bytes a token stands for: of a raw token of spm, the byte.
Said(id) == IF model.kind = "spm" /\ RawByte(Bytes(id)) < 256 THEN <<RawByte(Bytes(id))>> ELSE Bytes(id)

\* Bytes of the text, which hold no "<".
PlainText(s) == s # << >> /\ \A k \in DOMAIN s : s[k] # 60
Speaks(id) == PlainText(Bytes(id)) \/ (model.kind = "spm" /\ RawByte(Bytes(id)) < 256)

\* What a sequence of ids says; a leading BOS says nothing.
Words(v) == [k \in DOMAIN v |-> IF bos /\ k = 1 THEN << >> ELSE Said(v[k])]

\* The bytes the ids of llama2c and spm are to say.
Wanted == IF model.kind = "spm" THEN FlattenSeq(Normalized) ELSE Flat

SaysText(v) ==
  /\ bos => Len(v) > 0 /\ v[1] = Bos
  /\ \A k \in DOMAIN v : (bos /\ k = 1) \/ Speaks(v[k])
  /\ FlattenSeq(Words(v)) = Wanted

\* gpt2: the ids and the symbols together are the code points of the text so far.
Encoded(n) == [k \in 1..n |-> ByteEncoder[Flat[k]]]
Spelled(v) == FlattenSeq([k \in DOMAIN v |-> Bytes(v[k])])
SymbolsText ==
  /\ ~bos
  /\ Spelled(out) \o FlattenSeq(tokens) = Encoded(at)
  /\ \A k \in DOMAIN tokens : Known(tokens[k])
  /\ tpc # "scan" => tokens = << >>
  /\ tpc = "done" => at = Len(Flat)
  /\ tpc = "load" => at = 0

TextInv ==
  Complete =>
    IF model.kind = "gpt2" THEN tpc \in {"load", "cut", "scan", "done"} => SymbolsText
    ELSE (tpc = "scan" => SaysText(tokens)) /\ (tpc = "done" => SaysText(out))

\* The ids of llama2c and spm that are the text's: they hold text, or a raw byte.
IsRaw(id) == model.kind = "spm" /\ RawByte(Bytes(id)) < 256

\* What a complete vocabulary of llama2c has ...
LEMMA CompleteBlob ==
  ASSUME Complete, model.kind = "llama2c"
  PROVE  /\ \A k \in DOMAIN Flat : Known(<<Flat[k]>>) /\ Flat[k] # 60
         /\ \E k \in DOMAIN Bytes(Bos) : Bytes(Bos)[k] = 60
         /\ bos => \A k \in DOMAIN model.vocab :
                     model.vocab[k] # << >> => ~Known(Bytes(Bos) \o model.vocab[k])
BY DEF Complete

\* ... what one of spm has ...
LEMMA CompleteSpm ==
  ASSUME Complete, model.kind = "spm"
  PROVE  /\ \A k \in DOMAIN text : text[k] # << 60 >> /\ (Known(text[k]) \/ \A m \in DOMAIN text[k] : Fallbacks(text[k][m]) # {})
         /\ Known(Mark) \/ \A m \in DOMAIN Mark : Fallbacks(Mark[m]) # {}
         /\ \A r, k \in DOMAIN model.vocab :
              RawByte(model.vocab[r]) < 256 /\ model.vocab[k] # << >> =>
                ~Known(model.vocab[r] \o model.vocab[k]) /\ ~Known(model.vocab[k] \o model.vocab[r])
<1> DEFINE chars == {text[k] : k \in DOMAIN text}
<1>1. /\ << 60 >> \notin chars
      /\ \A ch \in chars \cup {Mark} :
           Known(ch) \/ \A k \in DOMAIN ch : Fallbacks(ch[k]) # {}
      /\ \A r, k \in DOMAIN model.vocab :
           RawByte(model.vocab[r]) < 256 /\ model.vocab[k] # << >> =>
             ~Known(model.vocab[r] \o model.vocab[k]) /\ ~Known(model.vocab[k] \o model.vocab[r])
  BY DEF Complete
<1>2. \A k \in DOMAIN text : text[k] \in chars
  OBVIOUS
<1>3. Known(Mark) \/ \A m \in DOMAIN Mark : Fallbacks(Mark[m]) # {}
  BY <1>1
<1>4. \A k \in DOMAIN text : text[k] # << 60 >> /\ (Known(text[k]) \/ \A m \in DOMAIN text[k] : Fallbacks(text[k][m]) # {})
  BY <1>1, <1>2
<1> QED BY <1>1, <1>3, <1>4

\* ... and what one of gpt2 has.
LEMMA CompleteGpt2 ==
  ASSUME Complete, model.kind = "gpt2"
  PROVE  /\ \A k \in DOMAIN Flat : Known(<<ByteEncoder[Flat[k]]>>)
         /\ \A r \in Rules : Known(RuleJoin(r))
BY DEF Complete

\* Only what begins with "<" is a raw byte.
LEMMA RawBegins ==
  ASSUME NEW t \in Seq(Nat), RawByte(t) < 256 \/ LooseByte(t) < 256
  PROVE  1 \in DOMAIN t /\ t[1] = 60 /\ t # << >>
<1>0. Len(t) \in Nat /\ DOMAIN t = 1..Len(t) /\ ~(256 < 256)
  OBVIOUS
<1>1. Len(t) >= 6 /\ SubSeq(t, 1, 3) = <<60, 48, 120>>
  <2>1. CASE RawByte(t) < 256
    <3>1. ~(Len(t) = 6 /\ SubSeq(t, 1, 3) = <<60, 48, 120>> /\ t[6] = 62) => RawByte(t) = 256
      BY DEF RawByte
    <3>2. Len(t) = 6 /\ SubSeq(t, 1, 3) = <<60, 48, 120>>
      BY <1>0, <2>1, <3>1, Zenon
    <3> QED BY <3>2
  <2>2. CASE LooseByte(t) < 256
    <3>1. ~(Len(t) >= 6 /\ SubSeq(t, 1, 3) = <<60, 48, 120>> /\ t[Len(t)] = 62) => LooseByte(t) = 256
      BY DEF LooseByte
    <3> QED BY <1>0, <2>2, <3>1, Zenon
  <2> QED BY <2>1, <2>2
<1>2. 3 \in 0..Len(t) /\ 1 \in 1..3
  BY <1>0, <1>1
<1>3. SubSeq(t, 1, 3)[1] = t[1]
  BY <1>2, PrefixFacts
<1>4. t[1] = 60
  <2>1. <<60, 48, 120>>[1] = 60
    OBVIOUS
  <2> QED BY <1>1, <1>3, <2>1, Zenon
<1>5. 1 \in DOMAIN t
  BY <1>0, <1>1
<1>6. t # << >>
  BY <1>0, <1>1
<1> QED BY <1>4, <1>5, <1>6

\* A token without a "<" is no raw byte, of spm or of llama2c.
LEMMA PlainIsNotRaw ==
  ASSUME NEW t \in Seq(Nat), \A k \in DOMAIN t : t[k] # 60
  PROVE  ~(RawByte(t) < 256) /\ ~(LooseByte(t) < 256)
BY RawBegins

\* Text behind text is text.
LEMMA PlainJoin ==
  ASSUME NEW s \in Seq(Nat), NEW t \in Seq(Nat), PlainText(s), PlainText(t)
  PROVE  PlainText(s \o t)
<1> DEFINE c == s \o t
<1>0. Len(s) \in Nat \ {0} /\ Len(t) \in Nat /\ DOMAIN s = 1..Len(s) /\ DOMAIN t = 1..Len(t)
  BY EmptySeq DEF PlainText
<1>1. c \in Seq(Nat) /\ Len(c) = Len(s) + Len(t)
      /\ \A k \in 1..Len(s) + Len(t) : c[k] = IF k <= Len(s) THEN s[k] ELSE t[k - Len(s)]
  BY ConcatProperties
<1> HIDE DEF c
<1>2. DOMAIN c = 1..Len(s) + Len(t) /\ c # << >>
  BY <1>0, <1>1
<1>3. ASSUME NEW k \in 1..Len(s) + Len(t) PROVE c[k] # 60
  <2>1. CASE k <= Len(s)
    <3>1. k \in DOMAIN s
      BY <1>0, <2>1
    <3> QED BY <1>1, <2>1, <3>1 DEF PlainText
  <2>2. CASE ~(k <= Len(s))
    <3>1. k - Len(s) \in DOMAIN t
      BY <1>0, <2>2
    <3> QED BY <1>1, <2>2, <3>1 DEF PlainText
  <2> QED BY <2>1, <2>2
<1> QED BY <1>2, <1>3 DEF PlainText, c

\* Where the letters of what is said are from.
Letter == Nat \cup {RawByte(Bytes(d)) : d \in Id}
\* What each id says.
Speech == [d \in Id |-> Said(d)]

\* The bytes of an id are numbers, those of its place in the vocabulary.
LEMMA BytesTyped ==
  ASSUME model.vocab \in Seq(Seq(Nat))
  PROVE  \A d \in Id : Bytes(d) \in Seq(Nat) /\ d + 1 \in DOMAIN model.vocab /\ d + 1 - 1 = d
<1>1. Len(model.vocab) \in Nat /\ DOMAIN model.vocab = 1..Len(model.vocab)
  OBVIOUS
<1>2. ASSUME NEW d \in Id PROVE d + 1 \in 1..Len(model.vocab) /\ d + 1 - 1 = d
  BY <1>1 DEF Id
<1> QED BY <1>1, <1>2, ElementOfSeq DEF Bytes

\* What an id says is a sequence of letters.
LEMMA SaidTyped ==
  ASSUME model.vocab \in Seq(Seq(Nat))
  PROVE  (\A d \in Id : Said(d) \in Seq(Letter)) /\ Speech \in [Id -> Seq(Letter)]
<1>1. ASSUME NEW d \in Id PROVE Said(d) \in Seq(Letter)
  <2>1. Bytes(d) \in Seq(Letter)
    <3>1. Bytes(d) \in Seq(Nat) /\ Nat \subseteq Letter
      BY BytesTyped DEF Letter
    <3> QED BY <3>1, SeqMonotonic
  <2>2. PICK n : n = RawByte(Bytes(d))
    OBVIOUS
  <2>3. n \in Letter
    BY <2>2 DEF Letter
  <2>4. <<n>> \in Seq(Letter)
    BY <2>3
  <2>5. Said(d) = Bytes(d) \/ Said(d) = <<n>>
    BY <2>2, Zenon DEF Said
  <2> QED BY <2>1, <2>4, <2>5, Zenon
<1> QED BY <1>1 DEF Speech

\* What a token of text, or a raw byte, says together with the next is what the
\* token says that they merge to.
LEMMA SaidJoined ==
  ASSUME model.vocab \in Seq(Seq(Nat)), Complete, model.kind \in {"llama2c", "spm"},
         NEW x \in Id, NEW y \in Id, Speaks(x), Speaks(y), Known(Bytes(x) \o Bytes(y))
  PROVE  LET z == IdOf(Bytes(x) \o Bytes(y))
         IN  z \in Id /\ Speaks(z) /\ Said(z) = Said(x) \o Said(y)
<1> DEFINE v == Bytes(x) \o Bytes(y)
           z == IdOf(v)
<1>1. Bytes(x) \in Seq(Nat) /\ Bytes(y) \in Seq(Nat) /\ x + 1 \in DOMAIN model.vocab /\ y + 1 \in DOMAIN model.vocab
  BY BytesTyped
<1>2. v \in Seq(Nat)
  BY <1>1, ConcatProperties
<1>3. z \in Id /\ Bytes(z) = v
  BY IdOfKnown
<1>4. Bytes(x) # << >> /\ Bytes(y) # << >>
  BY <1>1, RawBegins DEF Speaks, PlainText
<1>5. ~IsRaw(x) /\ ~IsRaw(y)
  BY <1>1, <1>4, CompleteSpm DEF IsRaw, Bytes
<1>6. PlainText(Bytes(x)) /\ PlainText(Bytes(y))
  BY <1>5 DEF Speaks, IsRaw
<1>7. PlainText(v)
  BY <1>1, <1>6, PlainJoin
<1>8. ~(RawByte(v) < 256)
  BY <1>2, <1>7, PlainIsNotRaw DEF PlainText
<1>9. Said(x) = Bytes(x) /\ Said(y) = Bytes(y) /\ Said(z) = v
  BY <1>3, <1>5, <1>8, Zenon DEF Said, IsRaw
<1>10. Speaks(z)
  BY <1>3, <1>7, Zenon DEF Speaks
<1> QED BY <1>3, <1>9, <1>10, Zenon

\* The ids in use.
VocabTyped == model.vocab \in Seq(Seq(Nat))

\* What a sequence of ids says, without a leading BOS.
Rest(v) == IF bos THEN Tail(v) ELSE v

\* What ids say, one by one.
LEMMA WordsTyped ==
  ASSUME VocabTyped, NEW v \in Seq(Id)
  PROVE  Words(v) \in Seq(Seq(Letter)) /\ Len(Words(v)) = Len(v)
         /\ \A k \in 1..Len(v) : Words(v)[k] = IF bos /\ k = 1 THEN << >> ELSE Said(v[k])
<1>0. Len(v) \in Nat /\ DOMAIN v = 1..Len(v)
  OBVIOUS
<1>1. ASSUME NEW k \in 1..Len(v) PROVE (IF bos /\ k = 1 THEN << >> ELSE Said(v[k])) \in Seq(Letter)
  <2>1. v[k] \in Id
    BY ElementOfSeq
  <2>2. Said(v[k]) \in Seq(Letter)
    BY <2>1, SaidTyped, Zenon DEF VocabTyped
  <2>3. << >> \in Seq(Letter)
    OBVIOUS
  <2> QED BY <2>2, <2>3, Zenon
<1>2. Words(v) \in [DOMAIN v -> Seq(Letter)]
  BY <1>0, <1>1 DEF Words
<1>3. \A k \in 1..Len(v) : Words(v)[k] = IF bos /\ k = 1 THEN << >> ELSE Said(v[k])
  BY <1>0 DEF Words
<1> QED BY <1>2, <1>3, MapSeq

\* A merge keeps what is said.
LEMMA MergeSays ==
  ASSUME VocabTyped, Complete, model.kind \in {"llama2c", "spm"}, bos \in BOOLEAN,
         tokens \in Seq(Id), SaysText(tokens),
         NEW k \in 1..Len(tokens) - 1, k >= ScanStart, Known(Joined(k))
  PROVE  SaysText(MergedAt(k))
<1> DEFINE L == Len(tokens)
           joined == IdOf(Joined(k))
           v == MergedAt(k)
<1>0. L \in Nat /\ DOMAIN tokens = 1..L /\ k \in 1..L /\ k + 1 \in 1..L /\ k + 1 # 1 /\ k \in Nat
      /\ L - 1 \in Nat
  OBVIOUS
<1>1. tokens[k] \in Id /\ tokens[k + 1] \in Id /\ Speaks(tokens[k + 1])
      /\ Bytes(tokens[k + 1]) \in Seq(Nat) /\ tokens[k + 1] + 1 \in DOMAIN model.vocab
  <2>1. tokens[k] \in Id /\ tokens[k + 1] \in Id
    BY <1>0, ElementOfSeq
  <2>2. Speaks(tokens[k + 1])
    BY <1>0, Zenon DEF SaysText
  <2> QED BY <2>1, <2>2, BytesTyped DEF VocabTyped
<1>2. ~(bos /\ k = 1)
  <2> SUFFICES ASSUME bos, k = 1 PROVE FALSE
    OBVIOUS
  <2>1. model.kind = "llama2c"
    BY DEF ScanStart
  <2>2. tokens[1] = Bos
    BY DEF SaysText
  <2>3. Bytes(tokens[2]) # << >> /\ Known(Bytes(Bos) \o Bytes(tokens[2]))
    <3>1. Joined(k) = Bytes(tokens[1]) \o Bytes(tokens[2]) /\ k + 1 = 2
      BY DEF Joined
    <3>2. Bytes(tokens[2]) # << >>
      BY <1>1, <3>1, RawBegins DEF Speaks, PlainText
    <3> QED BY <2>2, <3>1, <3>2
  <2>4. tokens[2] + 1 \in DOMAIN model.vocab /\ Bytes(tokens[2]) = model.vocab[tokens[2] + 1]
    BY <1>1 DEF Bytes
  <2>5. \A x \in DOMAIN model.vocab : model.vocab[x] # << >> => ~Known(Bytes(Bos) \o model.vocab[x])
    BY <2>1, CompleteBlob
  <2> QED BY <2>3, <2>4, <2>5
<1>3. Speaks(tokens[k])
  BY <1>0, <1>2, Zenon DEF SaysText
<1>4. joined \in Id /\ Speaks(joined) /\ Said(joined) = Said(tokens[k]) \o Said(tokens[k + 1])
  BY <1>1, <1>3, SaidJoined DEF Joined, VocabTyped
<1> HIDE DEF joined
<1>5. v = [j \in 1..L - 1 |-> IF j < k THEN tokens[j] ELSE IF j > k THEN tokens[j + 1] ELSE joined]
  BY DEF MergedAt, joined
<1>6. \A j \in 1..L - 1 : j \in 1..L /\ j + 1 \in 1..L /\ j + 1 # 1 /\ tokens[j] \in Id /\ tokens[j + 1] \in Id
  <2> TAKE j \in 1..L - 1
  <2>1. j \in 1..L /\ j + 1 \in 1..L /\ j + 1 # 1
    BY <1>0
  <2> QED BY <2>1, ElementOfSeq
<1>7. v \in [1..L - 1 -> Id]
  BY <1>4, <1>5, <1>6
<1>8. v \in Seq(Id) /\ Len(v) = L - 1 /\ DOMAIN v = 1..L - 1
  <2> HIDE DEF v
  <2>1. PICK n \in Nat : n = L - 1
    BY <1>0
  <2>2. v \in [1..n -> Id]
    BY <1>7, <2>1
  <2> QED BY <2>1, <2>2, SeqDef, SMTT(20)
<1> HIDE DEF v, L
<1>9. \A j \in 1..L - 1 : v[j] = IF j < k THEN tokens[j] ELSE IF j > k THEN tokens[j + 1] ELSE joined
  BY <1>5
<1>10. ASSUME NEW j \in 1..L - 1 PROVE (bos /\ j = 1) \/ Speaks(v[j])
  <2>1. \A x \in 1..L : (bos /\ x = 1) \/ Speaks(tokens[x])
    BY <1>0, Zenon DEF SaysText
  <2> QED BY <1>4, <1>6, <1>9, <2>1, Zenon
<1> DEFINE w == Words(tokens)
           u == Words(v)
<1>11. w \in Seq(Seq(Letter)) /\ Len(w) = L
       /\ \A x \in 1..L : w[x] = IF bos /\ x = 1 THEN << >> ELSE Said(tokens[x])
  BY WordsTyped DEF L
<1>12. u \in Seq(Seq(Letter)) /\ Len(u) = L - 1
       /\ \A x \in 1..L - 1 : u[x] = IF bos /\ x = 1 THEN << >> ELSE Said(v[x])
  BY <1>8, WordsTyped
<1> HIDE DEF w, u
<1>13. ASSUME NEW j \in 1..L - 1
       PROVE  u[j] = IF j < k THEN w[j] ELSE IF j > k THEN w[j + 1] ELSE w[k] \o w[k + 1]
  <2>1. CASE j < k
    <3>1. u[j] = w[j]
      BY <1>6, <1>9, <1>11, <1>12, <2>1, Zenon
    <3> QED BY <2>1, <3>1
  <2>2. CASE j > k
    <3>1. ~(j < k) /\ j # 1
      BY <1>0, <2>2
    <3>2. v[j] = tokens[j + 1]
      BY <1>9, <2>2, <3>1, Zenon
    <3>3. u[j] = Said(tokens[j + 1]) /\ w[j + 1] = Said(tokens[j + 1])
      BY <1>6, <1>11, <1>12, <3>1, <3>2, Zenon
    <3> QED BY <2>2, <3>1, <3>3
  <2>3. CASE ~(j < k) /\ ~(j > k)
    <3>1. j = k
      BY <1>0, <2>3
    <3>2. v[j] = joined
      BY <1>9, <2>3, Zenon
    <3>3. u[j] = Said(joined)
      BY <1>2, <1>12, <3>1, <3>2, Zenon
    <3>4. w[k] = Said(tokens[k]) /\ w[k + 1] = Said(tokens[k + 1])
      BY <1>0, <1>2, <1>11, Zenon
    <3> QED BY <1>4, <2>3, <3>3, <3>4
  <2> QED BY <2>1, <2>2, <2>3
<1>14. JoinedAt(w, u, k)
  BY <1>11, <1>12, <1>13 DEF JoinedAt
<1>15. FlattenSeq(u) = FlattenSeq(w)
  <2>1. k \in 1..Len(w) - 1
    BY <1>11 DEF L
  <2> QED BY <1>11, <1>12, <1>14, <2>1, FlattenJoined
<1>16. bos => Len(v) > 0 /\ v[1] = Bos
  <2> SUFFICES ASSUME bos PROVE Len(v) > 0 /\ v[1] = Bos
    OBVIOUS
  <2>1. 1 < k /\ 1 \in 1..L - 1 /\ L - 1 > 0
    BY <1>0, <1>2 DEF L
  <2>2. tokens[1] = Bos
    BY DEF SaysText
  <2> QED BY <1>8, <1>9, <2>1, <2>2
<1>17. FlattenSeq(u) = Wanted
  BY <1>15 DEF w, SaysText
<1> QED BY <1>8, <1>10, <1>16, <1>17 DEF SaysText, u, v

\* Without a leading BOS the ids say the same.
LEMMA RestSays ==
  ASSUME VocabTyped, NEW v \in Seq(Id), bos \in BOOLEAN, bos => Len(v) > 0
  PROVE  Rest(v) \in Seq(Id) /\ FlattenSeq(Words(v)) = FlattenSeq(Mapped(Speech, Rest(v)))
         /\ Len(Rest(v)) = (IF bos THEN Len(v) - 1 ELSE Len(v))
         /\ \A k \in 1..Len(Rest(v)) : Rest(v)[k] = v[IF bos THEN k + 1 ELSE k]
<1> DEFINE t == Rest(v)
           w == Words(v)
           u == Mapped(Speech, t)
<1>0. Len(v) \in Nat
  OBVIOUS
<1>1. w \in Seq(Seq(Letter)) /\ Len(w) = Len(v)
      /\ \A k \in 1..Len(v) : w[k] = IF bos /\ k = 1 THEN << >> ELSE Said(v[k])
  BY WordsTyped
<1>2. /\ t \in Seq(Id) /\ Len(t) = (IF bos THEN Len(v) - 1 ELSE Len(v))
      /\ \A k \in 1..Len(t) : t[k] = v[IF bos THEN k + 1 ELSE k]
  <2>1. CASE bos
    <3>1. v # << >>
      BY <1>0, <2>1
    <3>2. Tail(v) \in Seq(Id) /\ Len(Tail(v)) = Len(v) - 1 /\ \A k \in 1..Len(Tail(v)) : Tail(v)[k] = v[k + 1]
      BY <3>1, HeadTailProperties
    <3> QED BY <2>1, <3>2 DEF Rest
  <2>2. CASE ~bos
    BY <2>2 DEF Rest
  <2> QED BY <2>1, <2>2
<1> HIDE DEF t, w
<1>3. u \in Seq(Seq(Letter)) /\ Len(u) = Len(t) /\ \A k \in 1..Len(t) : u[k] = Said(t[k])
  <2>1. MapsTo(Speech, Seq(Letter), t, u)
    <3>1. Speech \in [Id -> Seq(Letter)]
      BY SaidTyped DEF VocabTyped
    <3> QED BY <1>2, <3>1, MappedIs
  <2>2. \A k \in 1..Len(t) : t[k] \in Id
    BY <1>2, ElementOfSeq
  <2> HIDE DEF u
  <2> QED BY <2>1, <2>2 DEF MapsTo, Speech
<1> HIDE DEF u
<1>4. FlattenSeq(w) = FlattenSeq(u)
  <2>1. CASE ~bos
    <3>1. \A k \in 1..Len(w) : w[k] = u[k]
      BY <1>1, <1>2, <1>3, <2>1
    <3>2. w = u
      BY <1>1, <1>2, <1>3, <2>1, <3>1, SeqEqual
    <3> QED BY <3>2
  <2>2. CASE bos
    <3>0. << >> \in Seq(Letter) /\ FlattenSeq(u) \in Seq(Letter)
      BY <1>3, FlattenType
    <3>1. PICK e \in Seq(Seq(Letter)) : e = << << >> >> /\ Len(e) = 1 /\ e[1] = << >>
      <4>1. PICK x \in Seq(Letter) : x = << >>
        BY <3>0
      <4>2. <<x>> \in Seq(Seq(Letter)) /\ Len(<<x>>) = 1 /\ <<x>>[1] = x
        BY OneIs, Zenon
      <4> QED BY <4>1, <4>2, Zenon
    <3>2. FlattenSeq(e \o u) = FlattenSeq(u)
      <4>1. FlattenSeq(e \o u) = << >> \o FlattenSeq(u)
        BY <1>3, <3>0, <3>1, FlattenFirst
      <4> QED BY <3>0, <4>1, ConcatEmptySeq
    <3> DEFINE c == e \o u
    <3>3. c \in Seq(Seq(Letter)) /\ Len(c) = 1 + Len(u)
          /\ \A k \in 1..1 + Len(u) : c[k] = IF k <= 1 THEN e[k] ELSE u[k - 1]
      BY <1>3, <3>1, ConcatProperties
    <3> HIDE DEF c
    <3>4. Len(c) = Len(w)
      BY <1>0, <1>1, <1>2, <1>3, <2>2, <3>3
    <3>5. ASSUME NEW k \in 1..Len(w) PROVE w[k] = c[k]
      <4>1. CASE k = 1
        <5>1. k \in 1..1 + Len(u) /\ k <= 1
          BY <1>1, <1>3, <3>3, <3>4, <4>1
        <5> QED BY <1>1, <2>2, <3>1, <3>3, <4>1, <5>1
      <4>2. CASE k # 1
        <5>1. k \in 1..1 + Len(u) /\ ~(k <= 1) /\ k - 1 \in 1..Len(t) /\ k - 1 + 1 = k /\ k \in 1..Len(v)
          BY <1>0, <1>1, <1>2, <1>3, <2>2, <3>3, <3>4, <4>2
        <5>2. c[k] = Said(t[k - 1])
          BY <1>3, <3>3, <5>1
        <5>3. t[k - 1] = v[k]
          BY <1>2, <2>2, <5>1
        <5> QED BY <1>1, <4>2, <5>1, <5>2, <5>3
      <4> QED BY <4>1, <4>2
    <3>6. w = c
      BY <1>1, <3>3, <3>4, <3>5, SeqEqual
    <3> QED BY <3>2, <3>6 DEF c
  <2> QED BY <2>1, <2>2
<1> QED BY <1>2, <1>4 DEF t, w, u

\* So a BOS may be put in front of what says the text.
LEMMA CutSays ==
  ASSUME VocabTyped, bos \in BOOLEAN, Bos \in Id, NEW s \in Seq(Id),
         FlattenSeq(Mapped(Speech, s)) = Wanted, \A k \in 1..Len(s) : Speaks(s[k])
  PROVE  SaysText(Head1 \o s)
<1> DEFINE v == Head1 \o s
<1>0. Head1 \in Seq(Id) /\ Len(Head1) = (IF bos THEN 1 ELSE 0) /\ Len(s) \in Nat /\ (bos => Head1[1] = Bos)
  BY DEF Head1
<1>1. v \in Seq(Id) /\ Len(v) = Len(Head1) + Len(s)
      /\ \A k \in 1..Len(Head1) + Len(s) : v[k] = IF k <= Len(Head1) THEN Head1[k] ELSE s[k - Len(Head1)]
  BY <1>0, ConcatProperties
<1> HIDE DEF v
<1>2. DOMAIN v = 1..Len(v) /\ (bos => Len(v) > 0 /\ v[1] = Bos)
  <2>1. DOMAIN v = 1..Len(v) /\ (bos => Len(v) > 0)
    BY <1>0, <1>1
  <2>2. bos => v[1] = Bos
    <3> SUFFICES ASSUME bos PROVE v[1] = Bos
      OBVIOUS
    <3>1. Len(Head1) = 1 /\ 1 <= 1 /\ 1 \in 1..1 + Len(s)
      BY <1>0
    <3> QED BY <1>0, <1>1, <3>1
  <2> QED BY <2>1, <2>2
<1>3. Rest(v) \in Seq(Id) /\ FlattenSeq(Words(v)) = FlattenSeq(Mapped(Speech, Rest(v)))
      /\ Len(Rest(v)) = (IF bos THEN Len(v) - 1 ELSE Len(v))
      /\ \A k \in 1..Len(Rest(v)) : Rest(v)[k] = v[IF bos THEN k + 1 ELSE k]
  BY <1>1, <1>2, RestSays
<1> DEFINE t == Rest(v)
<1> HIDE DEF t
<1>4. Len(t) = Len(s)
  BY <1>0, <1>1, <1>3 DEF t
<1>5. ASSUME NEW k \in 1..Len(s) PROVE v[IF bos THEN k + 1 ELSE k] = s[k]
  <2>1. CASE bos
    <3>1. k + 1 \in 1..1 + Len(s) /\ ~(k + 1 <= 1) /\ k + 1 - 1 = k /\ Len(Head1) = 1
      BY <1>0, <2>1
    <3> QED BY <1>1, <2>1, <3>1
  <2>2. CASE ~bos
    <3>1. k \in 1..0 + Len(s) /\ ~(k <= 0) /\ k - 0 = k /\ Len(Head1) = 0
      BY <1>0, <2>2
    <3> QED BY <1>1, <2>2, <3>1
  <2> QED BY <2>1, <2>2
<1>6. t = s
  <2>1. \A k \in 1..Len(t) : t[k] = s[k]
    BY <1>3, <1>4, <1>5 DEF t
  <2> QED BY <1>3, <1>4, <2>1, SeqEqual DEF t
<1>7. ASSUME NEW k \in 1..Len(v), ~(bos /\ k = 1) PROVE Speaks(v[k])
  <2>1. PICK j \in 1..Len(s) : k = IF bos THEN j + 1 ELSE j
    <3>1. CASE bos
      <4>1. k - 1 \in 1..Len(s) /\ k = k - 1 + 1
        BY <1>0, <1>1, <1>7, <3>1
      <4> QED BY <3>1, <4>1
    <3>2. CASE ~bos
      BY <1>0, <1>1, <3>2
    <3> QED BY <3>1, <3>2
  <2> QED BY <1>5, <2>1
<1>8. FlattenSeq(Words(v)) = Wanted
  BY <1>3, <1>6 DEF t
<1> QED BY <1>2, <1>7, <1>8 DEF SaysText, v

\* llama2c: the ids of the bytes say them.
LEMMA BlobBody ==
  ASSUME VocabTyped, IsText(text), Complete, model.kind = "llama2c"
  PROVE  LET s == FlattenSeq([k \in DOMAIN Flat |-> ByteIds(Flat[k])])
         IN  s \in Seq(Id) /\ FlattenSeq(Mapped(Speech, s)) = Wanted /\ \A k \in 1..Len(s) : Speaks(s[k])
<1> DEFINE d == [k \in DOMAIN Flat |-> ByteIds(Flat[k])]
           s == [k \in DOMAIN Flat |-> IdOf(<<Flat[k]>>)]
           u == Mapped(Speech, s)
<1>0. Flat \in Seq(0..255) /\ Len(Flat) \in Nat /\ DOMAIN Flat = 1..Len(Flat)
  BY FlatBytes
<1>1. \A k \in DOMAIN Flat : Known(<<Flat[k]>>) /\ Flat[k] # 60
  BY CompleteBlob
<1>2. \A k \in DOMAIN Flat : IdOf(<<Flat[k]>>) \in Id /\ Bytes(IdOf(<<Flat[k]>>)) = <<Flat[k]>>
  BY <1>1, IdOfKnown DEF VocabTyped
<1>3. s \in Seq(Id) /\ Len(s) = Len(Flat) /\ DOMAIN s = 1..Len(Flat) /\ \A k \in 1..Len(Flat) : s[k] = IdOf(<<Flat[k]>>)
  <2>1. s \in [DOMAIN Flat -> Id]
    BY <1>2
  <2>2. \A k \in 1..Len(Flat) : s[k] = IdOf(<<Flat[k]>>)
    BY <1>0
  <2> HIDE DEF s
  <2>3. s \in Seq(Id) /\ Len(s) = Len(Flat)
    BY <1>0, <2>1, MapSeq
  <2> QED BY <2>2, <2>3
<1>4. d = Singles(s)
  BY <1>0, <1>1, <1>3 DEF Singles, ByteIds
<1>5. FlattenSeq(d) = s
  BY <1>3, <1>4, FlattenSingles
<1> HIDE DEF s
<1>6. \A k \in 1..Len(s) : Speaks(s[k])
  <2> TAKE k \in 1..Len(s)
  <2>1. Bytes(s[k]) = <<Flat[k]>> /\ Flat[k] # 60
    BY <1>0, <1>1, <1>2, <1>3
  <2>2. PlainText(<<Flat[k]>>)
    BY <2>1 DEF PlainText
  <2> QED BY <2>1, <2>2 DEF Speaks
<1>7. MapsTo(Speech, Seq(Letter), s, u)
  BY <1>3, SaidTyped, MappedIs DEF VocabTyped
<1> HIDE DEF u
<1>8. u = Singles(Flat)
  <2>1. Singles(Flat) \in Seq(Seq(Letter)) /\ Len(Singles(Flat)) = Len(Flat)
        /\ \A k \in 1..Len(Flat) : Singles(Flat)[k] = <<Flat[k]>>
    <3>1. Singles(Flat) \in Seq(Seq(Letter))
      <4>1. 0..255 \subseteq Letter
        BY DEF Letter
      <4>2. Flat \in Seq(Letter)
        BY <1>0, <4>1, SeqMonotonic
      <4> QED BY <4>2, FlattenSingles
    <3>2. DOMAIN Singles(Flat) = 1..Len(Flat)
      BY <1>0 DEF Singles
    <3>3. \A k \in 1..Len(Flat) : Singles(Flat)[k] = <<Flat[k]>>
      BY <1>0 DEF Singles
    <3> QED BY <1>0, <3>1, <3>2, <3>3
  <2>2. \A k \in 1..Len(Flat) : u[k] = <<Flat[k]>>
    <3> TAKE k \in 1..Len(Flat)
    <3>1. u[k] = Speech[s[k]] /\ s[k] \in Id
      BY <1>3, <1>7, ElementOfSeq DEF MapsTo
    <3>2. u[k] = Said(s[k])
      BY <3>1 DEF Speech
    <3>3. Said(s[k]) = Bytes(s[k])
      BY DEF Said
    <3> QED BY <1>0, <1>2, <1>3, <3>2, <3>3
  <2>3. u \in Seq(Seq(Letter)) /\ Len(u) = Len(Flat)
    BY <1>3, <1>7 DEF MapsTo
  <2> QED BY <2>1, <2>2, <2>3, SeqEqual
<1>9. FlattenSeq(u) = Flat
  BY <1>0, <1>8, FlattenSingles
<1> QED BY <1>3, <1>5, <1>6, <1>9 DEF Wanted, u, d

-----------------------------------------------------------------------------
(* The pieces of spm.                                                      *)

\* A character is text, unless it is the "<".
LEMMA CharIsPlain ==
  ASSUME NEW ch, ch \in Seq(0..255), IsChar(ch), ch # << 60 >>
  PROVE  PlainText(ch) /\ DOMAIN ch = 1..Len(ch) /\ Len(ch) \in 1..4
<1>0. Len(ch) \in Nat /\ DOMAIN ch = 1..Len(ch)
  OBVIOUS
<1>1. CASE ch \in Seq(0..127) /\ Len(ch) = 1
  <2>1. ch[1] # 60
    <3> SUFFICES ASSUME ch[1] = 60 PROVE FALSE
      OBVIOUS
    <3>1. PICK o \in Seq(0..255) : o = << 60 >> /\ Len(o) = 1 /\ o[1] = 60
      <4>1. PICK x \in 0..255 : x = 60
        OBVIOUS
      <4>2. <<x>> \in Seq(0..255) /\ Len(<<x>>) = 1 /\ <<x>>[1] = x
        BY OneIs, Zenon
      <4> QED BY <4>1, <4>2, Zenon
    <3>2. ch = o
      BY <1>1, <3>1, SeqEqual
    <3> QED BY <3>1, <3>2
  <2>2. Len(ch) \in 1..4 /\ ch # << >> /\ \A k \in 1..Len(ch) : k = 1
    <3>1. Len(<< >>) = 0 /\ 1 # 0 /\ 1 \in 1..4 /\ \A k \in 1..1 : k = 1
      OBVIOUS
    <3> QED BY <1>1, <3>1, Zenon
  <2>3. PlainText(ch)
    BY <1>0, <2>1, <2>2, Zenon DEF PlainText
  <2> QED BY <1>0, <2>2, <2>3
<1>2. CASE ch \in Seq(128..255)
           /\ Len(ch) = IF ch[1] < 224 THEN 2 ELSE IF ch[1] < 240 THEN 3 ELSE 4
  <2>1. Len(ch) \in 2..4
    <3>1. Len(ch) = 2 \/ Len(ch) = 3 \/ Len(ch) = 4
      BY <1>2, Zenon
    <3> QED BY <3>1
  <2>2. \A k \in 1..Len(ch) : ch[k] # 60
    <3>1. \A k \in 1..Len(ch) : ch[k] \in 128..255
      BY <1>2, ElementOfSeq
    <3>2. \A x \in 128..255 : x # 60
      OBVIOUS
    <3> QED BY <3>1, <3>2, Zenon
  <2>3. ch # << >> /\ Len(ch) \in 1..4
    <3>1. Len(<< >>) = 0 /\ \A x \in 2..4 : x # 0 /\ x \in 1..4
      OBVIOUS
    <3> QED BY <2>1, <3>1, Zenon
  <2>4. PlainText(ch)
    BY <1>0, <2>2, <2>3, Zenon DEF PlainText
  <2> QED BY <1>0, <2>3, <2>4
<1> QED BY <1>1, <1>2, Zenon DEF IsChar

\* spm: the ids of a character say it.
LEMMA CharSays ==
  ASSUME VocabTyped, model.kind = "spm", NEW ch, ch \in Seq(0..255), IsChar(ch), ch # << 60 >>,
         Known(ch) \/ \A k \in DOMAIN ch : Fallbacks(ch[k]) # {}
  PROVE  /\ CharIds(ch) \in Seq(Id) /\ FlattenSeq(Mapped(Speech, CharIds(ch))) = ch
         /\ \A k \in 1..Len(CharIds(ch)) : Speaks(CharIds(ch)[k])
<1>0. PlainText(ch) /\ Len(ch) \in Nat /\ DOMAIN ch = 1..Len(ch)
  BY CharIsPlain
<1>1. ch \in Seq(Nat) /\ ch \in Seq(Letter)
  <2>1. 0..255 \subseteq Letter /\ 0..255 \subseteq Nat
    BY DEF Letter
  <2> QED BY <2>1, SeqMonotonic
<1>9. Speech \in [Id -> Seq(Letter)]
  BY SaidTyped DEF VocabTyped
<1>2. CASE Known(ch)
  <2> DEFINE d == IdOf(ch)
             u == Mapped(Speech, <<d>>)
  <2>1. d \in Id /\ Bytes(d) = ch
    BY <1>2, IdOfKnown DEF VocabTyped
  <2>2. ~(RawByte(ch) < 256)
    BY <1>0, <1>1, PlainIsNotRaw DEF PlainText
  <2>3. Said(d) = ch
    BY <2>1, <2>2, Zenon DEF Said
  <2>4. CharIds(ch) = <<d>>
    BY <1>2 DEF CharIds
  <2>5. Speaks(d)
    BY <1>0, <2>1, Zenon DEF Speaks
  <2> HIDE DEF d
  <2>6. <<d>> \in Seq(Id) /\ Len(<<d>>) = 1 /\ <<d>>[1] = d
    BY <2>1, OneIs
  <2>7. MapsTo(Speech, Seq(Letter), <<d>>, u)
    BY <1>9, <2>6, MappedIs
  <2> HIDE DEF u
  <2>8. u = <<ch>>
    <3>1. u \in Seq(Seq(Letter)) /\ Len(u) = 1 /\ u[1] = Speech[d]
      BY <2>6, <2>7 DEF MapsTo
    <3>2. u[1] = ch
      BY <2>1, <2>3, <3>1 DEF Speech
    <3>3. PICK o \in Seq(Seq(Letter)) : o = <<ch>> /\ Len(o) = 1 /\ o[1] = ch
      BY <1>1, OneIs
    <3>4. u = o
      BY <3>1, <3>2, <3>3, SeqEqual
    <3> QED BY <3>3, <3>4
  <2>9. FlattenSeq(u) = ch
    BY <1>1, <2>8, FlattenOne
  <2> QED BY <2>4, <2>5, <2>6, <2>9 DEF u
<1>3. CASE ~Known(ch)
  <2> DEFINE f == [k \in DOMAIN ch |->
                     IF Fallbacks(ch[k]) = {} THEN << >> ELSE <<FallbackOf(ch[k])>>]
             s == [k \in DOMAIN ch |-> FallbackOf(ch[k])]
             u == Mapped(Speech, s)
  <2>1. \A k \in DOMAIN ch : Fallbacks(ch[k]) # {} /\ ch[k] \in 0..255
    BY <1>0, <1>3, ElementOfSeq
  <2>2. \A k \in DOMAIN ch : FallbackOf(ch[k]) \in Id /\ RawByte(Bytes(FallbackOf(ch[k]))) = ch[k]
    BY <2>1, FallbackKnown DEF VocabTyped
  <2>3. s \in Seq(Id) /\ Len(s) = Len(ch) /\ DOMAIN s = DOMAIN ch /\ \A k \in 1..Len(ch) : s[k] = FallbackOf(ch[k])
    <3>1. s \in [DOMAIN ch -> Id]
      BY <2>2
    <3>2. DOMAIN s = DOMAIN ch /\ \A k \in 1..Len(ch) : s[k] = FallbackOf(ch[k])
      BY <1>0
    <3> HIDE DEF s
    <3>3. s \in Seq(Id) /\ Len(s) = Len(ch)
      BY <3>1, MapSeq
    <3> QED BY <3>2, <3>3
  <2>4. f = Singles(s)
    BY <1>0, <2>1, <2>3 DEF Singles
  <2>5. FlattenSeq(f) = CharIds(ch)
    BY <1>3 DEF CharIds
  <2>6. CharIds(ch) = s
    BY <2>3, <2>4, <2>5, FlattenSingles
  <2> HIDE DEF s, f
  <2>7. ASSUME NEW k \in 1..Len(s) PROVE Speaks(s[k]) /\ Said(s[k]) = <<ch[k]>> /\ s[k] \in Id
    <3>0. k \in DOMAIN ch /\ k \in 1..Len(ch)
      BY <1>0, <2>3
    <3>3. ch[k] < 256
      <4>1. \A x \in 0..255 : x < 256
        OBVIOUS
      <4> QED BY <2>1, <3>0, <4>1, Zenon
    <3>1. RawByte(Bytes(s[k])) = ch[k] /\ ch[k] < 256 /\ s[k] \in Id
      BY <2>2, <2>3, <3>0, <3>3, Zenon
    <3>2. Said(s[k]) = <<RawByte(Bytes(s[k]))>>
      BY <3>1, Zenon DEF Said
    <3> QED BY <3>1, <3>2, Zenon DEF Speaks
  <2>8. MapsTo(Speech, Seq(Letter), s, u)
    BY <1>9, <2>3, MappedIs
  <2> HIDE DEF u
  <2>9. u = Singles(ch)
    <3>1. u \in Seq(Seq(Letter)) /\ Len(u) = Len(ch) /\ \A k \in 1..Len(ch) : u[k] = <<ch[k]>>
      BY <2>3, <2>7, <2>8 DEF MapsTo, Speech
    <3>2. Singles(ch) \in Seq(Seq(Letter)) /\ DOMAIN Singles(ch) = 1..Len(ch)
          /\ \A k \in 1..Len(ch) : Singles(ch)[k] = <<ch[k]>>
      <4>1. Singles(ch) \in Seq(Seq(Letter))
        BY <1>1, FlattenSingles
      <4> QED BY <1>0, <4>1 DEF Singles
    <3>3. PICK o \in Seq(Seq(Letter)) : o = Singles(ch) /\ Len(o) = Len(ch) /\ \A k \in 1..Len(ch) : o[k] = <<ch[k]>>
      BY <1>0, <3>2
    <3>5. Len(u) = Len(o) /\ \A k \in 1..Len(u) : u[k] = o[k]
      BY <3>1, <3>3, Zenon
    <3>6. u \in Seq(Seq(Letter))
      BY <3>1
    <3>4. u = o
      BY <3>3, <3>5, <3>6, SeqEqual
    <3> QED BY <3>3, <3>4, Zenon
  <2>10. FlattenSeq(u) = ch
    BY <1>1, <2>9, FlattenSingles
  <2> QED BY <2>3, <2>6, <2>7, <2>10 DEF u
<1> QED BY <1>2, <1>3

\* The characters of what spm cuts.
LEMMA NormalizedIs ==
  ASSUME IsText(text), Complete, model.kind = "spm"
  PROVE  /\ Normalized \in Seq(Seq(0..255)) /\ Len(Normalized) = Len(text) + 1
         /\ Len(text) \in Nat /\ DOMAIN text = 1..Len(text)
         /\ Normalized[1] = Mark
         /\ \A k \in 1..Len(text) : Normalized[k + 1] = IF text[k] = <<Space>> THEN Mark ELSE text[k]
         /\ \A k \in 1..Len(Normalized) :
              /\ IsChar(Normalized[k]) /\ Normalized[k] # << 60 >> /\ Normalized[k] \in Seq(0..255)
              /\ Known(Normalized[k]) \/ \A m \in DOMAIN Normalized[k] : Fallbacks(Normalized[k][m]) # {}
<1> DEFINE rest == [k \in DOMAIN text |-> IF text[k] = <<Space>> THEN Mark ELSE text[k]]
<1>1. Mark \in Seq(0..255) /\ IsChar(Mark) /\ Mark # << 60 >>
  <2>1. Mark \in Seq(0..255) /\ Mark \in Seq(128..255) /\ Len(Mark) = 3 /\ DOMAIN Mark = 1..3
    BY DEF Mark
  <2>2. Mark[1] = 226 /\ Mark[2] = 150 /\ Mark[3] = 129
    BY DEF Mark
  <2>3. \A k \in DOMAIN Mark : Mark[k] >= 192 <=> k = 1
    <3>1. \A k \in 1..3 : k = 1 \/ k = 2 \/ k = 3
      OBVIOUS
    <3> QED BY <2>1, <2>2, <3>1
  <2>4. Len(Mark) = IF Mark[1] < 224 THEN 2 ELSE IF Mark[1] < 240 THEN 3 ELSE 4
    BY <2>1, <2>2
  <2>5. Mark # << 60 >>
    <3>1. Len(<< 60 >>) = 1
      OBVIOUS
    <3>2. 3 # 1
      OBVIOUS
    <3> QED BY <2>1, <3>1, <3>2, Zenon
  <2> QED BY <2>1, <2>3, <2>4, <2>5 DEF IsChar
<1>2. text \in Seq(Seq(0..255)) /\ Len(text) \in Nat /\ DOMAIN text = 1..Len(text)
      /\ \A k \in 1..Len(text) : IsChar(text[k]) /\ text[k] \in Seq(0..255)
  <2>1. text \in Seq(Seq(0..255)) /\ Len(text) \in Nat /\ DOMAIN text = 1..Len(text)
    BY DEF IsText
  <2>2. \A k \in 1..Len(text) : IsChar(text[k])
    BY <2>1 DEF IsText
  <2> QED BY <2>1, <2>2, ElementOfSeq
<1>3. rest \in [DOMAIN text -> Seq(0..255)] /\ \A k \in 1..Len(text) : rest[k] = IF text[k] = <<Space>> THEN Mark ELSE text[k]
  BY <1>1, <1>2
<1>4. Normalized = <<Mark>> \o rest
  BY DEF Normalized
<1> HIDE DEF rest
<1>5. rest \in Seq(Seq(0..255)) /\ Len(rest) = Len(text)
  BY <1>2, <1>3, MapSeq, ZenonT(30)
<1>6. PICK o \in Seq(Seq(0..255)) : o = <<Mark>> /\ Len(o) = 1 /\ o[1] = Mark
  BY <1>1, OneIs
<1>7. /\ o \o rest \in Seq(Seq(0..255)) /\ Len(o \o rest) = 1 + Len(text)
      /\ \A k \in 1..1 + Len(text) : (o \o rest)[k] = IF k <= 1 THEN o[k] ELSE rest[k - 1]
  BY <1>5, <1>6, ConcatProperties
<1>8. Normalized = o \o rest
  BY <1>4, <1>6
<1>9. Normalized \in Seq(Seq(0..255)) /\ Len(Normalized) = Len(text) + 1
      /\ \A k \in 1..1 + Len(text) : Normalized[k] = IF k <= 1 THEN o[k] ELSE rest[k - 1]
  BY <1>2, <1>7, <1>8
<1>10. Normalized[1] = Mark
  <2>1. 1 \in 1..1 + Len(text) /\ 1 <= 1
    BY <1>2
  <2> QED BY <1>6, <1>9, <2>1
<1>11. ASSUME NEW k \in 1..Len(text) PROVE Normalized[k + 1] = IF text[k] = <<Space>> THEN Mark ELSE text[k]
  <2>1. PICK x \in 1..1 + Len(text) : x = k + 1 /\ ~(x <= 1) /\ x - 1 = k
    BY <1>2
  <2>2. Normalized[x] = rest[k]
    BY <1>9, <2>1, Zenon
  <2> QED BY <1>3, <2>1, <2>2, Zenon
<1>12. /\ \A k \in 1..Len(text) : text[k] # << 60 >> /\ (Known(text[k]) \/ \A m \in DOMAIN text[k] : Fallbacks(text[k][m]) # {})
       /\ Known(Mark) \/ \A m \in DOMAIN Mark : Fallbacks(Mark[m]) # {}
  BY <1>2, CompleteSpm
<1>13. ASSUME NEW k \in 1..Len(Normalized)
       PROVE  /\ IsChar(Normalized[k]) /\ Normalized[k] # << 60 >> /\ Normalized[k] \in Seq(0..255)
              /\ Known(Normalized[k]) \/ \A m \in DOMAIN Normalized[k] : Fallbacks(Normalized[k][m]) # {}
  <2>1. Normalized[k] = Mark \/ \E j \in 1..Len(text) : Normalized[k] = text[j]
    <3>1. CASE k = 1
      BY <1>10, <3>1
    <3>2. CASE k # 1
      <4>1. k - 1 \in 1..Len(text) /\ k - 1 + 1 = k
        BY <1>2, <1>9, <3>2
      <4>2. PICK j \in 1..Len(text) : k = j + 1
        BY <4>1
      <4> QED BY <1>11, <4>2
    <3> QED BY <3>1, <3>2
  <2> QED BY <1>1, <1>2, <1>12, <2>1, Zenon
<1> QED BY <1>2, <1>9, <1>10, <1>11, <1>13

\* ... and the ids of all of them what it is to say.
LEMMA SpmBody ==
  ASSUME VocabTyped, IsText(text), Complete, model.kind = "spm"
  PROVE  LET s == FlattenSeq([k \in DOMAIN Normalized |-> CharIds(Normalized[k])])
         IN  s \in Seq(Id) /\ FlattenSeq(Mapped(Speech, s)) = Wanted /\ \A k \in 1..Len(s) : Speaks(s[k])
<1> DEFINE N == Len(Normalized)
           f == [k \in DOMAIN Normalized |-> CharIds(Normalized[k])]
           s == FlattenSeq(f)
<1>0. N \in Nat /\ DOMAIN Normalized = 1..N /\ Normalized \in Seq(Seq(0..255))
  BY NormalizedIs
<1>1. \A k \in 1..N : /\ CharIds(Normalized[k]) \in Seq(Id)
                      /\ FlattenSeq(Mapped(Speech, CharIds(Normalized[k]))) = Normalized[k]
                      /\ \A j \in 1..Len(CharIds(Normalized[k])) : Speaks(CharIds(Normalized[k])[j])
  <2> TAKE k \in 1..N
  <2>1. PICK ch : ch = Normalized[k]
    OBVIOUS
  <2>2. ch \in Seq(0..255) /\ IsChar(ch) /\ ch # << 60 >> /\ (Known(ch) \/ \A m \in DOMAIN ch : Fallbacks(ch[m]) # {})
    BY <2>1, NormalizedIs, Zenon
  <2>3. /\ CharIds(ch) \in Seq(Id) /\ FlattenSeq(Mapped(Speech, CharIds(ch))) = ch
        /\ \A j \in 1..Len(CharIds(ch)) : Speaks(CharIds(ch)[j])
    BY <2>2, CharSays
  <2> QED BY <2>1, <2>3
<1>2. f \in Seq(Seq(Id)) /\ Len(f) = N /\ \A k \in 1..N : f[k] = CharIds(Normalized[k])
  <2>1. f \in [DOMAIN Normalized -> Seq(Id)] /\ \A k \in 1..N : f[k] = CharIds(Normalized[k])
    BY <1>0, <1>1
  <2> HIDE DEF f
  <2>2. f \in Seq(Seq(Id)) /\ Len(f) = Len(Normalized)
    BY <1>0, <2>1, MapSeq
  <2> QED BY <2>1, <2>2
<1> HIDE DEF f
<1>3. s \in Seq(Id)
  BY <1>2, FlattenType
<1>4. FlattenSeq(Mapped(Speech, s)) = FlattenSeq(Normalized)
  <2>1. Normalized \in Seq(Seq(Letter))
    <3>1. 0..255 \subseteq Letter
      BY DEF Letter
    <3>2. Seq(0..255) \subseteq Seq(Letter)
      BY <3>1, SeqMonotonic
    <3> QED BY <1>0, <3>2, SeqMonotonic
  <2>2. Speech \in [Id -> Seq(Letter)]
    BY SaidTyped DEF VocabTyped
  <2>3. \A k \in 1..Len(f) : FlattenSeq(Mapped(Speech, f[k])) = Normalized[k]
    BY <1>1, <1>2
  <2> QED BY <1>2, <2>1, <2>2, <2>3, FlattenNested
<1>5. ASSUME NEW k \in 1..Len(s) PROVE Speaks(s[k])
  <2>1. PICK n \in 1..Len(f) : k - StartOf(f, n) \in 1..Len(f[n]) /\ s[k] = f[n][k - StartOf(f, n)]
    BY <1>2, FlattenFrom
  <2>2. PICK j \in 1..Len(f[n]) : s[k] = f[n][j]
    BY <2>1
  <2> QED BY <1>1, <1>2, <2>2
<1> QED BY <1>3, <1>4, <1>5 DEF Wanted, f

\* Characters, and where their marks are in the bytes.
AreChars(s) == s \in Seq(Seq(0..255)) /\ \A n \in 1..Len(s) : IsChar(s[n])

\* No element of an ASCII sequence is the lead byte of a space mark.
LEMMA AsciiOnly ==
  ASSUME NEW d \in Seq(0..127), NEW x \in 1..Len(d)
  PROVE  d[x] # 226
<1>1. d[x] \in 0..127
  BY ElementOfSeq
<1>2. \A v \in 0..127 : v # 226
  OBVIOUS
<1> QED BY <1>1, <1>2, Zenon

\* A first byte of three is that of a character of three bytes.
LEMMA LeadByte ==
  ASSUME NEW c, c \in Seq(0..255), IsChar(c), NEW x \in 1..Len(c), c[x] = 226
  PROVE  x = 1 /\ Len(c) = 3
<1>0. Len(c) \in Nat /\ DOMAIN c = 1..Len(c) /\ x \in DOMAIN c
  OBVIOUS
<1>1. CASE c \in Seq(0..127) /\ Len(c) = 1
  <2>1. c \in Seq(0..127)
    BY <1>1
  <2>2. PICK d \in Seq(0..127) : d = c
    BY <2>1
  <2>3. x \in 1..Len(d) /\ d[x] = 226
    BY <2>2, Zenon
  <2>4. d[x] # 226
    BY <2>3, AsciiOnly
  <2> QED BY <2>3, <2>4
<1>2. CASE /\ c \in Seq(128..255) /\ \A k \in DOMAIN c : c[k] >= 192 <=> k = 1
           /\ Len(c) = IF c[1] < 224 THEN 2 ELSE IF c[1] < 240 THEN 3 ELSE 4
  <2>1. c[x] >= 192
    OBVIOUS
  <2>2. c[x] >= 192 <=> x = 1
    BY <1>0, <1>2, Zenon
  <2>3. x = 1
    BY <2>1, <2>2
  <2>4. c[1] = 226
    BY <2>3
  <2>5. Len(c) = 3
    <3>1. Len(c) = IF c[1] < 224 THEN 2 ELSE IF c[1] < 240 THEN 3 ELSE 4
      BY <1>2
    <3>2. ~(c[1] < 224) /\ c[1] < 240
      BY <2>4
    <3> QED BY <3>1, <3>2
  <2> QED BY <2>3, <2>5
<1> QED BY <1>1, <1>2, Zenon DEF IsChar

\* Three elements of a sequence.
LEMMA ThreeOf ==
  ASSUME NEW S, NEW s \in Seq(S), NEW j \in Nat \ {0}, j + 2 <= Len(s)
  PROVE  LET t == SubSeq(s, j, j + 2)
         IN  t \in Seq(S) /\ Len(t) = 3 /\ t[1] = s[j] /\ t[2] = s[j + 1] /\ t[3] = s[j + 2]
<1> DEFINE t == SubSeq(s, j, j + 2)
<1>0. Len(s) \in Nat
  OBVIOUS
<1>1. \A x \in j..j + 2 : s[x] \in S
  <2>1. \A x \in j..j + 2 : x \in 1..Len(s)
    BY <1>0
  <2> QED BY <2>1, ElementOfSeq
<1>2. PICK e \in Int : e = j + 2
  OBVIOUS
<1>3. /\ SubSeq(s, j, e) \in Seq(S)
      /\ Len(SubSeq(s, j, e)) = IF j <= e THEN e - j + 1 ELSE 0
      /\ \A x \in 1..e - j + 1 : SubSeq(s, j, e)[x] = s[j + x - 1]
  BY <1>1, <1>2, SubSeqProperties
<1>4. j <= e /\ e - j + 1 = 3 /\ 1 \in 1..3 /\ 2 \in 1..3 /\ 3 \in 1..3 /\ j + 1 - 1 = j /\ j + 2 - 1 = j + 1
      /\ j + 3 - 1 = j + 2
  BY <1>2
<1>5. t \in Seq(S) /\ Len(t) = 3
  BY <1>2, <1>3, <1>4
<1>6. \A x \in 1..3 : t[x] = s[j + x - 1]
  BY <1>2, <1>3, <1>4
<1> HIDE DEF t
<1>7. t[1] = s[j] /\ t[2] = s[j + 1] /\ t[3] = s[j + 2]
  <2>1. t[1] = s[j + 1 - 1] /\ t[2] = s[j + 2 - 1] /\ t[3] = s[j + 3 - 1]
    BY <1>4, <1>6
  <2> QED BY <1>4, <2>1
<1> QED BY <1>5, <1>7 DEF t

\* The mark itself.
LEMMA MarkIs == Mark \in Seq(0..255) /\ Len(Mark) = 3 /\ Mark[1] = 226 /\ Mark[2] = 150 /\ Mark[3] = 129
BY DEF Mark

\* What has the bytes of the mark is the mark.
LEMMA MarkBytes ==
  ASSUME NEW t \in Seq(0..255), Len(t) = 3, t[1] = 226, t[2] = 150, t[3] = 129
  PROVE  t = Mark
<1> DEFINE w == Mark
<1>1. w \in Seq(0..255) /\ Len(w) = 3 /\ w[1] = 226 /\ w[2] = 150 /\ w[3] = 129
  BY MarkIs
<1> HIDE DEF w
<1>2. Len(t) = Len(w) /\ \A x \in 1..Len(t) : t[x] = w[x]
  BY <1>1
<1>3. t = w
  BY <1>1, <1>2, SeqEqual
<1> QED BY <1>3 DEF w

\* A mark in the bytes is a mark among the characters.
LEMMA MarksAt ==
  ASSUME NEW s, AreChars(s), NEW j \in Int
  PROVE  IsMark(FlattenSeq(s), j) <=> \E n \in 1..Len(s) : s[n] = Mark /\ j = StartOf(s, n) + 1
<1> DEFINE u == FlattenSeq(s)
<1>0. s \in Seq(Seq(0..255)) /\ u \in Seq(0..255) /\ Len(u) \in Nat
  <2>1. s \in Seq(Seq(0..255))
    BY DEF AreChars
  <2> HIDE DEF u
  <2>2. u \in Seq(0..255)
    BY <2>1, FlattenType DEF u
  <2> QED BY <2>1, <2>2
<1>1. ASSUME IsMark(u, j) PROVE \E n \in 1..Len(s) : s[n] = Mark /\ j = StartOf(s, n) + 1
  <2> HIDE DEF u
  <2>1. j \in Nat \ {0} /\ j + 2 <= Len(u) /\ SubSeq(u, j, j + 2) = Mark
    BY <1>1 DEF IsMark
  <2>2. u[j] = 226 /\ u[j + 1] = 150 /\ u[j + 2] = 129
    BY <1>0, <2>1, ThreeOf, MarkIs
  <2>3. j \in 1..Len(u)
    BY <1>0, <2>1
  <2>4. PICK n \in 1..Len(s) : j - StartOf(s, n) \in 1..Len(s[n]) /\ u[j] = s[n][j - StartOf(s, n)]
    BY <1>0, <2>3, FlattenFrom DEF u
  <2>5. IsChar(s[n]) /\ s[n] \in Seq(0..255)
    BY <1>0, <2>4, ElementOfSeq DEF AreChars
  <2>6. j - StartOf(s, n) = 1 /\ Len(s[n]) = 3
    <3>1. PICK x : x = j - StartOf(s, n)
      OBVIOUS
    <3>2. x \in 1..Len(s[n]) /\ s[n][x] = 226
      BY <2>2, <2>4, <3>1
    <3> QED BY <2>5, <3>1, <3>2, LeadByte, Zenon
  <2>7. StartOf(s, n) \in Nat /\ \A x \in 1..Len(s[n]) : u[StartOf(s, n) + x] = s[n][x]
    BY <1>0, <2>4, FlattenAt DEF u
  <2>8. j = StartOf(s, n) + 1
    BY <2>6, <2>7
  <2>9. PICK c : c = s[n]
    OBVIOUS
  <2>10. PICK a0 \in Nat : a0 = StartOf(s, n)
    BY <2>7
  <2>11. c \in Seq(0..255) /\ Len(c) = 3 /\ \A x \in 1..3 : u[a0 + x] = c[x]
    BY <2>5, <2>6, <2>7, <2>9, <2>10
  <2>12. u[a0 + 1] = 226 /\ u[a0 + 2] = 150 /\ u[a0 + 3] = 129
    BY <2>2, <2>8, <2>10
  <2>13. c[1] = 226 /\ c[2] = 150 /\ c[3] = 129
    BY <2>11, <2>12
  <2>14. c = Mark
    BY <2>11, <2>13, MarkBytes
  <2> QED BY <2>4, <2>8, <2>9, <2>14
<1>2. ASSUME NEW n \in 1..Len(s), s[n] = Mark, j = StartOf(s, n) + 1 PROVE IsMark(u, j)
  <2>1. /\ StartOf(s, n) \in Nat /\ StartOf(s, n + 1) = StartOf(s, n) + Len(s[n])
        /\ StartOf(s, n + 1) <= Len(u)
        /\ \A x \in 1..Len(s[n]) : u[StartOf(s, n) + x] = s[n][x]
    BY <1>0, FlattenAt
  <2> HIDE DEF u
  <2>2. PICK a0 \in Nat : a0 = StartOf(s, n)
    BY <2>1
  <2>3. PICK c : c = s[n]
    OBVIOUS
  <2>4. Len(c) = 3 /\ c[1] = 226 /\ c[2] = 150 /\ c[3] = 129
    BY <1>2, <2>3, MarkIs
  <2>5. a0 + 3 <= Len(u) /\ \A x \in 1..3 : u[a0 + x] = c[x]
    <3>1. StartOf(s, n + 1) = a0 + 3 /\ StartOf(s, n + 1) <= Len(u)
      BY <2>1, <2>2, <2>3, <2>4
    <3>2. 1..Len(s[n]) = 1..3
      BY <2>3, <2>4
    <3> QED BY <2>1, <2>2, <2>3, <3>1, <3>2
  <2>6. j = a0 + 1
    BY <1>2, <2>2
  <2>7. j \in Nat \ {0} /\ j + 2 <= Len(u) /\ j > 0
    BY <1>0, <2>5, <2>6
  <2>8. u[j] = 226 /\ u[j + 1] = 150 /\ u[j + 2] = 129
    BY <2>4, <2>5, <2>6
  <2>9. SubSeq(u, j, j + 2) = Mark
    <3> DEFINE t == SubSeq(u, j, j + 2)
    <3>1. t \in Seq(0..255) /\ Len(t) = 3 /\ t[1] = u[j] /\ t[2] = u[j + 1] /\ t[3] = u[j + 2]
      BY <1>0, <2>7, ThreeOf
    <3> HIDE DEF t
    <3>2. t[1] = 226 /\ t[2] = 150 /\ t[3] = 129
      BY <2>8, <3>1
    <3>3. t = Mark
      BY <3>1, <3>2, MarkBytes
    <3> QED BY <3>3 DEF t
  <2> QED BY <2>7, <2>9 DEF IsMark
<1> QED BY <1>1, <1>2

\* What unmarking makes of the byte x of character n.
UnmarkedByte(u, k) ==
  IF IsMark(u, k) THEN <<Space>>
  ELSE IF IsMark(u, k - 1) \/ IsMark(u, k - 2) THEN << >> ELSE <<u[k]>>

\* A space for the first byte of a mark, nothing for its others, and any other byte itself.
LEMMA UnmarkedAt ==
  ASSUME NEW s, AreChars(s), NEW n \in 1..Len(s), NEW x \in 1..Len(s[n])
  PROVE  LET k == StartOf(s, n) + x
         IN  /\ k \in 1..Len(FlattenSeq(s))
             /\ UnmarkedByte(FlattenSeq(s), k) =
                  IF s[n] = Mark THEN (IF x = 1 THEN <<Space>> ELSE << >>) ELSE <<s[n][x]>>
<1> DEFINE u == FlattenSeq(s)
           k == StartOf(s, n) + x
<1>0. s \in Seq(Seq(0..255)) /\ x \in Nat
  BY DEF AreChars
<1>1. /\ StartOf(s, n) \in Nat /\ Len(s[n]) \in Nat /\ StartOf(s, n + 1) = StartOf(s, n) + Len(s[n])
      /\ StartOf(s, n + 1) <= Len(u)
      /\ \A y \in 1..Len(s[n]) : u[StartOf(s, n) + y] = s[n][y]
  BY <1>0, FlattenAt
<1>2. Len(u) \in Nat
  <2>1. u \in Seq(0..255)
    BY <1>0, FlattenType
  <2> QED BY <2>1
<1> HIDE DEF u
<1>3. k \in 1..Len(u) /\ k \in Int /\ k - 1 \in Int /\ k - 2 \in Int /\ u[k] = s[n][x]
  <2>1. u[k] = s[n][x]
    BY <1>1, Zenon
  <2>2. PICK start \in Nat, size \in Nat, all \in Nat :
          start = StartOf(s, n) /\ size = Len(s[n]) /\ all = Len(u)
    BY <1>1, <1>2
  <2>3. start + size <= all /\ x \in 1..size
    BY <1>1, <2>2
  <2>4. PICK k0 \in 1..all : k0 = start + x
    BY <2>3
  <2>5. k0 \in Int /\ k0 - 1 \in Int /\ k0 - 2 \in Int
    BY <2>2, <2>4
  <2>6. k0 = k
    BY <2>2, <2>4, Zenon
  <2>7. k0 \in 1..Len(u)
    BY <2>2, <2>4, Zenon
  <2> HIDE DEF k
  <2> QED BY <2>1, <2>5, <2>6, <2>7, Zenon
<1>4. ASSUME NEW d \in 1..3, NEW m \in 1..Len(s), s[m] = Mark, k = StartOf(s, m) + d
      PROVE  s[n] = Mark /\ x = d
  <2>1. d \in 1..Len(s[m]) /\ StartOf(s, n) + x = StartOf(s, m) + d
    BY <1>4, MarkIs
  <2>2. n = m /\ x = d
    BY <1>0, <2>1, SamePart
  <2> QED BY <1>4, <2>2
<1>5. \A m \in 1..Len(s) : StartOf(s, m) \in Nat
  BY <1>0, FlattenAt
<1>6. IsMark(u, k) <=> s[n] = Mark /\ x = 1
  <2>1. IsMark(u, k) <=> \E m \in 1..Len(s) : s[m] = Mark /\ k = StartOf(s, m) + 1
    BY <1>3, MarksAt DEF u
  <2>2. 1 \in 1..3
    OBVIOUS
  <2> QED BY <1>4, <2>1, <2>2
<1>7. IsMark(u, k - 1) <=> s[n] = Mark /\ x = 2
  <2>1. IsMark(u, k - 1) <=> \E m \in 1..Len(s) : s[m] = Mark /\ k - 1 = StartOf(s, m) + 1
    BY <1>3, MarksAt DEF u
  <2>2. 2 \in 1..3
    OBVIOUS
  <2>3. ASSUME NEW m \in 1..Len(s) PROVE k - 1 = StartOf(s, m) + 1 <=> k = StartOf(s, m) + 2
    <3>1. PICK b0 \in Nat : b0 = StartOf(s, m)
      BY <1>5
    <3>2. PICK k0 \in Int : k0 = k
      BY <1>3
    <3>3. k0 - 1 = b0 + 1 <=> k0 = b0 + 2
      OBVIOUS
    <3> QED BY <3>1, <3>2, <3>3, Zenon
  <2> HIDE DEF k
  <2>4. IsMark(u, k - 1) <=> \E m \in 1..Len(s) : s[m] = Mark /\ k = StartOf(s, m) + 2
    BY <2>1, <2>3, Zenon
  <2> QED BY <1>4, <2>2, <2>4 DEF k
<1>8. IsMark(u, k - 2) <=> s[n] = Mark /\ x = 3
  <2>1. IsMark(u, k - 2) <=> \E m \in 1..Len(s) : s[m] = Mark /\ k - 2 = StartOf(s, m) + 1
    BY <1>3, MarksAt DEF u
  <2>2. 3 \in 1..3
    OBVIOUS
  <2>3. ASSUME NEW m \in 1..Len(s) PROVE k - 2 = StartOf(s, m) + 1 <=> k = StartOf(s, m) + 3
    <3>1. PICK b0 \in Nat : b0 = StartOf(s, m)
      BY <1>5
    <3>2. PICK k0 \in Int : k0 = k
      BY <1>3
    <3>3. k0 - 2 = b0 + 1 <=> k0 = b0 + 3
      OBVIOUS
    <3> QED BY <3>1, <3>2, <3>3, Zenon
  <2> HIDE DEF k
  <2>4. IsMark(u, k - 2) <=> \E m \in 1..Len(s) : s[m] = Mark /\ k = StartOf(s, m) + 3
    BY <2>1, <2>3, Zenon
  <2> QED BY <1>4, <2>2, <2>4 DEF k
<1>9. s[n] = Mark => x = 1 \/ x = 2 \/ x = 3
  <2>1. 1..3 = {1, 2, 3}
    OBVIOUS
  <2>2. s[n] = Mark => x \in 1..3
    BY MarkIs, Zenon
  <2> QED BY <2>1, <2>2
<1>10. 1 # 2 /\ 1 # 3
  OBVIOUS
<1>11. UnmarkedByte(u, k) = IF s[n] = Mark THEN (IF x = 1 THEN <<Space>> ELSE << >>) ELSE <<s[n][x]>>
  <2>1. CASE s[n] = Mark /\ x = 1
    BY <1>6, <2>1, Zenon DEF UnmarkedByte
  <2>2. CASE s[n] = Mark /\ x # 1
    BY <1>6, <1>7, <1>8, <1>9, <2>2, Zenon DEF UnmarkedByte
  <2>3. CASE s[n] # Mark
    BY <1>3, <1>6, <1>7, <1>8, <2>3, Zenon DEF UnmarkedByte
  <2> QED BY <2>1, <2>2, <2>3
<1> QED BY <1>3, <1>11 DEF u

\* A prefix and the elements behind it.
LEMMA PrefixPlus ==
  ASSUME NEW S, NEW h \in Seq(S), NEW a0 \in 0..Len(h), NEW p \in Seq(S), a0 + Len(p) <= Len(h),
         \A x \in 1..Len(p) : p[x] = h[a0 + x]
  PROVE  SubSeq(h, 1, a0 + Len(p)) = SubSeq(h, 1, a0) \o p
<1>0. Len(h) \in Nat /\ Len(p) \in Nat /\ a0 \in Nat
  OBVIOUS
<1>1. PICK e \in 0..Len(h) : e = a0 + Len(p)
  BY <1>0
<1> DEFINE q == SubSeq(h, 1, e)
           r == SubSeq(h, 1, a0)
           c == r \o p
<1>2. q \in Seq(S) /\ Len(q) = e /\ \A x \in 1..e : q[x] = h[x]
  BY PrefixFacts
<1>3. r \in Seq(S) /\ Len(r) = a0 /\ \A x \in 1..a0 : r[x] = h[x]
  BY PrefixFacts
<1> HIDE DEF q, r
<1>4. c \in Seq(S) /\ Len(c) = a0 + Len(p)
      /\ \A x \in 1..a0 + Len(p) : c[x] = IF x <= a0 THEN r[x] ELSE p[x - a0]
  BY <1>3, ConcatProperties
<1> HIDE DEF c
<1>5. ASSUME NEW x \in 1..Len(q) PROVE q[x] = c[x]
  <2>0. x \in 1..e /\ x \in 1..a0 + Len(p) /\ x \in Nat
    BY <1>0, <1>1, <1>2
  <2>1. CASE x <= a0
    <3>1. x \in 1..a0
      BY <1>0, <2>0, <2>1
    <3> QED BY <1>2, <1>3, <1>4, <2>0, <2>1, <3>1
  <2>2. CASE ~(x <= a0)
    <3>1. PICK y \in 1..Len(p) : y = x - a0 /\ a0 + y = x
      BY <1>0, <2>0, <2>2
    <3>2. c[x] = p[y]
      BY <1>4, <2>0, <2>2, <3>1
    <3>3. p[y] = h[x]
      BY <3>1
    <3> QED BY <1>2, <2>0, <3>2, <3>3
  <2> QED BY <2>1, <2>2
<1>6. q = c
  BY <1>1, <1>2, <1>4, <1>5, SeqEqual
<1> QED BY <1>1, <1>6 DEF q, c, r

\* spm: unmarking the bytes unmarks the characters.
Spaced(s) == [n \in DOMAIN s |-> IF s[n] = Mark THEN <<Space>> ELSE s[n]]

\* A sequence and two empty ones.
AppendIs(S, o, e, p) ==
  /\ p \in Seq(S) /\ Len(p) = Len(o) + 1 /\ p[Len(o) + 1] = e
  /\ \A x \in 1..Len(o) : p[x] = o[x]
\* An appended element comes last.
LEMMA AppendAs ==
  ASSUME NEW S, NEW o \in Seq(S), NEW e \in S
  PROVE  AppendIs(S, o, e, Append(o, e))
<1> DEFINE p == Append(o, e)
<1>1. p \in Seq(S) /\ Len(p) = Len(o) + 1 /\ p[Len(o) + 1] = e
  BY AppendProperties
<1>2. \A x \in 1..Len(o) : p[x] = o[x]
  BY AppendProperties
<1> HIDE DEF p
<1>3. AppendIs(S, o, e, p)
  BY <1>1, <1>2 DEF AppendIs
<1> QED BY <1>3 DEF p

\* A sequence and two empty ones flatten to it.
LEMMA FlattenMark ==
  ASSUME NEW S, NEW sp \in Seq(S)
  PROVE  \E o3 \in Seq(Seq(S)) :
           Len(o3) = 3 /\ o3[1] = sp /\ o3[2] = << >> /\ o3[3] = << >> /\ FlattenSeq(o3) = sp
<1>1. PICK SS : SS = Seq(S)
  OBVIOUS
<1>2. PICK e \in SS : e = << >>
  <2>1. << >> \in Seq(S)
    OBVIOUS
  <2> QED BY <1>1, <2>1, Zenon
<1>3. PICK o1 : o1 = <<sp>>
  OBVIOUS
<1>4. o1 \in Seq(SS) /\ Len(o1) = 1 /\ o1[1] = sp
  BY <1>1, <1>3, OneIs, Zenon
<1>5. PICK o2 : o2 = Append(o1, e)
  OBVIOUS
<1>6. PICK o3 : o3 = Append(o2, e)
  OBVIOUS
<1>7. /\ o2 \in Seq(SS) /\ o3 \in Seq(SS)
      /\ Len(o3) = 3 /\ o3[1] = sp /\ o3[2] = e /\ o3[3] = e
  <2>1. AppendIs(SS, o1, e, o2)
    BY <1>4, <1>5, AppendAs, Zenon
  <2>2. o2 \in Seq(SS)
    BY <2>1 DEF AppendIs
  <2>3. AppendIs(SS, o2, e, o3)
    BY <1>6, <2>2, AppendAs, Zenon
  <2>4. Len(o2) = 2 /\ o2[1] = sp /\ o2[2] = e
    BY <1>4, <2>1 DEF AppendIs
  <2> QED BY <2>2, <2>3, <2>4 DEF AppendIs
<1>8. sp \o << >> = sp
  BY ConcatEmptySeq
<1>9. FlattenSeq(o1) = sp
  BY <1>3, FlattenOne, Zenon
<1>10. FlattenSeq(o2) = sp
  <2>1. FlattenSeq(o2) = FlattenSeq(o1) \o e
    BY <1>1, <1>4, <1>5, FlattenAppend, Zenon
  <2> QED BY <1>2, <1>8, <1>9, <2>1, Zenon
<1>11. FlattenSeq(o3) = sp
  <2>1. FlattenSeq(o3) = FlattenSeq(o2) \o e
    BY <1>1, <1>6, <1>7, FlattenAppend, Zenon
  <2> QED BY <1>2, <1>8, <1>10, <2>1, Zenon
<1> QED BY <1>1, <1>2, <1>7, <1>11, Zenon

\* The bytes of one character, unmarked one by one, are the character with a space for a mark.
LEMMA PieceUnmarked ==
  ASSUME NEW s, AreChars(s), NEW n \in 1..Len(s)
  PROVE  \E p \in Seq(Seq(0..255)) :
           /\ Len(p) = Len(s[n]) /\ \A x \in 1..Len(p) : p[x] = UnmarkedByte(FlattenSeq(s), StartOf(s, n) + x)
           /\ FlattenSeq(p) = IF s[n] = Mark THEN <<Space>> ELSE s[n]
<1>0. s[n] \in Seq(0..255) /\ Len(s[n]) \in Nat /\ DOMAIN s[n] = 1..Len(s[n])
  <2>1. s[n] \in Seq(0..255)
    BY ElementOfSeq DEF AreChars
  <2> QED BY <2>1
<1>1. \A x \in 1..Len(s[n]) : UnmarkedByte(FlattenSeq(s), StartOf(s, n) + x) =
         IF s[n] = Mark THEN (IF x = 1 THEN <<Space>> ELSE << >>) ELSE <<s[n][x]>>
  BY UnmarkedAt
<1>2. CASE s[n] = Mark
  <2>1. <<Space>> \in Seq(0..255)
    <3>1. Space \in 0..255
      BY DEF Space
    <3> QED BY <3>1, OneIs, Zenon
  <2>2. PICK sp \in Seq(0..255) : sp = <<Space>>
    BY <2>1, Zenon
  <2>6. PICK o3 \in Seq(Seq(0..255)) :
           Len(o3) = 3 /\ o3[1] = sp /\ o3[2] = << >> /\ o3[3] = << >> /\ FlattenSeq(o3) = sp
    BY FlattenMark
  <2>10. Len(s[n]) = 3
    BY <1>2, MarkIs
  <2>11. \A x \in 1..3 : x = 1 \/ (x = 2 /\ 2 # 1) \/ (x = 3 /\ 3 # 1)
    OBVIOUS
  <2>12. \A x \in 1..Len(o3) : o3[x] = UnmarkedByte(FlattenSeq(s), StartOf(s, n) + x)
    BY <1>1, <1>2, <2>2, <2>6, <2>10, <2>11, Zenon
  <2> QED BY <1>2, <2>2, <2>6, <2>10, <2>12
<1>3. CASE s[n] # Mark
  <2> DEFINE p == Singles(s[n])
  <2>1. p \in Seq(Seq(0..255)) /\ FlattenSeq(p) = s[n]
    BY <1>0, FlattenSingles
  <2>2. DOMAIN p = 1..Len(s[n]) /\ \A x \in 1..Len(s[n]) : p[x] = <<s[n][x]>>
    BY <1>0 DEF Singles
  <2> HIDE DEF p
  <2>3. Len(p) = Len(s[n])
    BY <1>0, <2>1, <2>2
  <2>4. \A x \in 1..Len(p) : p[x] = UnmarkedByte(FlattenSeq(s), StartOf(s, n) + x)
    BY <1>1, <1>3, <2>2, <2>3, Zenon
  <2> QED BY <1>3, <2>1, <2>3, <2>4
<1> QED BY <1>2, <1>3

\* So unmarking the bytes of a text puts a space for every mark among its characters.
LEMMA UnmarkedIs ==
  ASSUME NEW s, AreChars(s)
  PROVE  Spaced(s) \in Seq(Seq(0..255)) /\ Unmarked(FlattenSeq(s)) = FlattenSeq(Spaced(s))
<1> DEFINE u == FlattenSeq(s)
           g == Spaced(s)
           h == [k \in DOMAIN u |-> UnmarkedByte(u, k)]
           N == Len(s)
           T == {n \in 0..N : FlattenSeq(SubSeq(h, 1, StartOf(s, n + 1))) = FlattenSeq(SubSeq(g, 1, n))}
<1>0. s \in Seq(Seq(0..255)) /\ N \in Nat /\ DOMAIN s = 1..N
  BY DEF AreChars
<1>1. u \in Seq(0..255) /\ Len(u) \in Nat /\ DOMAIN u = 1..Len(u)
  <2>1. u \in Seq(0..255)
    BY <1>0, FlattenType
  <2> QED BY <2>1
<1>2. Unmarked(u) = FlattenSeq(h)
  BY DEF Unmarked, UnmarkedByte
<1>3. /\ g \in Seq(Seq(0..255)) /\ Len(g) = N
      /\ \A n \in 1..N : g[n] = IF s[n] = Mark THEN <<Space>> ELSE s[n]
  <2>1. <<Space>> \in Seq(0..255)
    BY DEF Space
  <2>2. \A n \in DOMAIN s : s[n] \in Seq(0..255)
    BY <1>0, ElementOfSeq
  <2>3. g \in [DOMAIN s -> Seq(0..255)] /\ \A n \in 1..N : g[n] = IF s[n] = Mark THEN <<Space>> ELSE s[n]
    BY <1>0, <2>1, <2>2 DEF Spaced
  <2> HIDE DEF g
  <2>4. g \in Seq(Seq(0..255)) /\ Len(g) = Len(s)
    BY <1>0, <2>3, MapSeq
  <2> QED BY <2>3, <2>4
<1>4. h \in Seq(Seq(0..255)) /\ Len(h) = Len(u) /\ \A k \in 1..Len(u) : h[k] = UnmarkedByte(u, k)
  <2>1. \A k \in DOMAIN u : UnmarkedByte(u, k) \in Seq(0..255)
    <3>1. <<Space>> \in Seq(0..255) /\ << >> \in Seq(0..255)
      BY DEF Space
    <3>2. \A k \in DOMAIN u : u[k] \in 0..255
      BY <1>1, ElementOfSeq
    <3> HIDE DEF u
    <3>3. \A k \in DOMAIN u : <<u[k]>> \in Seq(0..255)
      BY <3>2
    <3> QED BY <3>1, <3>3, Zenon DEF UnmarkedByte
  <2>2. h \in [DOMAIN u -> Seq(0..255)] /\ \A k \in 1..Len(u) : h[k] = UnmarkedByte(u, k)
    BY <1>1, <2>1
  <2> HIDE DEF h, u
  <2>3. h \in Seq(Seq(0..255)) /\ Len(h) = Len(u)
    BY <1>1, <2>2, MapSeq
  <2> QED BY <2>2, <2>3
<1>5. StartOf(s, 1) = 0 /\ StartOf(s, N + 1) = Len(u)
  <2>1. SubSeq(s, 1, 0) = << >> /\ SubSeq(s, 1, N) = s /\ 1 - 1 = 0 /\ N + 1 - 1 = N /\ Len(<< >>) = 0
    BY <1>0, WholePrefix
  <2>2. StartOf(s, 1) = Len(FlattenSeq(SubSeq(s, 1, 1 - 1)))
    BY DEF StartOf
  <2>3. StartOf(s, N + 1) = Len(FlattenSeq(SubSeq(s, 1, N + 1 - 1)))
    BY DEF StartOf
  <2> QED BY <2>1, <2>2, <2>3, FlattenEmpty, Zenon
<1>6. 0 \in T
  <2>1. 0 + 1 = 1 /\ SubSeq(h, 1, 0) = << >> /\ SubSeq(g, 1, 0) = << >>
    <3> HIDE DEF h, g
    <3>1. SubSeq(h, 1, 0) = << >> /\ SubSeq(g, 1, 0) = << >>
      BY <1>3, <1>4, WholePrefix
    <3> QED BY <3>1
  <2>2. FlattenSeq(SubSeq(h, 1, StartOf(s, 0 + 1))) = FlattenSeq(SubSeq(g, 1, 0))
    BY <1>5, <2>1, Zenon
  <2> QED BY <1>0, <2>2
<1>7. ASSUME NEW n \in 0..N - 1, n \in T PROVE n + 1 \in T
  <2>0. n + 1 \in 1..N /\ n + 1 \in 0..N /\ n \in 0..N
    BY <1>0
  <2>1. PICK m \in 1..N : m = n + 1
    BY <2>0
  <2>2. PICK p \in Seq(Seq(0..255)) :
           /\ Len(p) = Len(s[m]) /\ \A x \in 1..Len(p) : p[x] = UnmarkedByte(u, StartOf(s, m) + x)
           /\ FlattenSeq(p) = IF s[m] = Mark THEN <<Space>> ELSE s[m]
    BY PieceUnmarked
  <2>3. /\ StartOf(s, m) \in Nat /\ Len(s[m]) \in Nat /\ StartOf(s, m + 1) = StartOf(s, m) + Len(s[m])
        /\ StartOf(s, m + 1) <= Len(u)
    BY <1>0, FlattenAt
  <2>4. FlattenSeq(SubSeq(h, 1, StartOf(s, m))) = FlattenSeq(SubSeq(g, 1, n))
    BY <1>7, <2>1
  <2> HIDE DEF h, g, u, T
  <2>5. SubSeq(h, 1, StartOf(s, m + 1)) = SubSeq(h, 1, StartOf(s, m)) \o p
    <3>1. \A x \in 1..Len(p) : StartOf(s, m) + x \in 1..Len(u)
      BY <1>1, <2>2, <2>3
    <3>2. \A x \in 1..Len(p) : p[x] = h[StartOf(s, m) + x]
      BY <1>4, <2>2, <3>1
    <3>3. PICK a0 \in 0..Len(h) : a0 = StartOf(s, m) /\ a0 + Len(p) <= Len(h) /\ a0 + Len(p) = StartOf(s, m + 1)
      BY <1>1, <1>4, <2>2, <2>3
    <3>4. SubSeq(h, 1, a0 + Len(p)) = SubSeq(h, 1, a0) \o p
      <4>1. \A x \in 1..Len(p) : p[x] = h[a0 + x]
        BY <3>2, <3>3
      <4> QED BY <1>4, <3>3, <4>1, PrefixPlus
    <3> QED BY <3>3, <3>4
  <2>6. SubSeq(h, 1, StartOf(s, m)) \in Seq(Seq(0..255))
    <3>1. StartOf(s, m) \in 0..Len(h)
      BY <1>1, <1>4, <2>3
    <3> QED BY <1>4, <3>1, PrefixFacts
  <2>7. FlattenSeq(SubSeq(h, 1, StartOf(s, m + 1))) = FlattenSeq(SubSeq(h, 1, StartOf(s, m))) \o FlattenSeq(p)
    BY <2>5, <2>6, FlattenConcat
  <2>8. Append(SubSeq(g, 1, n), g[m]) = SubSeq(g, 1, m)
    <3>1. n \in 0..Len(g) - 1
      BY <1>0, <1>3
    <3> QED BY <1>3, <2>1, <3>1, PrefixExtended
  <2>9. SubSeq(g, 1, n) \in Seq(Seq(0..255)) /\ g[m] \in Seq(0..255)
    <3>1. n \in 0..Len(g) /\ m \in 1..Len(g)
      BY <1>0, <1>3, <2>1
    <3> QED BY <1>3, <3>1, PrefixFacts, ElementOfSeq
  <2>10. FlattenSeq(SubSeq(g, 1, m)) = FlattenSeq(SubSeq(g, 1, n)) \o g[m]
    BY <2>8, <2>9, FlattenAppend
  <2>11. g[m] = FlattenSeq(p)
    BY <1>3, <2>2
  <2>12. FlattenSeq(SubSeq(h, 1, StartOf(s, m + 1))) = FlattenSeq(SubSeq(g, 1, m))
    BY <2>4, <2>7, <2>10, <2>11
  <2> QED BY <2>0, <2>1, <2>12 DEF T
<1>8. N \in T
  <2> HIDE DEF T
  <2> QED BY <1>0, <1>6, <1>7, Reaches
<1>9. FlattenSeq(SubSeq(h, 1, Len(u))) = FlattenSeq(SubSeq(g, 1, N))
  BY <1>5, <1>8
<1> HIDE DEF h, g
<1>10. SubSeq(h, 1, Len(u)) = h /\ SubSeq(g, 1, N) = g
  BY <1>3, <1>4, WholePrefix
<1> QED BY <1>2, <1>3, <1>9, <1>10 DEF g

-----------------------------------------------------------------------------
(* Decoding.                                                               *)

\* What several sequences flatten to begins with the first of them ...
LEMMA FlattenHead ==
  ASSUME NEW S, NEW m \in Seq(Seq(S)), m # << >>
  PROVE  /\ m[1] \in Seq(S) /\ Tail(m) \in Seq(Seq(S)) /\ FlattenSeq(Tail(m)) \in Seq(S)
         /\ FlattenSeq(m) = m[1] \o FlattenSeq(Tail(m))
         /\ Len(Tail(m)) = Len(m) - 1 /\ \A k \in 1..Len(m) - 1 : Tail(m)[k] = m[k + 1]
<1> DEFINE r == Tail(m)
           h == <<m[1]>>
           c == h \o r
<1>0. Len(m) \in Nat /\ Len(m) >= 1
  BY EmptySeq
<1>1. PICK SS : SS = Seq(S)
  OBVIOUS
<1>2. m \in Seq(SS) /\ m[1] \in SS
  <2>1. 1 \in 1..Len(m)
    BY <1>0
  <2> QED BY <1>1, <2>1, ElementOfSeq
<1>3. r \in Seq(SS) /\ Len(r) = Len(m) - 1 /\ \A k \in 1..Len(m) - 1 : r[k] = m[k + 1]
  BY <1>2, HeadTailProperties
<1> HIDE DEF r
<1>4. h \in Seq(SS) /\ Len(h) = 1 /\ h[1] = m[1]
  BY <1>2, OneIs, Zenon
<1> HIDE DEF h
<1>5. c \in Seq(SS) /\ Len(c) = 1 + Len(r) /\ \A k \in 1..1 + Len(r) : c[k] = IF k <= 1 THEN h[k] ELSE r[k - 1]
  <2>1. c \in Seq(SS) /\ Len(c) = Len(h) + Len(r)
        /\ \A k \in 1..Len(h) + Len(r) : c[k] = IF k <= Len(h) THEN h[k] ELSE r[k - Len(h)]
    <3>1. h \in Seq(SS) /\ r \in Seq(SS)
      BY <1>3, <1>4
    <3> QED BY <3>1, ConcatProperties
  <2> HIDE DEF c
  <2> QED BY <1>4, <2>1
<1> HIDE DEF c
<1>6. c = m
  <2>1. Len(c) = Len(m)
    BY <1>0, <1>3, <1>5
  <2>2. ASSUME NEW k \in 1..Len(c) PROVE c[k] = m[k]
    <3>1. CASE k = 1
      BY <1>0, <1>4, <1>5, <2>1, <3>1
    <3>2. CASE k # 1
      <4>1. k - 1 \in 1..Len(m) - 1 /\ k - 1 + 1 = k /\ ~(k <= 1) /\ k \in 1..1 + Len(r)
        BY <1>0, <1>3, <2>1, <3>2
      <4> QED BY <1>3, <1>5, <4>1
    <3> QED BY <3>1, <3>2
  <2> QED BY <1>2, <1>5, <2>1, <2>2, SeqEqual
<1>7. FlattenSeq(h \o r) = m[1] \o FlattenSeq(r)
  BY <1>1, <1>2, <1>3, FlattenFirst, Zenon DEF h
<1>8. FlattenSeq(r) \in Seq(S)
  BY <1>1, <1>3, FlattenType
<1> QED BY <1>1, <1>2, <1>3, <1>6, <1>7, <1>8 DEF c, r

\* ... and where that is not empty, without its first element, with the rest of it.
LEMMA TailFirst ==
  ASSUME NEW S, NEW x \in Seq(S), x # << >>, NEW y \in Seq(S)
  PROVE  /\ x \o y # << >> /\ (x \o y)[1] = x[1]
         /\ Tail(x) \in Seq(S) /\ Tail(x \o y) = Tail(x) \o y
<1> DEFINE c == x \o y
           d == Tail(x) \o y
<1>0. Len(x) \in Nat /\ Len(x) >= 1 /\ Len(y) \in Nat
  BY EmptySeq
<1>1. c \in Seq(S) /\ Len(c) = Len(x) + Len(y)
      /\ \A k \in 1..Len(x) + Len(y) : c[k] = IF k <= Len(x) THEN x[k] ELSE y[k - Len(x)]
  BY ConcatProperties, SMTT(20)
<1>2. PICK t \in Seq(S) : t = Tail(x) /\ Len(t) = Len(x) - 1 /\ \A k \in 1..Len(x) - 1 : t[k] = x[k + 1]
  <2> DEFINE t == Tail(x)
  <2>1. t \in Seq(S) /\ Len(t) = Len(x) - 1 /\ \A k \in 1..Len(t) : t[k] = x[k + 1]
    BY HeadTailProperties
  <2>2. t = Tail(x)
    OBVIOUS
  <2> HIDE DEF t
  <2> QED BY <2>1, <2>2
<1>3. d \in Seq(S) /\ Len(d) = Len(t) + Len(y)
      /\ \A k \in 1..Len(t) + Len(y) : d[k] = IF k <= Len(t) THEN t[k] ELSE y[k - Len(t)]
  BY <1>2, ConcatProperties
<1> HIDE DEF c, d
<1>4. c # << >> /\ c[1] = x[1]
  BY <1>0, <1>1, SMTT(20)
<1>5. PICK e \in Seq(S) : e = Tail(c) /\ Len(e) = Len(c) - 1 /\ \A k \in 1..Len(c) - 1 : e[k] = c[k + 1]
  <2> DEFINE e == Tail(c)
  <2>1. e \in Seq(S) /\ Len(e) = Len(c) - 1 /\ \A k \in 1..Len(e) : e[k] = c[k + 1]
    BY <1>1, <1>4, HeadTailProperties
  <2>2. e = Tail(c)
    OBVIOUS
  <2> HIDE DEF e
  <2> QED BY <2>1, <2>2
<1>6. e = d
  <2>1. Len(e) = Len(d)
    BY <1>0, <1>1, <1>2, <1>3, <1>5
  <2>2. ASSUME NEW k \in 1..Len(e) PROVE e[k] = d[k]
    <3>0. k \in 1..Len(c) - 1 /\ k \in 1..Len(t) + Len(y) /\ k + 1 \in 1..Len(x) + Len(y) /\ e[k] = c[k + 1]
      BY <1>0, <1>1, <1>2, <1>5
    <3>1. CASE k <= Len(t)
      <4>1. k + 1 <= Len(x) /\ k \in 1..Len(x) - 1
        BY <1>0, <1>2, <3>0, <3>1
      <4> QED BY <1>1, <1>2, <1>3, <3>0, <3>1, <4>1
    <3>2. CASE ~(k <= Len(t))
      <4>1. ~(k + 1 <= Len(x)) /\ k + 1 - Len(x) = k - Len(t)
        BY <1>0, <1>2, <3>0, <3>2
      <4> QED BY <1>1, <1>3, <3>0, <3>2, <4>1
    <3> QED BY <3>1, <3>2
  <2> QED BY <1>3, <2>1, <2>2, SeqEqual
<1> QED BY <1>2, <1>4, <1>5, <1>6 DEF c, d

\* llama2c: every id but the first gives its own bytes ...
LEMMA BlobToken ==
  ASSUME VocabTyped, Complete, model.kind = "llama2c", NEW id \in Id, Speaks(id), NEW prev
  PROVE  DecodeToken(prev, id) = IF prev = Bos /\ Bytes(id)[1] = Space THEN Tail(Bytes(id)) ELSE Bytes(id)
<1> DEFINE b == Bytes(id)
           t == Tail(b)
<1>1. b \in Seq(Nat)
  BY BytesTyped DEF VocabTyped
<1>2. b # << >> /\ \A k \in DOMAIN b : b[k] # 60
  <2>1. ~(model.kind = "spm")
    OBVIOUS
  <2> QED BY <2>1, Zenon DEF Speaks, PlainText
<1> HIDE DEF b
<1>3. t \in Seq(Nat) /\ \A k \in DOMAIN t : t[k] # 60
  <2>1. t \in Seq(Nat) /\ Len(t) = Len(b) - 1 /\ \A k \in 1..Len(t) : t[k] = b[k + 1]
    BY <1>1, <1>2, HeadTailProperties
  <2> HIDE DEF t
  <2>2. \A k \in 1..Len(t) : k + 1 \in DOMAIN b
    BY <1>1, <2>1
  <2>3. DOMAIN t = 1..Len(t)
    BY <2>1
  <2>4. ASSUME NEW k \in 1..Len(t) PROVE t[k] # 60
    <3>1. k + 1 \in DOMAIN b /\ t[k] = b[k + 1]
      BY <2>1, <2>2, Zenon
    <3>2. b[k + 1] # 60
      BY <1>2, <3>1, Zenon
    <3> QED BY <3>1, <3>2, Zenon
  <2> QED BY <2>1, <2>3, <2>4
<1> HIDE DEF t
<1>4. ~(LooseByte(b) < 256) /\ ~(LooseByte(t) < 256)
  BY <1>1, <1>2, <1>3, PlainIsNotRaw
<1>5. DecodeToken(prev, id) =
        LET w == IF prev = Bos /\ b # << >> /\ b[1] = Space THEN t ELSE b
        IN  IF LooseByte(w) < 256 THEN <<LooseByte(w)>> ELSE w
  BY Zenon DEF DecodeToken, b, t
<1>6. CASE prev = Bos /\ b[1] = Space
  BY <1>2, <1>4, <1>5, <1>6, Zenon DEF b, t
<1>7. CASE ~(prev = Bos /\ b[1] = Space)
  BY <1>2, <1>4, <1>5, <1>7, Zenon DEF b, t
<1> QED BY <1>6, <1>7, Zenon DEF b

\* ... as none of them is BOS.
LEMMA SpeaksNotBos ==
  ASSUME Complete, model.kind = "llama2c", NEW id, Speaks(id)
  PROVE  id # Bos
<1>1. \E k \in DOMAIN Bytes(Bos) : Bytes(Bos)[k] = 60
  BY CompleteBlob
<1>2. \A k \in DOMAIN Bytes(id) : Bytes(id)[k] # 60
  <2>1. ~(model.kind = "spm")
    OBVIOUS
  <2> QED BY <2>1, Zenon DEF Speaks, PlainText
<1> QED BY <1>1, <1>2, Zenon

\* llama2c: what the ids of the text decode to.
LEMMA BlobDecodes ==
  ASSUME VocabTyped, IsText(text), Complete, model.kind = "llama2c", bos \in BOOLEAN,
         NEW v \in Seq(Id), SaysText(v)
  PROVE  DecodeLlama2c(IF bos THEN Bos ELSE 0, Rest(v))
           = IF bos /\ Flat # << >> /\ Flat[1] = Space THEN Tail(Flat) ELSE Flat
<1> DEFINE prev == IF bos THEN Bos ELSE 0
           g == Rest(v)
           m == Mapped(Speech, g)
           d == [k \in DOMAIN g |-> DecodeToken(IF k = 1 THEN prev ELSE g[k - 1], g[k])]
<1>0. ~(model.kind = "spm") /\ model.kind # "gpt2" /\ model.kind # "spm"
  OBVIOUS
<1>1. Wanted = Flat /\ Flat \in Seq(Nat)
  <2>1. Flat \in Seq(0..255)
    BY FlatBytes
  <2>2. Wanted = Flat
    BY <1>0, Zenon DEF Wanted
  <2>3. 0..255 \subseteq Nat
    OBVIOUS
  <2>4. Flat \in Seq(Nat)
    BY <2>1, <2>3, SeqMonotonic, Zenon
  <2> QED BY <2>2, <2>4, Zenon
<1>2. /\ g \in Seq(Id) /\ FlattenSeq(m) = Flat /\ Len(g) = (IF bos THEN Len(v) - 1 ELSE Len(v))
      /\ \A k \in 1..Len(g) : g[k] = v[IF bos THEN k + 1 ELSE k]
  <2>1. bos => Len(v) > 0
    BY DEF SaysText
  <2>2. FlattenSeq(Words(v)) = Flat
    BY <1>1 DEF SaysText
  <2> HIDE DEF g
  <2> QED BY <2>1, <2>2, RestSays DEF g
<1>3. DOMAIN g = 1..Len(g) /\ Len(g) \in Nat
  <2> HIDE DEF g
  <2> QED BY <1>2
<1>4. \A k \in 1..Len(g) : Speaks(g[k]) /\ g[k] \in Id
  <2> SUFFICES ASSUME NEW k \in 1..Len(g) PROVE Speaks(g[k]) /\ g[k] \in Id
    OBVIOUS
  <2> HIDE DEF g
  <2>1. g[k] \in Id
    BY <1>2, ElementOfSeq
  <2>2. DOMAIN v = 1..Len(v) /\ Len(v) \in Nat
    OBVIOUS
  <2>3. \A x \in DOMAIN v : (bos /\ x = 1) \/ Speaks(v[x])
    BY DEF SaysText
  <2>4. CASE bos
    <3>1. k + 1 \in DOMAIN v /\ k + 1 # 1 /\ g[k] = v[k + 1]
      BY <1>2, <2>2, <2>4
    <3> QED BY <2>1, <2>3, <3>1
  <2>5. CASE ~bos
    <3>1. k \in DOMAIN v /\ g[k] = v[k]
      BY <1>2, <2>2, <2>5
    <3> QED BY <2>1, <2>3, <2>5, <3>1
  <2> QED BY <2>4, <2>5
<1>5. m \in Seq(Seq(Nat)) /\ Len(m) = Len(g) /\ \A k \in 1..Len(g) : m[k] = Bytes(g[k])
  <2> HIDE DEF g
  <2>1. \A k \in 1..Len(g) : m[k] = Bytes(g[k])
    BY <1>0, <1>3, <1>4, Zenon DEF Mapped, Speech, Said
  <2>2. \A k \in 1..Len(g) : Bytes(g[k]) \in Seq(Nat)
    BY <1>4, BytesTyped DEF VocabTyped
  <2>3. m \in [DOMAIN g -> Seq(Nat)]
    <3>1. m = [k \in DOMAIN g |-> Speech[g[k]]]
      BY DEF Mapped
    <3> HIDE DEF m
    <3>2. \A k \in DOMAIN g : Speech[g[k]] \in Seq(Nat)
      BY <1>3, <2>1, <2>2, <3>1
    <3> QED BY <3>1, <3>2
  <2> HIDE DEF m
  <2>4. m \in Seq(Seq(Nat)) /\ Len(m) = Len(g)
    BY <1>2, <2>3, MapSeq
  <2> QED BY <2>1, <2>4
<1>6. DecodeLlama2c(prev, g) = FlattenSeq(d)
  BY DEF DecodeLlama2c
<1> HIDE DEF g, m
<1>7. \A k \in 1..Len(g) : d[k] = IF k = 1 /\ bos /\ m[k][1] = Space THEN Tail(m[k]) ELSE m[k]
  <2> SUFFICES ASSUME NEW k \in 1..Len(g)
               PROVE  d[k] = IF k = 1 /\ bos /\ m[k][1] = Space THEN Tail(m[k]) ELSE m[k]
    BY Zenon
  <2> DEFINE p == IF k = 1 THEN prev ELSE g[k - 1]
  <2>1. d[k] = DecodeToken(p, g[k])
    BY <1>3
  <2>2. g[k] \in Id /\ Speaks(g[k]) /\ Bytes(g[k]) = m[k]
    BY <1>4, <1>5
  <2>3. p = Bos <=> k = 1 /\ bos
    <3>1. CASE k = 1
      <4>1. 0 # Bos
        BY DEF Bos
      <4> QED BY <3>1, <4>1, Zenon
    <3>2. CASE k # 1
      <4>1. k - 1 \in 1..Len(g)
        BY <1>3, <3>2
      <4>2. g[k - 1] # Bos
        BY <1>4, <4>1, SpeaksNotBos
      <4> QED BY <3>2, <4>2, Zenon
    <3> QED BY <3>1, <3>2
  <2> HIDE DEF p, d
  <2>4. DecodeToken(p, g[k]) = IF p = Bos /\ m[k][1] = Space THEN Tail(m[k]) ELSE m[k]
    BY <2>2, BlobToken, Zenon
  <2> QED BY <2>1, <2>3, <2>4, Zenon
<1>8. DOMAIN d = 1..Len(g)
  BY <1>3
<1>9. CASE Len(g) = 0
  <2>1. m = << >>
    BY <1>5, <1>9, EmptySeq
  <2>2. d = << >>
    <3>1. \A k \in DOMAIN d : d[k] \in Seq(Nat)
      BY <1>8, <1>9
    <3>2. d \in [DOMAIN g -> Seq(Nat)]
      BY <1>3, <1>9
    <3> HIDE DEF d
    <3>3. d \in Seq(Seq(Nat)) /\ Len(d) = 0
      BY <1>2, <1>9, <3>2, MapSeq
    <3> QED BY <3>3, EmptySeq
  <2>3. Flat = << >>
    BY <1>2, <2>1, FlattenEmpty, Zenon
  <2> HIDE DEF d
  <2> QED BY <1>6, <2>2, <2>3, FlattenEmpty, Zenon DEF g, prev
<1>10. CASE Len(g) # 0
  <2>0. 1 \in 1..Len(g)
    BY <1>3, <1>10
  <2>1. m # << >>
    <3>1. Len(m) # 0
      BY <1>5, <1>10
    <3> QED BY <3>1, EmptySeq
  <2>2. PICK b : b = m[1]
    OBVIOUS
  <2>3. PICK t : t = FlattenSeq(Tail(m))
    OBVIOUS
  <2>4. /\ b \in Seq(Nat) /\ Tail(m) \in Seq(Seq(Nat)) /\ t \in Seq(Nat) /\ Flat = b \o t
        /\ Len(Tail(m)) = Len(m) - 1 /\ \A k \in 1..Len(m) - 1 : Tail(m)[k] = m[k + 1]
    BY <1>2, <1>5, <2>1, <2>2, <2>3, FlattenHead
  <2>5. b # << >>
    <3>1. Speaks(g[1]) /\ b = Bytes(g[1])
      BY <1>4, <1>5, <2>0, <2>2
    <3> QED BY <1>0, <3>1, Zenon DEF Speaks, PlainText
  <2>6. Flat # << >> /\ Flat[1] = b[1] /\ Tail(b) \in Seq(Nat) /\ Tail(Flat) = Tail(b) \o t
    BY <2>4, <2>5, TailFirst
  <2>7. d[1] = IF bos /\ b[1] = Space THEN Tail(b) ELSE b
    <3> HIDE DEF d
    <3>1. d[1] = IF 1 = 1 /\ bos /\ m[1][1] = Space THEN Tail(m[1]) ELSE m[1]
      BY <1>7, <2>0, Zenon
    <3> QED BY <2>2, <3>1
  <2> HIDE DEF d
  <2>8. d \in Seq(Seq(Nat)) /\ Len(d) = Len(m)
    <3>1. \A k \in 1..Len(g) : k # 1 => d[k] = m[k]
      BY <1>7, Zenon
    <3>2. \A k \in 1..Len(g) : m[k] \in Seq(Nat)
      BY <1>5, ElementOfSeq
    <3>3. \A k \in 1..Len(g) : d[k] \in Seq(Nat)
      BY <2>4, <2>6, <2>7, <3>1, <3>2
    <3>4. d \in [1..Len(g) -> Seq(Nat)]
      <4>1. d = [k \in 1..Len(g) |-> d[k]]
        BY <1>3, <1>8 DEF d
      <4> QED BY <3>3, <4>1
    <3>5. d \in Seq(Seq(Nat)) /\ Len(d) = Len(g)
      BY <1>2, <1>3, <3>4, MapSeq
    <3> QED BY <1>5, <3>5
  <2>9. d # << >>
    <3>1. Len(d) # 0
      BY <1>5, <1>10, <2>8
    <3> QED BY <3>1, EmptySeq
  <2>10. /\ Tail(d) \in Seq(Seq(Nat)) /\ FlattenSeq(d) = d[1] \o FlattenSeq(Tail(d))
         /\ Len(Tail(d)) = Len(d) - 1 /\ \A k \in 1..Len(d) - 1 : Tail(d)[k] = d[k + 1]
    BY <2>8, <2>9, FlattenHead, SMTT(20)
  <2>11. Tail(d) = Tail(m)
    <3>1. ASSUME NEW k \in 1..Len(m) - 1 PROVE Tail(d)[k] = Tail(m)[k]
      <4>1. k + 1 \in 1..Len(g) /\ k + 1 # 1
        BY <1>3, <1>5
      <4>2. d[k + 1] = m[k + 1]
        BY <1>7, <4>1, Zenon
      <4> QED BY <2>4, <2>8, <2>10, <4>2
    <3>2. Len(Tail(d)) = Len(Tail(m)) /\ \A k \in 1..Len(Tail(d)) : Tail(d)[k] = Tail(m)[k]
      BY <2>4, <2>8, <2>10, <3>1
    <3> QED BY <2>4, <2>10, <3>2, SeqEqual
  <2>12. FlattenSeq(d) = d[1] \o t
    BY <2>3, <2>10, <2>11
  <2>13. FlattenSeq(d) = IF bos /\ Flat # << >> /\ Flat[1] = Space THEN Tail(Flat) ELSE Flat
    <3>1. CASE bos /\ b[1] = Space
      BY <2>4, <2>6, <2>7, <2>12, <3>1, Zenon
    <3>2. CASE ~(bos /\ b[1] = Space)
      BY <2>4, <2>6, <2>7, <2>12, <3>2, Zenon
    <3> QED BY <3>1, <3>2
  <2> QED BY <1>6, <2>13 DEF g
<1> QED BY <1>9, <1>10

\* spm: what the ids of the text decode to.
LEMMA SpmDecodes ==
  ASSUME VocabTyped, IsText(text), Complete, model.kind = "spm", bos \in BOOLEAN,
         NEW v \in Seq(Id), SaysText(v)
  PROVE  DecodeSpm(Rest(v))
           = FlattenSeq([k \in DOMAIN text |-> IF text[k] = Mark THEN <<Space>> ELSE text[k]])
<1> DEFINE g == Rest(v)
           n == Normalized
           m == Spaced(n)
           s == FlattenSeq(m)
           w == [k \in DOMAIN text |-> IF text[k] = Mark THEN <<Space>> ELSE text[k]]
<1>1. FlattenSeq(Mapped(Speech, g)) = FlattenSeq(n) /\ g \in Seq(Id)
  <2>1. bos => Len(v) > 0
    BY DEF SaysText
  <2>2. Wanted = FlattenSeq(n)
    BY Zenon DEF Wanted
  <2>3. FlattenSeq(Words(v)) = FlattenSeq(n)
    BY <2>2 DEF SaysText
  <2> HIDE DEF g, n
  <2> QED BY <2>1, <2>3, RestSays DEF g
<1>2. /\ n \in Seq(Seq(0..255)) /\ Len(n) = Len(text) + 1 /\ Len(text) \in Nat /\ DOMAIN text = 1..Len(text)
      /\ n[1] = Mark
      /\ \A k \in 1..Len(text) : n[k + 1] = IF text[k] = <<Space>> THEN Mark ELSE text[k]
      /\ \A k \in 1..Len(n) : IsChar(n[k])
  BY NormalizedIs
<1>3. DecodeSpm(g) = IF s # << >> /\ s[1] = Space THEN Tail(s) ELSE s
  <2>1. Mapped(Speech, g) = [k \in DOMAIN g |-> IF RawByte(Bytes(g[k])) < 256 THEN <<RawByte(Bytes(g[k]))>> ELSE Bytes(g[k])]
    <3> HIDE DEF g
    <3>1. \A k \in DOMAIN g : g[k] \in Id
      BY <1>1, ElementOfSeq
    <3>2. \A k \in DOMAIN g : Speech[g[k]] = IF RawByte(Bytes(g[k])) < 256 THEN <<RawByte(Bytes(g[k]))>> ELSE Bytes(g[k])
      BY <3>1, Zenon DEF Speech, Said
    <3> QED BY <3>2, Zenon DEF Mapped
  <2>2. Unmarked(FlattenSeq(n)) = s
    <3> HIDE DEF n
    <3>1. AreChars(n)
      BY <1>2 DEF AreChars
    <3> QED BY <3>1, UnmarkedIs
  <2> HIDE DEF g, n, s, m
  <2>3. Unmarked(FlattenSeq([k \in DOMAIN g |-> IF RawByte(Bytes(g[k])) < 256 THEN <<RawByte(Bytes(g[k]))>> ELSE Bytes(g[k])])) = s
    BY <1>1, <2>1, <2>2, Zenon
  <2> QED BY <2>3, Zenon DEF DecodeSpm
<1> HIDE DEF g, n
<1>4. m \in Seq(Seq(0..255)) /\ Len(m) = Len(n) /\ \A k \in 1..Len(n) : m[k] = IF n[k] = Mark THEN <<Space>> ELSE n[k]
  <2>1. AreChars(n)
    BY <1>2 DEF AreChars
  <2>2. m \in Seq(Seq(0..255))
    BY <2>1, UnmarkedIs
  <2>3. DOMAIN n = 1..Len(n)
    BY <1>2
  <2>4. \A k \in 1..Len(n) : m[k] = IF n[k] = Mark THEN <<Space>> ELSE n[k]
    BY <2>3 DEF Spaced
  <2>5. DOMAIN m = 1..Len(n)
    BY <2>3 DEF Spaced
  <2> HIDE DEF m
  <2>6. Len(m) = Len(n)
    BY <1>2, <2>2, <2>5
  <2> QED BY <2>2, <2>4, <2>6
<1> HIDE DEF m
<1>5. PICK b \in Seq(0..255) : b = <<Space>> /\ Len(b) = 1 /\ b[1] = Space
  <2>1. Space \in 0..255
    BY DEF Space
  <2>2. <<Space>> \in Seq(0..255) /\ Len(<<Space>>) = 1 /\ <<Space>>[1] = Space
    BY <2>1, OneIs, Zenon
  <2> QED BY <2>2, Zenon
<1>6. m # << >> /\ m[1] = b
  <2>1. 1 \in 1..Len(n) /\ Len(m) # 0
    BY <1>2, <1>4
  <2>2. m[1] = b
    BY <1>2, <1>4, <1>5, <2>1, Zenon
  <2>3. m # << >>
    BY <2>1, EmptySeq
  <2> QED BY <2>2, <2>3
<1>7. /\ Tail(m) \in Seq(Seq(0..255)) /\ FlattenSeq(Tail(m)) \in Seq(0..255)
      /\ s = b \o FlattenSeq(Tail(m))
      /\ Len(Tail(m)) = Len(m) - 1 /\ \A k \in 1..Len(m) - 1 : Tail(m)[k] = m[k + 1]
  BY <1>4, <1>6, FlattenHead
<1>8. Tail(m) = w
  <2>1. \A k \in 1..Len(text) : m[k + 1] = IF text[k] = Mark THEN <<Space>> ELSE text[k]
    <3> SUFFICES ASSUME NEW k \in 1..Len(text) PROVE m[k + 1] = IF text[k] = Mark THEN <<Space>> ELSE text[k]
      BY Zenon
    <3>1. k + 1 \in 1..Len(n)
      BY <1>2
    <3>2. m[k + 1] = IF n[k + 1] = Mark THEN <<Space>> ELSE n[k + 1]
      BY <1>4, <3>1, Zenon
    <3>3. n[k + 1] = IF text[k] = <<Space>> THEN Mark ELSE text[k]
      BY <1>2
    <3>4. CASE text[k] = <<Space>>
      BY <3>2, <3>3, <3>4, Zenon
    <3>5. CASE text[k] # <<Space>>
      BY <3>2, <3>3, <3>5, Zenon
    <3> QED BY <3>4, <3>5
  <2>2. DOMAIN w = 1..Len(text) /\ \A k \in 1..Len(text) : w[k] = IF text[k] = Mark THEN <<Space>> ELSE text[k]
    BY <1>2
  <2>3. w \in [DOMAIN text -> Seq(0..255)]
    <3>1. \A k \in 1..Len(text) : k + 1 \in 1..Len(m)
      BY <1>2, <1>4
    <3>2. \A k \in 1..Len(text) : w[k] \in Seq(0..255)
      BY <1>4, <2>1, <2>2, <3>1, ElementOfSeq
    <3> QED BY <1>2, <2>2, <3>2
  <2> HIDE DEF w
  <2>4. w \in Seq(Seq(0..255)) /\ Len(w) = Len(text)
    <3>1. text \in Seq(Seq(0..255))
      BY DEF IsText
    <3> QED BY <2>3, <3>1, MapSeq
  <2>5. Len(Tail(m)) = Len(w)
    BY <1>2, <1>4, <1>7, <2>4
  <2>6. \A k \in 1..Len(w) : Tail(m)[k] = w[k]
    <3>1. Len(m) - 1 = Len(text)
      BY <1>2, <1>4
    <3> QED BY <1>7, <2>1, <2>2, <2>4, <3>1
  <2> QED BY <1>7, <2>4, <2>5, <2>6, SeqEqual
<1> HIDE DEF w
<1>9. s # << >> /\ s[1] = Space /\ Tail(s) = FlattenSeq(w)
  <2>1. PICK t \in Seq(0..255) : t = FlattenSeq(Tail(m))
    BY <1>7, Zenon
  <2>2. b # << >>
    BY <1>5
  <2>3. s = b \o t
    BY <1>7, <2>1
  <2>4. b \o t # << >> /\ (b \o t)[1] = b[1] /\ Tail(b) \in Seq(0..255) /\ Tail(b \o t) = Tail(b) \o t
    BY <2>2, TailFirst
  <2>5. Tail(b) = << >>
    <3>1. Len(Tail(b)) = 0
      BY <1>5, <2>2, HeadTailProperties
    <3> QED BY <2>4, <3>1, EmptySeq
  <2>6. << >> \o t = t
    BY ConcatEmptySeq
  <2> QED BY <1>5, <1>8, <2>1, <2>3, <2>4, <2>5, <2>6, Zenon
<1> QED BY <1>3, <1>9, Zenon DEF g, w

\* No two bytes have the same code point.
LEMMA CodesDiffer ==
  ASSUME NEW b \in 0..255, NEW c \in 0..255, b < c
  PROVE  ByteEncoder[b] # ByteEncoder[c]
<1> DEFINE U(n) == {d \in 0..n - 1 : ~Printable(d)}
<1>1. ASSUME NEW n \in 0..255
      PROVE  /\ IsFiniteSet(U(n)) /\ Cardinality(U(n)) \in Nat
             /\ ByteEncoder[n] = IF Printable(n) THEN n ELSE 256 + Cardinality(U(n))
  <2>1. IsFiniteSet(0..n - 1) /\ U(n) \subseteq 0..n - 1
    BY FS_Interval
  <2>2. IsFiniteSet(U(n))
    BY <2>1, FS_Subset
  <2>3. Cardinality(U(n)) \in Nat
    BY <2>2, FS_CardinalityType
  <2>4. ByteEncoder[n] = IF Printable(n) THEN n ELSE 256 + Cardinality(U(n))
    BY DEF ByteEncoder
  <2> QED BY <2>2, <2>3, <2>4
<1>2. CASE ~Printable(b) /\ ~Printable(c)
  <2>1. U(b) \cup {b} \subseteq U(c) /\ b \notin U(b)
    BY <1>2
  <2> HIDE DEF U
  <2>2. PICK x \in Nat : x = Cardinality(U(b))
    BY <1>1
  <2>3. PICK y \in Nat : y = Cardinality(U(c))
    BY <1>1
  <2>4. Cardinality(U(b) \cup {b}) = x + 1
    BY <1>1, <2>1, <2>2, FS_AddElement
  <2>5. Cardinality(U(b) \cup {b}) <= y
    BY <1>1, <2>1, <2>3, FS_Subset
  <2>6. 256 + x # 256 + y
    BY <2>4, <2>5
  <2>7. ByteEncoder[b] = 256 + x /\ ByteEncoder[c] = 256 + y
    BY <1>1, <1>2, <2>2, <2>3, Zenon
  <2> QED BY <2>6, <2>7
<1>3. CASE Printable(b) /\ Printable(c)
  <2> HIDE DEF U
  <2>1. ByteEncoder[b] = b /\ ByteEncoder[c] = c
    BY <1>1, <1>3, Zenon
  <2> QED BY <2>1
<1>4. CASE Printable(b) /\ ~Printable(c)
  <2> HIDE DEF U
  <2>1. PICK y \in Nat : y = Cardinality(U(c))
    BY <1>1
  <2>2. ByteEncoder[b] = b /\ ByteEncoder[c] = 256 + y
    BY <1>1, <1>4, <2>1, Zenon
  <2> QED BY <2>2
<1>5. CASE ~Printable(b) /\ Printable(c)
  <2> HIDE DEF U
  <2>1. PICK x \in Nat : x = Cardinality(U(b))
    BY <1>1
  <2>2. ByteEncoder[b] = 256 + x /\ ByteEncoder[c] = c
    BY <1>1, <1>5, <2>1, Zenon
  <2> QED BY <2>2
<1> QED BY <1>2, <1>3, <1>4, <1>5, Zenon

\* So the code point of a byte decodes to it.
LEMMA ByteOfCode ==
  ASSUME NEW b \in 0..255
  PROVE  ByteOf(ByteEncoder[b]) = {b}
<1>1. \A c \in 0..255 : ByteEncoder[c] = ByteEncoder[b] => c = b
  <2> SUFFICES ASSUME NEW c \in 0..255, c # b PROVE ByteEncoder[c] # ByteEncoder[b]
    BY Zenon
  <2>1. c < b \/ b < c
    OBVIOUS
  <2> QED BY <2>1, CodesDiffer, Zenon
<1>2. ByteEncoder[b] = ByteEncoder[b]
  OBVIOUS
<1> HIDE DEF ByteEncoder
<1> QED BY <1>1, <1>2, Zenon DEF ByteOf

\* The code points of the first bytes of the text.
LEMMA EncodedIs ==
  ASSUME IsText(text), NEW n \in 0..Len(Flat)
  PROVE  Encoded(n) \in Seq(Nat) /\ Len(Encoded(n)) = n /\ DOMAIN Encoded(n) = 1..n
         /\ \A k \in 1..n : Encoded(n)[k] = ByteEncoder[Flat[k]] /\ Flat[k] \in 0..255
<1> DEFINE e == Encoded(n)
<1>1. Flat \in Seq(0..255) /\ Len(Flat) \in Nat
  BY FlatBytes
<1>2. \A k \in 1..n : Flat[k] \in 0..255
  <2>1. \A k \in 1..n : k \in 1..Len(Flat)
    BY <1>1
  <2> QED BY <1>1, <2>1, ElementOfSeq
<1>3. \A k \in 1..n : e[k] = ByteEncoder[Flat[k]] /\ e[k] \in Nat
  BY <1>2, ByteEncoded DEF Encoded
<1>4. DOMAIN e = 1..n /\ e = [k \in 1..n |-> e[k]]
  BY DEF Encoded
<1> HIDE DEF e
<1>5. n \in Nat
  BY <1>1
<1>6. e \in Seq(Nat) /\ Len(e) = n
  <2>1. e \in [1..n -> Nat]
    BY <1>3, <1>4
  <2> QED BY <1>4, <1>5, <2>1
<1> QED BY <1>2, <1>3, <1>4, <1>6 DEF e

\* gpt2: what the ids of the text decode to.
LEMMA SymbolsDecode ==
  ASSUME IsText(text), NEW v, Spelled(v) = Encoded(Len(Flat))
  PROVE  DecodeGpt2(v) = Flat
<1> DEFINE e == Encoded(Len(Flat))
           D(u) == [k \in DOMAIN u |-> IF ByteOf(u[k]) = {} THEN << >> ELSE <<CHOOSE b \in ByteOf(u[k]) : TRUE>>]
           d == D(e)
<1>1. Flat \in Seq(0..255) /\ Len(Flat) \in Nat /\ DOMAIN Flat = 1..Len(Flat) /\ Len(Flat) \in 0..Len(Flat)
  <2>1. Flat \in Seq(0..255) /\ Len(Flat) \in Nat
    BY FlatBytes
  <2> QED BY <2>1
<1>2. DOMAIN e = 1..Len(Flat) /\ \A k \in 1..Len(Flat) : e[k] = ByteEncoder[Flat[k]] /\ Flat[k] \in 0..255
  BY <1>1, EncodedIs
<1>3. DecodeGpt2(v) = FlattenSeq(d)
  <2>1. DecodeGpt2(v) = FlattenSeq(D(Spelled(v)))
    BY Zenon DEF DecodeGpt2, Spelled
  <2> HIDE DEF D, e
  <2> QED BY <2>1, Zenon DEF e
<1> HIDE DEF e
<1>4. d = Singles(Flat)
  <2>1. ASSUME NEW k \in 1..Len(Flat)
        PROVE  (IF ByteOf(e[k]) = {} THEN << >> ELSE <<CHOOSE b \in ByteOf(e[k]) : TRUE>>) = <<Flat[k]>>
    <3>1. ByteOf(e[k]) = {Flat[k]}
      BY <1>2, ByteOfCode, Zenon
    <3>2. ByteOf(e[k]) # {} /\ (CHOOSE b \in ByteOf(e[k]) : TRUE) = Flat[k]
      BY <3>1
    <3> QED BY <3>2, Zenon
  <2>2. d = [k \in 1..Len(Flat) |-> IF ByteOf(e[k]) = {} THEN << >> ELSE <<CHOOSE b \in ByteOf(e[k]) : TRUE>>]
    BY <1>2, Zenon
  <2>3. Singles(Flat) = [k \in 1..Len(Flat) |-> <<Flat[k]>>]
    BY <1>1, Zenon DEF Singles
  <2> HIDE DEF d
  <2> QED BY <2>1, <2>2, <2>3, Zenon
<1> QED BY <1>1, <1>3, <1>4, FlattenSingles

-----------------------------------------------------------------------------
(* What the symbols of gpt2 spell.                                         *)

\* gpt2: the ids and the symbols of a piece, and the text they are of.
SymbolsAre(v, t, n) ==
  Spelled(v) \o FlattenSeq(t) = Encoded(n) /\ \A k \in DOMAIN t : Known(t[k])

\* What ids are spelled.
Spelling == [d \in Id |-> Bytes(d)]

\* What ids are spelled flattens the spelling of each.
LEMMA SpelledIs ==
  ASSUME VocabTyped, NEW v \in Seq(Id)
  PROVE  Spelled(v) = FlattenSeq(Mapped(Spelling, v)) /\ Spelled(v) \in Seq(Nat)
         /\ Spelling \in [Id -> Seq(Nat)] /\ MapsTo(Spelling, Seq(Nat), v, Mapped(Spelling, v))
<1>1. Spelling \in [Id -> Seq(Nat)]
  BY BytesTyped DEF Spelling, VocabTyped
<1>2. MapsTo(Spelling, Seq(Nat), v, Mapped(Spelling, v))
  BY <1>1, MappedIs
<1>3. Mapped(Spelling, v) = [k \in DOMAIN v |-> Bytes(v[k])]
  <2>1. \A k \in DOMAIN v : v[k] \in Id
    BY ElementOfSeq
  <2>2. \A k \in DOMAIN v : Spelling[v[k]] = Bytes(v[k])
    BY <2>1, Zenon DEF Spelling
  <2> QED BY <2>2, Zenon DEF Mapped
<1>4. Mapped(Spelling, v) \in Seq(Seq(Nat))
  BY <1>2 DEF MapsTo
<1>5. FlattenSeq(Mapped(Spelling, v)) \in Seq(Nat)
  BY <1>4, FlattenType
<1>6. Spelled(v) = FlattenSeq(Mapped(Spelling, v))
  BY <1>3, Zenon DEF Spelled
<1> QED BY <1>1, <1>2, <1>5, <1>6

\* Ids behind ids are spelled behind them.
LEMMA SpelledConcat ==
  ASSUME VocabTyped, NEW v \in Seq(Id), NEW w \in Seq(Id)
  PROVE  Spelled(v \o w) = Spelled(v) \o Spelled(w)
<1> DEFINE c == v \o w
           a == Mapped(Spelling, v)
           b == Mapped(Spelling, w)
           d == Mapped(Spelling, c)
<1>1. c \in Seq(Id)
  BY ConcatProperties
<1>2. d = a \o b
  <2>1. Spelling \in [Id -> Seq(Nat)]
    BY SpelledIs
  <2>2. MapsParts(Spelling, v, w)
    BY <2>1, MappedConcat
  <2> QED BY <2>2, Zenon DEF MapsParts
<1> HIDE DEF c
<1>3. a \in Seq(Seq(Nat)) /\ b \in Seq(Seq(Nat)) /\ Spelled(v) = FlattenSeq(a) /\ Spelled(w) = FlattenSeq(b)
      /\ Spelled(c) = FlattenSeq(d)
  BY <1>1, SpelledIs DEF MapsTo
<1> HIDE DEF a, b, d
<1>4. FlattenSeq(a \o b) = FlattenSeq(a) \o FlattenSeq(b)
  BY <1>3, FlattenConcat
<1> QED BY <1>2, <1>3, <1>4, Zenon DEF c

\* A piece is cut: its symbols are the next bytes of the text.
LEMMA SymbolsCut ==
  ASSUME VocabTyped, IsText(text), Complete, model.kind = "gpt2", out \in Seq(Id),
         at \in 0..Len(Flat), tokens = << >>, SymbolsAre(out, tokens, at), CutPiece, tpc' # "panicked"
  PROVE  SymbolsAre(out, tokens', at')
<1>1. at \in 0..Len(Flat) - 1 /\ Len(Flat) \in Nat /\ Flat \in Seq(0..255) /\ at \in Nat
  BY FlatBytes DEF CutPiece
<1>2. PieceEnd(at) \in at..Len(Flat)
  BY <1>1, PieceEnds
<1>3. PICK e \in at..Len(Flat) : e = PieceEnd(at)
  BY <1>2
<1>4. PICK n \in Nat : n = e - at
  BY <1>1
<1> DEFINE w == [j \in 1..n |-> ByteEncoder[Flat[at + j]]]
<1>5. at' = e /\ tokens' = [j \in 1..n |-> <<ByteEncoder[Flat[at + j]]>>]
  BY <1>3, <1>4 DEF CutPiece
<1>6. \A j \in 1..n : at + j \in 1..e /\ at + j \in DOMAIN Flat /\ Flat[at + j] \in 0..255
  <2> SUFFICES ASSUME NEW j \in 1..n PROVE at + j \in 1..e /\ at + j \in DOMAIN Flat /\ Flat[at + j] \in 0..255
    OBVIOUS
  <2>1. at + j \in 1..e /\ at + j \in 1..Len(Flat)
    BY <1>1, <1>4
  <2> QED BY <1>1, <2>1, ElementOfSeq
<1>7. w \in Seq(Nat) /\ Len(w) = n /\ DOMAIN w = 1..n
  <2>1. \A j \in 1..n : ByteEncoder[Flat[at + j]] \in Nat
    BY <1>6, ByteEncoded
  <2>2. w \in [1..n -> Nat] /\ DOMAIN w = 1..n
    BY <2>1
  <2> HIDE DEF w
  <2> QED BY <2>2
<1>8. tokens' = Singles(w)
  <2>1. Singles(w) = [j \in 1..n |-> <<w[j]>>]
    BY <1>7, Zenon DEF Singles
  <2>2. \A j \in 1..n : w[j] = ByteEncoder[Flat[at + j]]
    BY Zenon
  <2> HIDE DEF w
  <2> QED BY <1>5, <2>1, <2>2, Zenon
<1>9. \A j \in 1..n : w[j] = ByteEncoder[Flat[at + j]]
  BY Zenon
<1> HIDE DEF w
<1>10. FlattenSeq(tokens') = w
  BY <1>7, <1>8, FlattenSingles
<1>11. Spelled(out) = Encoded(at)
  <2>1. Spelled(out) \in Seq(Nat)
    BY SpelledIs
  <2>2. Spelled(out) \o << >> = Spelled(out)
    BY <2>1, ConcatEmptySeq
  <2>3. FlattenSeq(tokens) = << >>
    BY FlattenEmpty, Zenon
  <2> QED BY <2>2, <2>3, Zenon DEF SymbolsAre
<1> DEFINE p == Encoded(at)
           q == Encoded(e)
           c == p \o w
<1>12. p \in Seq(Nat) /\ Len(p) = at /\ \A k \in 1..at : p[k] = ByteEncoder[Flat[k]]
  BY EncodedIs
<1>13. q \in Seq(Nat) /\ Len(q) = e /\ \A k \in 1..e : q[k] = ByteEncoder[Flat[k]]
  <2>1. e \in 0..Len(Flat)
    BY <1>1
  <2> QED BY <2>1, EncodedIs
<1> HIDE DEF p, q
<1>14. c \in Seq(Nat) /\ Len(c) = at + n /\ \A k \in 1..at + n : c[k] = IF k <= at THEN p[k] ELSE w[k - at]
  BY <1>7, <1>12, ConcatProperties
<1> HIDE DEF c
<1>15. c = q
  <2>1. Len(c) = Len(q)
    BY <1>1, <1>4, <1>13, <1>14
  <2>2. ASSUME NEW k \in 1..Len(c) PROVE c[k] = q[k]
    <3>0. k \in 1..e /\ k \in 1..at + n
      BY <1>13, <1>14, <2>1
    <3>1. CASE k <= at
      <4>1. k \in 1..at
        BY <1>1, <3>0, <3>1
      <4>2. c[k] = p[k]
        BY <1>14, <3>0, <3>1, Zenon
      <4> QED BY <1>12, <1>13, <3>0, <4>1, <4>2, Zenon
    <3>2. CASE ~(k <= at)
      <4>1. k - at \in 1..n /\ at + (k - at) = k
        BY <1>1, <3>0, <3>2
      <4>2. c[k] = w[k - at]
        BY <1>14, <3>0, <3>2, Zenon
      <4>3. w[k - at] = ByteEncoder[Flat[k]]
        BY <1>9, <4>1
      <4> QED BY <1>13, <3>0, <4>2, <4>3, Zenon
    <3> QED BY <3>1, <3>2
  <2> QED BY <1>13, <1>14, <2>1, <2>2, SeqEqual
<1>16. ASSUME NEW k \in DOMAIN tokens' PROVE Known(tokens'[k])
  <2>1. k \in 1..n /\ tokens'[k] = <<ByteEncoder[Flat[at + k]]>>
    BY <1>5
  <2>2. at + k \in DOMAIN Flat
    BY <1>6, <2>1, Zenon
  <2>3. \A x \in DOMAIN Flat : Known(<<ByteEncoder[Flat[x]]>>)
    BY CompleteGpt2
  <2> QED BY <2>1, <2>2, <2>3, Zenon
<1>17. Spelled(out) \o FlattenSeq(tokens') = Encoded(at')
  BY <1>5, <1>10, <1>11, <1>15, Zenon DEF c, p, q
<1> QED BY <1>16, <1>17, Zenon DEF SymbolsAre

\* A merge keeps what the symbols spell, and its symbol is in the vocabulary.
LEMMA SymbolsMerge ==
  ASSUME Complete, model.kind = "gpt2", tokens \in Seq(Seq(Nat)),
         NEW k \in 1..Len(tokens) - 1, CanMerge(k), \A x \in DOMAIN tokens : Known(tokens[x])
  PROVE  FlattenSeq(MergedAt(k)) = FlattenSeq(tokens) /\ \A x \in DOMAIN MergedAt(k) : Known(MergedAt(k)[x])
<1> DEFINE L == Len(tokens)
           joined == tokens[k] \o tokens[k + 1]
           v == MergedAt(k)
<1>0. L \in Nat /\ DOMAIN tokens = 1..L /\ k \in 1..L /\ k + 1 \in 1..L /\ k \in Nat /\ L - 1 \in Nat
  OBVIOUS
<1>1. tokens[k] \in Seq(Nat) /\ tokens[k + 1] \in Seq(Nat)
  BY <1>0, ElementOfSeq
<1>2. joined \in Seq(Nat)
  BY <1>1, ConcatProperties
<1>3. Known(joined)
  <2>1. PICK r : r \in DOMAIN model.merges /\ RuleAt(r) = Pair(k)
    BY Zenon DEF CanMerge, Ranks
  <2>2. RuleAt(r)[1] = tokens[k] /\ RuleAt(r)[2] = tokens[k + 1] /\ RuleAt(r) # << >>
    <3>1. PICK x : x = tokens[k]
      OBVIOUS
    <3>2. PICK y : y = tokens[k + 1]
      OBVIOUS
    <3>3. RuleAt(r) = <<x, y>>
      BY <2>1, <3>1, <3>2, Zenon DEF Pair
    <3>4. <<x, y>>[1] = x /\ <<x, y>>[2] = y /\ <<x, y>> # << >>
      OBVIOUS
    <3> QED BY <3>1, <3>2, <3>3, <3>4, Zenon
  <2>3. r \in Rules /\ RuleJoin(r) = joined
    BY <2>1, <2>2, Zenon DEF Rules, RuleJoin
  <2>4. \A x \in Rules : Known(RuleJoin(x))
    BY CompleteGpt2
  <2> QED BY <2>3, <2>4, Zenon
<1>4. v = [j \in 1..L - 1 |-> IF j < k THEN tokens[j] ELSE IF j > k THEN tokens[j + 1] ELSE joined]
  BY DEF MergedAt
<1> HIDE DEF joined
<1>5. \A j \in 1..L - 1 : j \in 1..L /\ j + 1 \in 1..L /\ tokens[j] \in Seq(Nat) /\ tokens[j + 1] \in Seq(Nat)
  <2> TAKE j \in 1..L - 1
  <2>1. j \in 1..L /\ j + 1 \in 1..L
    BY <1>0
  <2> QED BY <2>1, ElementOfSeq
<1>6. v \in [1..L - 1 -> Seq(Nat)]
  BY <1>2, <1>4, <1>5
<1>7. v \in Seq(Seq(Nat)) /\ Len(v) = L - 1 /\ DOMAIN v = 1..L - 1
  <2> HIDE DEF v
  <2>1. PICK n \in Nat : n = L - 1
    BY <1>0
  <2>2. PICK SN : SN = Seq(Nat)
    OBVIOUS
  <2>3. v \in [1..n -> SN]
    BY <1>6, <2>1, <2>2
  <2>4. v \in Seq(SN) /\ Len(v) = n /\ DOMAIN v = 1..n
    BY <2>3
  <2> QED BY <2>1, <2>2, <2>4, Zenon
<1> HIDE DEF v, L
<1>8. \A j \in 1..L - 1 : v[j] = IF j < k THEN tokens[j] ELSE IF j > k THEN tokens[j + 1] ELSE joined
  BY <1>4
<1>9. JoinedAt(tokens, v, k)
  BY <1>7, <1>8 DEF JoinedAt, joined, L
<1>10. FlattenSeq(v) = FlattenSeq(tokens)
  BY <1>7, <1>9, FlattenJoined
<1>11. ASSUME NEW j \in DOMAIN v PROVE Known(v[j])
  <2>1. j \in 1..L - 1
    BY <1>7
  <2> QED BY <1>0, <1>3, <1>5, <1>8, <2>1, Zenon
<1> QED BY <1>10, <1>11, Zenon DEF v

\* A piece ends: the ids of its symbols are spelled as the symbols are.
LEMMA SymbolsEnd ==
  ASSUME VocabTyped, out \in Seq(Id), NEW n, tokens \in Seq(Seq(Nat)), SymbolsAre(out, tokens, n),
         NEW v, v = out \o FlattenSeq([j \in DOMAIN tokens |->
                             IF Known(tokens[j]) THEN <<IdOf(tokens[j])>> ELSE << >>])
  PROVE  SymbolsAre(v, << >>, n)
<1> DEFINE w == [j \in DOMAIN tokens |-> IdOf(tokens[j])]
           f == [j \in DOMAIN tokens |-> IF Known(tokens[j]) THEN <<IdOf(tokens[j])>> ELSE << >>]
<1>1. \A j \in DOMAIN tokens : Known(tokens[j])
  BY Zenon DEF SymbolsAre
<1>2. DOMAIN tokens = 1..Len(tokens) /\ Len(tokens) \in Nat
  OBVIOUS
<1>3. \A j \in DOMAIN tokens : IdOf(tokens[j]) \in Id /\ Bytes(IdOf(tokens[j])) = tokens[j]
  BY <1>1, IdOfKnown, Zenon DEF VocabTyped
<1>4. w \in [DOMAIN tokens -> Id] /\ \A j \in DOMAIN tokens : w[j] = IdOf(tokens[j])
  BY <1>3
<1>5. f = Singles(w)
  <2>1. DOMAIN w = DOMAIN tokens
    BY Zenon
  <2>2. Singles(w) = [j \in DOMAIN tokens |-> <<w[j]>>]
    BY <2>1, Zenon DEF Singles
  <2> HIDE DEF w
  <2>3. \A j \in DOMAIN tokens : (IF Known(tokens[j]) THEN <<IdOf(tokens[j])>> ELSE << >>) = <<w[j]>>
    BY <1>1, <1>4, Zenon
  <2> QED BY <2>2, <2>3, Zenon
<1> HIDE DEF w, f
<1>6. w \in Seq(Id) /\ Len(w) = Len(tokens)
  BY <1>4, MapSeq
<1>7. FlattenSeq(f) = w
  BY <1>5, <1>6, FlattenSingles
<1>8. Mapped(Spelling, w) = tokens
  <2>1. MapsTo(Spelling, Seq(Nat), w, Mapped(Spelling, w))
    BY <1>6, SpelledIs
  <2>2. PICK u : u = Mapped(Spelling, w)
    OBVIOUS
  <2>3. u \in Seq(Seq(Nat)) /\ Len(u) = Len(tokens) /\ \A k \in 1..Len(tokens) : u[k] = Spelling[w[k]]
    BY <1>6, <2>1, <2>2 DEF MapsTo
  <2>4. \A k \in 1..Len(tokens) : Spelling[w[k]] = tokens[k]
    BY <1>2, <1>3, <1>4, Zenon DEF Spelling
  <2>5. \A k \in 1..Len(u) : u[k] = tokens[k]
    BY <2>3, <2>4
  <2>6. u = tokens
    BY <2>3, <2>5, SeqEqual
  <2> QED BY <2>2, <2>6
<1>9. Spelled(w) = FlattenSeq(tokens)
  BY <1>6, <1>8, SpelledIs
<1>10. v = out \o w
  BY <1>7, Zenon DEF f
<1>11. Spelled(v) = Spelled(out) \o FlattenSeq(tokens)
  <2>1. Spelled(out \o w) = Spelled(out) \o Spelled(w)
    BY <1>6, SpelledConcat
  <2> QED BY <1>9, <1>10, <2>1, Zenon
<1>12. v \in Seq(Id)
  BY <1>6, <1>10, ConcatProperties
<1>13. Spelled(v) \o FlattenSeq(<< >>) = Spelled(v)
  <2>1. Spelled(v) \in Seq(Nat)
    BY <1>12, SpelledIs
  <2>2. Spelled(v) \o << >> = Spelled(v)
    BY <2>1, ConcatEmptySeq
  <2> QED BY <2>2, FlattenEmpty, Zenon
<1>14. \A k \in DOMAIN << >> : Known(<< >>[k])
  OBVIOUS
<1>15. Spelled(v) = Encoded(n)
  BY <1>11, Zenon DEF SymbolsAre
<1> QED BY <1>13, <1>14, <1>15, Zenon DEF SymbolsAre

-----------------------------------------------------------------------------
(* Every step keeps the text.                                              *)

\* What the text and its tokens are does not depend on the scan.
LEMMA CompleteKept ==
  ASSUME UNCHANGED <<model, text, bos>>
  PROVE  Complete' = Complete
<1>1. model' = model /\ text' = text /\ bos' = bos
  OBVIOUS
<1> QED BY <1>1 DEF Complete, Flat, Known, Fallbacks, RuleAt, Rules, RuleJoin, Bytes

\* Ids say the same as long as the vocabulary stays ...
LEMMA SaidKept ==
  ASSUME UNCHANGED <<model, text, bos>>
  PROVE  Wanted' = Wanted /\ \A d : Said(d)' = Said(d) /\ Speaks(d)' = Speaks(d)
<1>1. model' = model /\ text' = text /\ bos' = bos
  OBVIOUS
<1>2. Wanted' = Wanted
  BY <1>1 DEF Wanted, Flat, Normalized
<1>3. \A d : Bytes(d)' = Bytes(d)
  BY <1>1 DEF Bytes
<1>4. \A d : Said(d)' = Said(d) /\ Speaks(d)' = Speaks(d)
  BY <1>1, <1>3, Zenon DEF Said, Speaks, PlainText
<1> QED BY <1>2, <1>4

\* ... so what the next tokens say can be told now,
LEMMA TokensSay ==
  ASSUME UNCHANGED <<model, text, bos>>, NEW v, v = tokens', SaysText(v)
  PROVE  SaysText(tokens)'
<1>1. bos' = bos /\ tokens' = v
  OBVIOUS
<1>2. Wanted' = Wanted /\ \A d : Said(d)' = Said(d) /\ Speaks(d)' = Speaks(d)
  BY SaidKept
<1>3. model' = model
  OBVIOUS
<1>4. Words(tokens)' = Words(v)
  BY <1>1, <1>3 DEF Words, Said, Bytes
<1> QED BY <1>1, <1>2, <1>3, <1>4 DEF SaysText, Speaks, PlainText, Bytes

\* ... and what the result says.
LEMMA OutSays ==
  ASSUME UNCHANGED <<model, text, bos>>, NEW v, v = out', SaysText(v)
  PROVE  SaysText(out)'
<1>1. bos' = bos /\ out' = v
  OBVIOUS
<1>2. Wanted' = Wanted /\ \A d : Said(d)' = Said(d) /\ Speaks(d)' = Speaks(d)
  BY SaidKept
<1>3. model' = model
  OBVIOUS
<1>4. Words(out)' = Words(v)
  BY <1>1, <1>3 DEF Words, Said, Bytes
<1> QED BY <1>1, <1>2, <1>3, <1>4 DEF SaysText, Speaks, PlainText, Bytes

\* ... and so are symbols.
LEMMA SymbolsKept ==
  ASSUME UNCHANGED <<model, text, bos>>,
         NEW v, v = out', NEW t, t = tokens', NEW n, n = at', SymbolsAre(v, t, n)
  PROVE  SymbolsAre(out, tokens, at)'
<1>1. model' = model /\ text' = text /\ out' = v /\ tokens' = t /\ at' = n
  OBVIOUS
<1>2. \A d : Bytes(d)' = Bytes(d) /\ Known(d)' = Known(d)
  BY <1>1 DEF Bytes, Known
<1>3. Spelled(out)' = Spelled(v)
  BY <1>1, <1>2, Zenon DEF Spelled
<1>4. Encoded(at)' = Encoded(n)
  BY <1>1 DEF Encoded, Flat
<1> QED BY <1>1, <1>2, <1>3, <1>4, Zenon DEF SymbolsAre

\* What TextInv says of gpt2.
LEMMA SymbolsTextIs ==
  SymbolsText <=> /\ ~bos /\ SymbolsAre(out, tokens, at)
                  /\ tpc # "scan" => tokens = << >>
                  /\ tpc = "done" => at = Len(Flat)
                  /\ tpc = "load" => at = 0
BY Zenon DEF SymbolsText, SymbolsAre

\* The invariant of the text holds when a text is given to the tokenizer.
LEMMA TextStarts == TokInit => TextInv
<1> SUFFICES ASSUME TokInit PROVE TextInv
  OBVIOUS
<1>1. tpc = "load" /\ out = << >> /\ tokens = << >> /\ at = 0 /\ (model.kind = "gpt2" => ~bos)
  BY DEF TokInit
<1>2. SymbolsAre(<< >>, << >>, 0)
  <2>1. [k \in DOMAIN << >> |-> Bytes(<< >>[k])] = << >> /\ [k \in 1..0 |-> ByteEncoder[Flat[k]]] = << >>
    OBVIOUS
  <2>2. Spelled(<< >>) = << >> /\ Encoded(0) = << >>
    BY <2>1, FlattenEmpty, Zenon DEF Spelled, Encoded
  <2>3. << >> \o << >> = << >>
    BY ConcatEmptySeq
  <2>4. \A k \in DOMAIN << >> : Known(<< >>[k])
    OBVIOUS
  <2> QED BY <2>2, <2>3, <2>4, FlattenEmpty, Zenon DEF SymbolsAre
<1>3. model.kind = "gpt2" => SymbolsText
  <2> SUFFICES ASSUME model.kind = "gpt2" PROVE SymbolsText
    OBVIOUS
  <2>1. SymbolsAre(out, tokens, at)
    BY <1>1, <1>2
  <2> QED BY <1>1, <2>1, SymbolsTextIs
<1> QED BY <1>1, <1>3 DEF TextInv

\* Each step of the tokenizer keeps it: the loads,
LEMMA TextLoads == ASSUME TokInv, TextInv, LoadBlob \/ LoadGguf PROVE TextInv'
<1>1. CASE LoadBlob
  <2>1. model'.kind = "llama2c" /\ tpc' \in {"cut", "refused"}
    <3>1. model.kind = "llama2c" /\ model \in VocabularyFiles
      BY <1>1 DEF LoadBlob, TokInv, VocabularyInUse
    <3>2. model' = model \/ model' = [model EXCEPT !.vocab = SubSeq(model.vocab, 1, model.size)]
      BY <1>1 DEF LoadBlob
    <3>3. model'.kind = model.kind
      BY <3>1, <3>2 DEF VocabularyFiles
    <3> QED BY <1>1, <3>1, <3>3 DEF LoadBlob
  <2> QED BY <2>1 DEF TextInv
<1>2. CASE LoadGguf
  <2>1. UNCHANGED <<model, text, bos, at, tokens, out>> /\ tpc = "load" /\ tpc' \in {"cut", "refused"}
    BY <1>2 DEF LoadGguf
  <2>2. Complete' = Complete
    BY <2>1, CompleteKept
  <2>3. CASE model.kind # "gpt2" \/ ~Complete
    BY <2>1, <2>2, <2>3 DEF TextInv
  <2>4. CASE model.kind = "gpt2" /\ Complete
    <3>1. ~bos /\ SymbolsAre(out, tokens, at) /\ tokens = << >>
      BY <2>1, <2>4, SymbolsTextIs DEF TextInv
    <3>2. SymbolsAre(out, tokens, at)'
      <4>1. PICK v, t, n : v = out' /\ t = tokens' /\ n = at'
        OBVIOUS
      <4>2. SymbolsAre(v, t, n)
        BY <2>1, <3>1, <4>1
      <4> QED BY <2>1, <4>1, <4>2, SymbolsKept
    <3>3. SymbolsText'
      BY <2>1, <3>1, <3>2 DEF SymbolsText, SymbolsAre
    <3> QED BY <2>1, <2>4, <3>3 DEF TextInv
  <2> QED BY <2>3, <2>4
<1> QED BY <1>1, <1>2

\* ... the cut of llama2c and spm,
LEMMA TextCutScored == ASSUME TokInv, TextInv, CutScored PROVE TextInv'
<1>1. UNCHANGED <<model, text, bos>> /\ tpc' = "scan" /\ model.kind # "gpt2"
  BY DEF CutScored
<1>2. Complete' = Complete
  BY <1>1, CompleteKept
<1>3. VocabTyped /\ IsText(text) /\ bos \in BOOLEAN /\ model.kind \in {"llama2c", "spm"} /\ Bos \in Id
  BY <1>1 DEF TokInv, TokTypes, VocabularyInUse, VocabularyFiles, VocabTyped, Id, Bos
<1>4. ASSUME Complete PROVE SaysText(tokens)'
  <2>1. PICK b : b = IF model.kind = "spm"
                     THEN FlattenSeq([k \in DOMAIN Normalized |-> CharIds(Normalized[k])])
                     ELSE FlattenSeq([k \in DOMAIN Flat |-> ByteIds(Flat[k])])
    OBVIOUS
  <2>2. b \in Seq(Id) /\ FlattenSeq(Mapped(Speech, b)) = Wanted /\ \A k \in 1..Len(b) : Speaks(b[k])
    <3>1. CASE model.kind = "spm"
      <4>1. b = FlattenSeq([k \in DOMAIN Normalized |-> CharIds(Normalized[k])])
        BY <2>1, <3>1
      <4> QED BY <1>3, <1>4, <3>1, <4>1, SpmBody
    <3>2. CASE model.kind = "llama2c"
      <4>1. b = FlattenSeq([k \in DOMAIN Flat |-> ByteIds(Flat[k])])
        BY <2>1, <3>2
      <4> QED BY <1>3, <1>4, <3>2, <4>1, BlobBody
    <3> QED BY <1>3, <3>1, <3>2
  <2>3. PICK v : v = Head1 \o b
    OBVIOUS
  <2>4. SaysText(v)
    BY <1>3, <2>2, <2>3, CutSays
  <2>5. v = tokens'
    BY <2>1, <2>3, Zenon DEF CutScored
  <2> QED BY <1>1, <2>4, <2>5, TokensSay
<1> QED BY <1>1, <1>2, <1>4 DEF TextInv

\* ... that of gpt2 and its end,
LEMMA TextCutPiece == ASSUME TokInv, TextInv, CutPiece \/ EndText PROVE TextInv'
<1>1. /\ UNCHANGED <<model, text, bos, out>> /\ tpc = "cut" /\ model.kind = "gpt2"
      /\ tpc' \in {"panicked", "scan", "done"}
  BY DEF CutPiece, EndText
<1>2. Complete' = Complete
  BY <1>1, CompleteKept
<1>3. VocabTyped /\ IsText(text) /\ out \in Seq(Id) /\ at \in 0..Len(Flat)
  BY DEF TokInv, TokTypes, VocabularyInUse, VocabularyFiles, VocabTyped
<1>4. ASSUME Complete, tpc' # "panicked" PROVE SymbolsText'
  <2>1. ~bos /\ SymbolsAre(out, tokens, at) /\ tokens = << >>
    BY <1>1, <1>4, SymbolsTextIs DEF TextInv
  <2>2. PICK v, t, n : v = out' /\ t = tokens' /\ n = at'
    OBVIOUS
  <2>3. CASE CutPiece
    <3>1. SymbolsAre(v, t, n)
      <4>1. SymbolsAre(out, tokens', at')
        BY <1>1, <1>3, <1>4, <2>1, <2>3, SymbolsCut
      <4> QED BY <1>1, <2>2, <4>1
    <3>2. SymbolsAre(out, tokens, at)'
      BY <1>1, <2>2, <3>1, SymbolsKept
    <3>3. tpc' = "scan"
      BY <1>4, <2>3 DEF CutPiece
    <3> QED BY <1>1, <2>1, <3>2, <3>3 DEF SymbolsText, SymbolsAre
  <2>4. CASE EndText
    <3>1. UNCHANGED <<at, tokens>> /\ at = Len(Flat) /\ tpc' = "done"
      BY <2>4 DEF EndText
    <3>2. SymbolsAre(v, t, n)
      BY <1>1, <2>1, <2>2, <3>1
    <3>3. SymbolsAre(out, tokens, at)'
      BY <1>1, <2>2, <3>2, SymbolsKept
    <3>4. (at = Len(Flat))'
      BY <1>1, <3>1 DEF Flat
    <3> QED BY <1>1, <2>1, <3>1, <3>3, <3>4 DEF SymbolsText, SymbolsAre
  <2> QED BY <2>3, <2>4
<1> QED BY <1>1, <1>2, <1>4 DEF TextInv

\* ... a step that leaves the tokens alone,
LEMMA TextKept ==
  ASSUME TextInv, UNCHANGED <<model, text, bos, tpc, at, tokens, out>>
  PROVE  TextInv'
<1>1. Complete' = Complete
  BY CompleteKept
<1>2. PICK v, t, n : v = out' /\ t = tokens' /\ n = at'
  OBVIOUS
<1>3. ASSUME Complete, model.kind = "gpt2", tpc \in {"load", "cut", "scan", "done"} PROVE SymbolsText'
  <2>1. SymbolsText
    BY <1>3 DEF TextInv
  <2>2. ~bos /\ SymbolsAre(out, tokens, at) /\ (tpc # "scan" => tokens = << >>)
        /\ (tpc = "done" => at = Len(Flat)) /\ (tpc = "load" => at = 0)
    BY <2>1, SymbolsTextIs
  <2>3. SymbolsAre(v, t, n)
    BY <1>2, <2>2
  <2>4. SymbolsAre(out, tokens, at)'
    BY <1>2, <2>3, SymbolsKept
  <2>5. Flat' = Flat
    BY DEF Flat
  <2> QED BY <2>2, <2>4, <2>5 DEF SymbolsText, SymbolsAre
<1>4. ASSUME Complete, model.kind # "gpt2", tpc = "scan" PROVE SaysText(tokens)'
  <2>1. SaysText(t)
    BY <1>2, <1>4 DEF TextInv
  <2> QED BY <1>2, <2>1, TokensSay
<1>5. ASSUME Complete, model.kind # "gpt2", tpc = "done" PROVE SaysText(out)'
  <2>1. SaysText(v)
    BY <1>2, <1>5 DEF TextInv
  <2> QED BY <1>2, <2>1, OutSays
<1> QED BY <1>1, <1>3, <1>4, <1>5 DEF TextInv

\* ... a merge,
LEMMA TextMerge == ASSUME TokInv, TextInv, Merge PROVE TextInv'
<1>1. /\ UNCHANGED <<model, text, bos, tpc, at, out>> /\ tpc = "scan" /\ tokens' = MergedAt(best)
      /\ best # NoPair /\ i >= Len(tokens)
  BY DEF Merge, ScanEnded
<1>2. Complete' = Complete
  BY <1>1, CompleteKept
<1>3. /\ VocabTyped /\ bos \in BOOLEAN /\ tokens \in (IF model.kind = "gpt2" THEN Seq(Seq(Nat)) ELSE Seq(Id))
      /\ model.kind \in {"llama2c", "spm", "gpt2"}
  BY DEF TokInv, TokTypes, VocabularyInUse, VocabularyFiles, VocabTyped
<1>4. CanMerge(best) /\ best \in ScanStart..i - 1 /\ i \in Nat \ {0} /\ (i = 1 \/ i <= Len(tokens))
      /\ best \in 0..i - 1
  BY <1>1 DEF TokInv, TokTypes, ScanState, BestSoFar
<1>5. best \in 1..Len(tokens) - 1 /\ best >= ScanStart
  <2>1. Len(tokens) \in Nat
    BY <1>3
  <2>2. ScanStart \in Nat
    BY DEF ScanStart
  <2>3. best # 0
    BY <1>1 DEF NoPair
  <2> QED BY <1>4, <2>1, <2>2, <2>3
<1>6. PICK k \in 1..Len(tokens) - 1 : k = best
  BY <1>5
<1>7. ASSUME Complete, model.kind = "gpt2" PROVE SymbolsText'
  <2>1. ~bos /\ SymbolsAre(out, tokens, at)
    BY <1>1, <1>7, SymbolsTextIs DEF TextInv
  <2>2. PICK v, t, n : v = out' /\ t = tokens' /\ n = at'
    OBVIOUS
  <2>3. FlattenSeq(MergedAt(k)) = FlattenSeq(tokens) /\ \A x \in DOMAIN MergedAt(k) : Known(MergedAt(k)[x])
    <3>1. tokens \in Seq(Seq(Nat)) /\ CanMerge(k) /\ \A x \in DOMAIN tokens : Known(tokens[x])
      BY <1>3, <1>4, <1>6, <1>7, <2>1 DEF SymbolsAre
    <3> QED BY <1>7, <3>1, SymbolsMerge
  <2>4. t = MergedAt(k) /\ v = out /\ n = at
    BY <1>1, <1>6, <2>2
  <2>5. SymbolsAre(v, t, n)
    BY <2>1, <2>3, <2>4, Zenon DEF SymbolsAre
  <2>6. SymbolsAre(out, tokens, at)'
    BY <1>1, <2>2, <2>5, SymbolsKept
  <2>7. tpc' = "scan"
    BY <1>1
  <2> QED BY <1>1, <2>1, <2>6, <2>7 DEF SymbolsText, SymbolsAre
<1>8. ASSUME Complete, model.kind # "gpt2" PROVE SaysText(tokens)'
  <2>1. SaysText(tokens) /\ tokens \in Seq(Id) /\ model.kind \in {"llama2c", "spm"}
    BY <1>1, <1>3, <1>8 DEF TextInv
  <2>2. Known(Joined(k)) /\ k >= ScanStart
    BY <1>4, <1>5, <1>6, <1>8 DEF CanMerge
  <2>3. PICK v : v = MergedAt(k)
    OBVIOUS
  <2>4. SaysText(v)
    BY <1>3, <1>8, <2>1, <2>2, <2>3, MergeSays
  <2>5. v = tokens'
    BY <1>1, <1>6, <2>3
  <2> QED BY <1>1, <2>4, <2>5, TokensSay
<1> QED BY <1>1, <1>2, <1>7, <1>8 DEF TextInv

\* ... and the end of a scan.
LEMMA TextEndMerge == ASSUME TokInv, TextInv, EndMerge PROVE TextInv'
<1>1. UNCHANGED <<model, text, bos, at>> /\ tpc = "scan"
  BY DEF EndMerge, ScanEnded
<1>2. Complete' = Complete
  BY <1>1, CompleteKept
<1>3. /\ VocabTyped /\ tokens \in (IF model.kind = "gpt2" THEN Seq(Seq(Nat)) ELSE Seq(Id))
      /\ out \in Seq(Id)
  BY DEF TokInv, TokTypes, VocabularyInUse, VocabularyFiles, VocabTyped
<1>4. PICK v, t, n : v = out' /\ t = tokens' /\ n = at'
  OBVIOUS
<1>5. CASE model.kind = "gpt2"
  <2>1. v = out \o FlattenSeq([j \in DOMAIN tokens |-> IF Known(tokens[j]) THEN <<IdOf(tokens[j])>> ELSE << >>])
        /\ tokens' = << >> /\ tpc' = "cut"
    BY <1>4, <1>5 DEF EndMerge
  <2>2. ASSUME Complete PROVE SymbolsText'
    <3>1. ~bos /\ SymbolsAre(out, tokens, at)
      BY <1>1, <1>5, <2>2, SymbolsTextIs DEF TextInv
    <3>2. n = at /\ t = << >>
      BY <1>1, <1>4, <2>1
    <3>3. SymbolsAre(out, tokens, n)
      BY <3>1, <3>2
    <3>4. SymbolsAre(v, << >>, n)
      <4>1. tokens \in Seq(Seq(Nat))
        BY <1>3, <1>5
      <4> QED BY <1>3, <2>1, <3>3, <4>1, SymbolsEnd
    <3>5. SymbolsAre(v, t, n)
      BY <3>2, <3>4
    <3>6. SymbolsAre(out, tokens, at)'
      BY <1>1, <1>4, <3>5, SymbolsKept
    <3> QED BY <1>1, <2>1, <3>1, <3>6 DEF SymbolsText, SymbolsAre
  <2> QED BY <1>1, <1>2, <1>5, <2>1, <2>2 DEF TextInv
<1>6. CASE model.kind # "gpt2"
  <2>1. out' = tokens /\ tpc' = "done"
    BY <1>6 DEF EndMerge
  <2>2. ASSUME Complete PROVE SaysText(out)'
    <3>1. SaysText(v)
      BY <1>1, <1>4, <1>6, <2>1, <2>2 DEF TextInv
    <3> QED BY <1>1, <1>4, <3>1, OutSays
  <2> QED BY <1>1, <1>2, <1>6, <2>1, <2>2 DEF TextInv
<1> QED BY <1>5, <1>6

\* So every step of the tokenizer keeps what is said of the text.
LEMMA TextStep == TokInv /\ TextInv /\ TokNext => TextInv'
<1> SUFFICES ASSUME TokInv, TextInv, TokNext PROVE TextInv'
  OBVIOUS
<1>1. CASE ScanPair
  <2>1. UNCHANGED <<model, text, bos, tpc, at, tokens, out>>
    BY <1>1 DEF ScanPair
  <2> QED BY <2>1, TextKept
<1> QED BY <1>1, TextLoads, TextCutScored, TextCutPiece, TextMerge, TextEndMerge DEF TokNext

\* A text that is done decodes to what was encoded.
LEMMA TextDecodes ==
  ASSUME TokInv, TextInv
  PROVE  RoundTrip
<1> SUFFICES ASSUME tpc = "done", Complete PROVE RoundTrip
  BY DEF RoundTrip
<1> DEFINE body == FlattenSeq([k \in DOMAIN text |-> IF text[k] = Mark THEN <<Space>> ELSE text[k]])
           want == IF bos /\ Flat # << >> /\ Flat[1] = Space THEN Tail(Flat) ELSE Flat
           prev == IF bos THEN Bos ELSE 0
<1>1. VocabTyped /\ IsText(text) /\ bos \in BOOLEAN /\ out \in Seq(Id) /\ model.kind \in {"llama2c", "spm", "gpt2"}
  BY DEF TokInv, TokTypes, VocabularyInUse, VocabularyFiles, VocabTyped
<1>2. SUFFICES /\ bos => out # << >> /\ out[1] = Bos
               /\ model.kind = "llama2c" => DecodeLlama2c(prev, Rest(out)) = want
               /\ model.kind = "spm" => DecodeSpm(Rest(out)) = body
               /\ model.kind = "gpt2" => DecodeGpt2(Rest(out)) = Flat
  <2>1. /\ "llama2c" # "spm" /\ "llama2c" # "gpt2" /\ "spm" # "gpt2"
    OBVIOUS
  <2>2. Rest(out) = IF bos THEN Tail(out) ELSE out
    BY DEF Rest
  <2> HIDE DEF body, want, prev
  <2>3. CASE model.kind = "llama2c"
    <3>1. bos => out # << >> /\ out[1] = Bos
      BY <1>2
    <3>2. DecodeLlama2c(prev, Rest(out)) = want
      BY <1>2, <2>3
    <3> QED BY <2>1, <2>2, <2>3, <3>1, <3>2 DEF RoundTrip, want, prev
  <2>4. CASE model.kind = "spm"
    BY <1>2, <2>1, <2>2, <2>4 DEF RoundTrip, body
  <2>5. CASE model.kind = "gpt2"
    BY <1>2, <2>1, <2>2, <2>5 DEF RoundTrip
  <2> QED BY <1>1, <2>3, <2>4, <2>5
<1> HIDE DEF body, want, prev
<1>3. CASE model.kind = "gpt2"
  <2>1. ~bos /\ SymbolsAre(out, tokens, at) /\ tokens = << >> /\ at = Len(Flat)
    BY <1>3, SymbolsTextIs DEF TextInv
  <2>2. Spelled(out) = Encoded(Len(Flat))
    <3>1. Spelled(out) \in Seq(Nat)
      BY <1>1, SpelledIs
    <3>2. Spelled(out) \o << >> = Spelled(out)
      BY <3>1, ConcatEmptySeq
    <3> QED BY <2>1, <3>2, FlattenEmpty, Zenon DEF SymbolsAre
  <2>3. DecodeGpt2(out) = Flat
    BY <1>1, <2>2, SymbolsDecode
  <2>4. Rest(out) = out
    BY <2>1 DEF Rest
  <2> QED BY <1>3, <2>1, <2>3, <2>4
<1>4. CASE model.kind \in {"llama2c", "spm"}
  <2>1. SaysText(out)
    BY <1>4 DEF TextInv
  <2>2. bos => out # << >> /\ out[1] = Bos
    <3>1. bos => Len(out) > 0 /\ out[1] = Bos
      BY <2>1 DEF SaysText
    <3> QED BY <1>1, <3>1
  <2>3. model.kind = "llama2c" => DecodeLlama2c(prev, Rest(out)) = want
    BY <1>1, <2>1, BlobDecodes DEF prev, want
  <2>4. model.kind = "spm" => DecodeSpm(Rest(out)) = body
    BY <1>1, <2>1, SpmDecodes DEF body
  <2> QED BY <1>4, <2>2, <2>3, <2>4
<1> QED BY <1>1, <1>3, <1>4
-----------------------------------------------------------------------------
(* The session.                                                            *)

\* The parser keeps its invariant, also before it has begun.
LEMMA ParseKept ==
  ASSUME NoParse \/ (ParseInv /\ MetadataTyped), ParseNext \/ UNCHANGED pvars
  PROVE  (NoParse \/ (ParseInv /\ MetadataTyped))'
<1>1. CASE NoParse
  <2>1. ~ParseNext
    BY <1>1 DEF NoParse, ParseNext, ReadHeader, ReadEntry, SkipString, EndStringArray, EndMetadata,
                ReadInfo, Align, Materialize, ParseDone
  <2> QED BY <1>1, <2>1 DEF NoParse, pvars
<1>2. CASE ParseInv /\ MetadataTyped
  BY <1>2, ParseInvStep, MetadataStep
<1> QED BY <1>1, <1>2

\* The invariant holds before anything is opened.
LEMMA SessionStarts == Init => SessionInv
<1> SUFFICES ASSUME Init PROVE SessionInv
  OBVIOUS
<1>1. NoParse \/ ParseInit
  BY DEF Init
<1>2. NoParse \/ (ParseInv /\ MetadataTyped)
  BY <1>1, ParseStarts DEF ParseInit, MetadataTyped
<1>3. NoText \/ TokInv
  BY TokStarts DEF Init
<1>4. ids \in Seq(Nat)
  BY DEF Init
<1>5. epc = "off" \/ EngineInv
  BY InvStarts DEF Init, NoEngine
<1> QED BY <1>2, <1>3, <1>4, <1>5 DEF SessionInv

\* Every step of a session keeps the invariant.
LEMMA SessionStep == SessionInv /\ [Next]_svars => SessionInv'
<1> SUFFICES ASSUME SessionInv, [Next]_svars PROVE SessionInv'
  OBVIOUS
<1>1. (NoParse \/ (ParseInv /\ MetadataTyped))'
  <2>1. ParseNext \/ UNCHANGED pvars
    BY DEF Next, svars, Open, Encode, Prompt, Run
  <2> QED BY <2>1, ParseKept DEF SessionInv
<1>2. (NoText \/ TokInv)'
  <2>1. TokNext \/ UNCHANGED tvars
    BY DEF Next, svars, Open, Encode, Prompt, Run
  <2>2. CASE NoText
    <3>1. ~TokNext
      BY <2>2 DEF NoText, TokNext, LoadBlob, LoadGguf, CutScored, CutPiece, EndText, ScanPair,
                  Merge, ScanEnded, EndMerge
    <3> QED BY <2>1, <2>2, <3>1 DEF NoText, tvars
  <2>3. CASE TokInv
    BY <2>1, <2>3, TokStep, TokKept
  <2> QED BY <2>2, <2>3 DEF SessionInv
<1>3. ids' \in Seq(Nat)
  <2>1. CASE Prompt
    <3>1. TokInv
      BY <2>1 DEF SessionInv, NoText, Prompt
    <3>2. out \in Seq(Id) /\ Len(model.vocab) \in Nat
      BY <3>1 DEF TokInv, TokTypes, VocabularyInUse, VocabularyFiles
    <3>3. out \in Seq(Nat)
      <4>1. \A k \in 1..Len(out) : out[k] \in Nat
        BY <3>2, ElementOfSeq DEF Id
      <4> QED BY <3>2, <4>1, SeqDef, LenProperties
    <3> QED BY <2>1, <3>3 DEF Prompt
  <2>2. CASE ~Prompt
    <3>1. ids' = ids
      BY <2>2 DEF Next, svars, evars, Open, Encode, Run, EngineNext, Load, Create, Embed, EndPass, Dispatch
    <3> QED BY <3>1 DEF SessionInv
  <2> QED BY <2>1, <2>2
<1>4. (epc = "off" \/ EngineInv)'
  <2>1. CASE Run
    <3>1. EngineInv
      <4>1. epc # "off"
        BY <2>1 DEF Run, EngineNext, Load, Create, Embed, EndPass, Dispatch
      <4> QED BY <4>1 DEF SessionInv
    <3> QED BY <2>1, <3>1, EngineKept DEF SessionInv, Run
  <2>2. CASE Prompt
    <3>1. epc = "load" /\ UNCHANGED <<engine, file, epc, mem, prog, ran, base, logits>>
      BY <2>2 DEF Prompt
    <3>2. EngineInv
      BY <3>1 DEF SessionInv
    <3> QED BY <3>1, <3>2, EnginePrompted
  <2>3. CASE UNCHANGED evars
    <3>1. epc' = epc
      BY <2>3 DEF evars
    <3> QED BY <2>3, <3>1, EngineLeft DEF SessionInv
  <2>4. Run \/ Prompt \/ UNCHANGED evars
    BY DEF Next, svars, Open, Encode
  <2> QED BY <2>1, <2>2, <2>3, <2>4
<1> QED BY <1>1, <1>2, <1>3, <1>4 DEF SessionInv

\* The invariant holds throughout every session.
THEOREM SessionInvariant == Spec => []SessionInv
<1>1. Init => SessionInv
  BY SessionStarts
<1>2. SessionInv /\ [Next]_svars => SessionInv'
  BY SessionStep
<1> QED BY <1>1, <1>2, PTL DEF Spec

\* What is said of the text holds throughout a session, and before there is one.
LEMMA SessionText == Spec => [](NoText \/ TextInv)
<1> DEFINE J == NoText \/ TextInv
<1>1. Init => J
  BY TextStarts DEF Init
<1>2. SessionInv /\ J /\ [Next]_svars => J'
  <2> SUFFICES ASSUME SessionInv, J, [Next]_svars PROVE J'
    OBVIOUS
  <2>1. TokNext \/ UNCHANGED tvars
    BY DEF Next, svars, Open, Encode, Prompt, Run
  <2>2. CASE NoText
    <3>1. ~TokNext
      BY <2>2 DEF NoText, TokNext, LoadBlob, LoadGguf, CutScored, CutPiece, EndText, ScanPair,
                  Merge, ScanEnded, EndMerge
    <3> QED BY <2>1, <2>2, <3>1 DEF NoText, tvars
  <2>3. CASE ~NoText
    <3>1. TokInv /\ TextInv
      BY <2>3 DEF SessionInv
    <3>2. CASE TokNext
      BY <3>1, <3>2, TextStep
    <3>3. CASE UNCHANGED tvars
      <4>1. UNCHANGED <<model, text, bos, tpc, at, tokens, out>>
        BY <3>3 DEF tvars
      <4> QED BY <3>1, <4>1, TextKept
    <3> QED BY <2>1, <3>2, <3>3
  <2> QED BY <2>2, <2>3
<1> HIDE DEF J
<1>3. Spec => []J
  BY <1>1, <1>2, SessionInvariant, PTL DEF Spec
<1> QED BY <1>3 DEF J

\* Every tokenizer, with every vocabulary that is complete for the text: what the
\* ids decode to is the text, whatever was merged and in what order, with a BOS
\* in front or without one.
THEOREM RoundTrips == Spec => []RoundTrip
<1>1. SessionInv /\ (NoText \/ TextInv) => RoundTrip
  <2> SUFFICES ASSUME SessionInv, NoText \/ TextInv PROVE RoundTrip
    OBVIOUS
  <2>1. CASE NoText
    BY <2>1 DEF NoText, RoundTrip
  <2>2. CASE ~NoText
    BY <2>2, TextDecodes DEF SessionInv
  <2> QED BY <2>1, <2>2
<1> QED BY <1>1, SessionInvariant, SessionText, PTL

\* Encoders and passes: ids are ids of the vocabulary, the best pair lies before
\* the scan, the cursors within file and text, and a pass within its prompt.
THEOREM SessionTyped == Spec => []TypeOK
<1>1. SessionInv => TypeOK
  <2> SUFFICES ASSUME SessionInv PROVE TypeOK
    OBVIOUS
  <2>1. pc # "off" => ParseTypeOK
    BY DEF SessionInv, NoParse, ParseInv, Types, Stages, Header, ParseTypeOK
  <2>2. ids # << >> /\ epc = "run" => ran \subseteq DOMAIN prog /\ Rows \in 1..Len(ids)
    <3> SUFFICES ASSUME ids # << >>, epc = "run" PROVE ran \subseteq DOMAIN prog /\ Rows \in 1..Len(ids)
      OBVIOUS
    <3>1. Len(ids) \in Nat \ {0}
      BY EmptySeq DEF SessionInv
    <3>2. epc # "off"
      OBVIOUS
    <3> QED BY <3>1, <3>2 DEF SessionInv, EngineInv, Rows
  <2>3. CASE NoText
    <3>1. Len(Flat) \in Nat
      <4>1. Flat = << >>
        BY <2>3, FlattenEmpty DEF NoText, Flat
      <4> QED BY <4>1
    <3>2. \A k \in DOMAIN out : FALSE
      BY <2>3 DEF NoText
    <3>3. best \in 0..i - 1 /\ at \in 0..Len(Flat)
      BY <2>3, <3>1 DEF NoText, NoPair
    <3> QED BY <2>1, <2>2, <2>3, <3>2, <3>3 DEF TypeOK, SessionTypeOK, NoText
  <2>4. CASE TokInv
    <3>1. Len(model.vocab) \in Nat /\ TokTypes
      BY <2>4 DEF TokInv, VocabularyInUse, VocabularyFiles
    <3>2. \A k \in DOMAIN out : out[k] \in Nat /\ out[k] < Len(model.vocab)
      <4>1. \A k \in DOMAIN out : out[k] \in Id
        BY <3>1, ElementOfSeq DEF TokTypes
      <4> QED BY <3>1, <4>1 DEF Id
    <3>3. model.kind # "gpt2" => \A k \in DOMAIN tokens : tokens[k] < Len(model.vocab)
      <4>1. model.kind # "gpt2" => \A k \in DOMAIN tokens : tokens[k] \in Id
        BY <3>1, ElementOfSeq DEF TokTypes
      <4> QED BY <3>1, <4>1 DEF Id
    <3> QED BY <2>1, <2>2, <3>1, <3>2, <3>3 DEF TypeOK, SessionTypeOK, TokTypes
  <2> QED BY <2>3, <2>4 DEF SessionInv
<1> QED BY <1>1, SessionInvariant, PTL

\* The engines: each vector of logits is that of the last layer at its position,
\* and no operation reads a buffer before the values it needs are there, or after
\* they were overwritten, whichever engine, file and prompt, and in whatever order
\* the dispatches of Metal run that no barrier orders.
THEOREM SessionComputes == Spec => []EngineIsReference
<1>1. SessionInv => EngineIsReference
  <2> SUFFICES ASSUME SessionInv PROVE EngineIsReference
    OBVIOUS
  <2>1. CASE epc = "off"
    BY <2>1 DEF EngineIsReference
  <2>2. CASE EngineInv
    BY <2>2, InvImplies DEF SessionInv
  <2> QED BY <2>1, <2>2 DEF SessionInv
<1> QED BY <1>1, SessionInvariant, PTL

\* The scan of encode: when it ends, it has found the best pair of all, the
\* leftmost of equals, and none only if none can be merged.
THEOREM ScanFinds == Spec => []ScanFindsBest
<1>1. SessionInv => ScanFindsBest
  <2> SUFFICES ASSUME SessionInv, ScanEnded PROVE ScanFindsBest
    BY DEF ScanFindsBest
  <2>1. TokInv /\ tpc = "scan" /\ i >= Len(tokens)
    BY DEF SessionInv, NoText, ScanEnded
  <2>2. BestSoFar /\ (i = 1 \/ i =< Len(tokens)) /\ i \in Nat \ {0} /\ Len(tokens) \in Nat
    BY <2>1 DEF TokInv, ScanState, TokTypes
  <2>3. ScanStart \in 1..2
    BY DEF ScanStart
  <2>4. ScanStart..i - 1 = ScanStart..Len(tokens) - 1
    BY <2>1, <2>2, <2>3
  <2> QED BY <2>2, <2>4 DEF BestSoFar, ScanFindsBest, Before, NoPair
<1> QED BY <1>1, SessionInvariant, PTL

\* The pretokenizer (gguf_bpe.rs:119-158): for every UTF-8 text each piece begins
\* and ends between two characters, so the slices that take the pieces out never
\* panic; the only slice that does is one of the two behind a quote, with a
\* character of several bytes within the two or three bytes it takes.
THEOREM PanicsAtQuote == Spec => []PanicsOnlyAtQuote
<1>1. SessionInv => PanicsOnlyAtQuote
  BY DEF SessionInv, TokInv, NoText, PanicsOnlyAtQuote
<1> QED BY <1>1, SessionInvariant, PTL

\* GgufFile::parse within a session: what the parser is proved to do it does there.
THEOREM SessionParses == Spec => [](TensorsInFile /\ LookupFindsLast /\ ReservationIsExact)
<1>1. SessionInv => TensorsInFile /\ LookupFindsLast /\ ReservationIsExact
  <2> SUFFICES ASSUME SessionInv PROVE TensorsInFile /\ LookupFindsLast /\ ReservationIsExact
    OBVIOUS
  <2>1. CASE NoParse
    <3>1. tensors = << >> /\ by_name = << >> /\ reserved = 0 /\ len = 0 /\ pc = "off"
      BY <2>1 DEF NoParse
    <3>2. \A k \in 1..Len(tensors) : FALSE
      BY <3>1
    <3>3. DOMAIN by_name = {}
      BY <3>1
    <3> QED BY <3>1, <3>2, <3>3 DEF TensorsInFile, LookupFindsLast, ReservationIsExact, MinTensorInfoBytes
  <2>2. CASE ParseInv
    BY <2>2 DEF ParseInv, Stages, ReservationIsExact, MinTensorInfoBytes
  <2> QED BY <2>1, <2>2 DEF SessionInv
<1> QED BY <1>1, SessionInvariant, PTL

\* ... and its cursor moves forward.
THEOREM SessionCursor == Spec => CursorMovesForward
<1>1. SessionInv /\ [Next]_svars => [pc' # "refused" => pos' >= pos]_pvars
  <2> SUFFICES ASSUME SessionInv, [Next]_svars, ~UNCHANGED pvars, pc' # "refused" PROVE pos' >= pos
    OBVIOUS
  <2>1. ParseNext
    BY DEF Next, svars, Open, Encode, Prompt, Run
  <2>2. ParseInv /\ MetadataTyped
    BY <2>1 DEF SessionInv, NoParse, ParseNext, ReadHeader, ReadEntry, SkipString, EndStringArray,
                EndMetadata, ReadInfo, Align, Materialize, ParseDone
  <2> QED BY <2>1, <2>2, CursorAdvances
<1> QED BY <1>1, SessionInvariant, PTL DEF Spec, CursorMovesForward
==============================================================================

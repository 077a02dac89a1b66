------------------------------- MODULE Forward -------------------------------
(***************************************************************************)
(* One transformer engine: the layers of a forward pass over a KV cache    *)
(* that outlives the pass.  The CPU passes of src/model/forward.rs and     *)
(* src/model/forward_quantized.rs and the GPU passes of cuda/ and metal/   *)
(* have the same structure, and feed one token per pass; the CUDA prefill  *)
(* feeds a batch of positions, a whole layer at a time.                    *)
(*                                                                         *)
(* A vector is represented by what it is a function of: the tokens `of',   *)
(* and the numerics `num' of the linears that made it.  The embedding of a *)
(* token depends on that token only; attention makes the residual stream   *)
(* of a position depend on the tokens of all positions up to it, if the    *)
(* rows it reads are those of one token sequence, each key rotated once,   *)
(* by its own position.  Otherwise the result is Torn.                     *)
(***************************************************************************)
EXTENDS Naturals, Sequences

CONSTANTS
  Token,     \* the vocabulary
  NLayers,   \* cfg.n_layers
  SeqLen,    \* cfg.seq_len, max_seq on a GPU
  Torn,      \* a vector made of rows that belong to no one sequence
  NoRope,    \* the rotation of a key that was not rotated
  NoLogits,  \* no pass has returned logits for fed
  MaxPasses  \* bound: passes and resets

ASSUME ForwardAssumption ==
  /\ NLayers \in Nat \ {0} /\ SeqLen \in Nat \ {0} /\ MaxPasses \in Nat

Layer == 0..NLayers-1
Position == 0..SeqLen-1
Numerics == {2, 3}

Data == [of : UNION {[1..n -> Token] : n \in 0..SeqLen}, num : Numerics]
Vector == Data \cup {Torn}

ASSUME TornAssumption == Torn \notin Data     \* the mark is no vector

Zero == [of |-> << >>, num |-> 2]     \* a zeroed row

VARIABLES
  regime,  \* RunState.regime, VtCuda.regime
  keyc,    \* key_cache[layer][position]: [vec, rope]
  valc,    \* value_cache[layer][position]
  pass,    \* NoPass, or the pass in progress: [at, tokens, batch, layer, stage]
  x,       \* the residual stream of each position of the pass
  fed,     \* the caller's view: the tokens at positions 0.. it has fed
  logits,  \* the vector the last returned logits were computed from
  passes   \* passes and new or reset engines so far

cache == <<keyc, valc>>
vars == <<regime, keyc, valc, pass, x, fed, logits, passes>>

NoPass == [at |-> 0, tokens |-> << >>, batch |-> FALSE, layer |-> 0, stage |-> "none"]

BlankKeys == [l \in Layer |-> [p \in Position |-> [vec |-> Zero, rope |-> NoRope]]]
BlankValues == [l \in Layer |-> [p \in Position |-> Zero]]

(* The positions of the pass. *)
Batch == pass.at .. pass.at + Len(pass.tokens) - 1

(* The numerics of the quantized linears.  The batched linears of a prefill
   are the regime-3 ones whatever the engine's regime is. *)
Linears == IF pass.batch THEN 3 ELSE regime

Apply(v) == IF v = Torn THEN Torn ELSE [v EXCEPT !.num = Linears]

-----------------------------------------------------------------------------
(* The calls.                                                              *)

(* RunState::new and CudaForward::new; or reset. *)
NewEngine ==
  /\ pass = NoPass /\ passes < MaxPasses
  /\ regime' \in Numerics
  /\ keyc' = BlankKeys /\ valc' = BlankValues
  /\ fed' = << >> /\ logits' = NoLogits
  /\ passes' = passes + 1
  /\ UNCHANGED <<pass, x>>

\* Mutant: off by one.
FitsOneMore(at, tokens) == at + Len(tokens) <= SeqLen + 1

(* The drivers check the length before they feed anything; the passes rely
   on it (the CPU cache is flat, and CUDA does not compare pos to max_seq). *)
Fits(at, tokens) == at + Len(tokens) <= SeqLen

\* Mutant: a prefill is asked of an engine of any regime.
PrefillAtStart(at) == at = 0

(* The one caller of the batched prefill makes a regime-3 engine for it, or
   is given one, and starts at position 0. *)
MayPrefill(at) == at = 0 /\ regime = 3

(* A caller feeds tokens at a position it has reached: the next one, or an
   earlier one when it starts over without a reset. *)
BeginPass(at, tokens, batch) ==
  /\ pass = NoPass /\ passes < MaxPasses
  /\ at \in 0..Len(fed) /\ Fits(at, tokens)
  /\ IF batch THEN MayPrefill(at) ELSE Len(tokens) = 1
  /\ pass' = [at |-> at, tokens |-> tokens, batch |-> batch, layer |-> 0, stage |-> "qkv"]
  /\ x' = [p \in at..at + Len(tokens) - 1 |->
             [of |-> <<tokens[p - at + 1]>>, num |-> regime]]     \* the embeddings
  /\ fed' = SubSeq(fed, 1, at) /\ logits' = NoLogits
  /\ passes' = passes + 1
  /\ UNCHANGED <<regime, cache>>

-----------------------------------------------------------------------------
(* The stages of a layer.                                                  *)

(* k and v of the normed residual go to the cache, k unrotated. *)
WriteKv(ks, vs) ==
  /\ keyc' = [keyc EXCEPT ![pass.layer] =
       [p \in Position |-> IF p \in ks THEN [vec |-> Apply(x[p]), rope |-> NoRope] ELSE @[p]]]
  /\ valc' = [valc EXCEPT ![pass.layer] =
       [p \in Position |-> IF p \in vs THEN Apply(x[p]) ELSE @[p]]]

(* A key is rotated once; a second rotation makes it one of no position. *)
Rotated(key, p) == [key EXCEPT !.rope = IF @ = NoRope THEN p ELSE Torn]

(* k is rotated in place in the cache, by its position in the rope cache. *)
RotateKeys(ps) ==
  /\ keyc' = [keyc EXCEPT ![pass.layer] =
       [p \in Position |->
          IF p \in ps THEN Rotated(@[p], p) ELSE @[p]]]
  /\ UNCHANGED valc

(* The tokens a position of the sequence `of' is a function of, when it
   enters layer l. *)
Entering(l, of, p) == IF l = 0 THEN <<of[p + 1]>> ELSE SubSeq(of, 1, p + 1)

(* Attention at position p over the rows 0..p of the layer, the output
   projection and the FFN, each with its residual. *)
Attend(p) ==
  LET keys == keyc[pass.layer]
      vals == valc[pass.layer]
      Reads(of) == \A t \in 0..p :
                     LET row == [of |-> Entering(pass.layer, of, t), num |-> Linears]
                     IN  keys[t] = [vec |-> row, rope |-> t] /\ vals[t] = row
      sound == /\ \A t \in 0..p : keys[t].vec # Torn /\ keys[t].vec.of # << >>
               /\ x[p] # Torn
      of == IF pass.layer > 0 THEN keys[p].vec.of
            ELSE [t \in 1..p+1 |-> keys[t-1].vec.of[1]]
  IN  IF sound /\ Len(of) = p + 1 /\ Reads(of) /\ x[p].of = Entering(pass.layer, of, p)
      THEN [of |-> of, num |-> Linears]
      ELSE Torn

\* Mutant: the values stay as they were.
QkvKeysOnly == /\ pass.stage = "qkv"
               /\ WriteKv(Batch, {})
               /\ pass' = [pass EXCEPT !.stage = "rope"]
               /\ UNCHANGED <<regime, x, fed, logits, passes>>

Qkv == /\ pass.stage = "qkv"
       /\ WriteKv(Batch, Batch)
       /\ pass' = [pass EXCEPT !.stage = "rope"]
       /\ UNCHANGED <<regime, x, fed, logits, passes>>

Rope == /\ pass.stage = "rope"
        /\ RotateKeys(Batch)
        /\ pass' = [pass EXCEPT !.stage = "attend"]
        /\ UNCHANGED <<regime, x, fed, logits, passes>>

NextLayer == IF pass.layer + 1 < NLayers
             THEN [pass EXCEPT !.layer = @ + 1, !.stage = "qkv"]
             ELSE [pass EXCEPT !.stage = "head"]

AttendAll ==
  /\ pass.stage = "attend"
  /\ x' = [p \in Batch |-> Attend(p)]
  /\ pass' = NextLayer
  /\ UNCHANGED <<regime, cache, fed, logits, passes>>

\* Mutant: the head is run on the first position of the batch.
FirstOfPass == pass.at

LastOfPass == pass.at + Len(pass.tokens) - 1

(* The final norm and lm_head, for the last position of the pass. *)
LmHead ==
  /\ pass.stage = "head"
  /\ LET v == x[LastOfPass]
     IN  logits' = IF v = Torn THEN Torn ELSE v.of
  /\ fed' = fed \o pass.tokens
  /\ pass' = NoPass
  /\ x' = << >>
  /\ UNCHANGED <<regime, cache, passes>>

(* An error return, or a device error that panics.  A GPU may have run the
   stage for some positions of the batch, the keys before the values. *)
Fail ==
  /\ pass # NoPass
  /\ \E ps \in SUBSET Batch :
       \/ pass.stage = "qkv" /\ (WriteKv(ps, {}) \/ WriteKv(Batch, ps))
       \/ pass.stage = "rope" /\ RotateKeys(ps)
       \/ pass.stage \in {"attend", "head"} /\ UNCHANGED cache
  /\ pass' = NoPass
  /\ x' = << >>
  /\ UNCHANGED <<regime, fed, logits, passes>>

Init ==
  /\ regime \in Numerics
  /\ keyc = BlankKeys /\ valc = BlankValues
  /\ pass = NoPass /\ x = << >>
  /\ fed = << >> /\ logits = NoLogits
  /\ passes = 0

Tokens == UNION {[1..n -> Token] : n \in 1..SeqLen}

Next ==
  \/ NewEngine
  \/ \E at \in 0..SeqLen, tokens \in Tokens, batch \in BOOLEAN : BeginPass(at, tokens, batch)
  \/ Qkv \/ Rope \/ AttendAll \/ LmHead \/ Fail

Spec == Init /\ [][Next]_vars

-----------------------------------------------------------------------------
(* Properties.                                                             *)

(* Types; the positions of a pass are rows of the cache. *)
TypeOK ==
  /\ regime \in Numerics
  /\ keyc \in [Layer -> [Position -> [vec : Vector, rope : Position \cup {NoRope, Torn}]]]
  /\ valc \in [Layer -> [Position -> Vector]]
  /\ fed \in Seq(Token) /\ Len(fed) <= SeqLen
  /\ logits \in Tokens \cup {NoLogits, Torn}
  /\ passes \in 0..MaxPasses
  /\ pass # NoPass =>
       /\ pass.stage \in {"qkv", "rope", "attend", "head"} /\ pass.layer \in Layer
       /\ pass.tokens \in Tokens /\ Batch \subseteq Position
       /\ pass.at = Len(fed)
       /\ x \in [Batch -> Vector]

(* The row of position p in layer l when the tokens `seq' were fed. *)
Canonical(l, seq, p) == [of |-> Entering(l, seq, p), num |-> regime]

(* The cached rows are those the tokens fed determine: one token per pass
   or a batch, on a new, reset or reused cache, after a pass that failed at
   any stage, they are the same (inference.rs:391-393, vt_cuda.cu:1230,
   cuda/src/lib.rs:382). *)
CacheIsCanonical ==
  \A l \in Layer, p \in 0..Len(fed)-1 :
    /\ keyc[l][p] = [vec |-> Canonical(l, fed, p), rope |-> p]
    /\ valc[l][p] = Canonical(l, fed, p)

(* Within a pass, the positions of a batch see each other's rows of the
   layer they are in, and of no layer they have not reached. *)
Now == fed \o pass.tokens
PassIsCausal ==
  pass # NoPass =>
    /\ \A l \in Layer, p \in Batch :
         (l < pass.layer \/ (l = pass.layer /\ pass.stage \in {"attend", "head"})) =>
           /\ keyc[l][p] = [vec |-> Canonical(l, Now, p), rope |-> p]
           /\ valc[l][p] = Canonical(l, Now, p)
    /\ \A p \in Batch :
         x[p] = [of |-> IF pass.stage = "head" THEN SubSeq(Now, 1, p + 1)
                        ELSE Entering(pass.layer, Now, p),
                 num |-> regime]

(* Logits are a function of the tokens fed and of nothing else: the engine
   implements the decoder the drivers rely on (inference.rs:311-318). *)
D == INSTANCE Decoder
ImplementsDecoder == D!Spec
=============================================================================

------------------------------ MODULE Recorder -------------------------------
(***************************************************************************)
(* step_with_recorders (src/model/forward_quantized.rs): a forward pass    *)
(* that records its ops, snapshots the residual stream at named            *)
(* checkpoints, keeps it for a lens, and replaces it where an intervention *)
(* plan says so.  Each step is given its own choice of recorders.          *)
(*                                                                         *)
(* A tensor is represented by the op that made it and by its causes, the   *)
(* tokens and the replacements it is computed from.  A record holds the    *)
(* tensors themselves where the code hashes them.                          *)
(***************************************************************************)
EXTENDS Naturals, Sequences, FiniteSetsExt

CONSTANTS
  NLayers,       \* cfg.n_layers
  NTokens,       \* bound: steps taken, at positions 0..NTokens-1
  Tied,          \* no wcls in the file: lm_head shares the token embedding
  Overrides,     \* the overrides a caller adds: [token, layer, checkpoint, len]
  Declarations,  \* what a caller declares to the builder, of the same kind
  Attachments,   \* the sets of recorders a step is given
  MaxOverrides   \* bound: overrides added

ASSUME RecorderAssumption ==
  /\ NLayers \in Nat \ {0} /\ NTokens \in Nat /\ MaxOverrides \in Nat /\ Tied \in BOOLEAN
  /\ Attachments \subseteq SUBSET {"ops", "acts", "lens"}

VARIABLES
  plan,      \* InterventionPlan.entries
  declared,  \* the builder's interventions
  at,        \* the step in progress: [token, layer, stage, on]
  x,         \* the residual stream
  rows,      \* the KV cache: the causes of row [layer][token]
  ops,       \* OpRecords declared
  acts,      \* ActivationRecords declared
  lens,      \* LensCapture.entries
  logits,    \* the logits returned, by token
  known      \* history: how many overrides the plan had, by token

records == <<ops, acts, lens>>
vars == <<plan, declared, at, x, rows, records, logits, known>>

MAX == NLayers     \* u32::MAX, a number no layer has
NoTensor == [made |-> "none", layer |-> MAX, token |-> 0, causes |-> {}]
Idle == at.stage = "idle"

Tensor(made, layer, causes) ==
  [made |-> made, layer |-> layer, token |-> at.token, causes |-> causes]

-----------------------------------------------------------------------------
(* The plan and the recorders.                                             *)

(* InterventionPlan::add.  The plan is borrowed while a step runs. *)
AddOverride ==
  /\ Idle /\ Len(plan) < MaxOverrides
  /\ \E e \in Overrides : plan' = Append(plan, e)
  /\ UNCHANGED <<declared, at, x, rows, records, logits, known>>

(* CertBuilder::declare_intervention, which the caller makes. *)
DeclareIntervention ==
  /\ Idle
  /\ \E d \in Declarations \ declared : declared' = declared \cup {d}
  /\ UNCHANGED <<plan, at, x, rows, records, logits, known>>

Matching(checkpoint, layer) ==
  {k \in DOMAIN plan : /\ plan[k].token = at.token
                       /\ plan[k].layer = layer
                       /\ plan[k].checkpoint = checkpoint}

\* Mutant: the first match is taken.
LookupFirst(checkpoint, layer) == Min(Matching(checkpoint, layer))

(* InterventionPlan::lookup, of the last match. *)
Lookup(checkpoint, layer) == Max(Matching(checkpoint, layer))

Expected(checkpoint) == IF checkpoint = "post_lm_head" THEN "vocab_size" ELSE "dim"

(* An override of another length than the checkpoint's is ignored. *)
Overridden(checkpoint, layer, tensor) ==
  IF Matching(checkpoint, layer) = {} THEN tensor
  ELSE LET k == Lookup(checkpoint, layer)
       IN  IF plan[k].len = Expected(checkpoint)
           THEN Tensor("override", layer, {<<"override", k>>})
           ELSE tensor

(* One op on one input, and its record. *)
Op(name, params, layer, input) ==
  [op_name |-> name, layer |-> layer, params |-> params, input |-> input,
   output |-> Tensor(params, layer, input.causes)]

RmsNorm(w, layer, input) == Op("rms_norm", w, layer, input)
Linear(w, layer, input) == Op("linear_q4_0", w, layer, input)

Entry(checkpoint, layer, tensor) ==
  [token |-> at.token, layer |-> layer, checkpoint |-> checkpoint, tensor |-> tensor]

When(recorder, new) == IF recorder \in at.on THEN new ELSE << >>

(* What the attached recorders take at a checkpoint. *)
Record(newOps, newActs, newLens) ==
  /\ ops' = ops \o When("ops", newOps)
  /\ acts' = acts \o When("acts", newActs)
  /\ lens' = lens \o When("lens", newLens)

-----------------------------------------------------------------------------
(* The ops of the stage the step is in, in the order they are recorded.    *)

Cached == [rows EXCEPT ![at.layer][at.token] = x.causes]

(* Attention of one position over the rows up to its own. *)
Heads == Tensor("heads", at.layer, UNION {Cached[at.layer][t] : t \in 0..at.token})

AttentionOps ==
  LET l    == at.layer
      norm == RmsNorm("rms_att", l, x)
  IN  <<norm, Linear("wq", l, norm.output), Linear("wk", l, norm.output),
        Linear("wv", l, norm.output), Linear("wo", l, Heads)>>

FeedForwardOps ==
  LET l    == at.layer
      norm == RmsNorm("rms_ffn", l, x)
      w1   == Linear("w1", l, norm.output)
      w3   == Linear("w3", l, norm.output)
      swiglu == Tensor("swiglu", l, w1.output.causes \cup w3.output.causes)
  IN  <<norm, w1, w3, Linear("w2", l, swiglu)>>

HeadKey == IF Tied THEN "token_embd" ELSE "wcls"

StageOps == CASE at.stage = "embed" -> << >>
              [] at.stage = "attn"  -> AttentionOps
              [] at.stage = "ffn"   -> FeedForwardOps
              [] at.stage = "final" -> <<RmsNorm("rms_final", MAX, x)>>
              [] at.stage = "head"  -> <<Linear(HeadKey, MAX, x)>>

Result == StageOps[Len(StageOps)].output

(* x plus the result of the block, named for the checkpoint. *)
Residual(checkpoint) ==
  Overridden(checkpoint, at.layer,
             Tensor(checkpoint, at.layer, x.causes \cup Result.causes))

-----------------------------------------------------------------------------
(* A step.                                                                 *)

Begin ==
  /\ Idle /\ at.token < NTokens
  /\ \E on \in Attachments :
       at' = [at EXCEPT !.stage = "embed", !.layer = 0, !.on = on]
  /\ known' = [known EXCEPT ![at.token] = Len(plan)]
  /\ UNCHANGED <<plan, declared, x, rows, records, logits>>

\* Mutant: the first checkpoint is left out.
EmbedUnseen ==
  /\ at.stage = "embed"
  /\ x' = Overridden("post_embed", MAX, Tensor("post_embed", MAX, {<<"token", at.token>>}))
  /\ at' = [at EXCEPT !.stage = "attn"]
  /\ UNCHANGED <<plan, declared, rows, records, logits, known>>

Embed ==
  /\ at.stage = "embed"
  /\ x' = Overridden("post_embed", MAX, Tensor("post_embed", MAX, {<<"token", at.token>>}))
  /\ LET e == <<Entry("post_embed", MAX, x')>>
     IN  Record(<< >>, e, e)
  /\ at' = [at EXCEPT !.stage = "attn"]
  /\ UNCHANGED <<plan, declared, rows, logits, known>>

Attention ==
  /\ at.stage = "attn"
  /\ x' = Residual("post_attn")
  /\ rows' = Cached
  /\ LET e == Entry("post_attn", at.layer, x')
     IN  Record(AttentionOps, <<e>>, <<Entry("pre_wo", at.layer, Heads), e>>)
  /\ at' = [at EXCEPT !.stage = "ffn"]
  /\ UNCHANGED <<plan, declared, logits, known>>

\* Mutant: one layer too many.
NextLayerTooMany == IF at.layer < NLayers
                    THEN [at EXCEPT !.layer = @ + 1, !.stage = "attn"]
                    ELSE [at EXCEPT !.stage = "final"]

NextLayer == IF at.layer + 1 < NLayers
             THEN [at EXCEPT !.layer = @ + 1, !.stage = "attn"]
             ELSE [at EXCEPT !.stage = "final"]

FeedForward ==
  /\ at.stage = "ffn"
  /\ x' = Residual("post_ffn")
  /\ LET e == <<Entry("post_ffn", at.layer, x')>>
     IN  Record(FeedForwardOps, e, e)
  /\ at' = NextLayer
  /\ UNCHANGED <<plan, declared, rows, logits, known>>

\* Mutant: the override shows in the records and does not reach lm_head.
FinalNormKept ==
  /\ at.stage = "final"
  /\ x' = Result
  /\ LET e == <<Entry("pre_lm_head", MAX, Overridden("pre_lm_head", MAX, Result))>>
     IN  Record(StageOps, e, e)
  /\ at' = [at EXCEPT !.stage = "head"]
  /\ UNCHANGED <<plan, declared, rows, logits, known>>

FinalNorm ==
  /\ at.stage = "final"
  /\ x' = Overridden("pre_lm_head", MAX, Result)
  /\ LET e == <<Entry("pre_lm_head", MAX, x')>>
     IN  Record(StageOps, e, e)
  /\ at' = [at EXCEPT !.stage = "head"]
  /\ UNCHANGED <<plan, declared, rows, logits, known>>

(* The lens is not given the logits. *)
LmHead ==
  /\ at.stage = "head"
  /\ LET v == Overridden("post_lm_head", MAX, Result)
     IN  /\ logits' = Append(logits, v)
         /\ Record(StageOps, <<Entry("post_lm_head", MAX, v)>>, << >>)
  /\ x' = NoTensor
  /\ at' = [at EXCEPT !.stage = "idle", !.token = @ + 1, !.layer = 0, !.on = {}]
  /\ UNCHANGED <<plan, declared, rows, known>>

(* An error of a linear, a norm or a shape, after n ops of the stage.  Past
   the v projection the row is cached and the lens has the heads.  The
   error lies in the weights: the same step would fail again. *)
Fail ==
  /\ at.stage \in {"embed", "attn", "ffn", "final", "head"}
  /\ \E n \in 0..Len(StageOps) :
       /\ ops' = ops \o When("ops", SubSeq(StageOps, 1, n))
       /\ IF at.stage = "attn" /\ n >= 4
          THEN /\ rows' = Cached
               /\ lens' = lens \o When("lens", <<Entry("pre_wo", at.layer, Heads)>>)
          ELSE UNCHANGED <<rows, lens>>
  /\ at' = [at EXCEPT !.stage = "failed"]
  /\ UNCHANGED <<plan, declared, x, acts, logits, known>>

Init ==
  /\ plan = << >> /\ declared = {}
  /\ at = [token |-> 0, layer |-> 0, stage |-> "idle", on |-> {}]
  /\ x = NoTensor
  /\ rows = [l \in 0..NLayers-1 |-> [t \in 0..NTokens-1 |-> {}]]
  /\ ops = << >> /\ acts = << >> /\ lens = << >>
  /\ logits = << >>
  /\ known = [t \in 0..NTokens-1 |-> 0]

Next == \/ AddOverride \/ DeclareIntervention
        \/ Begin \/ Embed \/ Attention \/ FeedForward \/ FinalNorm \/ LmHead \/ Fail

Spec == Init /\ [][Next]_vars

-----------------------------------------------------------------------------
(* What a plan means, with no order of execution: the checkpoints of token *)
(* t are the sites <<t, 0>>, ..., <<t, LastSite>>, in a graph of causes.   *)

LastSite == 2 * NLayers + 2

Checkpoint(k) ==
  CASE k = 0                -> "post_embed"
    [] k = LastSite - 1     -> "pre_lm_head"
    [] k = LastSite         -> "post_lm_head"
    [] k % 2 = 1 /\ k < LastSite - 1 -> "post_attn"
    [] OTHER                -> "post_ffn"

LayerOf(k) == IF k \in {0, LastSite - 1, LastSite} THEN MAX ELSE (k - 1) \div 2

(* A checkpoint depends on the one before it, and an attention block on
   what entered the layer at the earlier tokens. *)
Feeds(t, k) ==
  {<<t, k - 1>>} \cup
    IF Checkpoint(k) = "post_attn" THEN {<<u, k - 1>> : u \in 0..t-1} ELSE {}

(* The overrides of a site that the plan had when the token was processed. *)
OverridesOf(t, k) ==
  {i \in 1..known[t] : /\ plan[i].token = t
                       /\ plan[i].layer = LayerOf(k)
                       /\ plan[i].checkpoint = Checkpoint(k)}

(* The last one declared wins (forward_quantized.rs:161-163). *)
Replaced(t, k) == /\ OverridesOf(t, k) # {}
                  /\ plan[Max(OverridesOf(t, k))].len = Expected(Checkpoint(k))

Causes[site \in (0..NTokens-1) \X (0..LastSite)] ==
  LET t == site[1]
      k == site[2]
  IN  IF Replaced(t, k) THEN {<<"override", Max(OverridesOf(t, k))>>}
      ELSE IF k = 0 THEN {<<"token", t>>}
      ELSE UNION {Causes[s] : s \in Feeds(t, k)}

-----------------------------------------------------------------------------
(* Properties.                                                             *)

(* Types; a step in progress is at a token of the run and a layer of the
   model. *)
TypeOK ==
  /\ Len(plan) <= MaxOverrides /\ \A k \in DOMAIN plan : plan[k] \in Overrides
  /\ declared \subseteq Declarations
  /\ at.token \in 0..NTokens /\ at.layer \in 0..NLayers-1
  /\ ~ Idle => at.token < NTokens
  /\ Len(logits) = at.token
  /\ \A l \in 0..NLayers-1, t \in 0..NTokens-1 : rows[l][t] # {} => t <= at.token

(* An override reaches exactly what it causes: the checkpoints after it, in
   its own token and, through the cache, in later ones, unless another
   override cuts it off; never an earlier one.  So a snapshot, a captured
   value and the logits are those of the plan, whichever recorders were
   attached to which step (forward_quantized.rs:317-319, 356-358). *)
CapturesFollowPlan ==
  /\ \A i \in DOMAIN acts, k \in 0..LastSite :
       (acts[i].checkpoint = Checkpoint(k) /\ acts[i].layer = LayerOf(k))
         => acts[i].tensor.causes = Causes[<<acts[i].token, k>>]
  /\ \A i \in DOMAIN lens, k \in 0..LastSite :
       (lens[i].checkpoint = Checkpoint(k) /\ lens[i].layer = LayerOf(k))
         => lens[i].tensor.causes = Causes[<<lens[i].token, k>>]
  /\ \A i \in DOMAIN logits : logits[i].causes = Causes[<<i - 1, LastSite>>]

(* The lists of one run fit together: the op that reads the residual stream
   after a checkpoint read the very tensor that was snapshotted there, the
   lens kept that tensor too, and a snapshot that is not the output of the
   op before it is a replacement.  An auditor who holds a per-op and a
   per-activation receipt can chain them. *)
Reader(k) ==
  CASE Checkpoint(k) = "post_attn"   -> [params |-> "rms_ffn", layer |-> LayerOf(k)]
    [] Checkpoint(k) = "pre_lm_head" -> [params |-> IF Tied THEN "token_embd" ELSE "wcls",
                                         layer |-> MAX]
    [] k = LastSite - 2              -> [params |-> "rms_final", layer |-> MAX]
    [] OTHER                         -> [params |-> "rms_att", layer |-> k \div 2]

RecordsFitTogether ==
  \A i \in DOMAIN acts :
    LET a == acts[i]
    IN  /\ \A k \in 0..LastSite-1, j \in DOMAIN ops :
             (/\ a.checkpoint = Checkpoint(k) /\ a.layer = LayerOf(k)
              /\ ops[j].output.token = a.token
              /\ ops[j].params = Reader(k).params /\ ops[j].layer = Reader(k).layer)
               => ops[j].input = a.tensor
        /\ \A j \in DOMAIN lens :
             (lens[j].token = a.token /\ lens[j].layer = a.layer
               /\ lens[j].checkpoint = a.checkpoint) => lens[j] = a
        /\ a.checkpoint \in {"pre_lm_head", "post_lm_head"}
              /\ a.tensor.made # "override" =>
             \A j \in DOMAIN ops :
               (ops[j].output.token = a.token /\ ops[j].output.made = a.tensor.made
                 /\ ops[j].layer = MAX) => ops[j].output = a.tensor

(* A receipt's list of snapshots has one entry for each checkpoint of each
   recorded step, in the order of execution: a verifier who rebuilds the
   list declares it in the same order (builder.rs:283-287). *)
SnapshotsInOrder ==
  \A i \in 1..Len(acts)-1 :
    LET a == acts[i]
        b == acts[i + 1]
    IN  \/ \E k \in 0..LastSite-1 :
             /\ a.token = b.token
             /\ <<a.checkpoint, a.layer>> = <<Checkpoint(k), LayerOf(k)>>
             /\ <<b.checkpoint, b.layer>> = <<Checkpoint(k + 1), LayerOf(k + 1)>>
        \/ a.token < b.token /\ a.checkpoint = "post_lm_head" /\ b.checkpoint = "post_embed"

(* builder.rs:92-97, 320-321: the interventions a receipt declares were
   applied. *)
DeclaredWereApplied ==
  \A d \in declared, i \in DOMAIN acts :
    (acts[i].token = d.token /\ acts[i].layer = d.layer
      /\ acts[i].checkpoint = d.checkpoint) => acts[i].tensor.made = "override"
=============================================================================

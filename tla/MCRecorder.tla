----------------------------- MODULE MCRecorder ------------------------------
(***************************************************************************)
(* Instances of Recorder for TLC: overrides at seven checkpoints of two    *)
(* tokens, one of the wrong length for a checkpoint that another one fits, *)
(* and one that names a layer its checkpoint does not have.                *)
(***************************************************************************)
EXTENDS Recorder

At(t, l, c) == [token |-> t, layer |-> l, checkpoint |-> c, len |-> Expected(c)]

Fitting == {At(0, MAX, "post_embed"), At(0, 0, "post_attn"), At(0, 0, "post_ffn"),
            At(0, MAX, "pre_lm_head"),
            At(1, 0, "post_attn"), At(1, 1, "post_attn"), At(1, MAX, "post_lm_head")}

Misfits == {[At(0, 0, "post_attn") EXCEPT !.len = "vocab_size"], At(0, 0, "post_embed")}

MCOverrides == Fitting \cup Misfits

MCDeclarations == {At(0, 0, "post_attn")}

MCAttachments == {{}, {"acts", "lens"}, {"ops", "acts", "lens"}}
=============================================================================

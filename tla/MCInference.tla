---------------------------- MODULE MCInference -----------------------------
(***************************************************************************)
(* Instances of Inference for TLC: two tokens, a context of three          *)
(* positions, and a model whose argmax depends on every token of the       *)
(* context, on its length and on the regime.                               *)
(***************************************************************************)
EXTENDS Inference, FiniteSetsExt

CONSTANTS t1, t2

MCRegime == {2, 3}

MCArgmax ==
  [r \in MCRegime |->
    [c \in Context \cup {Torn} |->
      IF c = Torn THEN t1
      ELSE LET marks == {k \in DOMAIN c : c[k] = t2}
           IN  IF (FoldSet(LAMBDA k, s : k + s, r * Len(c), marks)) % 3 = 1
               THEN t1 ELSE t2]]
=============================================================================

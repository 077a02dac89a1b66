------------------------------- MODULE Decoder -------------------------------
(***************************************************************************)
(* What a forward engine promises the drivers, with no layers, no cache    *)
(* and no batches: it has been fed a sequence of tokens, and the logits it *)
(* returns are those of exactly that sequence.                             *)
(***************************************************************************)
EXTENDS Naturals, Sequences

CONSTANTS
  Token,     \* the vocabulary
  SeqLen,    \* the number of positions
  NoLogits   \* before any logits are returned

VARIABLES
  fed,       \* the tokens fed, by position
  logits     \* the tokens the last logits are a function of

vars == <<fed, logits>>

Init == fed = << >> /\ logits = NoLogits

(* A caller goes back to a position, or a pass fails: what was fed before
   the position stays. *)
Rewind == \E n \in 0..Len(fed) : fed' = SubSeq(fed, 1, n) /\ logits' = NoLogits

(* One token, or a batch of them, at the next positions. *)
Feed == \E n \in 1..SeqLen - Len(fed) : \E tokens \in [1..n -> Token] :
          /\ fed' = fed \o tokens
          /\ logits' = fed'

Next == Rewind \/ Feed

Spec == Init /\ [][Next]_vars

=============================================================================

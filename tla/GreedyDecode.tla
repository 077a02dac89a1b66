---------------------------- MODULE GreedyDecode ----------------------------
(***************************************************************************)
(* What a vitni-tensor inference call promises, with no cache, no driver   *)
(* and no receipt format: an accepted request is answered by the tokens    *)
(* that greedy decoding appends, one at a time, or by no receipt at all.   *)
(*                                                                         *)
(* Argmax[r][c] is the index of the largest logit after the tokens c have  *)
(* been fed under the numeric regime r.  The drivers feed the first        *)
(* predicted token back to the model without recording it                  *)
(* (src/model/inference.rs:146-149), so the i-th recorded token follows    *)
(* the prompt, that unrecorded token and the i-1 recorded ones.            *)
(***************************************************************************)
EXTENDS Naturals, Sequences

CONSTANTS
  Token,     \* the vocabulary
  SeqLen,    \* cfg.seq_len: how many positions a call may use
  Regime,    \* the numeric regimes of the engine
  Argmax     \* the model: [Regime -> [contexts -> Token]]

VARIABLES
  status,    \* "idle" or "running"
  ask,       \* the request being answered
  out,       \* the tokens recorded so far
  receipts   \* every answer a receipt was issued for

vars == <<status, ask, out, receipts>>

NoAsk == [prompt |-> << >>, nNew |-> 0]

Fits(a) == /\ a.prompt # << >>
           /\ Len(a.prompt) + a.nNew <= SeqLen

(* The context whose logits decide the next recorded token. *)
Context(regime, prompt, recorded) ==
  (prompt \o <<Argmax[regime][prompt]>>) \o recorded

Init == /\ status = "idle"
        /\ ask = NoAsk
        /\ out = << >>
        /\ receipts = {}

Accept == /\ status = "idle"
          /\ \E p \in UNION {[1..k -> Token] : k \in 1..SeqLen},
                n \in 0..SeqLen, r \in Regime :
                /\ ask' = [prompt |-> p, nNew |-> n, regime |-> r]
                /\ Fits(ask')
          /\ status' = "running"
          /\ out' = << >>
          /\ UNCHANGED receipts

Emit == /\ status = "running"
        /\ Len(out) < ask.nNew
        /\ out' = Append(out, Argmax[ask.regime][Context(ask.regime, ask.prompt, out)])
        /\ UNCHANGED <<status, ask, receipts>>

Stop == /\ status' = "idle"
        /\ ask' = NoAsk
        /\ out' = << >>

(* A receipt is issued only for a complete answer. *)
Issue == /\ status = "running"
         /\ Len(out) = ask.nNew
         /\ receipts' = receipts \cup
              {[prompt |-> ask.prompt, nNew |-> ask.nNew,
                regime |-> ask.regime, generated |-> out]}
         /\ Stop

(* A forward error or a sink rejection ends a call with no receipt. *)
Abandon == /\ status = "running"
           /\ UNCHANGED receipts
           /\ Stop

Next == Accept \/ Emit \/ Issue \/ Abandon

Spec == Init /\ [][Next]_vars

=============================================================================

----------------------------- MODULE Inference ------------------------------
(***************************************************************************)
(* The certificate-issuing generation drivers of src/model/inference.rs    *)
(* and the KV cache of the engine they drive, over several calls in a row. *)
(*                                                                         *)
(* A cached row is represented by its provenance: the tokens fed at the    *)
(* positions up to it.  A forward step at `pos' attends over the rows      *)
(* 0..pos, so the row it writes, and its logits, are those of a token      *)
(* sequence only when every row it reads belongs to that sequence;         *)
(* otherwise the result is Torn.  Module Forward models the layers inside  *)
(* one step.                                                               *)
(*                                                                         *)
(* The cache outlives a call: a server keeps one CudaForward and serves    *)
(* many requests, and the closures given to the two public drivers own     *)
(* their state (inference.rs:317-318).  So a call may start on a new       *)
(* engine, on a reset one, or on whatever the previous call left.          *)
(***************************************************************************)
EXTENDS Naturals, Sequences

CONSTANTS
  Token,      \* the vocabulary (prompt tokens are in it)
  SeqLen,     \* cfg.seq_len
  Regime,     \* RunState.regime: the numerics of the forward pass
  Argmax,     \* [Regime -> [Context \cup {Torn} -> Token]]: forward + argmax
  Torn,       \* a row computed from rows that belong to no one sequence
  NoToken,    \* cur when no token is waiting to be fed
  MaxPrompt,  \* bound: longest prompt a request carries
  CapMax,     \* the largest n for which Vec::<u32>::with_capacity(n) is legal
  UsizeMax,   \* usize::MAX
  U32Mod,     \* 2^32: n_new_tokens is bound as a u32
  MaxCalls    \* bound: calls made on the engine

Context == UNION {[1..n -> Token] : n \in 1..SeqLen}
Row == Context \cup {<< >>, Torn}      \* << >> is a zeroed row

ASSUME InferenceAssumption ==
  /\ SeqLen \in Nat \ {0} /\ MaxPrompt \in Nat /\ MaxCalls \in Nat
  /\ CapMax \in Nat /\ UsizeMax \in Nat /\ U32Mod \in Nat \ {0}
  \* a slice of u32 and the cache itself fit in isize::MAX bytes
  /\ MaxPrompt <= CapMax /\ SeqLen <= CapMax /\ 2 * CapMax <= UsizeMax
  /\ Torn \notin Context \cup {<< >>} /\ NoToken \notin Token
  /\ Argmax \in [Regime -> [Context \cup {Torn} -> Token]]

Prompts == UNION {[1..n -> Token] : n \in 0..MaxPrompt}
Request == [prompt : Prompts, nNew : 0..UsizeMax, driver : {"token", "prefill"}]

NoRequest == [prompt |-> << >>, nNew |-> 0, driver |-> "token"]

VARIABLES
  kv,         \* the KV cache, one row per position
  regime,     \* the regime of the engine that owns kv
  phase,      \* "idle", "prefill" (prompt not yet fed), "loop"
  req,        \* the request of the call in progress
  pos,        \* the position fed next
  cur,        \* the token fed next
  generated,  \* the tokens recorded for the outcome
  issued,     \* history: every Outcome returned
  calls       \* calls made so far

vars == <<kv, regime, phase, req, pos, cur, generated, issued, calls>>
callVars == <<phase, req, pos, cur, generated>>

-----------------------------------------------------------------------------
(* The forward pass on the cache.                                          *)

Blank == [i \in 0..SeqLen-1 |-> << >>]

(* The cache holds the rows of the token sequence fed. *)
Holds(rows, fed) == \A i \in 0..Len(fed)-1 : rows[i] = SubSeq(fed, 1, i + 1)

(* The row a step writes when it feeds tok at position p. *)
Attend(rows, p, tok) ==
  LET below == IF p = 0 THEN << >> ELSE rows[p - 1]
  IN  IF below # Torn /\ Len(below) = p /\ Holds(rows, below)
      THEN Append(below, tok)
      ELSE Torn

\* Mutant: the last position is left to the first decode step.
PrimedButLast(rows, prompt) ==
  [i \in 0..SeqLen-1 |-> IF i + 1 < Len(prompt) THEN SubSeq(prompt, 1, i + 1) ELSE rows[i]]

(* A batched prefill writes the rows of the whole prompt. *)
Primed(rows, prompt) ==
  [i \in 0..SeqLen-1 |-> IF i < Len(prompt) THEN SubSeq(prompt, 1, i + 1) ELSE rows[i]]

-----------------------------------------------------------------------------
(* The receipt.                                                            *)

REGIME == "vitni-regime-2"

Inputs(r) ==
  << [name |-> "model_id",      bytes |-> "model"],
     [name |-> "weights_hash",  bytes |-> "weights"],
     [name |-> "arch_hash",     bytes |-> "arch"],
     [name |-> "prompt_tokens", bytes |-> r.prompt],
     [name |-> "n_new_tokens",  bytes |-> r.nNew % U32Mod] >>

Outputs(tokens) ==
  << [name |-> "output_tokens",      bytes |-> tokens],
     [name |-> "output_tokens_hash", bytes |-> [blake3 |-> tokens]] >>

(* What the digest binds; BLAKE3 is taken to be injective. *)
Cert(r, tokens) ==
  [regime |-> REGIME, inputs |-> Inputs(r), outputs |-> Outputs(tokens)]

-----------------------------------------------------------------------------
(* The drivers.                                                            *)

(* usize addition of a release build. *)
Total(r) == (Len(r.prompt) + r.nNew) % (UsizeMax + 1)

\* Mutant: the outcome is not preallocated.
CapacityNeverPanics(r) == FALSE

(* Vec::with_capacity panics above isize::MAX bytes: before the checks in
   the per-token drivers, after the prompt is fed in the prefill driver. *)
CapacityPanics(r) == r.nNew > CapMax

Accepted(r) == /\ r.driver = "token" => ~ CapacityPanics(r)
               /\ r.prompt # << >>
               /\ Total(r) <= SeqLen

(* RunState::new or CudaForward::new; reset; or neither. *)
StartEngine ==
  \/ kv' = Blank /\ regime' \in Regime
  \/ kv' = Blank /\ UNCHANGED regime
  \/ UNCHANGED <<kv, regime>>

Begin(r) ==
  /\ phase = "idle" /\ calls < MaxCalls
  /\ calls' = calls + 1
  /\ StartEngine
  /\ Accepted(r)
  /\ phase' = IF r.driver = "token" THEN "loop" ELSE "prefill"
  /\ req' = r
  /\ pos' = 0
  /\ cur' = IF r.driver = "token" THEN r.prompt[1] ELSE NoToken
  /\ generated' = << >>
  /\ UNCHANGED issued

(* InvalidShape, or the capacity panic of a per-token driver.  The engine
   has been started (reset comes before the checks). *)
Refuse(r) ==
  /\ phase = "idle" /\ calls < MaxCalls
  /\ calls' = calls + 1
  /\ StartEngine
  /\ ~ Accepted(r)
  /\ UNCHANGED <<callVars, issued>>

(* The call's locals go; the engine and its cache stay. *)
Return == /\ phase' = "idle"
          /\ req' = NoRequest
          /\ pos' = 0
          /\ cur' = NoToken
          /\ generated' = << >>
          /\ UNCHANGED <<regime, calls>>

\* Mutant: the prompt token of this position again, not of the next one.
SameInput(p, picked) ==
  IF p + 1 < Len(req.prompt) THEN req.prompt[p + 1] ELSE picked

(* The token fed at the next position: forced while the prompt lasts. *)
NextInput(p, picked) ==
  IF p + 1 < Len(req.prompt) THEN req.prompt[p + 2] ELSE picked

\* Mutant: the prediction after the prompt is recorded too.
RecordedEarly(p, next) ==
  IF p + 1 >= Len(req.prompt) THEN Append(generated, next) ELSE generated

(* A token is recorded once the whole prompt has been consumed. *)
Recorded(p, next) ==
  IF p >= Len(req.prompt) THEN Append(generated, next) ELSE generated

(* One iteration of the per-token loop. *)
TokenStep ==
  /\ phase = "loop" /\ req.driver = "token" /\ pos < Total(req)
  /\ LET row  == Attend(kv, pos, cur)
         next == NextInput(pos, Argmax[regime][row])
     IN  /\ kv' = [kv EXCEPT ![pos] = row]
         /\ generated' = Recorded(pos, next)
         /\ cur' = next
  /\ pos' = pos + 1
  /\ UNCHANGED <<regime, phase, req, issued, calls>>

\* Mutant: decoding goes on one position too far.
PrefillSkipsAPosition ==
  /\ phase = "prefill" /\ ~ CapacityPanics(req)
  /\ kv' = Primed(kv, req.prompt)
  /\ phase' = "loop"
  /\ pos' = Len(req.prompt) + 1
  /\ cur' = Argmax[regime][req.prompt]
  /\ UNCHANGED <<regime, req, generated, issued, calls>>

(* The prompt in one batch; its argmax is fed next, not recorded. *)
Prefill ==
  /\ phase = "prefill"
  /\ kv' = Primed(kv, req.prompt)
  /\ IF CapacityPanics(req)
     THEN Return
     ELSE /\ phase' = "loop"
          /\ pos' = Len(req.prompt)
          /\ cur' = Argmax[regime][req.prompt]
          /\ UNCHANGED <<regime, req, generated, calls>>
  /\ UNCHANGED issued

(* One iteration of the generation loop after a prefill. *)
DecodeStep ==
  /\ phase = "loop" /\ req.driver = "prefill"
  /\ pos < Len(req.prompt) + req.nNew
  /\ LET row    == Attend(kv, pos, cur)
         picked == Argmax[regime][row]
     IN  /\ kv' = [kv EXCEPT ![pos] = row]
         /\ generated' = Append(generated, picked)
         /\ cur' = picked
  /\ pos' = pos + 1
  /\ UNCHANGED <<regime, phase, req, issued, calls>>

\* Mutant: the last iteration is left out.
LoopDoneEarly == phase = "loop" /\ pos + 1 = Len(req.prompt) + req.nNew

LoopDone == /\ phase = "loop"
            /\ IF req.driver = "token" THEN pos = Total(req)
                                       ELSE pos = Len(req.prompt) + req.nNew

(* Outputs are bound, the sink accepts every call, the outcome returns. *)
Finish ==
  /\ LoopDone
  /\ issued' = issued \cup
       {[prompt |-> req.prompt, nNew |-> req.nNew, regime |-> regime,
         generated |-> generated, cert |-> Cert(req, generated)]}
  /\ Return
  /\ UNCHANGED kv

(* finalize_with_sink returns the sink's error: no outcome. *)
SinkRejects ==
  /\ LoopDone
  /\ Return
  /\ UNCHANGED <<kv, issued>>

(* The forward closure fails (or a device error panics): rows it was
   writing are old, new, or written in some layers only. *)
ForwardFails ==
  /\ \/ /\ phase = "prefill"
        /\ \E written \in SUBSET (0..Len(req.prompt)-1),
              rows \in {Primed(kv, req.prompt), [i \in 0..SeqLen-1 |-> Torn]} :
             kv' = [i \in 0..SeqLen-1 |-> IF i \in written THEN rows[i] ELSE kv[i]]
     \/ /\ phase = "loop" /\ ~ LoopDone
        /\ \E row \in {kv[pos], Torn, Attend(kv, pos, cur)} :
             kv' = [kv EXCEPT ![pos] = row]
  /\ Return
  /\ UNCHANGED issued

Init ==
  /\ kv = Blank
  /\ regime \in Regime
  /\ phase = "idle"
  /\ req = NoRequest
  /\ pos = 0
  /\ cur = NoToken
  /\ generated = << >>
  /\ issued = {}
  /\ calls = 0

Step == TokenStep \/ Prefill \/ DecodeStep \/ Finish \/ SinkRejects \/ ForwardFails

Next == \/ \E r \in Request : Begin(r) \/ Refuse(r)
        \/ Step

Spec == Init /\ [][Next]_vars

-----------------------------------------------------------------------------
(* Properties.                                                             *)

(* Types.  A call in the loop never leaves the positions of the cache
   (inference.rs:157). *)
TypeOK ==
  /\ kv \in [0..SeqLen-1 -> Row]
  /\ regime \in Regime
  /\ phase \in {"idle", "prefill", "loop"}
  /\ req \in Request
  /\ pos \in 0..SeqLen
  /\ cur \in Token \cup {NoToken}
  /\ generated \in Seq(Token)
  /\ \A o \in issued : /\ o.prompt \in Prompts /\ o.nNew \in 0..UsizeMax
                       /\ o.regime \in Regime /\ o.generated \in Seq(Token)
  /\ calls \in 0..MaxCalls

(* The tokens fed by a call that recorded `recorded' after `prompt'. *)
FedBy(r, prompt, recorded) == (prompt \o <<Argmax[r][prompt]>>) \o recorded
Fed == FedBy(regime, req.prompt, generated)

(* Each recorded token is the argmax after all the tokens fed before it. *)
Greedy(r, prompt, recorded) ==
  \A i \in 1..Len(recorded) :
    recorded[i] = Argmax[r][SubSeq(FedBy(r, prompt, recorded), 1, Len(prompt) + i)]

(* Whatever the cache held when the call began, and however the prompt was
   fed, the rows a step reads are the rows of this call's own tokens
   (cuda/src/lib.rs:382, "independent of prior KV state"), and the token
   fed next is the one greedy decoding asks for. *)
CacheServesThisCall ==
  phase = "loop" =>
    /\ Len(generated) = IF pos <= Len(req.prompt) THEN 0 ELSE pos - Len(req.prompt)
    /\ \A i \in 0..pos-1 : kv[i] = SubSeq(Fed, 1, i + 1)
    /\ cur = Fed[pos + 1]

(* Every receipt answers its request with the whole greedy continuation. *)
ReceiptsAreGreedy ==
  \A o \in issued : /\ Len(o.generated) = o.nNew
                   /\ Greedy(o.regime, o.prompt, o.generated)

(* The receipt of a request depends on the request and the regime only: not
   on the driver, on the engine's history, on refused or failed calls before
   it (inference.rs:391-393 and cuda/src/lib.rs:354-356, 380-382). *)
SameRequestSameCert ==
  \A a, b \in issued :
    (a.prompt = b.prompt /\ a.nNew = b.nNew /\ a.regime = b.regime) => a.cert = b.cert

(* No receipt for a request that does not fit the context, even one whose
   length wraps in usize. *)
NoOverlongReceipt ==
  \A o \in issued : o.prompt # << >> /\ Len(o.prompt) + o.nNew <= SeqLen

(* The drivers implement greedy decoding. *)
Running == phase # "idle" /\ ~ CapacityPanics(req)

G == INSTANCE GreedyDecode WITH
       status   <- IF Running THEN "running" ELSE "idle",
       ask      <- IF Running
                   THEN [prompt |-> req.prompt, nNew |-> req.nNew, regime |-> regime]
                   ELSE [prompt |-> << >>, nNew |-> 0],
       out      <- generated,
       receipts <- {[prompt |-> o.prompt, nNew |-> o.nNew, regime |-> o.regime,
                     generated |-> o.generated] : o \in issued}

ImplementsGreedyDecode == G!Spec

(* builder.rs:434-438: a receipt records the regime so that a verifier who
   replays its inputs under the named regime gets its outputs. *)
ReceiptReplays ==
  \A a, b \in issued :
    (a.cert.regime = b.cert.regime /\ a.cert.inputs = b.cert.inputs)
      => a.cert.outputs = b.cert.outputs

(* inference.rs:37: the outcome holds all the tokens generated. *)
OutcomeHoldsAllGenerated ==
  \A o \in issued :
    o.nNew > 0 => o.generated[1] = Argmax[o.regime][o.prompt]
=============================================================================

----------------------------- MODULE CertBuilder -----------------------------
(***************************************************************************)
(* src/cert: a builder that buffers the declarations of one receipt, and   *)
(* the replay of those declarations into a runtime sink when it is         *)
(* finalized.  The runtime (the kernel of the sink's module doc) is not in *)
(* the repository: it is modelled from the calls the code makes, and from  *)
(* digest_from_events in tests/cert_sink_wiring.rs, which recomputes the   *)
(* digest a runtime computes from those calls.                             *)
(*                                                                         *)
(* One sink serves several receipts.  A sink call that fails ends the      *)
(* finalization and leaves the runtime with a receipt begun.               *)
(***************************************************************************)
EXTENDS Naturals, Sequences

CONSTANTS
  InputArgs, OutputArgs,  \* declare_input's, declare_output's: [name, bytes]
  OpArgs,                 \* declare_op's: [op_name, layer, the three hashes]
  ActivationArgs,         \* declare_activation's and declare_intervention's:
  InterventionArgs,       \*   [token_index, layer, checkpoint, hash]
  IndexMod,               \* 2^32: the record counters are u32 and wrap
  SinkKinds,              \* the kinds of sink finalize_with_sink is given
  Release,                \* debug_assert! is compiled out
  MaxDecls,               \* bound: declarations made in all
  MaxReceipts             \* bound: builders started

ASSUME CertBuilderAssumption ==
  /\ IndexMod \in Nat \ {0} /\ MaxDecls \in Nat /\ MaxReceipts \in Nat
  /\ SinkKinds \subseteq {"forwarding", "basic"} /\ Release \in BOOLEAN

Sections == {"inputs", "outputs", "ops", "activations", "interventions"}
Empty == [s \in Sections |-> << >>]

Index == 0..IndexMod-1

(* The sections whose records carry a number. *)
Numbered == {"ops", "activations", "interventions"}

(* CertField, OpRecord, ActivationRecord, InterventionRecord. *)
OpRecord(a, n) ==
  [op_index |-> n, op_name |-> a.op_name, layer |-> a.layer,
   input_hash |-> a.input_hash, params_hash |-> a.params_hash,
   output_hash |-> a.output_hash]

ActivationRecord(a, n) ==
  [act_index |-> n, token_index |-> a.token_index, layer |-> a.layer,
   checkpoint |-> a.checkpoint, tensor_hash |-> a.hash]

InterventionRecord(a, n) ==
  [intv_index |-> n, token_index |-> a.token_index, layer |-> a.layer,
   checkpoint |-> a.checkpoint, replacement_hash |-> a.hash]

Record ==
  [s \in Sections |->
    CASE s = "inputs"        -> InputArgs
      [] s = "outputs"       -> OutputArgs
      [] s = "ops"           -> {OpRecord(a, n) : a \in OpArgs, n \in Index}
      [] s = "activations"   -> {ActivationRecord(a, n) : a \in ActivationArgs, n \in Index}
      [] s = "interventions" -> {InterventionRecord(a, n) : a \in InterventionArgs, n \in Index}]

VARIABLES
  builder,   \* the five buffered sections
  next_index, \* next_op_index, next_act_index, next_intv_index
  sealed,    \* an output has been declared
  replay,    \* where finalize_with_sink is: NoReplay, or [kind, at, i]
  kernel,    \* external: the receipt the runtime is building
  software,  \* history: the Certs returned
  both,      \* history: [kind, software, kernel] of every finalized replay
  decls,     \* declarations made so far
  receipts   \* builders started so far

vars == <<builder, next_index, sealed, replay, kernel, software, both, decls, receipts>>

NoneYet == [s \in Numbered |-> 0]
NoReplay == [kind |-> "none", at |-> 0, i |-> 0]
Building == replay = NoReplay /\ receipts <= MaxReceipts

Init ==
  /\ builder = Empty /\ next_index = NoneYet /\ sealed = FALSE
  /\ replay = NoReplay
  /\ kernel = Empty
  /\ software = {} /\ both = {}
  /\ decls = 0 /\ receipts = 1

-----------------------------------------------------------------------------
(* Declarations, in any order a caller makes them.                         *)

Declare(section, record) ==
  /\ Building /\ decls < MaxDecls
  /\ decls' = decls + 1
  /\ builder' = [builder EXCEPT ![section] = Append(@, record)]
  /\ UNCHANGED <<replay, kernel, software, both, receipts>>

\* Mutants: a counter that is wider than the records; saturating_add.
IncrementedWide(n) == n + 1
IncrementedSaturating(n) == IF n + 1 = IndexMod THEN n ELSE n + 1

(* wrapping_add(1) *)
Incremented(n) == (n + 1) % IndexMod

(* A record takes the number of its section's counter, which moves on. *)
DeclareNumbered(section, record) ==
  /\ Declare(section, record)
  /\ next_index' = [next_index EXCEPT ![section] = Incremented(@)]
  /\ UNCHANGED sealed

DeclareInput ==
  /\ ~ Release => ~ sealed
  /\ \E f \in InputArgs : Declare("inputs", f)
  /\ UNCHANGED <<next_index, sealed>>

DeclareOutput ==
  /\ \E f \in OutputArgs : Declare("outputs", f)
  /\ sealed' = TRUE
  /\ UNCHANGED next_index

DeclareOp ==
  \E a \in OpArgs : DeclareNumbered("ops", OpRecord(a, next_index["ops"]))

DeclareActivation ==
  \E a \in ActivationArgs :
    DeclareNumbered("activations", ActivationRecord(a, next_index["activations"]))

DeclareIntervention ==
  \E a \in InterventionArgs :
    DeclareNumbered("interventions", InterventionRecord(a, next_index["interventions"]))

-----------------------------------------------------------------------------
(* Ends of a builder.  finalize and finalize_with_sink consume it.         *)

Consume ==
  /\ builder' = Empty /\ next_index' = NoneYet /\ sealed' = FALSE
  /\ receipts' = receipts + 1

Finalize ==
  /\ Building
  /\ software' = software \cup {builder}
  /\ Consume
  /\ UNCHANGED <<replay, kernel, both, decls>>

(* A builder dropped before it is finalized, or whose on_request is
   rejected, has no effect. *)
Abandon ==
  /\ Building
  /\ Consume
  /\ UNCHANGED <<replay, kernel, software, both, decls>>

-----------------------------------------------------------------------------
(* finalize_with_sink: on_request, one call per buffered record in this    *)
(* order, on_finalize.                                                     *)

\* Mutant: the loop over the interventions is missing.
OrderWithoutInterventions == <<"inputs", "ops", "activations", "outputs">>

Order == <<"inputs", "ops", "activations", "interventions", "outputs">>

(* The calls a sink forwards.  on_op, on_activation and on_intervention
   default to doing nothing, and the RuntimeSink of sink.rs:22-39 keeps the
   defaults. *)
Forwards(kind) == IF kind = "forwarding" THEN Sections ELSE {"inputs", "outputs"}

(* on_request opens a receipt in the runtime. *)
OnRequest ==
  /\ Building
  /\ \E k \in SinkKinds : replay' = [kind |-> k, at |-> 1, i |-> 0]
  /\ kernel' = Empty
  /\ UNCHANGED <<builder, next_index, sealed, software, both, decls, receipts>>

OnRecord ==
  /\ replay.at \in DOMAIN Order
  /\ LET s == Order[replay.at]
     IN  /\ replay.i < Len(builder[s])
         /\ replay' = [replay EXCEPT !.i = @ + 1]
         /\ kernel' = IF s \in Forwards(replay.kind)
                      THEN [kernel EXCEPT ![s] = Append(@, builder[s][replay.i + 1])]
                      ELSE kernel
  /\ UNCHANGED <<builder, next_index, sealed, software, both, decls, receipts>>

(* The end of one of the five loops. *)
NextSection ==
  /\ replay.at \in DOMAIN Order
  /\ replay.i = Len(builder[Order[replay.at]])
  /\ replay' = [replay EXCEPT !.at = @ + 1, !.i = 0]
  /\ UNCHANGED <<builder, next_index, sealed, kernel, software, both, decls, receipts>>

OnFinalize ==
  /\ replay.at = Len(Order) + 1
  /\ both' = both \cup {[kind |-> replay.kind, software |-> builder, kernel |-> kernel]}
  /\ software' = software \cup {builder}
  /\ replay' = NoReplay
  /\ Consume
  /\ UNCHANGED <<kernel, decls>>

(* Any later sink call may fail (`?`): no Cert is returned. *)
SinkFails ==
  /\ replay # NoReplay
  /\ replay' = NoReplay
  /\ Consume
  /\ UNCHANGED <<kernel, software, both, decls>>

Next == \/ DeclareInput \/ DeclareOutput \/ DeclareOp
        \/ DeclareActivation \/ DeclareIntervention
        \/ Finalize \/ Abandon
        \/ OnRequest \/ OnRecord \/ NextSection \/ OnFinalize \/ SinkFails

Spec == Init /\ [][Next]_vars

-----------------------------------------------------------------------------
(* Properties.                                                             *)

(* Types. *)
TypeOK ==
  /\ DOMAIN builder = Sections /\ DOMAIN kernel = Sections
  /\ \A s \in Sections : /\ builder[s] \in Seq(Record[s])
                          /\ kernel[s] \in Seq(Record[s])
  /\ next_index \in [Numbered -> Index] /\ sealed \in BOOLEAN
  /\ replay \in [kind : SinkKinds \cup {"none"}, at : 0..Len(Order)+1, i : 0..MaxDecls]
  /\ decls \in 0..MaxDecls /\ receipts \in 1..MaxReceipts+1

RecordIndex(s, r) == CASE s = "ops" -> r.op_index
                      [] s = "activations" -> r.act_index
                      [] s = "interventions" -> r.intv_index
InOrder(c) ==
  \A s \in Numbered : \A n \in 1..Len(c[s]) :
    RecordIndex(s, c[s][n]) = (n - 1) % IndexMod

(* The counters keep step with the sections (builder.rs:259-260, 295-296, 329-330): in
   a builder, in every receipt it returned, and in what a runtime has been
   given, whole or cut off by a failing sink, a record stands at the position
   its number says, modulo the width of the counter.  None is skipped, doubled
   or moved by declarations to other sections or by the builders before. *)
RecordsNumbered ==
  /\ \A s \in Numbered : next_index[s] = Len(builder[s]) % IndexMod
  /\ \A c \in software \cup {builder, kernel} : InOrder(c)

(* The runtime ends up with exactly the records a sink forwards, in
   declaration order, whatever earlier finalizations failed half way
   (builder.rs:365-384).  A sink that forwards every call therefore gets the
   software receipt itself. *)
RuntimeHoldsWhatSinkForwards ==
  \A x \in both, s \in Sections :
    x.kernel[s] = IF s \in Forwards(x.kind) THEN x.software[s] ELSE << >>

(* builder.rs:232-233: once outputs are declared inputs cannot be added. *)
InputsSealed ==
  [][sealed /\ receipts' = receipts => builder'.inputs = builder.inputs]_vars

(* builder.rs:376-379: the runtime's receipt and the returned Cert carry the
   same digest by construction. *)
SameDigestByConstruction == \A x \in both : x.kernel = x.software
=============================================================================

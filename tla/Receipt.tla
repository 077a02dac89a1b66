------------------------------- MODULE Receipt -------------------------------
(***************************************************************************)
(* The byte string a receipt digest is the BLAKE3 hash of                  *)
(* (src/cert/builder.rs:450-605), version 2 and the frozen version 1.      *)
(*                                                                         *)
(* Bytes are scaled down: a LEB128 byte carries a digit below Radix (128   *)
(* in the code) and Radix is its continuation bit.  Names, field contents  *)
(* and hashes are sequences of bytes; every hash has the same length.      *)
(***************************************************************************)
EXTENDS Naturals, SequencesExt

CONSTANTS
  Radix,       \* 128 in the code
  RegimeBytes, \* the bytes of builder.rs REGIME, "vitni-regime-2"
  HashLen      \* 32: the bytes of a hash

(* A byte is a number; that it has a bound matters to nothing here. *)
Bytes == Seq(Nat)
Hash == [1..HashLen -> Nat]

ASSUME ReceiptAssumption ==
  /\ Radix \in Nat /\ Radix >= 2
  /\ RegimeBytes \in Bytes
  /\ HashLen \in Nat

Leb128[v \in Nat] ==
  IF v < Radix THEN <<v>> ELSE <<(v % Radix) + Radix>> \o Leb128[v \div Radix]

Prefixed(bytes) == Leb128[Len(bytes)] \o bytes

(* n ; n records *)
Counted(records, Write(_)) ==
  Leb128[Len(records)] \o FlattenSeq([i \in DOMAIN records |-> Write(records[i])])

\* Mutant: the name goes without its length.
WriteFieldBareName(f) == f.name \o Prefixed(f.bytes)

WriteField(f) == Prefixed(f.name) \o Prefixed(f.bytes)

WriteOp(op) ==
  Leb128[op.op_index] \o Prefixed(op.op_name) \o Leb128[op.layer]
    \o op.input_hash \o op.params_hash \o op.output_hash

WriteActivation(act) ==
  Leb128[act.act_index] \o Leb128[act.token_index] \o Leb128[act.layer]
    \o Prefixed(act.checkpoint) \o act.tensor_hash

WriteIntervention(intv) ==
  Leb128[intv.intv_index] \o Leb128[intv.token_index] \o Leb128[intv.layer]
    \o Prefixed(intv.checkpoint) \o intv.replacement_hash

WriteSections(c) ==
  Counted(c.inputs, WriteField) \o Counted(c.outputs, WriteField)
    \o Counted(c.ops, WriteOp) \o Counted(c.activations, WriteActivation)
    \o Counted(c.interventions, WriteIntervention)

(* "vitnify-receipt v2\0" and "vitnify-receipt v1\0": as long as each other,
   different in one byte, which stands for both here. *)
DigestV2(c) == <<2>> \o Prefixed(RegimeBytes) \o WriteSections(c)
DigestV1(c) == <<1>> \o WriteSections(c)

=============================================================================

--------------------------- MODULE ReceiptBinding ----------------------------
(***************************************************************************)
(* The receipts a CertBuilder makes and the bytes their digests bind.      *)
(***************************************************************************)
EXTENDS CertBuilder, Receipt

(* CertField, OpRecord, ActivationRecord, InterventionRecord: strings,
   numbers, and hashes of 32 bytes. *)
Fields == [name : Bytes, bytes : Bytes]
Ops == [op_name : Bytes, layer : Nat,
        input_hash : Hash, params_hash : Hash, output_hash : Hash]
Checkpoints == [token_index : Nat, layer : Nat, checkpoint : Bytes, hash : Hash]

ASSUME ArgsAssumption ==
  /\ InputArgs \subseteq Fields /\ OutputArgs \subseteq Fields
  /\ OpArgs \subseteq Ops
  /\ ActivationArgs \subseteq Checkpoints /\ InterventionArgs \subseteq Checkpoints

(* The module doc of src/cert/mod.rs: length prefixes leave no two receipts
   with the same preimage, so the digest tells an issuer's receipt from any
   other a verifier can rebuild; and no version 1 preimage is a version 2
   one (builder.rs:434-439). *)
SameDigestSameReceipt ==
  \A a, b \in software :
    /\ DigestV2(a) = DigestV2(b) => a = b
    /\ DigestV1(a) = DigestV1(b) => a = b
    /\ DigestV1(a) # DigestV2(b)
=============================================================================

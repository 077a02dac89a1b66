-------------------------- MODULE MCReceiptBinding ---------------------------
(***************************************************************************)
(* Instances of ReceiptBinding for TLC.  Radix is 2, so that a length of 2 *)
(* already takes two LEB128 bytes, and names and contents contain the very *)
(* bytes that encode lengths.                                              *)
(***************************************************************************)
EXTENDS ReceiptBinding

H == <<1>>

MCFields == [name : {<< >>, <<1>>}, bytes : {<< >>, <<1>>, <<0, 1>>}]
MCOutputs == [name : {<<1>>}, bytes : {<< >>, <<1, 1>>}]
MCOps == [op_name : {<< >>, <<1>>}, layer : {1},
          input_hash : {H}, params_hash : {<<0>>}, output_hash : {H}]
MCCheckpoints == [token_index : {1}, layer : {1}, checkpoint : {<< >>, <<1>>}, hash : {H}]
MCOne == [token_index : {1}, layer : {0}, checkpoint : {<<0>>}, hash : {<<0>>}]
MCRegimeBytes == <<1, 1>>

FewFields == [name : {<<1>>}, bytes : {<<0>>, <<1>>}]
FewOps == [op_name : {<<1>>}, layer : {0}, input_hash : {H}, params_hash : {H},
           output_hash : {<<0>>, <<1>>}]
FewCheckpoints == [token_index : {0}, layer : {0}, checkpoint : {<<1>>}, hash : {H}]
=============================================================================

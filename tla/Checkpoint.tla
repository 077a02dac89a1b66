----------------------------- MODULE Checkpoint -----------------------------
(***************************************************************************)
(* What the loaders make of a model file: Config and QuantizedWeights from *)
(* a GGUF file (config.rs, quant_weights.rs), Config and Weights from a    *)
(* llama2.c blob (config.rs, weights.rs).                                  *)
(*                                                                         *)
(* A GGUF file is a record: arch, its general.architecture or None; the    *)
(* keys of numbers it states; the number of blocks; whether it states the  *)
(* norm epsilon and the rope base; lists, whether it lists its tokens; and *)
(* dtype, from the names of its tensors to their types; an F32 tensor that *)
(* is not aligned, which f32_view refuses, counts as one of another type.  *)
(* A tensor is named <<name, layer>>; one outside the layers has layer 0.  *)
(***************************************************************************)
EXTENDS Integers, Sequences, FiniteSets

None == "none"

(* The weights of a layer, and the tensor each is bound to. *)
Matrices == [wq |-> "attn_q", wk |-> "attn_k", wv |-> "attn_v", wo |-> "attn_output",
             w1 |-> "ffn_gate", w2 |-> "ffn_down", w3 |-> "ffn_up"]
Norms == [rms_att |-> "attn_norm", rms_ffn |-> "ffn_norm"]
Biases == [bq |-> "attn_q.bias", bk |-> "attn_k.bias", bv |-> "attn_v.bias"]
-----------------------------------------------------------------------------
(* GGUF.                                                                   *)

\* Numbers every file must state; head_count_kv falls back on head_count.
Required == {"embedding_length", "feed_forward_length", "block_count", "head_count",
             "context_length"}

ConfigReads(file) ==
  /\ file.arch # None
  /\ Required \subseteq file.numbers
  /\ file.lists \/ "vocab_size" \in file.numbers

Names(file) == DOMAIN file.dtype
SharedWeights(file) == <<"output", 0>> \notin Names(file)

\* get_tensor, read_f32_tensor, read_f32_tensor_opt.
Has(file, name) == name \in Names(file)
HasF32(file, name) == Has(file, name) /\ file.dtype[name] = "F32"
OptionalF32(file, name) == Has(file, name) => file.dtype[name] = "F32"

LayerLoads(file, l) ==
  /\ \A s \in DOMAIN Norms : HasF32(file, <<Norms[s], l>>)
  /\ \A s \in DOMAIN Matrices : Has(file, <<Matrices[s], l>>)
  /\ \A s \in DOMAIN Biases : OptionalF32(file, <<Biases[s], l>>)

\* from_gguf of Config and of QuantizedWeights return, and do not refuse.
Loads(file) ==
  /\ ConfigReads(file)
  /\ Has(file, <<"token_embd", 0>>) /\ HasF32(file, <<"output_norm", 0>>)
  /\ \A l \in 0..file.blocks - 1 : LayerLoads(file, l)

\* wcls, or the embedding when there is no separate head.
HeadTensor(file) == IF SharedWeights(file) THEN <<"token_embd", 0>> ELSE <<"output", 0>>

Epsilon(file) == IF file.states_eps THEN "stated" ELSE "1e-5"
Theta(file) == IF file.states_theta THEN "stated" ELSE "1e4"
Neox(file) == file.arch = "qwen2"
-----------------------------------------------------------------------------
(* llama2.c.  A header is a record of the seven numbers; raw_vocab is not  *)
(* positive when the head is a matrix of its own.  Offsets count floats    *)
(* from the end of the header.                                             *)

Shared(h) == h.raw_vocab > 0
VocabSize(h) == IF h.raw_vocab < 0 THEN -h.raw_vocab ELSE h.raw_vocab

HeadSize(h) == h.dim \div h.n_heads
KvDim(h) == (h.dim * h.n_kv_heads) \div h.n_heads

\* A header with numbers that have a meaning: where heads divide the vector they are
\* cut from, a rotation takes them in pairs, as the exporter's tables have them.
Shaped(h) ==
  /\ h.dim \in Nat \ {0} /\ h.hidden_dim \in Nat \ {0} /\ h.n_layers \in Nat \ {0}
  /\ h.seq_len \in Nat /\ h.n_heads \in Nat /\ h.n_kv_heads \in Nat /\ h.raw_vocab \in Int
  /\ h.n_heads # 0 /\ h.dim % h.n_heads = 0 => HeadSize(h) % 2 = 0

\* The arrays of the blob in their order, and the length from_blob takes for each.
Arrays == <<"token_embd", "rms_att", "wq", "wk", "wv", "wo", "rms_ffn", "w1", "w2", "w3",
            "rms_final", "freq_real", "freq_imag", "wcls">>

TakenPerLayer(h) ==
  [rms_att |-> h.dim, rms_ffn |-> h.dim,
   wq |-> h.dim * (h.n_heads * HeadSize(h)), wo |-> (h.n_heads * HeadSize(h)) * h.dim,
   wk |-> h.dim * (h.n_kv_heads * HeadSize(h)), wv |-> h.dim * (h.n_kv_heads * HeadSize(h)),
   w1 |-> h.hidden_dim * h.dim, w2 |-> h.dim * h.hidden_dim, w3 |-> h.hidden_dim * h.dim]

Taken(h, a) ==
  CASE a \in DOMAIN TakenPerLayer(h) -> h.n_layers * TakenPerLayer(h)[a]
    [] a \in {"token_embd", "wcls"} -> VocabSize(h) * h.dim
    [] a = "rms_final" -> h.dim
    [] a \in {"freq_real", "freq_imag"} -> (h.seq_len * HeadSize(h)) \div 2

Offset(h, a) ==
  LET k == CHOOSE j \in DOMAIN Arrays : Arrays[j] = a
      sum[j \in 0..k - 1] == IF j = 0 THEN 0 ELSE sum[j - 1] + Taken(h, Arrays[j])
  IN  sum[k - 1]

\* The last array from_blob takes: the tables of freq_cis are skipped without a check.
LastTaken(h) == IF Shared(h) THEN "rms_final" ELSE "wcls"
BlobLoads(h, floats) == Offset(h, LastTaken(h)) + Taken(h, LastTaken(h)) =< floats

\* What forward.rs and gemma.rs slice out of an array for a layer: from, to.
SlicePerLayer(h) ==
  [rms_att |-> h.dim, rms_ffn |-> h.dim, wq |-> h.dim * h.dim, wo |-> h.dim * h.dim,
   wk |-> h.dim * KvDim(h), wv |-> h.dim * KvDim(h),
   w1 |-> h.dim * h.hidden_dim, w2 |-> h.dim * h.hidden_dim, w3 |-> h.dim * h.hidden_dim]
Slice(h, a, l) == <<l * SlicePerLayer(h)[a], (l + 1) * SlicePerLayer(h)[a]>>

\* Slicing past what was taken panics.
SliceFits(h, a, l) == Slice(h, a, l)[2] =< Taken(h, a)

\* Where the exporter of llama2.c puts the floats of a layer, in its order.
ExportOrder == <<"token_embd", "attn_norm", "attn_q", "attn_k", "attn_v", "attn_output",
                 "ffn_norm", "ffn_gate", "ffn_down", "ffn_up", "output_norm", "freqs", "output">>
ExportedPerLayer(h) ==
  [attn_norm |-> h.dim, ffn_norm |-> h.dim,
   attn_q |-> h.dim * h.dim, attn_output |-> h.dim * h.dim,
   attn_k |-> h.dim * KvDim(h), attn_v |-> h.dim * KvDim(h),
   ffn_gate |-> h.dim * h.hidden_dim, ffn_down |-> h.dim * h.hidden_dim,
   ffn_up |-> h.dim * h.hidden_dim]
Exported(h, n) ==
  CASE n \in DOMAIN ExportedPerLayer(h) -> h.n_layers * ExportedPerLayer(h)[n]
    [] n \in {"token_embd", "output"} -> VocabSize(h) * h.dim
    [] n = "output_norm" -> h.dim
    [] n = "freqs" -> 2 * (h.seq_len * (HeadSize(h) \div 2))
ExportedAt(h, n) ==
  LET k == CHOOSE j \in DOMAIN ExportOrder : ExportOrder[j] = n
      sum[j \in 0..k - 1] == IF j = 0 THEN 0 ELSE sum[j - 1] + Exported(h, ExportOrder[j])
  IN  sum[k - 1]

\* The weight whose floats are those that an array's slice for a layer holds.
SliceHolds(h, a, l) ==
  LET from == Offset(h, a) + Slice(h, a, l)[1]
      n == {m \in DOMAIN ExportedPerLayer(h) :
              /\ ExportedAt(h, m) + l * ExportedPerLayer(h)[m] = from
              /\ ExportedPerLayer(h)[m] = SlicePerLayer(h)[a]}
  IN  <<IF n = {} THEN None ELSE CHOOSE m \in n : TRUE, l>>

\* The same for the arrays outside the layers: the final norm and the head.
ArrayHolds(h, a) ==
  LET n == {m \in {"token_embd", "output_norm", "output"} :
              ExportedAt(h, m) = Offset(h, a) /\ Exported(h, m) = Taken(h, a)}
  IN  <<IF n = {} THEN None ELSE CHOOSE m \in n : TRUE, 0>>
BlobHead(h) == IF Shared(h) THEN ArrayHolds(h, "token_embd") ELSE ArrayHolds(h, "wcls")
=============================================================================

----------------------------- MODULE MCSession -----------------------------
(***************************************************************************)
(* Small vocabularies and texts for the tokenizers, small files for the    *)
(* engines, and a parser whose u64 has twelve bits and whose u32 has eight:*)
(* sums of three fields wrap, products of two do.                          *)
(***************************************************************************)
EXTENDS Session, SequencesExt

a == 97
b == 98
Unk == <<60, 117, 110, 107, 62>>
BosToken == <<60, 115, 62>>
EosToken == <<60, 47, 115, 62>>
EAcute == <<195, 169>>
RawToken(h, l) == <<60, 48, 120, h, l, 62>>

Chars == {<<a>>, <<b>>, <<Space>>, <<Quote>>, EAcute, <<49>>}
MCTexts == UNION {[1..n -> Chars] : n \in 0..3} \cup [1..4 -> {<<a>>, <<b>>}]

\* Three special tokens, the single pieces, and the tokens merges join to.
Vocabulary(kind, singles, joined, scores) ==
  [kind |-> kind, vocab |-> <<Unk, BosToken, EosToken>> \o singles \o joined,
   scores |-> [k \in 1..3 + Len(singles) |-> 1] \o scores,
   merges |-> << >>, size |-> 3 + Len(singles) + Len(joined), intact |-> TRUE]

Singles == <<<<a>>, <<b>>, <<Space>>, <<Quote>>, <<195>>, <<169>>, <<49>>>>
BlobJoined == <<<<a, b>>, <<b, a>>, <<a, b, a>>, <<Space, a>>, EAcute, <<a, a>>>>
Blobs == {Vocabulary("llama2c", Singles, BlobJoined, <<x, y, 2, 2, 2, 2>>) : x, y \in {0, 2, 3}}
AnyBlob == CHOOSE m \in Blobs : TRUE

SpmSingles == <<Mark, <<a>>, <<b>>, <<Quote>>, <<49>>, RawToken(67, 51), RawToken(65, 57)>>
SpmJoined == <<<<a, b>>, <<b, a>>, Mark \o <<a>>, <<a, b, a>>>>
Spms == {Vocabulary("spm", SpmSingles, SpmJoined, <<x, y, z, 2>>) : x \in 0..2, y \in 1..2, z \in {0, 2}}
AnySpm == CHOOSE m \in Spms : TRUE

Sp == ByteEncoder[Space]
Gpt2(singles, merges) ==
  [Vocabulary("gpt2", singles, <<<<a, b>>, <<b, a>>, <<a, b, a>>, <<Sp, a>>, <<a, a>>, <<a, a, a>>>>,
              << >>) EXCEPT !.merges = merges]
GptSingles == [k \in DOMAIN Singles |-> <<ByteEncoder[Singles[k][1]]>>]
MergeLists ==
  {<<<<a, 32, b>>, <<a, b, 32, a>>, <<Sp, 32, a>>>>,
   <<<<b, 32, a>>, <<a, 32, b>>, <<a, b, 32, a>>>>,
   <<<<a, b, 32, a>>, <<a, 32, b>>, <<b, 32, a>>>>,
   <<<<a, 32, a>>, <<a, a, 32, a>>, <<a, b>>>>,
   <<<<b, 32, a>>, <<a, 32, b, a>>, <<a, 32, b>>, <<a, b, 32, a>>>>}

\* Complete vocabularies, and some that are cut short, lack a piece or are refused.
MCModels ==
  Blobs \cup Spms \cup {Gpt2(GptSingles, ms) : ms \in MergeLists}
  \cup {[AnyBlob EXCEPT !.size = 17], [AnyBlob EXCEPT !.size = 10],
        [AnySpm EXCEPT !.scores = <<1>>],
        Vocabulary("spm", Tail(SpmSingles), << >>, << >>),
        Gpt2(Tail(GptSingles), <<<<a, 32, b>>>>),
        [Gpt2(GptSingles, << >>) EXCEPT !.intact = FALSE]}
MCPromptTexts == {<<AnySpm, <<<<a>>>>>>}
-----------------------------------------------------------------------------
MCEngines ==
  [name : {"cpu", "cuda", "metal"}, regime : {2, 3}]
  \cup [name : {"prefill"}, regime : {3}]
  \cup [name : {"float", "gemma", "conformance"}, regime : {2}]

Over(f, g) == [n \in DOMAIN f \cup DOMAIN g |-> IF n \in DOMAIN g THEN g[n] ELSE f[n]]
Only(n, t) == [m \in {n} |-> t]
Blocks == 2

\* A file whose matrices are of type t.
Plain(t) ==
  LET norms == {"attn_norm", "ffn_norm"}
      matrices == {"attn_q", "attn_k", "attn_v", "attn_output", "ffn_gate", "ffn_up", "ffn_down"}
  IN  [arch |-> "llama", numbers |-> Required, lists |-> TRUE, blocks |-> Blocks, rows |-> 20,
       states_eps |-> TRUE, states_theta |-> FALSE,
       dtype |-> [n \in {<<"token_embd", 0>>, <<"output", 0>>, <<"output_norm", 0>>}
                         \cup (norms \cup matrices) \X (0..Blocks - 1)
                    |-> IF n[1] \in norms \cup {"output_norm"} THEN "F32" ELSE t]]
With(f, n, t) == [f EXCEPT !.dtype = Over(@, Only(n, t))]
Without(f, n) == [f EXCEPT !.dtype = [m \in DOMAIN f.dtype \ {n} |-> f.dtype[m]]]

Biased(f, slots) ==
  [f EXCEPT !.dtype = Over(@, [n \in {<<Biases[s], l>> : s \in slots, l \in 0..Blocks - 1} |-> "F32"])]
Mixed == With(With(With(Plain("Q4_K"), <<"attn_v", 0>>, "Q6_K"), <<"ffn_down", 1>>, "Q6_K"),
              <<"output", 0>>, "Q6_K")
Qwen == [Biased(With(With(Mixed, <<"attn_k", 1>>, "Q8_0"), <<"ffn_up", 0>>, "Q5_0"),
                DOMAIN Biases) EXCEPT !.arch = "qwen2", !.states_theta = TRUE, !.states_eps = FALSE]

\* Neighbouring linears of different types, which share the scratch.
Neighbours == {With(With(With(Mixed, <<"attn_q", 0>>, q), <<"attn_k", 0>>, k), <<"ffn_up", 1>>, u) :
                 q \in {"Q4_K", "Q6_K", "Q8_0"}, k, u \in {"Q4_K", "Q6_K"}}

Whole ==
  {Plain(t) : t \in {"F32", "Q4_0", "Q4_K", "Q6_K", "Q8_0", "F16"}}
  \cup {Mixed, Qwen, Without(Qwen, <<"output", 0>>), Without(Plain("Q6_K"), <<"output", 0>>),
        Biased(Mixed, {"bk"}), Biased(Mixed, {"bq", "bv"}),
        With(Mixed, <<"attn_q", 1>>, "F16"), [Mixed EXCEPT !.rows = 3]}
Broken ==
  {Without(Mixed, n) : n \in {<<"attn_norm", 1>>, <<"attn_k", 0>>, <<"output_norm", 0>>,
                              <<"token_embd", 0>>}}
  \cup {With(Mixed, <<"ffn_norm", 0>>, "F16"), With(Qwen, <<"attn_v.bias", 1>>, "F16"),
        [Mixed EXCEPT !.arch = None], [Mixed EXCEPT !.lists = FALSE],
        [Mixed EXCEPT !.numbers = @ \ {"context_length"}]}

Header(dim, heads, kv, raw) ==
  [dim |-> dim, hidden_dim |-> 3, n_layers |-> 2, n_heads |-> heads, n_kv_heads |-> kv,
   raw_vocab |-> raw, seq_len |-> 3]
MCBlobFiles ==
  {[header |-> Header(dim, heads, kv, raw), floats |-> fl] :
     dim \in {4, 8}, heads \in 0..3, kv \in 0..2, raw \in {12, -12}, fl \in {300, 1000}}
MCGgufFiles == Whole \cup Neighbours \cup Broken
-----------------------------------------------------------------------------
MCBlobLen == {60, 124}
MCWord32 == {0, 1, 255}
MCWord64 == {0, 2, 4095}
=============================================================================

------------------------------- MODULE Session -------------------------------
(***************************************************************************)
(* A process that serves one model, as credit_bench.rs of src/cuda and of  *)
(* src/metal are: it opens a model file, encodes texts, and runs an engine *)
(* on what the tokenizer returned.  The parser hands over tensors; what    *)
(* the tokenizer and the engine need of them is the file and vocabulary    *)
(* they start from, so a session either parses, or encodes, or encodes and *)
(* runs an engine.                                                         *)
(***************************************************************************)
EXTENDS Gguf, Tokenizer, Engine

Format == INSTANCE Blocks

CONSTANT PromptTexts  \* <<vocabulary, text>> whose ids an engine is run on

svars == <<pvars, tvars, evars>>

NoParse ==
  /\ pc = "off" /\ len = 0 /\ pos = 0 /\ count = 0 /\ left = 0 /\ entries = 0
  /\ metadata = << >> /\ infos = << >> /\ reserved = 0 /\ data_base = 0
  /\ tensors = << >> /\ by_name = << >>
NoText ==
  /\ tpc = "off" /\ model = None /\ text = << >> /\ bos = FALSE /\ at = 0
  /\ tokens = << >> /\ i = 1 /\ best = NoPair /\ out = << >>
NoEngine ==
  /\ epc = "off" /\ engine = None /\ file = None
  /\ mem = << >> /\ prog = << >> /\ ran = {} /\ base = 0 /\ logits = << >>

Init ==
  /\ ids = << >>
  /\ \/ ParseInit /\ NoText /\ NoEngine
     \/ NoParse /\ TokInit /\ NoEngine
     \/ NoParse /\ TokInit /\ <<model, text>> \in PromptTexts /\ bos /\ EngineInit

Open == ParseNext /\ UNCHANGED <<tvars, evars>>

Encode == TokNext /\ UNCHANGED <<pvars, evars>>

\* The prompt is what encode returned; the drivers refuse an empty one.
Prompt ==
  /\ tpc = "done" /\ epc = "load" /\ ids = << >> /\ out # << >>
  /\ ids' = out
  /\ UNCHANGED <<pvars, tvars, engine, file, epc, mem, prog, ran, base, logits>>

Run == ids # << >> /\ EngineNext /\ UNCHANGED <<pvars, tvars>>

Next == Open \/ Encode \/ Prompt \/ Run

Spec == Init /\ [][Next]_svars /\ WF_svars(Next)
-----------------------------------------------------------------------------
\* Ids are ids of the vocabulary, the best pair lies before the scan, and a pass
\* has no more rows than the prompt has tokens.
SessionTypeOK ==
  /\ tpc # "off" /\ model.kind # "gpt2" => \A k \in DOMAIN tokens : tokens[k] < Len(model.vocab)
  /\ \A k \in DOMAIN out : out[k] \in Nat /\ out[k] < Len(model.vocab)
  /\ best \in 0..i - 1 /\ at \in 0..Len(Flat)
  /\ ids # << >> /\ epc = "run" => ran \subseteq DOMAIN prog /\ Rows \in 1..Len(ids)

\* Every variable has its type, whichever part of the session runs.
TypeOK == SessionTypeOK /\ (pc # "off" => ParseTypeOK)

(* "Block-quantized dtypes (Q4_0, Q8_0) match the GGML/llama.cpp formats so weight blobs
   can be read directly from GGUF without repacking": a Q4_0 tensor the parser hands over
   is decoded with the elements where GGML has them. *)
Q40MatchesGgml ==
  (\E k \in 1..Len(tensors) : infos[k].dtype = "Q4_0" /\ tensors[k].start < tensors[k].end)
    => Format!GgmlAgrees

ParseEnded == pc \in {"done", "refused"}

\* Every loop of the parser, of the tokenizers and of the engines ends, in an
\* answer, an error or a panic, whatever counts a file states: scans restart after
\* each merge, pieces are cut by inner loops, and dispatches wait for one another.
SessionEnds ==
  <>(\/ ParseEnded
     \/ TokEnded /\ (EngineEnded \/ epc = "off" \/ tpc # "done" \/ out = << >>))
=============================================================================

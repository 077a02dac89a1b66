------------------------------ MODULE Tokenizer ------------------------------
(***************************************************************************)
(* The three tokenizers of src/tokenizer: llama2c (llama2c.rs), spm        *)
(* (gguf_spm.rs) and gpt2 (gguf_bpe.rs).  Each cuts a text into single     *)
(* pieces and merges adjacent ones, one pair at a time: a scan over all    *)
(* pairs keeps the best one seen, and the merge that follows starts the    *)
(* scan again.  llama2c and spm merge by the score of the merged token,    *)
(* gpt2 by the rank of the pair, within the pieces of a pretokenizer.      *)
(*                                                                         *)
(* Bytes are numbers; a text is a sequence of characters, each the         *)
(* sequence of its UTF-8 bytes.  A token is its id, and the symbols of     *)
(* gpt2 are sequences of code points of the byte-unicode alphabet.         *)
(***************************************************************************)
EXTENDS Naturals, Sequences, FiniteSets, SequencesExt

CONSTANTS
  Models,  \* vocabularies: [kind, vocab, scores, merges, size, intact]
  Texts,   \* texts to encode
  NegInf   \* f32::NEG_INFINITY, below every score

VARIABLES
  model,   \* the vocabulary in use
  text,    \* the text to encode
  bos,     \* the caller asks for a leading BOS
  tpc,     \* "load", "cut", "scan", "done", "refused", "panicked"
  at,      \* gpt2: bytes of the text that are pretokenized
  tokens,  \* ids, or the symbols of one piece for gpt2
  i,       \* the scan's index, from 1
  best,    \* the best pair the scan has met: its index, or NoPair
  out      \* gpt2: ids of the pieces that are done

tvars == <<model, text, bos, tpc, at, tokens, i, best, out>>

NoPair == 0
Bos == 1

(* A vocabulary file and a text, as far as encode takes them as they are: a
   blob has a score with each token, there is a token for BOS, whose bytes the
   scan looks up, and a &str is UTF-8. *)
VocabularyFiles ==
  [kind : {"llama2c", "spm", "gpt2"}, vocab : Seq(Seq(Nat)), scores : Seq(Nat),
   merges : Seq(Seq(Nat)), size : Nat, intact : BOOLEAN]
IsVocabulary(m) ==
  /\ m \in VocabularyFiles
  /\ m.kind = "llama2c" => Len(m.scores) = Len(m.vocab) /\ Bos < m.size
  /\ m.kind # "gpt2" => Bos < Len(m.vocab)
IsChar(c) ==
  \/ c \in Seq(0..127) /\ Len(c) = 1
  \/ /\ c \in Seq(128..255) /\ \A k \in DOMAIN c : c[k] >= 192 <=> k = 1
     /\ Len(c) = IF c[1] < 224 THEN 2 ELSE IF c[1] < 240 THEN 3 ELSE 4
IsText(t) == t \in Seq(Seq(0..255)) /\ \A k \in DOMAIN t : IsChar(t[k])

ASSUME TokenizerAssumption ==
  /\ NegInf \in Nat
  /\ \A m \in Models : IsVocabulary(m)
  /\ \A t \in Texts : IsText(t)

Space == 32
Quote == 39
Mark == <<226, 150, 129>>     \* U+2581, what spm puts for a space
-----------------------------------------------------------------------------
(* Vocabularies.  Ids count from 0, sequences from 1.                      *)

Bytes(id) == model.vocab[id + 1]

\* by_bytes and vocab: the first id of those bytes.
Known(bytes) == \E k \in DOMAIN model.vocab : model.vocab[k] = bytes
IdOf(bytes) == (CHOOSE k \in DOMAIN model.vocab :
                  /\ model.vocab[k] = bytes
                  /\ \A j \in 1..k - 1 : model.vocab[j] # bytes) - 1

HexDigit(c) == IF c \in 48..57 THEN c - 48
               ELSE IF c \in 97..102 THEN c - 87
               ELSE IF c \in 65..70 THEN c - 55 ELSE 16

\* The value of hexadecimal digits; above 255 when it is not that of a byte.
HexValue(s) ==
  FoldLeft(LAMBDA v, c : IF v > 255 \/ HexDigit(c) = 16 THEN 256 ELSE 16 * v + HexDigit(c), 0, s)

\* The byte a token "<0xHH>" stands for; above 255 when it is not such a token.
RawByte(t) ==
  IF Len(t) = 6 /\ SubSeq(t, 1, 3) = <<60, 48, 120>> /\ t[6] = 62
  THEN HexValue(SubSeq(t, 4, 5)) ELSE 256

\* llama2c leaves the digits to from_str_radix: any number of them, after a plus sign.
LooseByte(t) ==
  IF Len(t) >= 6 /\ SubSeq(t, 1, 3) = <<60, 48, 120>> /\ t[Len(t)] = 62
  THEN HexValue(SubSeq(t, IF t[4] = 43 THEN 5 ELSE 4, Len(t) - 1)) ELSE 256

\* byte_fallback: the last token that stands for the byte.
Fallbacks(byte) == {k \in DOMAIN model.vocab : RawByte(model.vocab[k]) = byte}
\* A mutant: the position of the token in place of its id.
FallbackAfter(byte) == CHOOSE k \in Fallbacks(byte) : \A j \in Fallbacks(byte) : j =< k
FallbackOf(byte) == (CHOOSE k \in Fallbacks(byte) : \A j \in Fallbacks(byte) : j =< k) - 1

(* bytes_to_unicode: printable bytes stand for themselves, the others for
   the code points from 256 on, in order. *)
Printable(b) == b \in 33..126 \/ b \in 161..172 \/ b \in 174..255
ByteEncoder == [b \in 0..255 |->
                  IF Printable(b) THEN b
                  ELSE 256 + Cardinality({c \in 0..b - 1 : ~Printable(c)})]

(* A merge "A B" is split at its first space; one without a space is not
   a rule.  The first of two equal rules gives the rank. *)
RuleAt(r) == LET m == model.merges[r]
                 spaces == {k \in DOMAIN m : m[k] = Space}
                 sp == Min(spaces)
             IN  IF spaces = {} THEN << >>
                 ELSE <<SubSeq(m, 1, sp - 1), SubSeq(m, sp + 1, Len(m))>>
Ranks(pair) == {r \in DOMAIN model.merges : RuleAt(r) = pair}
-----------------------------------------------------------------------------
(* Loading.                                                                *)

\* llama2c reads as many entries as the model has tokens, and no more.
LoadBlob ==
  /\ tpc = "load" /\ model.kind = "llama2c"
  /\ IF model.size > Len(model.vocab)
     THEN tpc' = "refused" /\ UNCHANGED model
     ELSE tpc' = "cut" /\ model' = [model EXCEPT !.vocab = SubSeq(model.vocab, 1, model.size)]
  /\ UNCHANGED <<text, bos, at, tokens, i, best, out>>

\* The GGUF tokenizers need their arrays whole and of the right type.
LoadGguf ==
  /\ tpc = "load" /\ model.kind # "llama2c"
  /\ tpc' = IF \/ ~model.intact
               \/ model.kind = "spm" /\ Len(model.scores) # Len(model.vocab)
            THEN "refused" ELSE "cut"
  /\ UNCHANGED <<model, text, bos, at, tokens, i, best, out>>
-----------------------------------------------------------------------------
(* Cutting the text into single pieces.                                    *)

Flat == FlattenSeq(text)
Head1 == IF bos THEN <<Bos>> ELSE << >>

\* spm: a mark in front, and for every space.
Normalized == <<Mark>> \o [k \in DOMAIN text |-> IF text[k] = <<Space>> THEN Mark ELSE text[k]]

\* The ids of one character of spm: its own, or those of its bytes that have one.
CharIds(ch) ==
  IF Known(ch) THEN <<IdOf(ch)>>
  ELSE FlattenSeq([k \in DOMAIN ch |->
         IF Fallbacks(ch[k]) = {} THEN << >> ELSE <<FallbackOf(ch[k])>>])

\* llama2c: one id per byte; a byte without a token is dropped.
ByteIds(b) == IF Known(<<b>>) THEN <<IdOf(<<b>>)>> ELSE << >>

CutScored ==
  /\ tpc = "cut" /\ model.kind # "gpt2"
  /\ tokens' = Head1 \o
       IF model.kind = "spm"
       THEN FlattenSeq([k \in DOMAIN Normalized |-> CharIds(Normalized[k])])
       ELSE FlattenSeq([k \in DOMAIN Flat |-> ByteIds(Flat[k])])
  /\ i' = 1 /\ tpc' = "scan"
  /\ UNCHANGED <<model, text, bos, at, best, out>>

\* A mutant: the bytes that continue a character are not letters.
IsLetterLead(c) == c \in 65..90 \/ c \in 97..122 \/ c >= 192

IsLetter(c) == c \in 65..90 \/ c \in 97..122 \/ c >= 128
IsDigit(c) == c \in 48..57
IsSpace(c) == c \in {9, 10, 13, 32}
IsPunct(c) == ~IsLetter(c) /\ ~IsDigit(c) /\ ~IsSpace(c)
Lower(c) == IF c \in 65..90 THEN c + 32 ELSE c

\* Offset k is between two characters: str slicing panics anywhere else.
Boundary(k) == \E m \in 0..Len(text) : Len(FlattenSeq(SubSeq(text, 1, m))) = k

\* The end of the run of bytes that satisfy P, from offset k.
RunEnd(k, P(_)) ==
  CHOOSE e \in k..Len(Flat) :
    /\ \A j \in k..e - 1 : P(Flat[j + 1])
    /\ e = Len(Flat) \/ ~P(Flat[e + 1])

LowerSlice(k, e) == [j \in 1..e - k |-> Lower(Flat[k + j])]

\* A quote and the letter, or letters, of an English contraction.
ShortContraction(k) == LowerSlice(k, k + 2)[2] \in {115, 116, 109, 100}
LongContraction(k) == k + 3 =< Len(Flat) /\
  SubSeq(LowerSlice(k, k + 3), 2, 3) \in {<<114, 101>>, <<118, 101>>, <<108, 108>>}

AtQuote(k) == Flat[k + 1] = Quote /\ k + 1 < Len(Flat)

\* A mutant: no branch for digits.
PieceEndNoDigits(k) ==
  LET led == IF Flat[k + 1] = Space /\ k + 1 < Len(Flat) THEN k + 1 ELSE k
      d == Flat[led + 1]
  IN  IF IsLetter(d) THEN RunEnd(led, IsLetter)
      ELSE IF IsPunct(d) THEN RunEnd(led, IsPunct) ELSE RunEnd(k, IsSpace)

\* The offset where the piece that begins at offset k ends.
PieceEnd(k) ==
  LET c == Flat[k + 1]
      led == IF c = Space /\ k + 1 < Len(Flat) THEN k + 1 ELSE k   \* one leading space
      d == Flat[led + 1]
  IN  IF AtQuote(k) /\ ShortContraction(k) THEN k + 2
      ELSE IF AtQuote(k) /\ LongContraction(k) THEN k + 3
      ELSE IF IsLetter(d) THEN RunEnd(led, IsLetter)
      ELSE IF IsDigit(d) THEN RunEnd(led, IsDigit)
      ELSE IF IsPunct(d) THEN RunEnd(led, IsPunct)
      ELSE RunEnd(k, IsSpace)

\* &text[i..i+2] and text[i..i+3] are taken before they are compared.
ContractionPanics(k) ==
  /\ AtQuote(k)
  /\ \/ ~Boundary(k + 2)
     \/ ~ShortContraction(k) /\ k + 3 =< Len(Flat) /\ ~Boundary(k + 3)

\* So may the slice text[start..i] of the piece, whichever branch has found its end.
SlicePanics(k) == ContractionPanics(k) \/ ~Boundary(k) \/ ~Boundary(PieceEnd(k))

CutPiece ==
  /\ tpc = "cut" /\ model.kind = "gpt2" /\ at < Len(Flat)
  /\ IF SlicePanics(at)
     THEN tpc' = "panicked" /\ UNCHANGED <<at, tokens, i>>
     ELSE /\ tokens' = [j \in 1..PieceEnd(at) - at |-> <<ByteEncoder[Flat[at + j]]>>]
          /\ at' = PieceEnd(at)
          /\ i' = 1 /\ tpc' = "scan"
  /\ UNCHANGED <<model, text, bos, best, out>>

EndText ==
  /\ tpc = "cut" /\ model.kind = "gpt2" /\ at = Len(Flat)
  /\ tpc' = "done"
  /\ UNCHANGED <<model, text, bos, at, tokens, i, best, out>>
-----------------------------------------------------------------------------
(* Merging.                                                                *)

Pair(k) == <<tokens[k], tokens[k + 1]>>
Joined(k) == Bytes(tokens[k]) \o Bytes(tokens[k + 1])
Score(k) == model.scores[IdOf(Joined(k)) + 1]

CanMerge(k) ==
  IF model.kind = "gpt2" THEN Ranks(Pair(k)) # {}
  ELSE Known(Joined(k)) /\ Score(k) > NegInf

Rank(k) == CHOOSE r \in Ranks(Pair(k)) : \A s \in Ranks(Pair(k)) : r =< s

\* Mutants: the last of equals is kept; the first pair that can merge is.
BeatsOrEquals(k, b) ==
  b = NoPair \/ IF model.kind = "gpt2" THEN Rank(k) =< Rank(b) ELSE Score(k) >= Score(b)
BeatsNothing(k, b) == b = NoPair

\* Strictly better, so that the leftmost of equals is kept.
Beats(k, b) ==
  \/ b = NoPair
  \/ IF model.kind = "gpt2" THEN Rank(k) < Rank(b) ELSE Score(k) > Score(b)

\* The scan of spm leaves the BOS out; that of llama2c begins with it.
ScanStart == IF model.kind = "spm" /\ bos THEN 2 ELSE 1

ScanPair ==
  /\ tpc = "scan" /\ i < Len(tokens)
  /\ best' = IF i >= ScanStart /\ CanMerge(i) /\ Beats(i, best) THEN i ELSE best
  /\ i' = i + 1
  /\ UNCHANGED <<model, text, bos, tpc, at, tokens, out>>

ScanEnded == tpc = "scan" /\ i >= Len(tokens)

\* A mutant: the tail is not moved to the left.
MergedAtUnshifted(k) ==
  [j \in 1..Len(tokens) - 1 |->
     IF j # k THEN tokens[j]
     ELSE IF model.kind = "gpt2" THEN tokens[k] \o tokens[k + 1] ELSE IdOf(Joined(k))]

MergedAt(k) ==
  [j \in 1..Len(tokens) - 1 |->
     IF j < k THEN tokens[j]
     ELSE IF j > k THEN tokens[j + 1]
     ELSE IF model.kind = "gpt2" THEN tokens[k] \o tokens[k + 1] ELSE IdOf(Joined(k))]

Merge ==
  /\ ScanEnded /\ best # NoPair
  /\ tokens' = MergedAt(best)
  /\ i' = 1 /\ best' = NoPair
  /\ UNCHANGED <<model, text, bos, tpc, at, out>>

\* No pair is left.  A symbol of gpt2 that is not in the vocabulary is dropped.
EndMerge ==
  /\ ScanEnded /\ best = NoPair
  /\ IF model.kind = "gpt2"
     THEN /\ out' = out \o FlattenSeq([j \in DOMAIN tokens |->
                             IF Known(tokens[j]) THEN <<IdOf(tokens[j])>> ELSE << >>])
          /\ tokens' = << >> /\ tpc' = "cut"
     ELSE out' = tokens /\ tpc' = "done" /\ UNCHANGED tokens
  /\ UNCHANGED <<model, text, bos, at, i, best>>
-----------------------------------------------------------------------------
(* Decoding.                                                               *)

\* llama2c: a space after BOS is dropped, a "<0xHH>" token is its byte.
DecodeToken(prev, id) ==
  LET t == IF prev = Bos /\ Bytes(id) # << >> /\ Bytes(id)[1] = Space THEN Tail(Bytes(id))
           ELSE Bytes(id)
  IN  IF LooseByte(t) < 256 THEN <<LooseByte(t)>> ELSE t
DecodeLlama2c(prev, ids) ==
  FlattenSeq([k \in DOMAIN ids |-> DecodeToken(IF k = 1 THEN prev ELSE ids[k - 1], ids[k])])

\* spm: marks become spaces, and the first space is dropped.
IsMark(s, k) == k > 0 /\ k + 2 =< Len(s) /\ SubSeq(s, k, k + 2) = Mark
Unmarked(s) ==
  FlattenSeq([k \in DOMAIN s |->
    IF IsMark(s, k) THEN <<Space>>
    ELSE IF IsMark(s, k - 1) \/ IsMark(s, k - 2) THEN << >> ELSE <<s[k]>>])
DecodeSpm(ids) ==
  LET s == Unmarked(FlattenSeq([k \in DOMAIN ids |->
             IF RawByte(Bytes(ids[k])) < 256 THEN <<RawByte(Bytes(ids[k]))>> ELSE Bytes(ids[k])]))
  IN  IF s # << >> /\ s[1] = Space THEN Tail(s) ELSE s

\* gpt2: every code point that encodes a byte becomes that byte.
ByteOf(cp) == {b \in 0..255 : ByteEncoder[b] = cp}
DecodeGpt2(ids) ==
  LET cps == FlattenSeq([k \in DOMAIN ids |-> Bytes(ids[k])])
  IN  FlattenSeq([k \in DOMAIN cps |->
        IF ByteOf(cps[k]) = {} THEN << >> ELSE <<CHOOSE b \in ByteOf(cps[k]) : TRUE>>])
-----------------------------------------------------------------------------
TokInit ==
  /\ model \in Models /\ text \in Texts /\ bos \in BOOLEAN
  /\ bos => model.kind # "gpt2"               \* its encode adds no BOS
  /\ tpc = "load" /\ at = 0 /\ tokens = << >> /\ i = 1 /\ best = NoPair /\ out = << >>

TokNext ==
  \/ LoadBlob \/ LoadGguf \/ CutScored \/ CutPiece \/ EndText
  \/ ScanPair \/ Merge \/ EndMerge

TokEnded == tpc \in {"done", "refused", "panicked"}
-----------------------------------------------------------------------------
(* Correctness.                                                            *)

Rules == {r \in DOMAIN model.merges : RuleAt(r) # << >>}
RuleJoin(r) == RuleAt(r)[1] \o RuleAt(r)[2]

\* Every character of the text has a token, or tokens for its bytes, and no
\* text is taken for a raw byte or for BOS: these are spelled with a "<", which is
\* not in the text, no token is BOS and another token, and none a raw byte and another.
Complete ==
  LET chars == {text[k] : k \in DOMAIN text}
      bytes == {Flat[k] : k \in DOMAIN Flat}
  IN  CASE model.kind = "llama2c" ->
             /\ \A b \in bytes : Known(<<b>>) /\ b # 60
             /\ \E k \in DOMAIN Bytes(Bos) : Bytes(Bos)[k] = 60
             /\ bos => \A k \in DOMAIN model.vocab :
                         model.vocab[k] # << >> => ~Known(Bytes(Bos) \o model.vocab[k])
        [] model.kind = "spm" ->
             /\ <<60>> \notin chars
             /\ \A ch \in chars \cup {Mark} :
                  Known(ch) \/ \A k \in DOMAIN ch : Fallbacks(ch[k]) # {}
             /\ \A r, k \in DOMAIN model.vocab :
                  RawByte(model.vocab[r]) < 256 /\ model.vocab[k] # << >> =>
                    ~Known(model.vocab[r] \o model.vocab[k]) /\ ~Known(model.vocab[k] \o model.vocab[r])
        [] model.kind = "gpt2" ->
             /\ \A b \in bytes : Known(<<ByteEncoder[b]>>)
             /\ \A r \in Rules : Known(RuleJoin(r))

\* Decoding what encode returned gives the text back: no merge loses, doubles
\* or moves a byte.  A leading BOS stays in front; after it llama2c drops one
\* leading space of the text, and spm gives every mark of the text as a space.
RoundTrip ==
  tpc = "done" /\ Complete =>
    LET ids == IF bos THEN Tail(out) ELSE out
        body == FlattenSeq([k \in DOMAIN text |-> IF text[k] = Mark THEN <<Space>> ELSE text[k]])
    IN  /\ bos => out # << >> /\ out[1] = Bos
        /\ CASE model.kind = "llama2c" ->
                  DecodeLlama2c(IF bos THEN Bos ELSE 0, ids)
                    = IF bos /\ Flat # << >> /\ Flat[1] = Space THEN Tail(Flat) ELSE Flat
             [] model.kind = "spm" -> DecodeSpm(ids) = body
             [] model.kind = "gpt2" -> DecodeGpt2(ids) = Flat

\* When a scan ends it has found the best pair of all, the leftmost of equals,
\* and none only if no pair can be merged: the ids do not depend on the order
\* of the loop, which every port of the tokenizer is free to choose.
ScanFindsBest ==
  ScanEnded =>
    LET pairs == {k \in ScanStart..Len(tokens) - 1 : CanMerge(k)}
        before(k, b) == IF model.kind = "gpt2" THEN Rank(k) < Rank(b) ELSE Score(k) > Score(b)
    IN  IF pairs = {} THEN best = NoPair
        ELSE /\ best \in pairs
             /\ \A k \in pairs : ~before(k, best) /\ (k < best => before(best, k))

\* One rule applied to a piece, from left to right.
ApplyRule(s, r) ==
  FoldLeft(LAMBDA done, sym :
             IF done # << >> /\ RuleAt(r) = <<done[Len(done)], sym>>
             THEN Append(SubSeq(done, 1, Len(done) - 1), RuleJoin(r)) ELSE Append(done, sym),
           << >>, s)

\* Merge lists as training writes them: a rule joins single symbols or what
\* earlier rules join, and no two rules join to the same token.
Trained ==
  /\ Rules = DOMAIN model.merges
  /\ \A r \in Rules, side \in 1..2 :
       Len(RuleAt(r)[side]) = 1 \/ \E q \in 1..r - 1 : RuleJoin(q) = RuleAt(r)[side]
  /\ \A r, q \in Rules : RuleJoin(r) = RuleJoin(q) => r = q

\* For such lists the result of the pair-at-a-time loop of gpt2 is what the
\* merge list defines: every rule applied once, in the order of the list.
RanksInOrder ==
  ScanEnded /\ best = NoPair /\ model.kind = "gpt2" /\ Trained =>
    LET symbols == FlattenSeq([j \in DOMAIN tokens |-> [c \in DOMAIN tokens[j] |-> <<tokens[j][c]>>]])
    IN  tokens = FoldLeft(ApplyRule, symbols, [r \in DOMAIN model.merges |-> r])

\* gpt2's pretokenizer finds the ends of its pieces byte by byte and slices the
\* text there.  No sequence of runs and contractions leaves it inside of a
\* character, where a slice panics: where it panics, the piece begins with a
\* quote, and a character of several bytes follows, directly or after one
\* other.  Every other text it cuts to the end.
PanicsOnlyAtQuote ==
  tpc = "panicked" =>
    \E k \in DOMAIN text :
      /\ text[k] = <<Quote>> /\ Len(FlattenSeq(SubSeq(text, 1, k - 1))) = at
      /\ \E m \in k + 1..k + 2 : m \in DOMAIN text /\ Len(text[m]) > 1
=============================================================================

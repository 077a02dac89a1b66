--------------------------- MODULE InferenceProofs ---------------------------
(***************************************************************************)
(* Proofs about Inference, for every vocabulary, model, context length,    *)
(* number of calls and size of usize.                                      *)
(***************************************************************************)
EXTENDS Inference, SeqLemmas, TLAPS

-----------------------------------------------------------------------------
(* The invariant.                                                          *)

(* Where a call in progress stands. *)
CallInv ==
  /\ phase = "idle" => generated = << >>
  /\ phase = "prefill" => /\ Accepted(req) /\ req.driver = "prefill"
                          /\ generated = << >>
  /\ phase = "loop" => /\ Accepted(req) /\ ~ CapacityPanics(req)
                       /\ pos <= Len(req.prompt) + req.nNew
                       /\ req.driver = "prefill" => Len(req.prompt) <= pos

RecordedAreGreedy ==
  phase = "loop" => Greedy(regime, req.prompt, generated)

CertsBind == \A o \in issued : o.cert = Cert(o, o.generated)

(* The inductive invariant the proofs rest on. *)
IInv == /\ TypeOK /\ CallInv
        /\ CacheServesThisCall /\ RecordedAreGreedy
        /\ ReceiptsAreGreedy /\ NoOverlongReceipt /\ CertsBind

-----------------------------------------------------------------------------
(* Requests.                                                               *)

(* A prompt is a sequence of tokens, and an empty one has no length. *)
LEMMA PromptFacts ==
  ASSUME NEW p \in Prompts
  PROVE  /\ p \in Seq(Token) /\ Len(p) \in 0..MaxPrompt
         /\ p # << >> => Len(p) > 0
<1>1. PICK n \in 0..MaxPrompt : p \in [1..n -> Token]
  BY DEF Prompts
<1>2. p \in Seq(Token) /\ Len(p) = n
  BY <1>1
<1> QED BY <1>2, EmptySeq

(* The idle engine's placeholder is a request. *)
LEMMA EmptyRequest == NoRequest \in Request
<1>1. << >> \in [1..0 -> Token]
  BY EmptySeq
<1>2. 0 \in 0..MaxPrompt
  BY InferenceAssumption
<1>3. << >> \in Prompts
  BY <1>1, <1>2, Zenon DEF Prompts
<1> QED BY <1>3, InferenceAssumption DEF NoRequest, Request

(* A request the driver accepts and whose buffer it can allocate fits in the
   context: the length check does not wrap. *)
LEMMA AcceptedFits ==
  ASSUME NEW r \in Request, Accepted(r), ~ CapacityPanics(r)
  PROVE  /\ Total(r) = Len(r.prompt) + r.nNew
         /\ Len(r.prompt) + r.nNew <= SeqLen
         /\ Len(r.prompt) \in 1..SeqLen
         /\ r.nNew \in Nat
<1>1. r.prompt \in Prompts /\ r.nNew \in Nat /\ r.nNew <= CapMax
  BY InferenceAssumption DEF Request, CapacityPanics
<1>2. Len(r.prompt) \in 0..MaxPrompt /\ Len(r.prompt) > 0
  BY <1>1, PromptFacts DEF Accepted
<1>3. /\ Len(r.prompt) + r.nNew \in Nat
      /\ Len(r.prompt) + r.nNew < UsizeMax + 1
  BY <1>1, <1>2, InferenceAssumption
<1>4. Total(r) = Len(r.prompt) + r.nNew
  BY <1>3, ModBelow, InferenceAssumption DEF Total
<1> QED BY <1>1, <1>2, <1>4, InferenceAssumption DEF Accepted

(* A prefix of a token sequence that fits the positions has an argmax. *)
LEMMA ContextFacts ==
  ASSUME NEW s \in Seq(Token), NEW n \in 1..SeqLen, n <= Len(s), NEW r \in Regime
  PROVE  /\ SubSeq(s, 1, n) \in Context
         /\ SubSeq(s, 1, n) # Torn
         /\ Argmax[r][SubSeq(s, 1, n)] \in Token
<1>1. n \in 0..Len(s)
  BY LenProperties
<1>2. SubSeq(s, 1, n) \in Seq(Token) /\ Len(SubSeq(s, 1, n)) = n
  BY <1>1, PrefixFacts
<1>3. SubSeq(s, 1, n) \in [1..n -> Token]
  BY <1>2, LenProperties
<1>4. SubSeq(s, 1, n) \in Context
  BY <1>3 DEF Context
<1> QED BY <1>4, InferenceAssumption

(* The shape of the tokens a call feeds. *)
LEMMA FedFacts ==
  ASSUME NEW r \in Regime, NEW p \in Seq(Token), Len(p) \in 1..SeqLen,
         NEW g \in Seq(Token)
  PROVE  /\ Argmax[r][p] \in Token
         /\ FedBy(r, p, g) \in Seq(Token)
         /\ Len(FedBy(r, p, g)) = Len(p) + 1 + Len(g)
         /\ \A i \in 1..Len(p) : FedBy(r, p, g)[i] = p[i]
         /\ FedBy(r, p, g)[Len(p) + 1] = Argmax[r][p]
         /\ \A i \in 1..Len(g) : FedBy(r, p, g)[Len(p) + 1 + i] = g[i]
         /\ SubSeq(FedBy(r, p, g), 1, Len(p)) = p
         /\ \A e \in Token : FedBy(r, p, Append(g, e)) = Append(FedBy(r, p, g), e)
         /\ \A e \in Token, n \in 0..Len(p) + 1 + Len(g) :
               SubSeq(FedBy(r, p, Append(g, e)), 1, n) = SubSeq(FedBy(r, p, g), 1, n)
<1> DEFINE a == Argmax[r][p]
           h == p \o <<a>>
           f == h \o g
<1>1. SubSeq(p, 1, Len(p)) = p
  BY SubSeqFull
<1>2. a \in Token
  <2>1. Argmax[r][SubSeq(p, 1, Len(p))] \in Token
    BY ContextFacts
  <2> QED BY <1>1, <2>1
<1> HIDE DEF a
<1>3. <<a>> \in Seq(Token) /\ Len(<<a>>) = 1 /\ <<a>>[1] = a
  BY <1>2
<1>4. /\ h \in Seq(Token) /\ Len(h) = Len(p) + 1
      /\ \A i \in 1..Len(p) : h[i] = p[i]
      /\ h[Len(p) + 1] = a
  <2>1. /\ h \in Seq(Token) /\ Len(h) = Len(p) + Len(<<a>>)
        /\ \A i \in 1..Len(p) + Len(<<a>>) :
             h[i] = IF i <= Len(p) THEN p[i] ELSE <<a>>[i - Len(p)]
    BY <1>3, ConcatProperties
  <2> QED BY <1>3, <2>1
<1> HIDE DEF h
<1>5. /\ f \in Seq(Token) /\ Len(f) = Len(p) + 1 + Len(g)
      /\ \A i \in 1..Len(h) : f[i] = h[i]
      /\ \A i \in 1..Len(g) : f[Len(h) + i] = g[i]
  <2>1. /\ f \in Seq(Token) /\ Len(f) = Len(h) + Len(g)
        /\ \A i \in 1..Len(h) + Len(g) :
             f[i] = IF i <= Len(h) THEN h[i] ELSE g[i - Len(h)]
    BY <1>4, ConcatProperties
  <2>2. Len(g) \in Nat
    BY LenProperties
  <2> QED BY <1>4, <2>1, <2>2
<1>6. SubSeq(f, 1, Len(p)) = p
  <2>1. SubSeq(f, 1, Len(p)) = SubSeq(h, 1, Len(p))
    BY <1>4, PrefixOfConcat
  <2>2. SubSeq(h, 1, Len(p)) = SubSeq(p, 1, Len(p))
    BY <1>3, PrefixOfConcat DEF h
  <2> QED BY <1>1, <2>1, <2>2
<1>7. \A e \in Token : h \o Append(g, e) = Append(f, e)
  BY <1>4, AppendToConcat
<1>8. \A e \in Token, n \in 0..Len(p) + 1 + Len(g) :
         SubSeq(h \o Append(g, e), 1, n) = SubSeq(f, 1, n)
  <2> SUFFICES ASSUME NEW e \in Token, NEW n \in 0..Len(p) + 1 + Len(g)
               PROVE  SubSeq(h \o Append(g, e), 1, n) = SubSeq(f, 1, n)
    OBVIOUS
  <2>1. <<e>> \in Seq(Token)
    OBVIOUS
  <2>2. h \o Append(g, e) = f \o <<e>>
    BY <1>5, <1>7, AppendIsConcat
  <2> HIDE DEF f
  <2> QED BY <1>5, <2>1, <2>2, PrefixOfConcat
<1>9. FedBy(r, p, g) = f /\ \A e \in Token : FedBy(r, p, Append(g, e)) = h \o Append(g, e)
  BY DEF FedBy, f, h, a
<1> HIDE DEF f
<1>10. /\ \A i \in 1..Len(p) : f[i] = p[i]
       /\ f[Len(p) + 1] = a
       /\ \A i \in 1..Len(g) : f[Len(p) + 1 + i] = g[i]
  <2>1. Len(p) \in Nat /\ Len(h) = Len(p) + 1
    BY <1>4
  <2>2. \A i \in 1..Len(p) + 1 : f[i] = h[i]
    BY <1>5, <2>1
  <2>3. \A i \in 1..Len(g) : f[Len(p) + 1 + i] = g[i]
    BY <1>5, <2>1
  <2> QED BY <1>4, <2>1, <2>2, <2>3
<1>11. ASSUME NEW e \in Token
       PROVE  /\ FedBy(r, p, Append(g, e)) = Append(f, e)
              /\ \A n \in 0..Len(p) + 1 + Len(g) :
                   SubSeq(FedBy(r, p, Append(g, e)), 1, n) = SubSeq(f, 1, n)
  <2>1. FedBy(r, p, Append(g, e)) = h \o Append(g, e)
    BY <1>9
  <2>2. h \o Append(g, e) = Append(f, e)
    BY <1>7
  <2>3. \A n \in 0..Len(p) + 1 + Len(g) :
          SubSeq(h \o Append(g, e), 1, n) = SubSeq(f, 1, n)
    BY <1>8
  <2> QED BY <2>1, <2>2, <2>3
<1>12. FedBy(r, p, g) = f
  BY <1>9
<1> QED BY <1>2, <1>5, <1>6, <1>10, <1>11, <1>12 DEF a

(* The prompt is fed first, then the token predicted from it. *)
LEMMA FedPrompt ==
  ASSUME NEW r \in Regime, NEW p \in Seq(Token), Len(p) \in 1..SeqLen,
         NEW g \in Seq(Token)
  PROVE  /\ \A i \in 1..Len(p) : FedBy(r, p, g)[i] = p[i]
         /\ FedBy(r, p, g)[Len(p) + 1] = Argmax[r][p]
         /\ SubSeq(FedBy(r, p, g), 1, Len(p)) = p
BY FedFacts

(* The part of FedFacts about types and lengths. *)
LEMMA FedShape ==
  ASSUME NEW r \in Regime, NEW p \in Seq(Token), Len(p) \in 1..SeqLen,
         NEW g \in Seq(Token)
  PROVE  /\ Argmax[r][p] \in Token
         /\ FedBy(r, p, g) \in Seq(Token)
         /\ Len(FedBy(r, p, g)) = Len(p) + 1 + Len(g)
BY FedFacts

(* The part of FedFacts about recording one more token. *)
LEMMA FedGrows ==
  ASSUME NEW r \in Regime, NEW p \in Seq(Token), Len(p) \in 1..SeqLen,
         NEW g \in Seq(Token)
  PROVE  /\ \A e \in Token : FedBy(r, p, Append(g, e)) = Append(FedBy(r, p, g), e)
         /\ \A e \in Token, n \in 0..Len(p) + 1 + Len(g) :
               SubSeq(FedBy(r, p, Append(g, e)), 1, n) = SubSeq(FedBy(r, p, g), 1, n)
BY FedFacts

(* FedFacts before anything is recorded. *)
LEMMA FedStart ==
  ASSUME NEW r \in Regime, NEW p \in Seq(Token), Len(p) \in 1..SeqLen
  PROVE  /\ Argmax[r][p] \in Token
         /\ FedBy(r, p, << >>) \in Seq(Token)
         /\ Len(FedBy(r, p, << >>)) = Len(p) + 1
         /\ FedBy(r, p, << >>)[1] = p[1]
         /\ FedBy(r, p, << >>)[Len(p) + 1] = Argmax[r][p]
         /\ SubSeq(FedBy(r, p, << >>), 1, Len(p)) = p
<1> DEFINE g == << >>
<1>1. g \in Seq(Token) /\ Len(g) = 0
  BY EmptySeq
<1> HIDE DEF g
<1>2. /\ FedBy(r, p, g) \in Seq(Token)
      /\ Len(FedBy(r, p, g)) = Len(p) + 1 + Len(g)
      /\ \A i \in 1..Len(p) : FedBy(r, p, g)[i] = p[i]
      /\ FedBy(r, p, g)[Len(p) + 1] = Argmax[r][p]
      /\ SubSeq(FedBy(r, p, g), 1, Len(p)) = p
      /\ Argmax[r][p] \in Token
  <2>1. g \in Seq(Token)
    BY <1>1
  <2>2. /\ FedBy(r, p, g) \in Seq(Token)
        /\ Len(FedBy(r, p, g)) = Len(p) + 1 + Len(g)
        /\ Argmax[r][p] \in Token
    BY <2>1, FedFacts
  <2>3. \A i \in 1..Len(p) : FedBy(r, p, g)[i] = p[i]
    BY <2>1, FedFacts
  <2>4. FedBy(r, p, g)[Len(p) + 1] = Argmax[r][p]
    BY <2>1, FedFacts
  <2>5. SubSeq(FedBy(r, p, g), 1, Len(p)) = p
    BY <2>1, FedFacts
  <2> QED BY <2>2, <2>3, <2>4, <2>5
<1>3. Len(p) + 1 + Len(g) = Len(p) + 1 /\ 1 \in 1..Len(p)
  BY <1>1
<1>4. /\ Len(FedBy(r, p, g)) = Len(p) + 1
      /\ FedBy(r, p, g)[1] = p[1]
  BY <1>2, <1>3
<1> QED BY <1>2, <1>4 DEF g

-----------------------------------------------------------------------------
(* The loop.                                                               *)

(* What the invariant says of a call in the loop. *)
LEMMA LoopFacts ==
  ASSUME IInv, phase = "loop"
  PROVE  /\ req.prompt \in Seq(Token) /\ Len(req.prompt) \in 1..SeqLen
         /\ req.nNew \in Nat /\ Len(req.prompt) + req.nNew <= SeqLen
         /\ Total(req) = Len(req.prompt) + req.nNew
         /\ regime \in Regime /\ generated \in Seq(Token)
         /\ pos \in 0..Len(req.prompt) + req.nNew
         /\ Len(generated) \in Nat
         /\ Fed \in Seq(Token) /\ Len(Fed) = Len(req.prompt) + 1 + Len(generated)
         /\ pos + 1 <= Len(Fed)
<1>1. /\ req \in Request /\ Accepted(req) /\ ~ CapacityPanics(req)
      /\ pos \in Nat /\ pos <= Len(req.prompt) + req.nNew
      /\ regime \in Regime /\ generated \in Seq(Token)
      /\ Len(generated) = IF pos <= Len(req.prompt) THEN 0 ELSE pos - Len(req.prompt)
  BY DEF IInv, TypeOK, CallInv, CacheServesThisCall
<1>2. /\ Len(req.prompt) \in 1..SeqLen /\ req.nNew \in Nat
      /\ Len(req.prompt) + req.nNew <= SeqLen
      /\ Total(req) = Len(req.prompt) + req.nNew
  BY <1>1, AcceptedFits
<1>3. req.prompt \in Seq(Token)
  BY <1>1, PromptFacts DEF Request
<1>4. /\ Fed \in Seq(Token)
      /\ Len(Fed) = Len(req.prompt) + 1 + Len(generated)
  BY <1>1, <1>2, <1>3, FedShape DEF Fed
<1>5. Len(generated) \in Nat
  BY <1>1, LenProperties
<1>6. pos \in 0..Len(req.prompt) + req.nNew
  BY <1>1, <1>2
<1>7. pos + 1 <= Len(Fed)
  <2>1. pos \in Nat /\ Len(req.prompt) \in Nat /\ Len(generated) \in Nat
    BY <1>1, <1>2, <1>5
  <2>2. pos <= Len(req.prompt) + Len(generated)
    <3>1. CASE pos <= Len(req.prompt)
      BY <2>1, <3>1
    <3>2. CASE ~ (pos <= Len(req.prompt))
      <4>1. Len(generated) = pos - Len(req.prompt)
        BY <3>2 DEF IInv, CacheServesThisCall
      <4> QED BY <2>1, <4>1
    <3> QED BY <3>1, <3>2
  <2>3. Len(Fed) = Len(req.prompt) + 1 + Len(generated)
    BY <1>4
  <2> QED BY <2>1, <2>2, <2>3
<1> QED BY <1>1, <1>2, <1>3, <1>4, <1>5, <1>6, <1>7

(* The row a step writes is that of the tokens this call has fed. *)
LEMMA RowWritten ==
  ASSUME IInv, phase = "loop", pos < Len(req.prompt) + req.nNew
  PROVE  /\ Attend(kv, pos, cur) = SubSeq(Fed, 1, pos + 1)
         /\ SubSeq(Fed, 1, pos + 1) \in Context
         /\ Argmax[regime][SubSeq(Fed, 1, pos + 1)] \in Token
<1> DEFINE below == IF pos = 0 THEN << >> ELSE kv[pos - 1]
<1>1. /\ Fed \in Seq(Token) /\ pos \in 0..Len(Fed)-1 /\ pos + 1 \in 1..SeqLen
      /\ pos \in 0..Len(Fed) /\ pos + 1 <= Len(Fed) /\ regime \in Regime
      /\ pos \in Nat /\ pos + 1 <= SeqLen /\ SeqLen \in Nat /\ Len(Fed) \in Nat
  <2>1. /\ Fed \in Seq(Token) /\ regime \in Regime
        /\ pos \in Nat /\ pos + 1 <= Len(Fed) /\ Len(Fed) \in Nat
    BY LoopFacts, LenProperties
  <2>2. pos + 1 <= SeqLen
    BY LoopFacts, InferenceAssumption
  <2> QED BY <2>1, <2>2, InferenceAssumption
<1>2. /\ \A i \in 0..pos-1 : kv[i] = SubSeq(Fed, 1, i + 1)
      /\ cur = Fed[pos + 1]
  BY DEF IInv, CacheServesThisCall
<1>3. below = SubSeq(Fed, 1, pos)
  <2>1. CASE pos = 0
    <3>1. SubSeq(Fed, 1, 0) = << >>
      BY SubSeqEmpty
    <3> QED BY <2>1, <3>1
  <2>2. CASE pos # 0
    BY <1>1, <1>2, <2>2
  <2> QED BY <2>1, <2>2
<1>4. Len(below) = pos /\ below # Torn
  <2>1. Len(below) = pos
    BY <1>1, <1>3, PrefixFacts
  <2>2. ASSUME pos = 0
        PROVE  below # Torn
    BY <2>2, InferenceAssumption
  <2>3. ASSUME pos # 0
        PROVE  below # Torn
    <3>1. pos \in 1..SeqLen /\ pos <= Len(Fed)
      <4>1. pos \in Nat /\ pos + 1 <= SeqLen /\ pos + 1 <= Len(Fed)
            /\ SeqLen \in Nat /\ Len(Fed) \in Nat
        BY <1>1
      <4> QED BY <2>3, <4>1
    <3>2. SubSeq(Fed, 1, pos) # Torn
      BY <1>1, <3>1, ContextFacts
    <3> HIDE DEF below
    <3> QED BY <1>3, <3>2
  <2> QED BY <2>1, <2>2, <2>3
<1>5. Holds(kv, below)
  <2> SUFFICES ASSUME NEW i \in 0..pos-1
               PROVE  kv[i] = SubSeq(below, 1, i + 1)
    BY <1>4 DEF Holds
  <2>1. SubSeq(SubSeq(Fed, 1, pos), 1, i + 1) = SubSeq(Fed, 1, i + 1)
    <3>1. i + 1 \in 0..pos
      BY <1>1
    <3> QED BY <1>1, <3>1, PrefixOfPrefix
  <2> HIDE DEF below
  <2> QED BY <1>2, <1>3, <2>1
<1>6. Attend(kv, pos, cur) = Append(SubSeq(Fed, 1, pos), Fed[pos + 1])
  <2>1. Attend(kv, pos, cur) = IF below # Torn /\ Len(below) = pos /\ Holds(kv, below)
                               THEN Append(below, cur) ELSE Torn
    BY DEF Attend
  <2> HIDE DEF below
  <2> QED BY <1>2, <1>3, <1>4, <1>5, <2>1
<1>7. Append(SubSeq(Fed, 1, pos), Fed[pos + 1]) = SubSeq(Fed, 1, pos + 1)
  BY <1>1, PrefixExtended
<1>8. /\ SubSeq(Fed, 1, pos + 1) \in Context
      /\ Argmax[regime][SubSeq(Fed, 1, pos + 1)] \in Token
  BY <1>1, ContextFacts
<1> QED BY <1>6, <1>7, <1>8

(* The cache after a step of the loop. *)
LEMMA CacheAfterStep ==
  ASSUME IInv, phase = "loop", pos < Len(req.prompt) + req.nNew,
         kv' = [kv EXCEPT ![pos] = SubSeq(Fed, 1, pos + 1)]
  PROVE  /\ kv' \in [0..SeqLen-1 -> Row]
         /\ \A i \in 0..pos : kv'[i] = SubSeq(Fed, 1, i + 1)
<1>1. /\ kv \in [0..SeqLen-1 -> Row]
      /\ \A i \in 0..pos-1 : kv[i] = SubSeq(Fed, 1, i + 1)
  BY DEF IInv, TypeOK, CacheServesThisCall
<1>2. SubSeq(Fed, 1, pos + 1) \in Row
  BY RowWritten DEF Row
<1>3. pos \in 0..SeqLen-1 /\ pos \in Nat /\ SeqLen \in Nat
  BY LoopFacts, InferenceAssumption
<1>4. ASSUME NEW i \in 0..pos
      PROVE  kv'[i] = SubSeq(Fed, 1, i + 1)
  <2>1. CASE i = pos
    BY <1>1, <1>3, <2>1
  <2>2. CASE i # pos
    <3>1. i \in 0..pos-1 /\ i \in 0..SeqLen-1
      BY <1>3, <2>2
    <3>2. kv'[i] = kv[i]
      BY <1>1, <2>2, <3>1
    <3> QED BY <1>1, <3>1, <3>2
  <2> QED BY <2>1, <2>2
<1> QED BY <1>1, <1>2, <1>4

(* What says something of the receipts survives a step that issues none. *)
IssuedInv == /\ ReceiptsAreGreedy /\ NoOverlongReceipt /\ CertsBind
             /\ \A o \in issued : /\ o.prompt \in Prompts /\ o.nNew \in 0..UsizeMax
                                  /\ o.regime \in Regime /\ o.generated \in Seq(Token)

LEMMA NothingIssued ==
  ASSUME IInv, UNCHANGED issued
  PROVE  IssuedInv'
BY DEF IInv, TypeOK, IssuedInv, ReceiptsAreGreedy, NoOverlongReceipt, CertsBind

(* The invariant, from its part about receipts and its part about the call. *)
LEMMA Assemble ==
  ASSUME IssuedInv',
         (/\ kv \in [0..SeqLen-1 -> Row] /\ regime \in Regime
          /\ phase \in {"idle", "prefill", "loop"} /\ req \in Request
          /\ pos \in 0..SeqLen /\ cur \in Token \cup {NoToken}
          /\ generated \in Seq(Token) /\ calls \in 0..MaxCalls)',
         CallInv', CacheServesThisCall', RecordedAreGreedy'
  PROVE  IInv'
BY DEF IInv, TypeOK, IssuedInv

(* A step that feeds a token and records none. *)
LEMMA ForcedStep ==
  ASSUME IInv, phase = "loop", req.driver = "token",
         pos < Len(req.prompt),
         kv' = [kv EXCEPT ![pos] = SubSeq(Fed, 1, pos + 1)],
         cur' = NextInput(pos, Argmax[regime][SubSeq(Fed, 1, pos + 1)]),
         pos' = pos + 1, UNCHANGED <<generated, regime, phase, req, issued, calls>>
  PROVE  IInv'
<1> DEFINE P == Len(req.prompt)
<1>1. /\ req.prompt \in Seq(Token) /\ P \in 1..SeqLen /\ P \in Nat
      /\ req.nNew \in Nat /\ P + req.nNew <= SeqLen
      /\ regime \in Regime /\ generated \in Seq(Token) /\ pos \in Nat
  BY LoopFacts
<1>2. pos < P + req.nNew /\ pos + 1 <= P
  BY <1>1
<1>3. Fed' = Fed
  BY DEF Fed
<1>4. /\ \A i \in 1..P : Fed[i] = req.prompt[i]
      /\ Fed[P + 1] = Argmax[regime][req.prompt]
      /\ SubSeq(Fed, 1, P) = req.prompt
  BY <1>1, FedPrompt, Zenon DEF Fed
<1>5. /\ kv' \in [0..SeqLen-1 -> Row]
      /\ \A i \in 0..pos : kv'[i] = SubSeq(Fed, 1, i + 1)
  BY <1>2, CacheAfterStep
<1>6. cur' = Fed[pos + 2] /\ cur' \in Token
  <2>1. CASE pos + 1 < P
    <3>1. cur' = req.prompt[pos + 2]
      BY <2>1 DEF NextInput
    <3>2. pos + 2 \in 1..P
      BY <1>1, <2>1
    <3>3. req.prompt[pos + 2] \in Token
      BY <1>1, <3>2, ElementOfSeq
    <3> QED BY <1>4, <3>1, <3>2, <3>3
  <2>2. CASE ~ (pos + 1 < P)
    <3>1. pos + 1 = P /\ pos + 2 = P + 1
      BY <1>1, <1>2, <2>2
    <3>2. cur' = Argmax[regime][SubSeq(Fed, 1, P)]
      BY <2>2, <3>1 DEF NextInput
    <3>3. Argmax[regime][req.prompt] \in Token
      BY <1>1, FedShape
    <3> QED BY <1>4, <3>1, <3>2, <3>3
  <2> QED BY <2>1, <2>2
<1>7. CacheServesThisCall'
  <2>1. Len(generated) = 0
    BY <1>1 DEF IInv, CacheServesThisCall
  <2>2. (pos + 1) + 1 = pos + 2 /\ 0..(pos + 1)-1 = 0..pos
    BY <1>1
  <2>3. Len(generated') = IF pos' <= Len(req'.prompt) THEN 0 ELSE pos' - Len(req'.prompt)
    BY <1>1, <1>2, <2>1
  <2>4. \A i \in 0..pos'-1 : kv'[i] = SubSeq(Fed', 1, i + 1)
    BY <1>3, <1>5, <2>2
  <2>5. cur' = Fed'[pos' + 1]
    BY <1>3, <1>6, <2>2
  <2> QED BY <2>3, <2>4, <2>5 DEF CacheServesThisCall
<1>8. CallInv'
  <2>1. Accepted(req) /\ ~ CapacityPanics(req)
    BY DEF IInv, CallInv
  <2> QED BY <1>1, <1>2, <2>1 DEF CallInv
<1>9. RecordedAreGreedy'
  BY DEF IInv, RecordedAreGreedy
<1>10. /\ kv' \in [0..SeqLen-1 -> Row] /\ regime' \in Regime
       /\ phase' \in {"idle", "prefill", "loop"} /\ req' \in Request
       /\ pos' \in 0..SeqLen /\ cur' \in Token \cup {NoToken}
       /\ generated' \in Seq(Token) /\ calls' \in 0..MaxCalls
  <2>1. pos' \in 0..SeqLen
    <3>1. pos + 1 \in Nat /\ pos + 1 <= SeqLen /\ SeqLen \in Nat
      BY <1>1, <1>2, InferenceAssumption
    <3> QED BY <3>1
  <2>2. regime \in Regime /\ req \in Request /\ calls \in 0..MaxCalls
    BY DEF IInv, TypeOK
  <2> QED BY <1>1, <1>5, <1>6, <2>1, <2>2
<1> QED BY <1>7, <1>8, <1>9, <1>10, NothingIssued, Assemble

(* A step that feeds a token and records the next one. *)
LEMMA RecordingStep ==
  ASSUME IInv, phase = "loop",
         Len(req.prompt) <= pos, pos < Len(req.prompt) + req.nNew,
         NEW e, e = Argmax[regime][SubSeq(Fed, 1, pos + 1)],
         kv' = [kv EXCEPT ![pos] = SubSeq(Fed, 1, pos + 1)],
         generated' = Append(generated, e), cur' = e,
         pos' = pos + 1, UNCHANGED <<regime, phase, req, issued, calls>>
  PROVE  IInv'
<1> DEFINE P == Len(req.prompt)
           k == Len(generated)
<1>1. /\ req.prompt \in Seq(Token) /\ P \in 1..SeqLen /\ P \in Nat
      /\ req.nNew \in Nat /\ P + req.nNew <= SeqLen /\ SeqLen \in Nat
      /\ regime \in Regime /\ generated \in Seq(Token) /\ pos \in Nat
      /\ k \in Nat /\ Fed \in Seq(Token) /\ Len(Fed) = P + 1 + k
  BY LoopFacts, InferenceAssumption
<1>2. pos = P + k
  <2>1. k = IF pos <= P THEN 0 ELSE pos - P
    BY DEF IInv, CacheServesThisCall
  <2>2. CASE pos <= P
    BY <1>1, <2>1, <2>2
  <2>3. CASE ~ (pos <= P)
    <3>1. k = pos - P
      BY <2>1, <2>3
    <3> QED BY <1>1, <3>1
  <2> QED BY <2>2, <2>3
<1>3. e \in Token
  BY RowWritten
<1>4. /\ Fed' = Append(Fed, e)
      /\ \A n \in 0..P + 1 + k : SubSeq(Fed', 1, n) = SubSeq(Fed, 1, n)
  <2>1. Fed' = FedBy(regime, req.prompt, Append(generated, e))
    BY DEF Fed
  <2>2. /\ \A x \in Token : FedBy(regime, req.prompt, Append(generated, x)) = Append(Fed, x)
        /\ \A x \in Token, n \in 0..P + 1 + k :
             SubSeq(FedBy(regime, req.prompt, Append(generated, x)), 1, n)
               = SubSeq(Fed, 1, n)
    BY <1>1, FedGrows DEF Fed
  <2> QED BY <1>3, <2>1, <2>2, Zenon
<1>5. pos \in Nat /\ P \in Nat /\ P >= 1 /\ k \in Nat /\ pos = P + k
  BY <1>1, <1>2
<1>6. /\ generated' \in Seq(Token) /\ Len(generated') = k + 1
      /\ \A i \in 1..k : generated'[i] = generated[i]
      /\ generated'[k + 1] = e
  BY <1>1, <1>3, AppendProperties
<1>7. /\ kv' \in [0..SeqLen-1 -> Row]
      /\ \A i \in 0..pos : kv'[i] = SubSeq(Fed, 1, i + 1)
  BY CacheAfterStep
<1>8. CacheServesThisCall'
  <2>1. Len(generated') = IF pos' <= Len(req'.prompt) THEN 0 ELSE pos' - Len(req'.prompt)
    <3>1. ~ (pos + 1 <= P) /\ (pos + 1) - P = k + 1
      <4> HIDE DEF P, k
      <4> QED BY <1>5
    <3> QED BY <1>6, <3>1
  <2>2. \A i \in 0..pos'-1 : kv'[i] = SubSeq(Fed', 1, i + 1)
    <3> SUFFICES ASSUME NEW i \in 0..pos
                 PROVE  kv'[i] = SubSeq(Fed', 1, i + 1)
      BY <1>1
    <3>1. i + 1 \in 0..P + 1 + k
      BY <1>1, <1>2
    <3> QED BY <1>4, <1>7, <3>1
  <2>3. cur' = Fed'[pos' + 1]
    <3>1. Append(Fed, e)[Len(Fed) + 1] = e
      BY <1>1, <1>3, AppendLast, Zenon
    <3>2. pos' + 1 = Len(Fed) + 1
      <4>1. Len(Fed) = pos + 1
        BY <1>1, <1>2
      <4> QED BY <4>1
    <3> QED BY <1>4, <3>1, <3>2
  <2> QED BY <2>1, <2>2, <2>3 DEF CacheServesThisCall
<1>9. RecordedAreGreedy'
  <2> SUFFICES ASSUME NEW i \in 1..k+1
               PROVE  generated'[i] = Argmax[regime][SubSeq(Fed', 1, P + i)]
    BY <1>6 DEF RecordedAreGreedy, Greedy, Fed
  <2>1. P + i \in 0..P + 1 + k
    BY <1>1
  <2>2. SubSeq(Fed', 1, P + i) = SubSeq(Fed, 1, P + i)
    BY <1>4, <2>1
  <2>3. CASE i = k + 1
    <3>1. P + i = pos + 1
      <4> HIDE DEF P, k
      <4> QED BY <1>5, <2>3
    <3> QED BY <1>6, <2>2, <2>3, <3>1
  <2>4. CASE i # k + 1
    <3>1. i \in 1..k
      BY <1>1, <2>4
    <3>2. generated[i] = Argmax[regime][SubSeq(Fed, 1, P + i)]
      BY <3>1 DEF IInv, RecordedAreGreedy, Greedy, Fed
    <3> QED BY <1>6, <2>2, <3>1, <3>2
  <2> QED BY <2>3, <2>4
<1>10. CallInv'
  <2>1. Accepted(req) /\ ~ CapacityPanics(req)
    BY DEF IInv, CallInv
  <2>2. P <= pos' /\ pos' <= P + req.nNew
    BY <1>1, <1>2
  <2> QED BY <2>1, <2>2 DEF CallInv
<1>11. /\ kv' \in [0..SeqLen-1 -> Row] /\ regime' \in Regime
       /\ phase' \in {"idle", "prefill", "loop"} /\ req' \in Request
       /\ pos' \in 0..SeqLen /\ cur' \in Token \cup {NoToken}
       /\ generated' \in Seq(Token) /\ calls' \in 0..MaxCalls
  <2>1. pos' \in 0..SeqLen
    BY <1>1
  <2>2. regime \in Regime /\ req \in Request /\ calls \in 0..MaxCalls
    BY DEF IInv, TypeOK
  <2> QED BY <1>3, <1>6, <1>7, <2>1, <2>2
<1> QED BY <1>8, <1>9, <1>10, <1>11, NothingIssued, Assemble

(* The cache after a batched prefill has a row at every position. *)
LEMMA PrimedTyped ==
  ASSUME NEW rows \in [0..SeqLen-1 -> Row], NEW p \in Seq(Token)
  PROVE  Primed(rows, p) \in [0..SeqLen-1 -> Row]
<1> SUFFICES ASSUME NEW i \in 0..SeqLen-1, i < Len(p)
             PROVE  SubSeq(p, 1, i + 1) \in Row
  BY DEF Primed
<1>1. i + 1 \in 1..SeqLen /\ i + 1 <= Len(p)
  BY LenProperties, InferenceAssumption
<1>2. i + 1 \in 0..Len(p)
  BY <1>1, LenProperties
<1>3. SubSeq(p, 1, i + 1) \in Seq(Token) /\ Len(SubSeq(p, 1, i + 1)) = i + 1
  BY <1>2, PrefixFacts
<1>4. SubSeq(p, 1, i + 1) \in [1..i+1 -> Token]
  BY <1>3, LenProperties
<1> QED BY <1>1, <1>4 DEF Row, Context

-----------------------------------------------------------------------------
(* One lemma per action.                                                   *)

(* A new engine that has served no call. *)
LEMMA InitInv == Init => IInv
<1> SUFFICES ASSUME Init PROVE IInv
  OBVIOUS
<1>1. /\ phase = "idle" /\ generated = << >> /\ issued = {} /\ pos = 0
      /\ cur = NoToken /\ calls = 0 /\ regime \in Regime /\ req = NoRequest
      /\ kv = Blank
  BY DEF Init
<1>2. TypeOK
  <2>1. NoRequest \in Request
    BY EmptyRequest
  <2>2. kv \in [0..SeqLen-1 -> Row]
    BY <1>1 DEF Blank, Row
  <2> QED BY <1>1, <2>1, <2>2, InferenceAssumption, EmptySeq DEF TypeOK
<1> QED BY <1>1, <1>2 DEF IInv, CallInv, CacheServesThisCall, RecordedAreGreedy,
          ReceiptsAreGreedy, NoOverlongReceipt, CertsBind

(* A call starts on a well-formed engine. *)
LEMMA StartTyped ==
  ASSUME IInv, StartEngine
  PROVE  kv' \in [0..SeqLen-1 -> Row] /\ regime' \in Regime
BY DEF IInv, TypeOK, StartEngine, Blank, Row

(* An accepted call begins (inference.rs:119-155, 419-428). *)
LEMMA BeginInv ==
  ASSUME IInv, NEW r \in Request, Begin(r)
  PROVE  IInv'
<1>1. /\ phase' = (IF r.driver = "token" THEN "loop" ELSE "prefill")
      /\ req' = r /\ pos' = 0 /\ generated' = << >>
      /\ cur' = (IF r.driver = "token" THEN r.prompt[1] ELSE NoToken)
      /\ UNCHANGED issued /\ Accepted(r) /\ StartEngine
      /\ calls' = calls + 1 /\ calls < MaxCalls
  BY DEF Begin
<1>2. /\ r.prompt \in Seq(Token) /\ Len(r.prompt) \in Nat /\ Len(r.prompt) > 0
      /\ r.nNew \in Nat /\ r.driver \in {"token", "prefill"}
  <2>1. r.prompt \in Prompts /\ r.nNew \in Nat /\ r.driver \in {"token", "prefill"}
    BY InferenceAssumption DEF Request
  <2>2. r.prompt # << >>
    BY <1>1 DEF Accepted
  <2> QED BY <2>1, <2>2, PromptFacts
<1>3. r.prompt[1] \in Token
  BY <1>2, ElementOfSeq
<1>4. CallInv'
  BY <1>1, <1>2 DEF CallInv, Accepted
<1>5. CacheServesThisCall'
  <2> SUFFICES ASSUME r.driver = "token"
               PROVE  /\ Len(generated') = IF pos' <= Len(r.prompt) THEN 0 ELSE pos' - Len(r.prompt)
                      /\ \A i \in 0..pos'-1 : kv'[i] = SubSeq(Fed', 1, i + 1)
                      /\ cur' = Fed'[pos' + 1]
    BY <1>1 DEF CacheServesThisCall
  <2>1. Len(generated') = 0 /\ pos' <= Len(r.prompt)
    BY <1>1, <1>2, EmptySeq
  <2>2. 0..pos'-1 = {}
    BY <1>1
  <2>3. regime' \in Regime
    BY <1>1, StartTyped
  <2>4. Fed'[1] = r.prompt[1]
    <3>1. Len(r.prompt) \in 1..SeqLen
      <4>1. Accepted(r) /\ ~ CapacityPanics(r)
        BY <1>1 DEF Accepted
      <4> QED BY <4>1, AcceptedFits
    <3>2. Fed' = FedBy(regime', r.prompt, << >>)
      BY <1>1 DEF Fed
    <3>3. FedBy(regime', r.prompt, << >>)[1] = r.prompt[1]
      BY <1>2, <2>3, <3>1, FedStart
    <3> QED BY <3>2, <3>3
  <2>5. cur' = r.prompt[1] /\ pos' + 1 = 1
    BY <1>1
  <2> QED BY <2>1, <2>2, <2>4, <2>5
<1>6. RecordedAreGreedy'
  <2>1. Len(generated') = 0
    BY <1>1, EmptySeq
  <2> QED BY <2>1 DEF RecordedAreGreedy, Greedy
<1>7. /\ kv' \in [0..SeqLen-1 -> Row] /\ regime' \in Regime
      /\ phase' \in {"idle", "prefill", "loop"} /\ req' \in Request
      /\ pos' \in 0..SeqLen /\ cur' \in Token \cup {NoToken}
      /\ generated' \in Seq(Token) /\ calls' \in 0..MaxCalls
  <2>1. pos' \in 0..SeqLen
    BY <1>1, InferenceAssumption
  <2>2. calls' \in 0..MaxCalls
    <3>1. calls \in 0..MaxCalls
      BY DEF IInv, TypeOK
    <3> QED BY <1>1, <3>1, InferenceAssumption
  <2>3. kv' \in [0..SeqLen-1 -> Row] /\ regime' \in Regime
    BY <1>1, StartTyped
  <2> QED BY <1>1, <1>3, <2>1, <2>2, <2>3, EmptySeq
<1> QED BY <1>1, <1>4, <1>5, <1>6, <1>7, NothingIssued, Assemble

(* A refused call changes the engine only (inference.rs:152-161). *)
LEMMA RefuseInv ==
  ASSUME IInv, NEW r \in Request, Refuse(r)
  PROVE  IInv'
<1>1. /\ UNCHANGED <<phase, req, pos, cur, generated, issued>>
      /\ phase = "idle" /\ StartEngine
      /\ calls' = calls + 1 /\ calls < MaxCalls
  BY DEF Refuse, callVars
<1>2. CallInv' /\ CacheServesThisCall' /\ RecordedAreGreedy'
  BY <1>1 DEF IInv, CallInv, CacheServesThisCall, RecordedAreGreedy
<1>3. calls' \in 0..MaxCalls
  <2>1. calls \in 0..MaxCalls
    BY DEF IInv, TypeOK
  <2> QED BY <1>1, <2>1, InferenceAssumption
<1>4. /\ req' \in Request /\ pos' \in 0..SeqLen /\ cur' \in Token \cup {NoToken}
      /\ generated' \in Seq(Token) /\ phase' \in {"idle", "prefill", "loop"}
  BY <1>1 DEF IInv, TypeOK
<1>5. kv' \in [0..SeqLen-1 -> Row] /\ regime' \in Regime
  BY <1>1, StartTyped
<1> QED BY <1>1, <1>2, <1>3, <1>4, <1>5, NothingIssued, Assemble

(* A call that returns leaves a typed engine behind, whatever it wrote. *)
LEMMA ReturnInv ==
  ASSUME IInv, Return, IssuedInv', kv' \in [0..SeqLen-1 -> Row]
  PROVE  IInv'
<1>1. /\ phase' = "idle" /\ req' = NoRequest /\ pos' = 0 /\ cur' = NoToken
      /\ generated' = << >> /\ UNCHANGED <<regime, calls>>
  BY DEF Return
<1>2. CallInv' /\ CacheServesThisCall' /\ RecordedAreGreedy'
  BY <1>1 DEF CallInv, CacheServesThisCall, RecordedAreGreedy
<1>3. /\ regime' \in Regime /\ calls' \in 0..MaxCalls
      /\ phase' \in {"idle", "prefill", "loop"}
  BY <1>1 DEF IInv, TypeOK
<1>4. /\ req' \in Request /\ pos' \in 0..SeqLen /\ generated' \in Seq(Token)
      /\ cur' \in Token \cup {NoToken}
  BY <1>1, EmptyRequest, EmptySeq, InferenceAssumption
<1> QED BY <1>2, <1>3, <1>4, Assemble

(* One iteration of the per-token loop (inference.rs:162-177). *)
LEMMA TokenStepInv ==
  ASSUME IInv, TokenStep
  PROVE  IInv'
<1> DEFINE e == Argmax[regime][SubSeq(Fed, 1, pos + 1)]
<1>1. /\ phase = "loop" /\ req.driver = "token" /\ pos < Len(req.prompt) + req.nNew
      /\ Len(req.prompt) \in Nat /\ pos \in Nat
  BY LoopFacts DEF TokenStep, Recorded
<1>2. Attend(kv, pos, cur) = SubSeq(Fed, 1, pos + 1)
  BY <1>1, RowWritten
<1>3. /\ kv' = [kv EXCEPT ![pos] = SubSeq(Fed, 1, pos + 1)]
      /\ generated' = IF pos >= Len(req.prompt) THEN Append(generated, NextInput(pos, e))
                                                ELSE generated
      /\ cur' = NextInput(pos, e)
      /\ pos' = pos + 1 /\ UNCHANGED <<regime, phase, req, issued, calls>>
  BY <1>2 DEF TokenStep, Recorded
<1>4. CASE pos < Len(req.prompt)
  <2>1. generated' = generated
    BY <1>1, <1>3, <1>4
  <2> QED BY <1>1, <1>3, <1>4, <2>1, ForcedStep
<1>5. CASE ~ (pos < Len(req.prompt))
  <2>1. Len(req.prompt) <= pos /\ ~ (pos + 1 < Len(req.prompt))
    BY <1>1, <1>5
  <2>2. NextInput(pos, e) = e
    BY <2>1 DEF NextInput
  <2>3. generated' = Append(generated, e) /\ cur' = e
    BY <1>1, <1>3, <2>1, <2>2
  <2> QED BY <1>1, <1>3, <2>1, <2>3, RecordingStep
<1> QED BY <1>4, <1>5

(* One iteration of the loop after a prefill (inference.rs:433-438). *)
LEMMA DecodeStepInv ==
  ASSUME IInv, DecodeStep
  PROVE  IInv'
<1> DEFINE e == Argmax[regime][SubSeq(Fed, 1, pos + 1)]
<1>1. /\ phase = "loop" /\ req.driver = "prefill" /\ pos < Len(req.prompt) + req.nNew
      /\ Len(req.prompt) <= pos
  BY DEF DecodeStep, IInv, CallInv
<1>2. Attend(kv, pos, cur) = SubSeq(Fed, 1, pos + 1)
  BY <1>1, RowWritten
<1>3. /\ kv' = [kv EXCEPT ![pos] = SubSeq(Fed, 1, pos + 1)]
      /\ generated' = Append(generated, e) /\ cur' = e
      /\ pos' = pos + 1 /\ UNCHANGED <<regime, phase, req, issued, calls>>
  BY <1>2 DEF DecodeStep
<1> QED BY <1>1, <1>3, RecordingStep

(* The batched prefill (inference.rs:430-432). *)
LEMMA PrefillInv ==
  ASSUME IInv, Prefill
  PROVE  IInv'
<1> DEFINE p == req.prompt
<1>1. /\ phase = "prefill" /\ kv' = Primed(kv, p) /\ UNCHANGED issued
      /\ Accepted(req) /\ generated = << >> /\ req.driver = "prefill"
      /\ req \in Request /\ regime \in Regime /\ calls \in 0..MaxCalls
      /\ kv \in [0..SeqLen-1 -> Row]
  BY DEF Prefill, IInv, CallInv, TypeOK
<1>2. p \in Seq(Token) /\ Len(p) \in Nat /\ Len(p) > 0
  <2>1. p \in Prompts /\ p # << >>
    BY <1>1 DEF Request, Accepted
  <2> QED BY <2>1, PromptFacts
<1>3. kv' \in [0..SeqLen-1 -> Row]
  BY <1>1, <1>2, PrimedTyped
<1>4. CASE CapacityPanics(req)
  <2>1. Return
    BY <1>4 DEF Prefill
  <2> QED BY <1>1, <1>3, <2>1, NothingIssued, ReturnInv
<1>5. CASE ~ CapacityPanics(req)
  <2>1. /\ phase' = "loop" /\ pos' = Len(p) /\ cur' = Argmax[regime][p]
        /\ UNCHANGED <<regime, req, generated, calls>>
    BY <1>5 DEF Prefill
  <2>2. /\ Len(p) \in 1..SeqLen /\ Len(p) + req.nNew <= SeqLen /\ req.nNew \in Nat
    BY <1>1, <1>5, AcceptedFits
  <2>3. Fed' = FedBy(regime, p, << >>)
    BY <1>1, <2>1 DEF Fed
  <2>4. /\ FedBy(regime, p, << >>)[Len(p) + 1] = Argmax[regime][p]
        /\ SubSeq(FedBy(regime, p, << >>), 1, Len(p)) = p
        /\ FedBy(regime, p, << >>) \in Seq(Token)
        /\ Argmax[regime][p] \in Token
        /\ Len(FedBy(regime, p, << >>)) = Len(p) + 1
    BY <1>1, <1>2, <2>2, FedStart
  <2>5. \A i \in 0..Len(p)-1 : kv'[i] = SubSeq(Fed', 1, i + 1)
    <3> SUFFICES ASSUME NEW i \in 0..Len(p)-1
                 PROVE  kv'[i] = SubSeq(Fed', 1, i + 1)
      OBVIOUS
    <3>1. i \in 0..SeqLen-1 /\ i < Len(p) /\ i + 1 \in 0..Len(p)
          /\ Len(p) \in 0..Len(p) + 1
      BY <1>2, <2>2, InferenceAssumption
    <3>2. kv'[i] = SubSeq(p, 1, i + 1)
      BY <1>1, <3>1 DEF Primed
    <3>3. SubSeq(SubSeq(Fed', 1, Len(p)), 1, i + 1) = SubSeq(Fed', 1, i + 1)
      <4>1. Fed' \in Seq(Token) /\ Len(p) \in 0..Len(Fed')
        BY <2>3, <2>4, <3>1
      <4> QED BY <3>1, <4>1, PrefixOfPrefix
    <3> QED BY <2>3, <2>4, <3>2, <3>3
  <2>6. CacheServesThisCall'
    <3>1. Len(generated') = 0 /\ pos' <= Len(p)
      BY <1>1, <1>2, <2>1, EmptySeq
    <3>2. cur' = Fed'[pos' + 1]
      BY <2>1, <2>3, <2>4
    <3> QED BY <2>1, <2>5, <3>1, <3>2 DEF CacheServesThisCall
  <2>7. CallInv'
    BY <1>1, <1>2, <1>5, <2>1, <2>2 DEF CallInv
  <2>8. RecordedAreGreedy'
    <3>1. Len(generated') = 0
      BY <1>1, <2>1, EmptySeq
    <3> QED BY <3>1 DEF RecordedAreGreedy, Greedy
  <2>9. /\ regime' \in Regime /\ phase' \in {"idle", "prefill", "loop"}
        /\ req' \in Request /\ pos' \in 0..SeqLen /\ cur' \in Token \cup {NoToken}
        /\ generated' \in Seq(Token) /\ calls' \in 0..MaxCalls
    BY <1>1, <1>2, <2>1, <2>2, <2>4, InferenceAssumption, EmptySeq
  <2> QED BY <1>1, <1>3, <2>6, <2>7, <2>8, <2>9, NothingIssued, Assemble
<1> QED BY <1>4, <1>5

(* A loop that is done has recorded the tokens asked for. *)
LEMMA AllRecorded ==
  ASSUME IInv, LoopDone
  PROVE  Len(generated) = req.nNew
<1>1. phase = "loop"
  BY DEF LoopDone
<1>2. /\ Len(req.prompt) \in Nat /\ req.nNew \in Nat
      /\ Total(req) = Len(req.prompt) + req.nNew
  BY <1>1, LoopFacts
<1>3. pos = Len(req.prompt) + req.nNew
  BY <1>2 DEF LoopDone
<1>4. CASE req.nNew = 0
  <2>1. pos <= Len(req.prompt)
    BY <1>2, <1>3, <1>4
  <2> QED BY <1>1, <1>4, <2>1 DEF IInv, CacheServesThisCall
<1>5. CASE req.nNew # 0
  <2>1. ~ (pos <= Len(req.prompt)) /\ pos - Len(req.prompt) = req.nNew
    BY <1>2, <1>3, <1>5
  <2> QED BY <1>1, <2>1 DEF IInv, CacheServesThisCall
<1> QED BY <1>4, <1>5

(* The outcome is returned (inference.rs:180-199). *)
LEMMA FinishInv ==
  ASSUME IInv, Finish
  PROVE  IInv'
<1> DEFINE o == [prompt |-> req.prompt, nNew |-> req.nNew, regime |-> regime,
                 generated |-> generated, cert |-> Cert(req, generated)]
<1>1. /\ phase = "loop" /\ LoopDone /\ issued' = issued \cup {o}
      /\ Return /\ UNCHANGED kv
  BY DEF Finish, LoopDone
<1>2. /\ req.prompt \in Seq(Token) /\ Len(req.prompt) \in 1..SeqLen
      /\ req.nNew \in Nat /\ Len(req.prompt) + req.nNew <= SeqLen
      /\ Total(req) = Len(req.prompt) + req.nNew
      /\ regime \in Regime /\ generated \in Seq(Token)
  BY <1>1, LoopFacts
<1>3. Len(generated) = req.nNew
  BY <1>1, AllRecorded
<1>4. Greedy(regime, req.prompt, generated)
  BY <1>1 DEF IInv, RecordedAreGreedy
<1>5. /\ o.prompt = req.prompt /\ o.nNew = req.nNew /\ o.regime = regime
      /\ o.generated = generated /\ o.cert = Cert(o, o.generated)
  BY DEF Cert, Inputs
<1>6. /\ o.prompt \in Prompts /\ o.nNew \in 0..UsizeMax
      /\ o.regime \in Regime /\ o.generated \in Seq(Token)
  <2>1. req \in Request
    BY DEF IInv, TypeOK
  <2> QED BY <1>2, <2>1 DEF Request
<1>7. o.prompt # << >>
  BY <1>2, EmptySeq
<1> HIDE DEF o
<1>8. IssuedInv'
  <2>1. ReceiptsAreGreedy'
    BY <1>1, <1>3, <1>4, <1>5 DEF IInv, ReceiptsAreGreedy
  <2>2. NoOverlongReceipt'
    BY <1>1, <1>2, <1>5, <1>7 DEF IInv, NoOverlongReceipt
  <2>3. CertsBind'
    BY <1>1, <1>5 DEF IInv, CertsBind
  <2>4. (\A x \in issued : /\ x.prompt \in Prompts /\ x.nNew \in 0..UsizeMax
                           /\ x.regime \in Regime /\ x.generated \in Seq(Token))'
    BY <1>1, <1>6 DEF IInv, TypeOK
  <2> QED BY <2>1, <2>2, <2>3, <2>4 DEF IssuedInv
<1>9. kv' \in [0..SeqLen-1 -> Row]
  BY <1>1 DEF IInv, TypeOK
<1> QED BY <1>1, <1>8, <1>9, ReturnInv

(* The sink's error is returned instead of the outcome. *)
LEMMA SinkRejectsInv ==
  ASSUME IInv, SinkRejects
  PROVE  IInv'
<1>1. Return /\ UNCHANGED <<kv, issued>>
  BY DEF SinkRejects
<1>2. kv' \in [0..SeqLen-1 -> Row]
  BY <1>1 DEF IInv, TypeOK
<1> QED BY <1>1, <1>2, NothingIssued, ReturnInv

(* A failed forward pass ends the call and may tear the row it wrote. *)
LEMMA ForwardFailsInv ==
  ASSUME IInv, ForwardFails
  PROVE  IInv'
<1>1. Return /\ UNCHANGED issued /\ kv \in [0..SeqLen-1 -> Row]
  BY DEF ForwardFails, IInv, TypeOK
<1>2. Torn \in Row
  BY DEF Row
<1>3. kv' \in [0..SeqLen-1 -> Row]
  <2>1. CASE phase = "prefill"
    <3>1. PICK written \in SUBSET (0..Len(req.prompt)-1),
               rows \in {Primed(kv, req.prompt), [i \in 0..SeqLen-1 |-> Torn]} :
            kv' = [i \in 0..SeqLen-1 |-> IF i \in written THEN rows[i] ELSE kv[i]]
      BY <2>1 DEF ForwardFails
    <3>2. req.prompt \in Seq(Token)
      <4>1. req \in Request
        BY DEF IInv, TypeOK
      <4> QED BY <4>1, PromptFacts DEF Request
    <3>3. Primed(kv, req.prompt) \in [0..SeqLen-1 -> Row]
      BY <1>1, <3>2, PrimedTyped
    <3>4. rows \in [0..SeqLen-1 -> Row]
      BY <1>2, <3>3
    <3> QED BY <1>1, <3>1, <3>4
  <2>2. CASE phase # "prefill"
    <3>1. phase = "loop" /\ ~ LoopDone
      BY <2>2 DEF ForwardFails
    <3>2. PICK row \in {kv[pos], Torn, Attend(kv, pos, cur)} :
            kv' = [kv EXCEPT ![pos] = row]
      BY <2>2 DEF ForwardFails
    <3>3. /\ pos \in Nat /\ pos <= Len(req.prompt) + req.nNew
          /\ Len(req.prompt) \in Nat /\ req.nNew \in Nat
          /\ Total(req) = Len(req.prompt) + req.nNew
          /\ Len(req.prompt) + req.nNew <= SeqLen
      BY <3>1, LoopFacts
    <3>4. pos < Len(req.prompt) + req.nNew
      BY <3>1, <3>3 DEF LoopDone
    <3>5. pos \in 0..SeqLen-1
      BY <3>3, <3>4, InferenceAssumption
    <3>6. kv[pos] \in Row
      BY <1>1, <3>5
    <3>7. Attend(kv, pos, cur) \in Row
      BY <3>1, <3>4, RowWritten DEF Row
    <3>8. row \in Row
      BY <1>2, <3>2, <3>6, <3>7
    <3> QED BY <1>1, <3>2, <3>8
  <2> QED BY <2>1, <2>2
<1> QED BY <1>1, <1>3, NothingIssued, ReturnInv

-----------------------------------------------------------------------------
(* Theorems.                                                               *)

(* Nothing a call does, in any order of calls, leaves the invariant: the
   argument for all the safety theorems below. *)
THEOREM Invariance == Spec => []IInv
<1>1. IInv /\ [Next]_vars => IInv'
  <2> SUFFICES ASSUME IInv, [Next]_vars
               PROVE  IInv'
    OBVIOUS
  <2>1. CASE \E r \in Request : Begin(r) \/ Refuse(r)
    BY <2>1, BeginInv, RefuseInv
  <2>2. CASE TokenStep
    BY <2>2, TokenStepInv
  <2>3. CASE Prefill
    BY <2>3, PrefillInv
  <2>4. CASE DecodeStep
    BY <2>4, DecodeStepInv
  <2>5. CASE Finish
    BY <2>5, FinishInv
  <2>6. CASE SinkRejects
    BY <2>6, SinkRejectsInv
  <2>7. CASE ForwardFails
    BY <2>7, ForwardFailsInv
  <2>8. CASE UNCHANGED vars
    BY <2>8 DEF vars, IInv, TypeOK, CallInv, CacheServesThisCall, RecordedAreGreedy,
                ReceiptsAreGreedy, NoOverlongReceipt, CertsBind, Fed, LoopDone
  <2> QED BY <2>1, <2>2, <2>3, <2>4, <2>5, <2>6, <2>7, <2>8 DEF Next, Step
<1> QED BY <1>1, InitInv, PTL DEF Spec

(* Types, and the bounds of the cache (inference.rs:157). *)
THEOREM TypeCorrect == Spec => []TypeOK
<1>1. IInv => TypeOK
  BY DEF IInv
<1> QED BY <1>1, Invariance, PTL

(* A call reads only rows of its own tokens, whatever calls came before it
   on the engine and however they ended (cuda/src/lib.rs:382). *)
THEOREM CacheIsolation == Spec => []CacheServesThisCall
<1>1. IInv => CacheServesThisCall
  BY DEF IInv
<1> QED BY <1>1, Invariance, PTL

(* Every receipt carries the whole greedy continuation of its prompt. *)
THEOREM GreedyReceipts == Spec => []ReceiptsAreGreedy
<1>1. IInv => ReceiptsAreGreedy
  BY DEF IInv
<1> QED BY <1>1, Invariance, PTL

(* usize wrap-around never lets an overlong request through to a receipt. *)
THEOREM LengthsHold == Spec => []NoOverlongReceipt
<1>1. IInv => NoOverlongReceipt
  BY DEF IInv
<1> QED BY <1>1, Invariance, PTL

(* Two greedy continuations of one prompt under one regime are the same:
   look at the first place where they would differ. *)
LEMMA GreedyIsDetermined ==
  ASSUME NEW r \in Regime, NEW p \in Seq(Token), Len(p) \in 1..SeqLen,
         NEW g \in Seq(Token), NEW h \in Seq(Token), Len(g) = Len(h),
         Greedy(r, p, g), Greedy(r, p, h)
  PROVE  g = h
<1> DEFINE D == {i \in 1..Len(g) : g[i] # h[i]}
           fg == FedBy(r, p, g)
           fh == FedBy(r, p, h)
           P == Len(p)
<1>1. SUFFICES ASSUME D # {} PROVE FALSE
  <2>1. D = {} => \A i \in 1..Len(g) : g[i] = h[i]
    OBVIOUS
  <2> QED BY <1>1, <2>1, SeqEqual
<1>2. Len(g) \in Nat /\ P \in Nat
  BY LenProperties
<1>3. PICK m \in D : \A i \in D : m <= i
  <2>1. D \subseteq Nat
    BY <1>2
  <2> HIDE DEF D
  <2> QED BY <1>1, <2>1, LeastElement
<1>4. m \in 1..Len(g) /\ g[m] # h[m] /\ m \in Nat
  BY <1>2
<1>5. \A i \in 1..m-1 : g[i] = h[i]
  <2> SUFFICES ASSUME NEW i \in 1..m-1, g[i] # h[i] PROVE FALSE
    OBVIOUS
  <2>1. i \in 1..Len(g)
    BY <1>2, <1>4
  <2>2. i \in D
    BY <2>1
  <2>3. m <= i
    BY <1>3, <2>2
  <2> QED BY <1>4, <2>3
<1>6. /\ fg \in Seq(Token) /\ Len(fg) = P + 1 + Len(g)
      /\ fh \in Seq(Token) /\ Len(fh) = P + 1 + Len(g)
  BY FedShape
<1>7. \A i \in 1..P+m : fg[i] = fh[i]
  <2> SUFFICES ASSUME NEW i \in 1..P+m PROVE fg[i] = fh[i]
    OBVIOUS
  <2>1. CASE i \in 1..P
    <3>1. fg[i] = p[i]
      BY <2>1, FedFacts
    <3>2. fh[i] = p[i]
      BY <2>1, FedFacts
    <3> QED BY <3>1, <3>2
  <2>2. CASE i = P + 1
    <3>1. fg[P + 1] = Argmax[r][p]
      BY FedFacts
    <3>2. fh[P + 1] = Argmax[r][p]
      BY FedFacts
    <3> QED BY <2>2, <3>1, <3>2
  <2>3. CASE i > P + 1
    <3>1. /\ i - (P + 1) \in 1..Len(g) /\ i - (P + 1) \in 1..m-1
          /\ i - (P + 1) \in 1..Len(h)
          /\ P + 1 + (i - (P + 1)) = i
      BY <1>2, <1>4, <2>3
    <3>2. \A j \in 1..Len(g) : fg[P + 1 + j] = g[j]
      BY FedFacts
    <3>3. \A j \in 1..Len(h) : fh[P + 1 + j] = h[j]
      BY FedFacts
    <3>4. g[i - (P + 1)] = h[i - (P + 1)]
      BY <1>5, <3>1
    <3> HIDE DEF fg, fh
    <3>5. fg[i] = g[i - (P + 1)] /\ fh[i] = h[i - (P + 1)]
      BY <3>1, <3>2, <3>3
    <3> QED BY <3>4, <3>5
  <2> QED BY <1>2, <1>4, <2>1, <2>2, <2>3
<1>8. SubSeq(fg, 1, P + m) = SubSeq(fh, 1, P + m)
  <2>1. P + m \in 0..Len(fg) /\ P + m \in 0..Len(fh)
    BY <1>2, <1>4, <1>6
  <2> HIDE DEF fg, fh
  <2>2. /\ SubSeq(fg, 1, P + m) \in Seq(Token) /\ Len(SubSeq(fg, 1, P + m)) = P + m
        /\ \A i \in 1..P+m : SubSeq(fg, 1, P + m)[i] = fg[i]
    BY <1>6, <2>1, PrefixFacts
  <2>3. /\ SubSeq(fh, 1, P + m) \in Seq(Token) /\ Len(SubSeq(fh, 1, P + m)) = P + m
        /\ \A i \in 1..P+m : SubSeq(fh, 1, P + m)[i] = fh[i]
    BY <1>6, <2>1, PrefixFacts
  <2>4. \A i \in 1..P+m : SubSeq(fg, 1, P + m)[i] = SubSeq(fh, 1, P + m)[i]
    BY <1>7, <2>2, <2>3
  <2> QED BY <2>2, <2>3, <2>4, SeqEqual
<1>9. /\ g[m] = Argmax[r][SubSeq(fg, 1, P + m)]
      /\ h[m] = Argmax[r][SubSeq(fh, 1, P + m)]
  BY <1>4 DEF Greedy
<1> QED BY <1>4, <1>8, <1>9

(* The receipt of a request is a function of the request and the regime:
   the two drivers, an engine that is new, reset or reused, and any calls
   before this one, give the same certificate. *)
THEOREM Reproducible == Spec => []SameRequestSameCert
<1>1. IInv => SameRequestSameCert
  <2> SUFFICES ASSUME IInv, NEW a \in issued, NEW b \in issued,
                      a.prompt = b.prompt, a.nNew = b.nNew, a.regime = b.regime
               PROVE  a.cert = b.cert
    BY DEF SameRequestSameCert
  <2>1. /\ a.prompt \in Prompts /\ a.regime \in Regime
        /\ a.generated \in Seq(Token) /\ b.generated \in Seq(Token)
        /\ a.nNew \in 0..UsizeMax
    BY DEF IInv, TypeOK
  <2>2. /\ Len(a.generated) = a.nNew /\ Len(b.generated) = a.nNew
        /\ Greedy(a.regime, a.prompt, a.generated)
        /\ Greedy(a.regime, a.prompt, b.generated)
    BY DEF IInv, ReceiptsAreGreedy
  <2>3. a.prompt \in Seq(Token) /\ Len(a.prompt) \in 1..SeqLen
    <3>1. a.prompt # << >> /\ Len(a.prompt) + a.nNew <= SeqLen
      BY DEF IInv, NoOverlongReceipt
    <3>2. a.prompt \in Seq(Token) /\ Len(a.prompt) \in Nat /\ Len(a.prompt) > 0
      BY <2>1, <3>1, PromptFacts
    <3> QED BY <2>1, <3>1, <3>2, InferenceAssumption
  <2>4. a.generated = b.generated
    BY <2>1, <2>2, <2>3, GreedyIsDetermined
  <2>5. a.cert = Cert(a, a.generated) /\ b.cert = Cert(b, b.generated)
    BY DEF IInv, CertsBind
  <2> QED BY <2>4, <2>5 DEF Cert, Inputs
<1> QED BY <1>1, Invariance, PTL

-----------------------------------------------------------------------------
(* Refinement: every step of a driver is a step of GreedyDecode or none.   *)

Answers == {[prompt |-> o.prompt, nNew |-> o.nNew, regime |-> o.regime,
             generated |-> o.generated] : o \in issued}
Asked == IF Running THEN [prompt |-> req.prompt, nNew |-> req.nNew, regime |-> regime]
                    ELSE [prompt |-> << >>, nNew |-> 0]
Status == IF Running THEN "running" ELSE "idle"

(* A step that changes nothing GreedyDecode speaks of is a stutter of it. *)
LEMMA Unseen ==
  ASSUME UNCHANGED <<Status, Asked, generated, Answers>>
  PROVE  UNCHANGED G!vars
BY DEF G!vars, Status, Asked, Answers

(* A step that records a token is an Emit. *)
LEMMA EmitStep ==
  ASSUME IInv, phase = "loop",
         Len(req.prompt) <= pos, pos < Len(req.prompt) + req.nNew,
         generated' = Append(generated, Argmax[regime][SubSeq(Fed, 1, pos + 1)]),
         UNCHANGED <<regime, phase, req, issued>>
  PROVE  G!Emit
<1>1. Running
  BY DEF Running, IInv, CallInv
<1>2. /\ Len(req.prompt) \in Nat /\ pos \in Nat /\ req.nNew \in Nat
      /\ Len(generated) \in Nat /\ Fed \in Seq(Token)
      /\ Len(Fed) = Len(req.prompt) + 1 + Len(generated)
  BY LoopFacts
<1>3. pos = Len(req.prompt) + Len(generated)
  <2>1. CASE pos = Len(req.prompt)
    <3>1. Len(generated) = 0
      BY <1>2, <2>1 DEF IInv, CacheServesThisCall
    <3> QED BY <1>2, <2>1, <3>1
  <2>2. CASE pos # Len(req.prompt)
    <3>1. ~ (pos <= Len(req.prompt))
      BY <1>2, <2>2
    <3>2. Len(generated) = pos - Len(req.prompt)
      BY <3>1 DEF IInv, CacheServesThisCall
    <3> QED BY <1>2, <3>2
  <2> QED BY <2>1, <2>2
<1>4. Len(generated) < req.nNew
  BY <1>2, <1>3
<1>5. SubSeq(Fed, 1, pos + 1) = Fed
  <2>1. pos + 1 = Len(Fed)
    BY <1>2, <1>3
  <2>2. SubSeq(Fed, 1, Len(Fed)) = Fed
    BY <1>2, SubSeqFull
  <2> QED BY <2>1, <2>2
<1>6. Running' /\ UNCHANGED <<Status, Asked, Answers>>
  BY <1>1 DEF Running, Status, Asked, Answers, CapacityPanics
<1>7. Asked = [prompt |-> req.prompt, nNew |-> req.nNew, regime |-> regime]
  BY <1>1 DEF Asked
<1>8. Fed = G!Context(regime, req.prompt, generated)
  BY DEF Fed, FedBy, G!Context
<1>9. /\ Status = "running"
      /\ Len(generated) < Asked.nNew
      /\ generated' = Append(generated,
           Argmax[Asked.regime][G!Context(Asked.regime, Asked.prompt, generated)])
  BY <1>1, <1>4, <1>5, <1>7, <1>8 DEF Status
<1> QED BY <1>6, <1>9 DEF G!Emit, Status, Asked, Answers

(* A call that returns stops. *)
LEMMA StopStep ==
  ASSUME IInv, Return, Running
  PROVE  G!Stop /\ Status = "running"
<1>1. ~ Running' /\ generated' = << >>
  BY DEF Return, Running
<1> QED BY <1>1 DEF G!Stop, G!NoAsk, Status

(* A prefill call that panics in with_capacity has answered nothing. *)
LEMMA PanicUnseen ==
  ASSUME IInv, ~ Running, ~ Running', generated' = << >>, UNCHANGED issued
  PROVE  UNCHANGED G!vars
<1>1. generated = << >>
  <2>1. phase # "loop"
    BY DEF IInv, CallInv, Running
  <2> QED BY <2>1 DEF IInv, CallInv, TypeOK
<1> QED BY <1>1, Unseen DEF Status, Asked, Answers

(* A call that begins is an Accept, or unseen if it will panic. *)
LEMMA BeginRefines ==
  ASSUME IInv, NEW r \in Request, Begin(r)
  PROVE  G!Accept \/ UNCHANGED G!vars
<1>1. /\ phase = "idle" /\ phase' \in {"prefill", "loop"} /\ req' = r
      /\ generated' = << >> /\ UNCHANGED issued /\ Accepted(r)
      /\ regime' \in Regime
  BY StartTyped DEF Begin
<1>2. ~ Running
  BY <1>1 DEF Running
<1>3. CASE CapacityPanics(r)
  <2>1. ~ Running'
    BY <1>1, <1>3 DEF Running, CapacityPanics
  <2> QED BY <1>1, <1>2, <2>1, PanicUnseen
<1>4. CASE ~ CapacityPanics(r)
  <2>1. Running'
    BY <1>1, <1>4 DEF Running, CapacityPanics
  <2>2. /\ Len(r.prompt) \in 1..SeqLen /\ r.nNew \in Nat
        /\ Len(r.prompt) + r.nNew <= SeqLen
    BY <1>1, <1>4, AcceptedFits
  <2>3. r.prompt \in Seq(Token) /\ r.prompt # << >>
    <3>1. r.prompt \in Prompts
      BY DEF Request
    <3> QED BY <1>1, <3>1, PromptFacts DEF Accepted
  <2>4. /\ r.prompt \in UNION {[1..k -> Token] : k \in 1..SeqLen}
        /\ r.nNew \in 0..SeqLen
    <3>1. r.prompt \in [1..Len(r.prompt) -> Token]
      BY <2>3, LenProperties
    <3> QED BY <2>2, <3>1, InferenceAssumption
  <2>5. Asked' = [prompt |-> r.prompt, nNew |-> r.nNew, regime |-> regime']
    BY <1>1, <2>1 DEF Asked
  <2>6. G!Fits([prompt |-> r.prompt, nNew |-> r.nNew, regime |-> regime'])
    BY <2>2, <2>3 DEF G!Fits
  <2>7. Status = "idle" /\ Status' = "running" /\ generated' = << >> /\ UNCHANGED Answers
    BY <1>1, <1>2, <2>1 DEF Status, Answers
  <2>8. \E p \in UNION {[1..k -> Token] : k \in 1..SeqLen}, n \in 0..SeqLen, q \in Regime :
           /\ Asked' = [prompt |-> p, nNew |-> n, regime |-> q]
           /\ G!Fits(Asked')
    BY <1>1, <2>4, <2>5, <2>6, Zenon
  <2> QED BY <2>7, <2>8 DEF G!Accept, Status, Asked, Answers
<1> QED BY <1>3, <1>4

(* A returned outcome is an Issue. *)
LEMMA FinishRefines ==
  ASSUME IInv, Finish
  PROVE  G!Issue
<1>1. /\ phase = "loop" /\ Return /\ LoopDone
      /\ issued' = issued \cup
           {[prompt |-> req.prompt, nNew |-> req.nNew, regime |-> regime,
             generated |-> generated, cert |-> Cert(req, generated)]}
  BY DEF Finish, LoopDone
<1>2. Running
  BY <1>1 DEF Running, IInv, CallInv
<1>3. Len(generated) = req.nNew
  BY <1>1, AllRecorded
<1>4. Answers' = Answers \cup {[prompt |-> req.prompt, nNew |-> req.nNew,
                                regime |-> regime, generated |-> generated]}
  <2> DEFINE Seen(o) == [prompt |-> o.prompt, nNew |-> o.nNew, regime |-> o.regime,
                         generated |-> o.generated]
             x == [prompt |-> req.prompt, nNew |-> req.nNew, regime |-> regime,
                   generated |-> generated, cert |-> Cert(req, generated)]
  <2>1. Seen(x) = [prompt |-> req.prompt, nNew |-> req.nNew, regime |-> regime,
                   generated |-> generated]
    OBVIOUS
  <2>2. issued' = issued \cup {x}
    BY <1>1
  <2>3. Answers = {Seen(o) : o \in issued} /\ Answers' = {Seen(o) : o \in issued'}
    BY DEF Answers
  <2> HIDE DEF Seen, x
  <2>4. Answers' = Answers \cup {Seen(x)}
    BY <2>2, <2>3
  <2> QED BY <2>1, <2>4
<1>5. Asked = [prompt |-> req.prompt, nNew |-> req.nNew, regime |-> regime]
  BY <1>2 DEF Asked
<1>6. /\ Len(generated) = Asked.nNew
      /\ Answers' = Answers \cup {[prompt |-> Asked.prompt, nNew |-> Asked.nNew,
                                   regime |-> Asked.regime, generated |-> generated]}
  BY <1>3, <1>4, <1>5
<1> QED BY <1>1, <1>2, <1>6, StopStep DEF G!Issue, Status, Asked, Answers

(* The drivers, with their cache, two ways of feeding the prompt, failures
   and reuse, implement greedy decoding. *)
THEOREM Refinement == Spec => ImplementsGreedyDecode
<1>1. Init => G!Init
  BY DEF Init, G!Init, G!NoAsk, Running
<1>2. IInv /\ [Next]_vars => [G!Next]_(G!vars)
  <2> SUFFICES ASSUME IInv, [Next]_vars
               PROVE  G!Next \/ UNCHANGED G!vars
    OBVIOUS
  <2>1. ASSUME NEW r \in Request, Begin(r)
        PROVE  G!Next \/ UNCHANGED G!vars
    BY <2>1, BeginRefines DEF G!Next
  <2>2. ASSUME NEW r \in Request, Refuse(r)
        PROVE  UNCHANGED G!vars
    <3>1. phase = "idle" /\ UNCHANGED <<phase, req, generated, issued>>
      BY <2>2 DEF Refuse, callVars
    <3>2. ~ Running /\ ~ Running'
      BY <3>1 DEF Running
    <3> QED BY <3>1, <3>2, Unseen DEF Status, Asked, Answers
  <2>3. CASE TokenStep
    <3>1. /\ phase = "loop" /\ pos < Len(req.prompt) + req.nNew
          /\ Len(req.prompt) \in Nat /\ pos \in Nat
      BY <2>3, LoopFacts DEF TokenStep, Recorded
    <3>2. Attend(kv, pos, cur) = SubSeq(Fed, 1, pos + 1)
      BY <3>1, RowWritten
    <3>3. UNCHANGED <<regime, phase, req, issued>>
      BY <2>3 DEF TokenStep, Recorded
    <3>4. CASE Len(req.prompt) <= pos
      <4>1. ~ (pos + 1 < Len(req.prompt)) /\ pos >= Len(req.prompt)
        BY <3>1, <3>4
      <4>2. generated' = Append(generated, Argmax[regime][SubSeq(Fed, 1, pos + 1)])
        BY <2>3, <3>2, <4>1 DEF TokenStep, Recorded, NextInput
      <4> QED BY <3>1, <3>3, <3>4, <4>2, EmitStep DEF G!Next
    <3>5. CASE ~ (Len(req.prompt) <= pos)
      <4>1. generated' = generated
        BY <2>3, <3>1, <3>5 DEF TokenStep, Recorded
      <4> QED BY <3>3, <4>1, Unseen DEF Status, Asked, Answers, Running, CapacityPanics
    <3> QED BY <3>4, <3>5
  <2>4. CASE Prefill
    <3>1. phase = "prefill" /\ generated = << >> /\ UNCHANGED issued
      BY <2>4 DEF Prefill, IInv, CallInv
    <3>2. CASE CapacityPanics(req)
      <4>1. ~ Running /\ ~ Running' /\ generated' = << >>
        BY <2>4, <3>2 DEF Running, Prefill, Return
      <4> QED BY <3>1, <4>1, PanicUnseen
    <3>3. CASE ~ CapacityPanics(req)
      <4>1. /\ phase' = "loop" /\ UNCHANGED <<regime, req, generated>>
        BY <2>4, <3>3 DEF Prefill
      <4>2. Running /\ Running'
        BY <3>1, <3>3, <4>1 DEF Running, CapacityPanics
      <4> QED BY <3>1, <4>1, <4>2, Unseen DEF Status, Asked, Answers
    <3> QED BY <3>2, <3>3
  <2>5. CASE DecodeStep
    <3>1. /\ phase = "loop" /\ pos < Len(req.prompt) + req.nNew
          /\ Len(req.prompt) <= pos /\ UNCHANGED <<regime, phase, req, issued>>
      BY <2>5 DEF DecodeStep, IInv, CallInv
    <3>2. Attend(kv, pos, cur) = SubSeq(Fed, 1, pos + 1)
      BY <3>1, RowWritten
    <3>3. generated' = Append(generated, Argmax[regime][SubSeq(Fed, 1, pos + 1)])
      BY <2>5, <3>2 DEF DecodeStep
    <3> QED BY <3>1, <3>3, EmitStep DEF G!Next
  <2>6. CASE Finish
    BY <2>6, FinishRefines DEF G!Next
  <2>7. CASE SinkRejects
    <3>1. Return /\ UNCHANGED issued /\ phase = "loop"
      BY <2>7 DEF SinkRejects, LoopDone
    <3>2. Running
      BY <3>1 DEF Running, IInv, CallInv
    <3>3. G!Stop /\ Status = "running" /\ UNCHANGED Answers
      BY <3>1, <3>2, StopStep DEF Answers
    <3> QED BY <3>3 DEF G!Next, G!Abandon, Status, Answers
  <2>8. CASE ForwardFails
    <3>1. Return /\ UNCHANGED issued
      BY <2>8 DEF ForwardFails
    <3>2. CASE Running
      <4>1. G!Stop /\ Status = "running" /\ UNCHANGED Answers
        BY <3>1, <3>2, StopStep DEF Answers
      <4> QED BY <4>1 DEF G!Next, G!Abandon, Status, Answers
    <3>3. CASE ~ Running
      <4>1. ~ Running' /\ generated' = << >>
        BY <3>1 DEF Return, Running
      <4> QED BY <3>1, <3>3, <4>1, PanicUnseen
    <3> QED BY <3>2, <3>3
  <2>9. CASE UNCHANGED vars
    BY <2>9, Unseen DEF vars, Status, Asked, Answers, Running, CapacityPanics
  <2> QED BY <2>1, <2>2, <2>3, <2>4, <2>5, <2>6, <2>7, <2>8, <2>9 DEF Next, Step
<1> QED BY <1>1, <1>2, Invariance, PTL DEF Spec, ImplementsGreedyDecode, G!Spec
=============================================================================

---------------------------- MODULE ForwardProofs ----------------------------
(***************************************************************************)
(* Proofs about the engine: for any vocabulary, number of layers and       *)
(* positions, and any passes, batches, restarts and failures, what the     *)
(* cache holds below Len(fed) is what the tokens fed determine, and the    *)
(* logits are those of the tokens fed.                                     *)
(***************************************************************************)
EXTENDS Forward, SeqLemmas

\* The shape of a pass in progress.  A batch is only fed to a regime-3 engine,
\* whose linears are those of the batched kernels.
PassShape ==
  pass # NoPass =>
    /\ pass \in [at : 0..SeqLen, tokens : Tokens, batch : BOOLEAN, layer : Layer,
                 stage : {"qkv", "rope", "attend", "head"}]
    /\ pass.batch => regime = 3
    /\ pass.stage = "head" => pass.layer = NLayers - 1

\* Between qkv and rope the rows of the batch are written, the keys not rotated.
Unrotated ==
  pass.stage = "rope" =>
    \A p \in Batch :
      /\ keyc[pass.layer][p] = [vec |-> Canonical(pass.layer, Now, p), rope |-> NoRope]
      /\ valc[pass.layer][p] = Canonical(pass.layer, Now, p)

\* Inductive.
FInv == TypeOK /\ CacheIsCanonical /\ PassIsCausal /\ PassShape /\ Unrotated
-----------------------------------------------------------------------------
\* What a position is a function of, by prefixes.
LEMMA EnteringPrefix ==
  ASSUME NEW l, NEW s \in Seq(Token), NEW n \in 0..Len(s), NEW p \in 0..n-1
  PROVE  Entering(l, SubSeq(s, 1, n), p) = Entering(l, s, p)
<1>1. p + 1 \in 0..n /\ p + 1 \in 1..n
  BY LenProperties
<1>2. SubSeq(SubSeq(s, 1, n), 1, p + 1) = SubSeq(s, 1, p + 1)
  BY <1>1, PrefixOfPrefix
<1>3. SubSeq(s, 1, n)[p + 1] = s[p + 1]
  BY <1>1, PrefixFacts
<1> QED
  BY <1>2, <1>3 DEF Entering

LEMMA EnteringConcat ==
  ASSUME NEW l, NEW s \in Seq(Token), NEW t \in Seq(Token), NEW p \in 0..Len(s)-1
  PROVE  Entering(l, s \o t, p) = Entering(l, s, p)
<1>1. p + 1 \in 0..Len(s) /\ p + 1 \in 1..Len(s)
  BY LenProperties
<1>2. SubSeq(s \o t, 1, p + 1) = SubSeq(s, 1, p + 1)
  BY <1>1, PrefixOfConcat
<1>3. (s \o t)[p + 1] = s[p + 1]
  <2>1. p + 1 \in 1..Len(s) + Len(t) /\ p + 1 <= Len(s)
    BY <1>1, LenProperties
  <2> QED
    BY <2>1, ConcatProperties
<1> QED
  BY <1>2, <1>3 DEF Entering

LEMMA ConcatSecond ==
  ASSUME NEW f \in Seq(Token), NEW t \in Seq(Token), NEW k \in Nat,
         Len(f) < k, k <= Len(f) + Len(t)
  PROVE  (f \o t)[k] = t[k - Len(f)]
<1>1. k \in 1..Len(f) + Len(t) /\ ~ (k <= Len(f))
  BY LenProperties
<1> QED
  BY <1>1, ConcatProperties

LEMMA EnteringTyped ==
  ASSUME NEW l, NEW s \in Seq(Token), NEW p \in 0..Len(s)-1
  PROVE  /\ Entering(l, s, p) \in Seq(Token)
         /\ Len(Entering(l, s, p)) \in 1..p+1
         /\ l = 0 => Entering(l, s, p)[1] = s[p + 1]
         /\ l # 0 => Entering(l, s, p) = SubSeq(s, 1, p + 1)
<1>1. p + 1 \in 0..Len(s) /\ p + 1 \in 1..Len(s) /\ p \in Nat
  BY LenProperties
<1>2. CASE l = 0
  <2>1. s[p + 1] \in Token
    BY <1>1, ElementOfSeq
  <2>2. <<s[p + 1]>> \in Seq(Token) /\ Len(<<s[p + 1]>>) = 1 /\ <<s[p + 1]>>[1] = s[p + 1]
    BY <2>1
  <2> QED
    BY <1>1, <1>2, <2>2 DEF Entering
<1>3. CASE l # 0
  <2>1. SubSeq(s, 1, p + 1) \in Seq(Token) /\ Len(SubSeq(s, 1, p + 1)) = p + 1
    BY <1>1, PrefixFacts
  <2> QED
    BY <1>1, <1>3, <2>1 DEF Entering
<1> QED
  BY <1>2, <1>3

\* A sequence of at most n elements is a function on an interval, and the reverse.
LEMMA BoundedSeq ==
  ASSUME NEW s \in Seq(Token), NEW n \in Nat, Len(s) <= n
  PROVE  /\ s \in UNION {[1..m -> Token] : m \in 0..n}
         /\ Len(s) > 0 => s \in UNION {[1..m -> Token] : m \in 1..n}
<1>1. Len(s) \in 0..n /\ s \in [1..Len(s) -> Token]
  BY LenProperties
<1>2. Len(s) > 0 => Len(s) \in 1..n
  BY <1>1
<1> QED
  BY <1>1, <1>2

LEMMA TokensAreSeqs ==
  ASSUME NEW s \in Tokens
  PROVE  s \in Seq(Token) /\ Len(s) \in 1..SeqLen
<1>0. SeqLen \in Nat
  BY ForwardAssumption DEF ForwardAssumption
<1>1. PICK m \in 1..SeqLen : s \in [1..m -> Token]
  BY DEF Tokens
<1>2. m \in Nat
  BY <1>0, <1>1
<1> QED
  BY <1>1, <1>2

\* Constants.
LEMMA Sizes == /\ SeqLen \in Nat \ {0} /\ NLayers \in Nat \ {0} /\ MaxPasses \in Nat
               /\ 0 \in Layer /\ NLayers - 1 \in Layer
               /\ Position \subseteq Nat /\ Layer \subseteq Nat
BY ForwardAssumption DEF ForwardAssumption, Layer, Position

\* The canonical row of a position that was reached.
LEMMA CanonicalTyped ==
  ASSUME NEW l, NEW s \in Seq(Token), Len(s) <= SeqLen, NEW p \in 0..Len(s)-1,
         regime \in Numerics
  PROVE  /\ Canonical(l, s, p) \in Data
         /\ Canonical(l, s, p) \in Vector
         /\ Canonical(l, s, p) # Torn
         /\ Canonical(l, s, p).of = Entering(l, s, p)
         /\ Canonical(l, s, p).num = regime
<1>1. Entering(l, s, p) \in Seq(Token) /\ Len(Entering(l, s, p)) \in 1..p+1
  BY EnteringTyped
<1>2. Len(s) \in Nat /\ SeqLen \in Nat
  BY LenProperties, Sizes
<1>3. Len(Entering(l, s, p)) <= SeqLen
  BY <1>1, <1>2
<1>4. Entering(l, s, p) \in UNION {[1..m -> Token] : m \in 0..SeqLen}
  BY <1>1, <1>2, <1>3, BoundedSeq
<1>5. Canonical(l, s, p) \in Data
  BY <1>4 DEF Canonical, Data
<1> QED
  BY <1>5, TornAssumption DEF Vector, Canonical
-----------------------------------------------------------------------------
\* A pass in progress: its positions follow those fed.
LEMMA InPass ==
  ASSUME FInv, pass # NoPass
  PROVE  /\ fed \in Seq(Token) /\ pass.tokens \in Seq(Token)
         /\ Len(fed) \in 0..SeqLen /\ Len(pass.tokens) \in 1..SeqLen
         /\ pass.at = Len(fed)
         /\ Now \in Seq(Token) /\ Len(Now) = Len(fed) + Len(pass.tokens)
         /\ Len(Now) <= SeqLen
         /\ Batch = Len(fed)..Len(Now)-1
         /\ Batch \subseteq Position
         /\ Linears = regime /\ regime \in Numerics
         /\ pass.layer \in Layer
<1>0. SeqLen \in Nat
  BY Sizes
<1>1. /\ fed \in Seq(Token) /\ Len(fed) <= SeqLen /\ pass.at = Len(fed)
      /\ pass.tokens \in Tokens /\ Batch \subseteq Position /\ regime \in Numerics
      /\ pass.layer \in Layer
  BY DEF FInv, TypeOK
<1>2. pass.tokens \in Seq(Token) /\ Len(pass.tokens) \in 1..SeqLen
  BY <1>1, TokensAreSeqs
<1>3. Len(fed) \in 0..SeqLen
  BY <1>0, <1>1, LenProperties
<1>4. Now \in Seq(Token) /\ Len(Now) = Len(fed) + Len(pass.tokens)
  BY <1>1, <1>2, ConcatProperties DEF Now
<1>5. Batch = Len(fed)..Len(Now)-1
  BY <1>1, <1>4 DEF Batch
<1>6. Len(Now) <= SeqLen
  <2>1. Len(Now) - 1 \in Batch
    BY <1>0, <1>2, <1>3, <1>4, <1>5
  <2>2. Len(Now) - 1 \in 0..SeqLen-1
    BY <1>1, <2>1 DEF Position
  <2> QED
    BY <1>0, <1>2, <1>3, <1>4, <2>2
<1>7. Linears = regime
  BY DEF FInv, PassShape, Linears
<1> QED
  BY <1>1, <1>2, <1>3, <1>4, <1>5, <1>6, <1>7

\* A pass that only moves on: its positions and tokens stay.
LEMMA SamePass ==
  ASSUME pass'.at = pass.at, pass'.tokens = pass.tokens, fed' = fed
  PROVE  Batch' = Batch /\ Now' = Now
BY DEF Batch, Now

\* What is below Len(fed) is safe from writes at and after it.
LEMMA RowsKept ==
  ASSUME FInv, fed' = fed, regime' = regime,
         \A l \in Layer, p \in 0..Len(fed)-1 :
           keyc'[l][p] = keyc[l][p] /\ valc'[l][p] = valc[l][p]
  PROVE  CacheIsCanonical'
<1>1. \A l \in Layer, p \in 0..Len(fed)-1 :
        /\ keyc[l][p] = [vec |-> Canonical(l, fed, p), rope |-> p]
        /\ valc[l][p] = Canonical(l, fed, p)
  BY DEF FInv, CacheIsCanonical
<1>2. \A l, p : Canonical(l, fed, p)' = Canonical(l, fed, p)
  BY DEF Canonical
<1> QED
  BY <1>1, <1>2 DEF CacheIsCanonical
-----------------------------------------------------------------------------
\* A write of k and v leaves the canonical rows of the batch, keys unrotated.
Filled(l, p) == [vec |-> Canonical(l, Now, p), rope |-> NoRope]

KvWritten(ks, vs) ==
  /\ keyc' \in [Layer -> [Position -> [vec : Vector, rope : Position \cup {NoRope, Torn}]]]
  /\ valc' \in [Layer -> [Position -> Vector]]
  /\ \A l \in Layer, p \in Position :
       /\ keyc'[l][p] = IF l = pass.layer /\ p \in ks THEN Filled(l, p) ELSE keyc[l][p]
       /\ valc'[l][p] = IF l = pass.layer /\ p \in vs THEN Canonical(l, Now, p)
                        ELSE valc[l][p]

LEMMA WriteKvEffect ==
  ASSUME FInv, pass.stage = "qkv", pass # NoPass,
         NEW ks \in SUBSET Batch, NEW vs \in SUBSET Batch, WriteKv(ks, vs)
  PROVE  KvWritten(ks, vs)
<1> DEFINE Row == [vec : Vector, rope : Position \cup {NoRope, Torn}]
<1>1. /\ Now \in Seq(Token) /\ Len(Now) <= SeqLen /\ Batch = Len(fed)..Len(Now)-1
      /\ Len(fed) \in 0..SeqLen
      /\ Batch \subseteq Position /\ Linears = regime /\ regime \in Numerics
      /\ pass.layer \in Layer
  BY InPass
<1>2. keyc \in [Layer -> [Position -> Row]] /\ valc \in [Layer -> [Position -> Vector]]
  BY DEF FInv, TypeOK
<1>3. ASSUME NEW p \in Batch
      PROVE  /\ Canonical(pass.layer, Now, p) \in Vector
             /\ Apply(x[p]) = Canonical(pass.layer, Now, p)
  <2>1. p \in 0..Len(Now)-1
    BY <1>1, LenProperties
  <2>2. Canonical(pass.layer, Now, p) \in Vector /\ Canonical(pass.layer, Now, p) # Torn
    BY <1>1, <2>1, CanonicalTyped
  <2>3. x[p] = Canonical(pass.layer, Now, p)
    BY DEF FInv, PassIsCausal, Canonical
  <2>4. [Canonical(pass.layer, Now, p) EXCEPT !.num = regime] = Canonical(pass.layer, Now, p)
    BY DEF Canonical
  <2> QED
    BY <1>1, <2>2, <2>3, <2>4 DEF Apply
<1>4. ASSUME NEW p \in Batch
      PROVE  Filled(pass.layer, p) \in Row
  BY <1>3 DEF Filled
<1> DEFINE kl == [p \in Position |-> IF p \in ks THEN [vec |-> Apply(x[p]), rope |-> NoRope]
                                     ELSE keyc[pass.layer][p]]
           vl == [p \in Position |-> IF p \in vs THEN Apply(x[p]) ELSE valc[pass.layer][p]]
<1>5. keyc' = [keyc EXCEPT ![pass.layer] = kl] /\ valc' = [valc EXCEPT ![pass.layer] = vl]
  BY <1>1, <1>2 DEF WriteKv
<1>6. \A p \in Position : kl[p] = IF p \in ks THEN Filled(pass.layer, p) ELSE keyc[pass.layer][p]
  BY <1>3 DEF Filled
<1>7. \A p \in Position : vl[p] = IF p \in vs THEN Canonical(pass.layer, Now, p)
                                  ELSE valc[pass.layer][p]
  BY <1>3
<1>8. kl \in [Position -> Row]
  <2>1. ASSUME NEW p \in Position PROVE kl[p] \in Row
    <3>1. keyc[pass.layer][p] \in Row
      BY <1>1, <1>2
    <3>2. kl[p] = IF p \in ks THEN Filled(pass.layer, p) ELSE keyc[pass.layer][p]
      BY <1>6
    <3> HIDE DEF kl, Row
    <3> QED
      BY <1>4, <3>1, <3>2
  <2>2. kl = [p \in Position |-> kl[p]]
    OBVIOUS
  <2> QED
    BY <2>1, <2>2
<1>9. vl \in [Position -> Vector]
  <2>1. \A p \in Position : vl[p] \in Vector
    BY <1>1, <1>2, <1>3, <1>7
  <2>2. vl = [p \in Position |-> vl[p]]
    OBVIOUS
  <2> QED
    BY <2>1, <2>2
<1> HIDE DEF kl, vl
<1>10. keyc' \in [Layer -> [Position -> Row]] /\ valc' \in [Layer -> [Position -> Vector]]
  BY <1>1, <1>2, <1>5, <1>8, <1>9
<1>11. ASSUME NEW l \in Layer, NEW p \in Position
       PROVE  /\ keyc'[l][p] = IF l = pass.layer /\ p \in ks THEN Filled(l, p) ELSE keyc[l][p]
              /\ valc'[l][p] = IF l = pass.layer /\ p \in vs THEN Canonical(l, Now, p)
                               ELSE valc[l][p]
  <2>1. CASE l = pass.layer
    BY <1>2, <1>5, <1>6, <1>7, <2>1
  <2>2. CASE l # pass.layer
    BY <1>2, <1>5, <2>2
  <2> QED
    BY <2>1, <2>2
<1> QED
  BY <1>10, <1>11 DEF KvWritten

\* Each key of the batch is rotated once, by its position.
LEMMA RotateEffect ==
  ASSUME FInv, pass.stage = "rope", pass # NoPass, NEW ps \in SUBSET Batch, RotateKeys(ps)
  PROVE  /\ keyc' \in [Layer -> [Position -> [vec : Vector, rope : Position \cup {NoRope, Torn}]]]
         /\ valc' = valc
         /\ \A l \in Layer, p \in Position :
              keyc'[l][p] = IF l = pass.layer /\ p \in ps
                            THEN [vec |-> Canonical(l, Now, p), rope |-> p] ELSE keyc[l][p]
<1> DEFINE Row == [vec : Vector, rope : Position \cup {NoRope, Torn}]
<1>1. Batch \subseteq Position /\ pass.layer \in Layer
  BY InPass
<1>2. keyc \in [Layer -> [Position -> Row]]
  BY DEF FInv, TypeOK
<1>3. ASSUME NEW p \in Batch
      PROVE  /\ keyc[pass.layer][p] = [vec |-> Canonical(pass.layer, Now, p), rope |-> NoRope]
             /\ Canonical(pass.layer, Now, p) \in Vector
  <2>1. keyc[pass.layer][p] = [vec |-> Canonical(pass.layer, Now, p), rope |-> NoRope]
    BY DEF FInv, Unrotated
  <2>2. keyc[pass.layer][p] \in Row
    BY <1>1, <1>2
  <2> QED
    BY <2>1, <2>2
<1> DEFINE kl == [p \in Position |->
                    IF p \in ps THEN Rotated(keyc[pass.layer][p], p)
                    ELSE keyc[pass.layer][p]]
<1>4. keyc' = [keyc EXCEPT ![pass.layer] = kl]
  BY <1>1, <1>2 DEF RotateKeys
<1>5. \A p \in Position :
        kl[p] = IF p \in ps THEN [vec |-> Canonical(pass.layer, Now, p), rope |-> p]
                ELSE keyc[pass.layer][p]
  <2> SUFFICES ASSUME NEW p \in Position, p \in ps
               PROVE  Rotated(keyc[pass.layer][p], p)
                        = [vec |-> Canonical(pass.layer, Now, p), rope |-> p]
    OBVIOUS
  <2> DEFINE c == Canonical(pass.layer, Now, p)
  <2>1. keyc[pass.layer][p] = [vec |-> c, rope |-> NoRope]
    BY <1>3
  <2> HIDE DEF c
  <2> QED
    BY <2>1 DEF Rotated, c
<1>6. kl \in [Position -> Row]
  <2>1. ASSUME NEW p \in Position PROVE kl[p] \in Row
    <3>1. keyc[pass.layer][p] \in Row
      BY <1>1, <1>2
    <3>2. kl[p] = IF p \in ps THEN [vec |-> Canonical(pass.layer, Now, p), rope |-> p]
                  ELSE keyc[pass.layer][p]
      BY <1>5
    <3>3. p \in ps => Canonical(pass.layer, Now, p) \in Vector
      BY <1>3
    <3>4. p \in ps => [vec |-> Canonical(pass.layer, Now, p), rope |-> p] \in Row
      BY <3>3
    <3> HIDE DEF kl, Row
    <3> QED
      BY <3>1, <3>2, <3>4
  <2>2. kl = [p \in Position |-> kl[p]]
    OBVIOUS
  <2> QED
    BY <2>1, <2>2
<1> HIDE DEF kl
<1>7. keyc' \in [Layer -> [Position -> Row]]
  BY <1>1, <1>2, <1>4, <1>6
<1>8. ASSUME NEW l \in Layer, NEW p \in Position
      PROVE  keyc'[l][p] = IF l = pass.layer /\ p \in ps
                           THEN [vec |-> Canonical(l, Now, p), rope |-> p] ELSE keyc[l][p]
  <2>1. CASE l = pass.layer
    BY <1>2, <1>4, <1>5, <2>1
  <2>2. CASE l # pass.layer
    BY <1>2, <1>4, <2>2
  <2> QED
    BY <2>1, <2>2
<1> QED
  BY <1>7, <1>8 DEF RotateKeys

\* Attention of a position of the batch sees the rows of one sequence, and of
\* all its positions: the result is that of the prefix.
LEMMA AttendIsSound ==
  ASSUME FInv, pass.stage = "attend", pass # NoPass, NEW p \in Batch
  PROVE  Attend(p) = [of |-> SubSeq(Now, 1, p + 1), num |-> regime]
<1> DEFINE L == pass.layer
           keys == keyc[L]
           vals == valc[L]
           row(of, t) == [of |-> Entering(L, of, t), num |-> Linears]
           q == SubSeq(Now, 1, p + 1)
<1>1. /\ fed \in Seq(Token) /\ pass.tokens \in Seq(Token)
      /\ Now \in Seq(Token) /\ Len(Now) <= SeqLen /\ Batch = Len(fed)..Len(Now)-1
      /\ Len(fed) \in 0..SeqLen
      /\ Linears = regime /\ regime \in Numerics /\ L \in Layer
      /\ Len(Now) = Len(fed) + Len(pass.tokens)
  BY InPass
<1>2. p \in Nat /\ p + 1 \in 1..Len(Now) /\ p \in 0..Len(Now)-1 /\ p + 1 \in 0..Len(Now)
  BY <1>1, LenProperties
<1>3. q \in Seq(Token) /\ Len(q) = p + 1 /\ \A t \in 1..p+1 : q[t] = Now[t]
  BY <1>1, <1>2, PrefixFacts
<1>4. ASSUME NEW t \in 0..p
      PROVE  /\ Entering(L, q, t) = Entering(L, Now, t)
             /\ keys[t] = [vec |-> row(q, t), rope |-> t] /\ vals[t] = row(q, t)
             /\ keys[t].vec # Torn /\ keys[t].vec.of = Entering(L, Now, t)
             /\ keys[t].vec.of # << >>
             /\ L = 0 => keys[t].vec.of[1] = Now[t + 1]
  <2>1. Entering(L, q, t) = Entering(L, Now, t)
    <3>1. t \in 0..(p + 1) - 1
      BY <1>2
    <3> QED
      BY <1>1, <1>2, <3>1, EnteringPrefix
  <2>2. keys[t] = [vec |-> Canonical(L, Now, t), rope |-> t] /\ vals[t] = Canonical(L, Now, t)
    <3>1. CASE t \in Batch
      BY <1>1, <3>1 DEF FInv, PassIsCausal
    <3>2. CASE t \notin Batch
      <4>1. t \in 0..Len(fed)-1
        BY <1>1, <1>2, <3>2
      <4>2. keys[t] = [vec |-> Canonical(L, fed, t), rope |-> t] /\ vals[t] = Canonical(L, fed, t)
        BY <1>1, <4>1 DEF FInv, CacheIsCanonical
      <4>3. Entering(L, Now, t) = Entering(L, fed, t)
        BY <1>1, <4>1, EnteringConcat DEF Now
      <4> QED
        BY <4>2, <4>3 DEF Canonical
    <3> QED
      BY <3>1, <3>2
  <2>3. Canonical(L, Now, t) = row(q, t)
    BY <1>1, <2>1 DEF Canonical
  <2>4. t \in 0..Len(Now)-1
    BY <1>1, <1>2, LenProperties
  <2>5. Canonical(L, Now, t) # Torn /\ Canonical(L, Now, t).of = Entering(L, Now, t)
    BY <1>1, <2>4, CanonicalTyped
  <2>6. Entering(L, Now, t) # << >> /\ (L = 0 => Entering(L, Now, t)[1] = Now[t + 1])
    <3>1. Len(Entering(L, Now, t)) \in 1..t+1
      BY <1>1, <2>4, EnteringTyped
    <3>2. Len(<< >>) = 0
      OBVIOUS
    <3>3. L = 0 => Entering(L, Now, t)[1] = Now[t + 1]
      BY <1>1, <2>4, EnteringTyped
    <3>4. Entering(L, Now, t) # << >>
      BY <3>1, <3>2
    <3> QED
      BY <3>3, <3>4
  <2> QED
    BY <2>1, <2>2, <2>3, <2>5, <2>6
<1>5. x[p] = Canonical(L, Now, p)
  BY DEF FInv, PassIsCausal, Canonical
<1>6. x[p] # Torn /\ x[p].of = Entering(L, q, p)
  <2>1. Canonical(L, Now, p) # Torn /\ Canonical(L, Now, p).of = Entering(L, Now, p)
    BY <1>1, <1>2, CanonicalTyped
  <2>2. Entering(L, q, p) = Entering(L, Now, p)
    <3>1. p \in 0..p
      BY <1>2
    <3> QED
      BY <1>4, <3>1
  <2> QED
    BY <1>5, <2>1, <2>2
<1> HIDE DEF L, keys, vals, row, q
<1>7. (IF L > 0 THEN keys[p].vec.of ELSE [t \in 1..p+1 |-> keys[t-1].vec.of[1]]) = q
  <2>1. CASE L > 0
    <3>1. keys[p].vec.of = Entering(L, Now, p)
      <4>1. p \in 0..p
        BY <1>2
      <4> QED
        BY <1>4, <4>1
    <3>2. L # 0
      BY <2>1
    <3>3. Entering(L, Now, p) = q
      BY <1>1, <1>2, <3>2, EnteringTyped DEF q
    <3> QED
      BY <2>1, <3>1, <3>3
  <2>2. CASE ~ (L > 0)
    <3>1. L = 0
      <4>1. L \in Nat
        BY <1>1, Sizes
      <4> QED
        BY <2>2, <4>1
    <3>2. ASSUME NEW t \in 1..p+1 PROVE keys[t-1].vec.of[1] = q[t]
      <4>1. t - 1 \in 0..p /\ (t - 1) + 1 = t
        BY <1>2
      <4>2. keys[t-1].vec.of[1] = Now[(t - 1) + 1]
        BY <1>4, <3>1, <4>1
      <4> QED
        BY <1>3, <4>1, <4>2
    <3>3. q = [t \in 1..p+1 |-> q[t]]
      BY <1>3, LenProperties
    <3>4. [t \in 1..p+1 |-> keys[t-1].vec.of[1]] = [t \in 1..p+1 |-> q[t]]
      BY <3>2
    <3> QED
      BY <2>2, <3>3, <3>4
  <2> QED
    BY <2>1, <2>2
<1>8. Attend(p) = [of |-> q, num |-> Linears]
  <2>1. \A t \in 0..p : keys[t].vec # Torn /\ keys[t].vec.of # << >>
    BY <1>4
  <2>2. \A t \in 0..p : keys[t] = [vec |-> row(q, t), rope |-> t] /\ vals[t] = row(q, t)
    BY <1>4
  <2> QED
    BY <1>3, <1>6, <1>7, <2>1, <2>2 DEF Attend, L, keys, vals, row
<1> QED
  BY <1>1, <1>8 DEF q
-----------------------------------------------------------------------------
\* The steps.
LEMMA ForwardStarts == Init => FInv
<1> SUFFICES ASSUME Init PROVE FInv
  OBVIOUS
<1>1. /\ SeqLen \in Nat \ {0} /\ NLayers \in Nat \ {0} /\ MaxPasses \in Nat
  BY Sizes
<1>2. /\ keyc = BlankKeys /\ valc = BlankValues /\ pass = NoPass /\ fed = << >>
      /\ logits = NoLogits /\ passes = 0 /\ regime \in Numerics
  BY DEF Init
<1>3. fed \in Seq(Token) /\ Len(fed) = 0
  BY <1>2
<1>4. Zero \in Vector
  <2>1. << >> \in Seq(Token) /\ Len(<< >>) = 0
    OBVIOUS
  <2>2. << >> \in UNION {[1..n -> Token] : n \in 0..SeqLen}
    BY <1>1, <2>1, BoundedSeq
  <2> QED
    BY <2>2 DEF Zero, Vector, Data, Numerics
<1>5. TypeOK
  <2>1. keyc \in [Layer -> [Position -> [vec : Vector, rope : Position \cup {NoRope, Torn}]]]
    BY <1>2, <1>4 DEF BlankKeys
  <2>2. valc \in [Layer -> [Position -> Vector]]
    BY <1>2, <1>4 DEF BlankValues
  <2>3. passes \in 0..MaxPasses /\ Len(fed) <= SeqLen
    BY <1>1, <1>2, <1>3
  <2> QED
    BY <1>2, <1>3, <2>1, <2>2, <2>3 DEF TypeOK
<1>6. CacheIsCanonical
  BY <1>3 DEF CacheIsCanonical
<1>7. PassIsCausal /\ PassShape /\ Unrotated
  BY <1>2 DEF PassIsCausal, PassShape, Unrotated, NoPass
<1> QED
  BY <1>5, <1>6, <1>7 DEF FInv

LEMMA NewEngineStep == ASSUME FInv, NewEngine PROVE FInv'
<1>1. /\ pass = NoPass /\ passes < MaxPasses /\ regime' \in Numerics
      /\ keyc' = BlankKeys /\ valc' = BlankValues /\ fed' = << >> /\ logits' = NoLogits
      /\ passes' = passes + 1 /\ pass' = NoPass /\ x' = x
  BY DEF NewEngine
<1>2. SeqLen \in Nat /\ MaxPasses \in Nat /\ passes \in 0..MaxPasses
  BY Sizes DEF FInv, TypeOK
<1>3. fed' \in Seq(Token) /\ Len(fed') = 0
  BY <1>1
<1>4. Zero \in Vector
  <2>1. << >> \in Seq(Token) /\ Len(<< >>) = 0
    OBVIOUS
  <2>2. << >> \in UNION {[1..n -> Token] : n \in 0..SeqLen}
    BY <1>2, <2>1, BoundedSeq
  <2> QED
    BY <2>2 DEF Zero, Vector, Data, Numerics
<1>5. TypeOK'
  <2>1. keyc' \in [Layer -> [Position -> [vec : Vector, rope : Position \cup {NoRope, Torn}]]]
    BY <1>1, <1>4 DEF BlankKeys
  <2>2. valc' \in [Layer -> [Position -> Vector]]
    BY <1>1, <1>4 DEF BlankValues
  <2>3. passes' \in 0..MaxPasses /\ Len(fed') <= SeqLen
    BY <1>1, <1>2, <1>3
  <2> QED
    BY <1>1, <1>3, <2>1, <2>2, <2>3 DEF TypeOK
<1>6. CacheIsCanonical'
  BY <1>3 DEF CacheIsCanonical
<1>7. PassIsCausal' /\ PassShape' /\ Unrotated'
  BY <1>1 DEF PassIsCausal, PassShape, Unrotated, NoPass
<1> QED
  BY <1>5, <1>6, <1>7 DEF FInv

\* A pass begins at a position that was reached: the rows below it stay.
LEMMA BeginStep ==
  ASSUME FInv, NEW start \in 0..SeqLen, NEW tokens \in Tokens, NEW batch \in BOOLEAN,
         BeginPass(start, tokens, batch)
  PROVE  FInv'
<1>0. /\ pass = NoPass /\ passes < MaxPasses
      /\ start \in 0..Len(fed) /\ start + Len(tokens) <= SeqLen
      /\ batch => regime = 3
      /\ pass' = [at |-> start, tokens |-> tokens, batch |-> batch, layer |-> 0, stage |-> "qkv"]
      /\ x' = [p \in start..start + Len(tokens) - 1 |->
                 [of |-> <<tokens[p - start + 1]>>, num |-> regime]]
      /\ fed' = SubSeq(fed, 1, start) /\ logits' = NoLogits
      /\ passes' = passes + 1 /\ regime' = regime /\ keyc' = keyc /\ valc' = valc
  BY DEF BeginPass, Fits, MayPrefill, cache
<1>1. /\ SeqLen \in Nat /\ MaxPasses \in Nat /\ passes \in 0..MaxPasses
      /\ fed \in Seq(Token) /\ Len(fed) <= SeqLen /\ Len(fed) \in Nat /\ regime \in Numerics
  BY Sizes, LenProperties DEF FInv, TypeOK
<1>2. tokens \in Seq(Token) /\ Len(tokens) \in 1..SeqLen
  BY TokensAreSeqs
<1>3. /\ fed' \in Seq(Token) /\ Len(fed') = start
  BY <1>0, <1>1, PrefixFacts
<1>4. /\ pass'.at = start /\ pass'.tokens = tokens /\ pass'.batch = batch /\ pass'.layer = 0
      /\ pass'.stage = "qkv"
  BY <1>0
<1>5. Batch' = start..start + Len(tokens) - 1
  BY <1>4 DEF Batch
<1>6. start \in Nat /\ Batch' \subseteq Position
  BY <1>0, <1>1, <1>2, <1>5 DEF Position
<1>13. \A f, t \in Seq(Token) :
        /\ f \o t \in Seq(Token) /\ Len(f \o t) = Len(f) + Len(t)
        /\ \A k \in 1..Len(f) + Len(t) : (f \o t)[k] = IF k <= Len(f) THEN f[k] ELSE t[k - Len(f)]
  BY ConcatProperties
<1>7. Now' = fed' \o tokens /\ Now' \in Seq(Token) /\ Len(Now') = start + Len(tokens)
  <2>1. Now' = fed' \o tokens
    BY <1>4 DEF Now
  <2>2. fed' \o tokens \in Seq(Token) /\ Len(fed' \o tokens) = Len(fed') + Len(tokens)
    BY <1>2, <1>3, <1>13, Zenon
  <2> QED
    BY <1>3, <2>1, <2>2
<1>8. ASSUME NEW p \in Batch'
      PROVE  /\ x'[p] = Canonical(0, Now, p)' /\ x'[p] = [of |-> Entering(0, Now', p), num |-> regime']
             /\ x'[p] \in Vector
  <2>1. p \in start..start + Len(tokens) - 1 /\ p - start + 1 \in 1..Len(tokens)
        /\ p + 1 \in 1..start + Len(tokens) /\ p \in 0..Len(Now')-1
    BY <1>2, <1>5, <1>6, <1>7
  <2>2. Now'[p + 1] = tokens[p - start + 1]
    <3>1. p + 1 \in 1..Len(fed') + Len(tokens) /\ ~ (p + 1 <= Len(fed'))
          /\ p + 1 - Len(fed') = p - start + 1
      BY <1>2, <1>3, <1>6, <2>1
    <3>2. \A f, t \in Seq(Token), k \in Nat :
            Len(f) < k /\ k <= Len(f) + Len(t) => (f \o t)[k] = t[k - Len(f)]
      BY ConcatSecond
    <3>3. Len(fed') < p + 1 /\ p + 1 <= Len(fed') + Len(tokens) /\ p + 1 \in Nat
      BY <1>2, <1>3, <1>6, <2>1
    <3>4. ASSUME NEW f \in Seq(Token), NEW k \in Nat, Len(f) < k, k <= Len(f) + Len(tokens)
          PROVE  (f \o tokens)[k] = tokens[k - Len(f)]
      BY <1>2, <3>2, <3>4
    <3>5. PICK f, k : f = fed' /\ k = p + 1
      OBVIOUS
    <3>6. f \in Seq(Token) /\ k \in Nat /\ Len(f) < k /\ k <= Len(f) + Len(tokens)
      BY <1>3, <3>3, <3>5
    <3>7. (f \o tokens)[k] = tokens[k - Len(f)]
      BY <3>4, <3>6, Zenon
    <3>8. Now' = f \o tokens
      BY <1>7, <3>5, Zenon
    <3>9. k - Len(f) = p - start + 1
      BY <1>3, <1>6, <2>1, <3>5
    <3> QED
      BY <3>5, <3>7, <3>8, <3>9
  <2>3. x'[p] = [of |-> <<tokens[p - start + 1]>>, num |-> regime]
    BY <1>0, <2>1
  <2>4. Entering(0, Now', p) = <<tokens[p - start + 1]>>
    BY <2>2 DEF Entering
  <2>5. Canonical(0, Now', p) = x'[p]
    BY <2>3, <2>4 DEF Canonical
  <2>6. Canonical(0, Now', p) \in Vector
    BY <1>0, <1>1, <1>7, <2>1, CanonicalTyped
  <2>7. Canonical(0, Now, p)' = Canonical(0, Now', p)
    BY <1>0 DEF Canonical
  <2>8. x'[p] = [of |-> Entering(0, Now', p), num |-> regime']
    BY <1>0, <2>3, <2>4
  <2> QED
    BY <2>5, <2>6, <2>7, <2>8
<1>9. TypeOK'
  <2>1. keyc' \in [Layer -> [Position -> [vec : Vector, rope : Position \cup {NoRope, Torn}]]]
        /\ valc' \in [Layer -> [Position -> Vector]] /\ regime' \in Numerics
    BY <1>0 DEF FInv, TypeOK
  <2>2. passes' \in 0..MaxPasses /\ Len(fed') <= SeqLen
    BY <1>0, <1>1, <1>3
  <2>3. x' \in [Batch' -> Vector]
    <3>1. x' = [p \in Batch' |-> x'[p]]
      BY <1>0, <1>5
    <3> QED
      BY <1>8, <3>1
  <2>4. 0 \in Layer
    BY Sizes
  <2> QED
    BY <1>0, <1>3, <1>4, <1>6, <2>1, <2>2, <2>3, <2>4 DEF TypeOK
<1>10. CacheIsCanonical'
  <2> SUFFICES ASSUME NEW l \in Layer, NEW p \in 0..Len(fed')-1
               PROVE  /\ keyc'[l][p] = [vec |-> Canonical(l, fed, p)', rope |-> p]
                      /\ valc'[l][p] = Canonical(l, fed, p)'
    BY DEF CacheIsCanonical
  <2>1. p \in 0..start-1 /\ p \in 0..Len(fed)-1
    BY <1>0, <1>1, <1>3
  <2>2. Entering(l, fed', p) = Entering(l, fed, p)
    BY <1>0, <1>1, <2>1, EnteringPrefix
  <2>3. Canonical(l, fed, p)' = Canonical(l, fed, p)
    BY <1>0, <2>2 DEF Canonical
  <2> QED
    BY <1>0, <2>1, <2>3 DEF FInv, CacheIsCanonical
<1>11. PassIsCausal'
  <2>1. ASSUME NEW l \in Layer PROVE ~ (l < 0) /\ 0 \in Nat
    BY <2>1, Sizes
  <2> QED
    BY <1>4, <1>8, <2>1 DEF PassIsCausal
<1>12. PassShape' /\ Unrotated'
  <2>1. 0 \in Layer
    BY Sizes
  <2> QED
    BY <1>0, <1>4, <2>1 DEF PassShape, Unrotated
<1> QED
  BY <1>9, <1>10, <1>11, <1>12 DEF FInv

\* k and v of every position of the batch.
LEMMA QkvStep == ASSUME FInv, Qkv PROVE FInv'
<1>0. /\ pass.stage = "qkv" /\ WriteKv(Batch, Batch)
      /\ pass' = [pass EXCEPT !.stage = "rope"]
      /\ regime' = regime /\ x' = x /\ fed' = fed /\ logits' = logits /\ passes' = passes
  BY DEF Qkv
<1>1. pass # NoPass
  BY <1>0 DEF NoPass
<1>2. /\ fed \in Seq(Token) /\ Now \in Seq(Token) /\ Len(Now) <= SeqLen
      /\ Len(fed) \in 0..SeqLen /\ Batch = Len(fed)..Len(Now)-1 /\ Batch \subseteq Position
      /\ pass.layer \in Layer /\ SeqLen \in Nat
  BY <1>1, InPass, Sizes
<1>3. /\ keyc' \in [Layer -> [Position -> [vec : Vector, rope : Position \cup {NoRope, Torn}]]]
      /\ valc' \in [Layer -> [Position -> Vector]]
      /\ \A l \in Layer, p \in Position :
           /\ keyc'[l][p] = IF l = pass.layer /\ p \in Batch THEN Filled(l, p) ELSE keyc[l][p]
           /\ valc'[l][p] = IF l = pass.layer /\ p \in Batch THEN Canonical(l, Now, p)
                            ELSE valc[l][p]
  <2>1. Batch \in SUBSET Batch
    OBVIOUS
  <2>2. KvWritten(Batch, Batch)
    BY <1>0, <1>1, <2>1, WriteKvEffect
  <2> QED
    BY <2>2 DEF KvWritten
<1>4. /\ pass'.at = pass.at /\ pass'.tokens = pass.tokens /\ pass'.batch = pass.batch
      /\ pass'.layer = pass.layer /\ pass'.stage = "rope" /\ pass' # NoPass
      /\ pass' \in [at : 0..SeqLen, tokens : Tokens, batch : BOOLEAN, layer : Layer,
                    stage : {"qkv", "rope", "attend", "head"}]
  <2>1. pass \in [at : 0..SeqLen, tokens : Tokens, batch : BOOLEAN, layer : Layer,
                  stage : {"qkv", "rope", "attend", "head"}]
    BY <1>1 DEF FInv, PassShape
  <2> QED
    BY <1>0, <2>1 DEF NoPass
<1>5. Batch' = Batch /\ Now' = Now
  BY <1>0, <1>4, SamePass
<1>6. \A l, p : Canonical(l, Now, p)' = Canonical(l, Now, p)
  BY <1>0, <1>5 DEF Canonical
<1>7. CacheIsCanonical'
  <2>1. ASSUME NEW l \in Layer, NEW p \in 0..Len(fed)-1
        PROVE  keyc'[l][p] = keyc[l][p] /\ valc'[l][p] = valc[l][p]
    <3>1. p \in Position /\ p \notin Batch
      BY <1>2 DEF Position
    <3> QED
      BY <1>3, <3>1
  <2> QED
    BY <1>0, <2>1, RowsKept
<1>8. PassIsCausal'
  <2>1. ASSUME NEW l \in Layer, NEW p \in Batch, l < pass.layer
        PROVE  /\ keyc'[l][p] = [vec |-> Canonical(l, Now, p), rope |-> p]
               /\ valc'[l][p] = Canonical(l, Now, p)
    <3>1. l # pass.layer /\ p \in Position
      BY <1>2, <2>1, Sizes
    <3>2. /\ keyc[l][p] = [vec |-> Canonical(l, Now, p), rope |-> p]
          /\ valc[l][p] = Canonical(l, Now, p)
      BY <1>1, <2>1 DEF FInv, PassIsCausal
    <3> QED
      BY <1>3, <3>1, <3>2
  <2>2. \A p \in Batch : x[p] = [of |-> Entering(pass.layer, Now, p), num |-> regime]
    BY <1>0, <1>1 DEF FInv, PassIsCausal
  <2> QED
    BY <1>0, <1>4, <1>5, <1>6, <2>1, <2>2 DEF PassIsCausal
<1>9. Unrotated'
  BY <1>2, <1>3, <1>4, <1>5, <1>6 DEF Unrotated, Filled
<1>10. PassShape'
  BY <1>0, <1>1, <1>4 DEF PassShape, FInv
<1>11. TypeOK'
  BY <1>0, <1>1, <1>3, <1>4, <1>5 DEF TypeOK, FInv
<1> QED
  BY <1>7, <1>8, <1>9, <1>10, <1>11 DEF FInv

\* Every key of the batch is rotated.
LEMMA RopeStep == ASSUME FInv, Rope PROVE FInv'
<1>0. /\ pass.stage = "rope" /\ RotateKeys(Batch)
      /\ pass' = [pass EXCEPT !.stage = "attend"]
      /\ regime' = regime /\ x' = x /\ fed' = fed /\ logits' = logits /\ passes' = passes
  BY DEF Rope
<1>1. pass # NoPass
  BY <1>0 DEF NoPass
<1>2. /\ fed \in Seq(Token) /\ Now \in Seq(Token) /\ Len(Now) <= SeqLen
      /\ Len(fed) \in 0..SeqLen /\ Batch = Len(fed)..Len(Now)-1 /\ Batch \subseteq Position
      /\ pass.layer \in Layer /\ SeqLen \in Nat
  BY <1>1, InPass, Sizes
<1>3. /\ keyc' \in [Layer -> [Position -> [vec : Vector, rope : Position \cup {NoRope, Torn}]]]
      /\ valc' = valc
      /\ \A l \in Layer, p \in Position :
           keyc'[l][p] = IF l = pass.layer /\ p \in Batch
                         THEN [vec |-> Canonical(l, Now, p), rope |-> p] ELSE keyc[l][p]
  BY <1>0, <1>1, RotateEffect
<1>4. /\ pass'.at = pass.at /\ pass'.tokens = pass.tokens /\ pass'.batch = pass.batch
      /\ pass'.layer = pass.layer /\ pass'.stage = "attend" /\ pass' # NoPass
      /\ pass' \in [at : 0..SeqLen, tokens : Tokens, batch : BOOLEAN, layer : Layer,
                    stage : {"qkv", "rope", "attend", "head"}]
  <2>1. pass \in [at : 0..SeqLen, tokens : Tokens, batch : BOOLEAN, layer : Layer,
                  stage : {"qkv", "rope", "attend", "head"}]
    BY <1>1 DEF FInv, PassShape
  <2> QED
    BY <1>0, <2>1 DEF NoPass
<1>5. Batch' = Batch /\ Now' = Now
  BY <1>0, <1>4, SamePass
<1>6. \A l, p : Canonical(l, Now, p)' = Canonical(l, Now, p)
  BY <1>0, <1>5 DEF Canonical
<1>7. CacheIsCanonical'
  <2>1. ASSUME NEW l \in Layer, NEW p \in 0..Len(fed)-1
        PROVE  keyc'[l][p] = keyc[l][p] /\ valc'[l][p] = valc[l][p]
    <3>1. p \in Position /\ p \notin Batch
      BY <1>2 DEF Position
    <3> QED
      BY <1>3, <3>1
  <2> QED
    BY <1>0, <2>1, RowsKept
<1>8. PassIsCausal'
  <2>1. ASSUME NEW l \in Layer, NEW p \in Batch, l < pass.layer \/ l = pass.layer
        PROVE  /\ keyc'[l][p] = [vec |-> Canonical(l, Now, p), rope |-> p]
               /\ valc'[l][p] = Canonical(l, Now, p)
    <3>0. p \in Position
      BY <1>2
    <3>1. CASE l = pass.layer
      <4>1. valc[l][p] = Canonical(l, Now, p)
        BY <1>0, <3>1 DEF FInv, Unrotated
      <4> QED
        BY <1>3, <3>0, <3>1, <4>1
    <3>2. CASE l # pass.layer
      <4>1. /\ keyc[l][p] = [vec |-> Canonical(l, Now, p), rope |-> p]
            /\ valc[l][p] = Canonical(l, Now, p)
        BY <1>1, <2>1, <3>2 DEF FInv, PassIsCausal
      <4> QED
        BY <1>3, <3>0, <3>2, <4>1
    <3> QED
      BY <3>1, <3>2
  <2>2. \A p \in Batch : x[p] = [of |-> Entering(pass.layer, Now, p), num |-> regime]
    BY <1>0, <1>1 DEF FInv, PassIsCausal
  <2> QED
    BY <1>0, <1>4, <1>5, <1>6, <2>1, <2>2 DEF PassIsCausal
<1>9. Unrotated'
  BY <1>4 DEF Unrotated
<1>10. PassShape'
  BY <1>0, <1>1, <1>4 DEF PassShape, FInv
<1>11. TypeOK'
  BY <1>0, <1>1, <1>3, <1>4, <1>5 DEF TypeOK, FInv
<1> QED
  BY <1>7, <1>8, <1>9, <1>10, <1>11 DEF FInv

\* The layer is attended to, and the pass enters the next one or the head.
LEMMA AttendStep == ASSUME FInv, AttendAll PROVE FInv'
<1>0. /\ pass.stage = "attend" /\ x' = [p \in Batch |-> Attend(p)] /\ pass' = NextLayer
      /\ regime' = regime /\ keyc' = keyc /\ valc' = valc
      /\ fed' = fed /\ logits' = logits /\ passes' = passes
  BY DEF AttendAll, cache
<1>1. pass # NoPass
  BY <1>0 DEF NoPass
<1>2. /\ fed \in Seq(Token) /\ Now \in Seq(Token) /\ Len(Now) <= SeqLen
      /\ Len(fed) \in 0..SeqLen /\ Batch = Len(fed)..Len(Now)-1 /\ Batch \subseteq Position
      /\ pass.layer \in Layer /\ SeqLen \in Nat /\ regime \in Numerics
  BY <1>1, InPass, Sizes
<1>3. pass \in [at : 0..SeqLen, tokens : Tokens, batch : BOOLEAN, layer : Layer,
                stage : {"qkv", "rope", "attend", "head"}]
  BY <1>1 DEF FInv, PassShape
<1>4. /\ pass'.at = pass.at /\ pass'.tokens = pass.tokens /\ pass'.batch = pass.batch
      /\ pass' # NoPass
      /\ \/ pass'.stage = "qkv" /\ pass'.layer = pass.layer + 1 /\ pass.layer + 1 < NLayers
         \/ pass'.stage = "head" /\ pass'.layer = pass.layer /\ ~ (pass.layer + 1 < NLayers)
      /\ pass'.layer \in Layer
      /\ pass' \in [at : 0..SeqLen, tokens : Tokens, batch : BOOLEAN, layer : Layer,
                    stage : {"qkv", "rope", "attend", "head"}]
  <2>1. pass.layer \in Nat /\ NLayers \in Nat /\ pass.layer \in 0..NLayers-1
    BY <1>2, Sizes DEF Layer
  <2>2. CASE pass.layer + 1 < NLayers
    <3>1. pass' = [pass EXCEPT !.layer = @ + 1, !.stage = "qkv"]
      BY <1>0, <2>2 DEF NextLayer
    <3>2. pass.layer + 1 \in Layer
      BY <2>1, <2>2 DEF Layer
    <3> QED
      BY <1>3, <2>2, <3>1, <3>2 DEF NoPass
  <2>3. CASE ~ (pass.layer + 1 < NLayers)
    <3>1. pass' = [pass EXCEPT !.stage = "head"]
      BY <1>0, <2>3 DEF NextLayer
    <3> QED
      BY <1>2, <1>3, <2>3, <3>1 DEF NoPass
  <2> QED
    BY <2>2, <2>3
<1>5. Batch' = Batch /\ Now' = Now
  BY <1>0, <1>4, SamePass
<1>6. \A l, p : Canonical(l, Now, p)' = Canonical(l, Now, p)
  BY <1>0, <1>5 DEF Canonical
<1>7. CacheIsCanonical'
  BY <1>0, RowsKept
<1>8. ASSUME NEW p \in Batch
      PROVE  /\ x'[p] = [of |-> SubSeq(Now, 1, p + 1), num |-> regime]
             /\ x'[p] \in Vector
             /\ pass'.stage = "qkv" => Entering(pass'.layer, Now, p) = SubSeq(Now, 1, p + 1)
  <2>1. x'[p] = [of |-> SubSeq(Now, 1, p + 1), num |-> regime]
    BY <1>0, <1>1, AttendIsSound
  <2>2. p \in 0..Len(Now)-1
    BY <1>2, LenProperties
  <2>3. 1 # 0 /\ Entering(1, Now, p) = SubSeq(Now, 1, p + 1)
    BY <1>2, <2>2, EnteringTyped
  <2>4. Canonical(1, Now, p) = x'[p] /\ Canonical(1, Now, p) \in Vector
    BY <1>2, <2>1, <2>2, <2>3, CanonicalTyped DEF Canonical
  <2>5. pass'.stage = "qkv" => pass'.layer # 0
    <3>1. pass.layer \in Nat
      BY <1>2, Sizes
    <3> QED
      BY <1>4, <3>1
  <2>6. pass'.stage = "qkv" => Entering(pass'.layer, Now, p) = SubSeq(Now, 1, p + 1)
    BY <2>5 DEF Entering
  <2> QED
    BY <2>1, <2>4, <2>6
<1>9. PassIsCausal'
  <2>1. ASSUME NEW l \in Layer, NEW p \in Batch,
               l < pass'.layer \/ (l = pass'.layer /\ pass'.stage \in {"attend", "head"})
        PROVE  /\ keyc[l][p] = [vec |-> Canonical(l, Now, p), rope |-> p]
               /\ valc[l][p] = Canonical(l, Now, p)
    <3>1. l < pass.layer \/ l = pass.layer
      <4>1. l \in Nat /\ pass.layer \in Nat
        BY <1>2, Sizes
      <4> QED
        BY <1>4, <2>1, <4>1
    <3> QED
      BY <1>0, <1>1, <3>1 DEF FInv, PassIsCausal
  <2>2. ASSUME NEW p \in Batch
        PROVE  x'[p] = [of |-> IF pass'.stage = "head" THEN SubSeq(Now, 1, p + 1)
                               ELSE Entering(pass'.layer, Now, p),
                        num |-> regime]
    BY <1>4, <1>8
  <2> QED
    BY <1>0, <1>5, <1>6, <2>1, <2>2 DEF PassIsCausal
<1>10. PassShape'
  <2>1. pass'.stage = "head" => pass'.layer = NLayers - 1
    BY <1>2, <1>4, Sizes DEF Layer
  <2>2. pass'.batch => regime' = 3
    BY <1>0, <1>1, <1>4 DEF FInv, PassShape
  <2> QED
    BY <1>4, <2>1, <2>2 DEF PassShape
<1>11. TypeOK'
  <2>1. x' \in [Batch' -> Vector]
    <3>1. x' = [p \in Batch |-> x'[p]]
      BY <1>0
    <3> QED
      BY <1>5, <1>8, <3>1
  <2> QED
    BY <1>0, <1>1, <1>4, <1>5, <2>1 DEF TypeOK, FInv
<1>12. Unrotated'
  BY <1>4 DEF Unrotated
<1> QED
  BY <1>7, <1>9, <1>10, <1>11, <1>12 DEF FInv

\* The pass ends: its tokens are fed.
LEMMA HeadStep == ASSUME FInv, LmHead PROVE FInv' /\ fed' = Now /\ logits' = Now
<1>0. /\ pass.stage = "head" /\ pass' = NoPass /\ fed' = Now
      /\ logits' = (IF x[LastOfPass] = Torn THEN Torn ELSE x[LastOfPass].of)
      /\ regime' = regime /\ keyc' = keyc /\ valc' = valc /\ passes' = passes
  BY DEF LmHead, cache, Now
<1>1. pass # NoPass
  BY <1>0 DEF NoPass
<1>2. /\ fed \in Seq(Token) /\ pass.tokens \in Seq(Token)
      /\ Now \in Seq(Token) /\ Len(Now) <= SeqLen
      /\ Len(Now) = Len(fed) + Len(pass.tokens) /\ Len(pass.tokens) \in 1..SeqLen
      /\ Len(fed) \in 0..SeqLen /\ Batch = Len(fed)..Len(Now)-1 /\ Batch \subseteq Position
      /\ pass.layer \in Layer /\ SeqLen \in Nat /\ regime \in Numerics /\ pass.at = Len(fed)
  BY <1>1, InPass, Sizes
<1>3. LastOfPass = Len(Now) - 1 /\ LastOfPass \in Batch /\ LastOfPass + 1 = Len(Now)
      /\ LastOfPass \in 0..Len(Now)-1
  BY <1>2 DEF LastOfPass
<1>4. x[LastOfPass] = [of |-> SubSeq(Now, 1, LastOfPass + 1), num |-> regime]
  BY <1>0, <1>1, <1>3 DEF FInv, PassIsCausal
<1>5. SubSeq(Now, 1, LastOfPass + 1) = Now
  BY <1>2, <1>3, PrefixFacts
<1>6. x[LastOfPass] # Torn
  <2>1. x[LastOfPass] \in Vector /\ Canonical(1, Now, LastOfPass) # Torn
    BY <1>1, <1>2, <1>3, CanonicalTyped DEF FInv, TypeOK
  <2>2. Entering(1, Now, LastOfPass) = SubSeq(Now, 1, LastOfPass + 1)
    BY DEF Entering
  <2> QED
    BY <1>4, <2>1, <2>2 DEF Canonical
<1>7. logits' = Now
  BY <1>0, <1>4, <1>5, <1>6
<1>8. Now \in Tokens
  BY <1>2, BoundedSeq DEF Tokens
<1>9. TypeOK'
  BY <1>0, <1>2, <1>7, <1>8 DEF TypeOK, FInv
<1>10. CacheIsCanonical'
  <2> SUFFICES ASSUME NEW l \in Layer, NEW p \in 0..Len(fed')-1
               PROVE  /\ keyc'[l][p] = [vec |-> Canonical(l, fed, p)', rope |-> p]
                      /\ valc'[l][p] = Canonical(l, fed, p)'
    BY DEF CacheIsCanonical
  <2>1. Canonical(l, fed, p)' = Canonical(l, Now, p)
    BY <1>0 DEF Canonical
  <2>2. p \in 0..Len(fed)-1 \/ p \in Batch
    BY <1>0, <1>2
  <2>3. CASE p \in 0..Len(fed)-1
    <3>1. Entering(l, Now, p) = Entering(l, fed, p)
      BY <1>2, <2>3, EnteringConcat DEF Now
    <3>2. Canonical(l, Now, p) = Canonical(l, fed, p)
      BY <3>1 DEF Canonical
    <3> QED
      BY <1>0, <2>1, <2>3, <3>2 DEF FInv, CacheIsCanonical
  <2>4. CASE p \in Batch
    <3>1. l < pass.layer \/ l = pass.layer
      <4>1. pass.layer = NLayers - 1
        BY <1>0, <1>1 DEF FInv, PassShape
      <4> QED
        BY <4>1, Sizes DEF Layer
    <3>2. /\ keyc[l][p] = [vec |-> Canonical(l, Now, p), rope |-> p]
          /\ valc[l][p] = Canonical(l, Now, p)
      BY <1>0, <1>1, <2>4, <3>1 DEF FInv, PassIsCausal
    <3> QED
      BY <1>0, <2>1, <3>2
  <2> QED
    BY <2>2, <2>3, <2>4
<1>11. PassIsCausal' /\ PassShape' /\ Unrotated'
  BY <1>0 DEF PassIsCausal, PassShape, Unrotated, NoPass
<1> QED
  BY <1>0, <1>7, <1>9, <1>10, <1>11 DEF FInv

\* A pass that fails may have written rows of its batch, and no other.
LEMMA FailStep == ASSUME FInv, Fail PROVE FInv'
<1>0. /\ pass # NoPass /\ pass' = NoPass /\ x' = << >>
      /\ regime' = regime /\ fed' = fed /\ logits' = logits /\ passes' = passes
  BY DEF Fail
<1>1. PICK ps \in SUBSET Batch :
        \/ pass.stage = "qkv" /\ (WriteKv(ps, {}) \/ WriteKv(Batch, ps))
        \/ pass.stage = "rope" /\ RotateKeys(ps)
        \/ pass.stage \in {"attend", "head"} /\ UNCHANGED cache
  BY DEF Fail
<1>2. /\ Len(fed) \in 0..SeqLen /\ Batch = Len(fed)..Len(Now)-1 /\ SeqLen \in Nat
      /\ Len(Now) <= SeqLen
  BY <1>0, InPass, Sizes
<1>3. ASSUME NEW p \in 0..Len(fed)-1
      PROVE  p \in Position /\ p \notin Batch
  BY <1>2 DEF Position
<1>4. /\ keyc' \in [Layer -> [Position -> [vec : Vector, rope : Position \cup {NoRope, Torn}]]]
      /\ valc' \in [Layer -> [Position -> Vector]]
      /\ \A l \in Layer, p \in 0..Len(fed)-1 :
           keyc'[l][p] = keyc[l][p] /\ valc'[l][p] = valc[l][p]
  <2>0. Batch \in SUBSET Batch /\ {} \in SUBSET Batch
    OBVIOUS
  <2>1. ASSUME NEW ks \in SUBSET Batch, NEW vs \in SUBSET Batch, KvWritten(ks, vs)
        PROVE  <1>4!:
    BY <1>3, <2>1 DEF KvWritten
  <2>2. CASE pass.stage = "qkv" /\ WriteKv(ps, {})
    <3>1. KvWritten(ps, {})
      BY <1>0, <2>0, <2>2, WriteKvEffect
    <3> QED
      BY <2>0, <2>1, <3>1
  <2>3. CASE pass.stage = "qkv" /\ WriteKv(Batch, ps)
    <3>1. KvWritten(Batch, ps)
      BY <1>0, <2>0, <2>3, WriteKvEffect
    <3> QED
      BY <2>0, <2>1, <3>1
  <2>4. CASE pass.stage = "rope" /\ RotateKeys(ps)
    <3>1. /\ keyc' \in [Layer -> [Position -> [vec : Vector, rope : Position \cup {NoRope, Torn}]]]
          /\ valc' = valc
          /\ \A l \in Layer, p \in Position :
               keyc'[l][p] = IF l = pass.layer /\ p \in ps
                             THEN [vec |-> Canonical(l, Now, p), rope |-> p] ELSE keyc[l][p]
      BY <1>0, <2>4, RotateEffect
    <3> QED
      BY <1>3, <3>1 DEF FInv, TypeOK
  <2>5. CASE UNCHANGED cache
    BY <2>5 DEF cache, FInv, TypeOK
  <2> QED
    BY <1>1, <2>2, <2>3, <2>4, <2>5
<1>5. TypeOK'
  BY <1>0, <1>4 DEF TypeOK, FInv
<1>6. CacheIsCanonical'
  BY <1>0, <1>4, RowsKept
<1>7. PassIsCausal' /\ PassShape' /\ Unrotated'
  BY <1>0 DEF PassIsCausal, PassShape, Unrotated, NoPass
<1> QED
  BY <1>5, <1>6, <1>7 DEF FInv

\* No step but those above changes the state.
LEMMA ForwardUnchanged == ASSUME FInv, UNCHANGED vars PROVE FInv'
<1>1. /\ regime' = regime /\ keyc' = keyc /\ valc' = valc /\ pass' = pass /\ x' = x
      /\ fed' = fed /\ logits' = logits /\ passes' = passes
  BY DEF vars, cache
<1>2. Batch' = Batch /\ Now' = Now
  BY <1>1, SamePass
<1>3. \A l, s, p : Canonical(l, s, p)' = Canonical(l, s, p)
  BY <1>1 DEF Canonical
<1>4. TypeOK'
  BY <1>1, <1>2 DEF FInv, TypeOK
<1>5. CacheIsCanonical'
  BY <1>1, RowsKept
<1>6. PassIsCausal'
  BY <1>1, <1>2 DEF FInv, PassIsCausal, Canonical
<1>7. PassShape' /\ Unrotated'
  BY <1>1, <1>2 DEF FInv, PassShape, Unrotated, Canonical
<1> QED
  BY <1>4, <1>5, <1>6, <1>7 DEF FInv

LEMMA ForwardSteps == ASSUME FInv, [Next]_vars PROVE FInv'
<1>1. CASE NewEngine
  BY <1>1, NewEngineStep
<1>2. CASE \E at \in 0..SeqLen, tokens \in Tokens, batch \in BOOLEAN : BeginPass(at, tokens, batch)
  BY <1>2, BeginStep
<1>3. CASE Qkv
  BY <1>3, QkvStep
<1>4. CASE Rope
  BY <1>4, RopeStep
<1>5. CASE AttendAll
  BY <1>5, AttendStep
<1>6. CASE LmHead
  BY <1>6, HeadStep
<1>7. CASE Fail
  BY <1>7, FailStep
<1>8. CASE UNCHANGED vars
  BY <1>8, ForwardUnchanged
<1> QED
  BY <1>1, <1>2, <1>3, <1>4, <1>5, <1>6, <1>7, <1>8 DEF Next

\* What a reachable engine satisfies.
THEOREM ForwardInvariant == Spec => []FInv
<1>1. Init => FInv
  BY ForwardStarts
<1>2. FInv /\ [Next]_vars => FInv'
  BY ForwardSteps
<1> QED
  BY <1>1, <1>2, PTL DEF Spec

\* Types; a pass in progress stays within the rows of the cache.
THEOREM ForwardTyped == Spec => []TypeOK
BY ForwardInvariant, PTL DEF FInv

\* The cached rows below Len(fed) are those the tokens fed determine, whatever
\* passes, batches, restarts and failures made them (inference.rs:391-393).
THEOREM ForwardCacheIsCanonical == Spec => []CacheIsCanonical
BY ForwardInvariant, PTL DEF FInv

\* Within a pass, a position sees the rows of its layer at and below it, and
\* the residual stream is a function of the tokens up to it (vt_cuda.cu:1230).
THEOREM ForwardPassIsCausal == Spec => []PassIsCausal
BY ForwardInvariant, PTL DEF FInv

\* The engine implements the decoder: a reset or a pass that begins rewinds what
\* was fed, the head of a pass feeds its tokens, and every other step, a failure
\* included, is invisible (inference.rs:311-318).
THEOREM ForwardImplementsDecoder == Spec => ImplementsDecoder
<1>1. Init => D!Init
  BY DEF Init, D!Init
<1>2. FInv /\ [Next]_vars => [D!Next]_<<fed, logits>>
  <2> SUFFICES ASSUME FInv, [Next]_vars
               PROVE  D!Next \/ UNCHANGED <<fed, logits>>
    OBVIOUS
  <2>0. fed \in Seq(Token) /\ Len(fed) \in Nat /\ Len(fed) <= SeqLen /\ SeqLen \in Nat
    BY Sizes, LenProperties DEF FInv, TypeOK
  <2>1. ASSUME NEW n \in 0..Len(fed), fed' = SubSeq(fed, 1, n), logits' = NoLogits
        PROVE  D!Next
    BY <2>1 DEF D!Next, D!Rewind
  <2>2. CASE NewEngine
    <3>1. 0 \in 0..Len(fed) /\ SubSeq(fed, 1, 0) = << >>
      BY <2>0
    <3> QED
      BY <2>1, <2>2, <3>1 DEF NewEngine
  <2>3. CASE \E at \in 0..SeqLen, tokens \in Tokens, batch \in BOOLEAN :
               BeginPass(at, tokens, batch)
    BY <2>1, <2>3 DEF BeginPass
  <2>4. CASE Qkv
    BY <2>4 DEF Qkv
  <2>5. CASE Rope
    BY <2>5 DEF Rope
  <2>6. CASE AttendAll
    BY <2>6 DEF AttendAll
  <2>7. CASE LmHead
    <3>0. pass # NoPass
      BY <2>7 DEF LmHead, NoPass
    <3>1. fed' = fed \o pass.tokens /\ logits' = fed'
      BY <2>7, HeadStep DEF Now
    <3>2. /\ pass.tokens \in Seq(Token) /\ Len(pass.tokens) \in 1..SeqLen
          /\ Len(Now) = Len(fed) + Len(pass.tokens) /\ Len(Now) <= SeqLen
      BY <3>0, InPass
    <3>3. Len(pass.tokens) \in 1..SeqLen - Len(fed)
      BY <2>0, <3>2
    <3>4. pass.tokens \in [1..Len(pass.tokens) -> Token]
      BY <3>2, LenProperties
    <3> QED
      BY <3>1, <3>3, <3>4 DEF D!Next, D!Feed
  <2>8. CASE Fail
    BY <2>8 DEF Fail
  <2>9. CASE UNCHANGED vars
    BY <2>9 DEF vars
  <2> QED
    BY <2>2, <2>3, <2>4, <2>5, <2>6, <2>7, <2>8, <2>9 DEF Next
<1> QED
  BY <1>1, <1>2, ForwardInvariant, PTL DEF Spec, ImplementsDecoder, D!Spec, D!vars
=============================================================================

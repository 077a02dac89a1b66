---------------------------- MODULE RecorderProofs ----------------------------
(***************************************************************************)
(* Proofs about the recorders: for any number of layers, tokens, overrides *)
(* and recorders attached to any step, an override reaches exactly what it *)
(* causes, and the lists of records fit together.                          *)
(***************************************************************************)
EXTENDS Recorder, SeqLemmas

(* The site a step makes next: none of its token when it has not begun, all
   of them passed when it has failed. *)
SiteNow ==
  CASE at.stage \in {"idle", "embed"} -> 0
    [] at.stage = "attn"   -> 2 * at.layer + 1
    [] at.stage = "ffn"    -> 2 * at.layer + 2
    [] at.stage = "final"  -> LastSite - 1
    [] at.stage = "head"   -> LastSite
    [] at.stage = "failed" -> LastSite + 1

Site == 0..LastSite
Running == {"attn", "ffn", "final", "head"}

(* Whether the site has been made. *)
Passed(t, k) == t < at.token \/ (t = at.token /\ k < SiteNow)

(* An entry of a list of snapshots was made at site k of its token. *)
IsSite(e, k) == e.checkpoint = Checkpoint(k) /\ e.layer = LayerOf(k)

(* The parameters the ops of a stage read, by the site the stage makes. *)
Params(k) ==
  CASE Checkpoint(k) = "post_embed"   -> {}
    [] Checkpoint(k) = "post_attn"    -> {"rms_att", "wq", "wk", "wv", "wo"}
    [] Checkpoint(k) = "post_ffn"     -> {"rms_ffn", "w1", "w3", "w2"}
    [] Checkpoint(k) = "pre_lm_head"  -> {"rms_final"}
    [] Checkpoint(k) = "post_lm_head" -> {HeadKey}

(* An op of the stage that makes site k. *)
OpAt(op, k) == op.layer = LayerOf(k) /\ op.params \in Params(k) /\ op.output.made = op.params

Listed(s) == \E S : s \in Seq(S)

Typed ==
  /\ plan \in Seq(Overrides) /\ Len(plan) <= MaxOverrides
  /\ declared \subseteq Declarations
  /\ at \in [token : 0..NTokens, layer : 0..NLayers-1, stage : {"idle", "embed", "failed"} \cup Running,
             on : SUBSET {"ops", "acts", "lens"}]
  /\ (~ Idle => at.token < NTokens) /\ (at.stage = "embed" => at.layer = 0) /\ (Idle => at.on = {})
  /\ rows = [l \in 0..NLayers-1 |-> [t \in 0..NTokens-1 |-> rows[l][t]]]
  /\ \A l \in 0..NLayers-1, t \in 0..NTokens-1 : rows[l][t] # {} => t <= at.token
  /\ Listed(ops) /\ Listed(acts) /\ Listed(lens)
  /\ Listed(logits) /\ Len(logits) = at.token
  /\ known \in [0..NTokens-1 -> 0..Len(plan)]
  /\ ~ Idle => known[at.token] = Len(plan)

(* The residual stream and the cached rows are those of the plan. *)
StreamInv ==
  /\ at.stage \in Running => x.causes = Causes[<<at.token, SiteNow - 1>>]
  /\ at.stage # "failed" =>
       \A l \in 0..NLayers-1, t \in 0..NTokens-1 :
         Passed(t, 2 * l + 1) => rows[l][t] = Causes[<<t, 2 * l>>]

(* Nothing is recorded of a site before it is made. *)
Ordered ==
  /\ \A i \in DOMAIN acts : acts[i].token \in Nat /\ \E k \in Site : IsSite(acts[i], k) /\ Passed(acts[i].token, k)
  /\ \A i \in DOMAIN lens :
       lens[i].token \in Nat
       /\ (lens[i].checkpoint = "pre_wo" \/ \E k \in Site : IsSite(lens[i], k) /\ Passed(lens[i].token, k))
  /\ \A j \in DOMAIN ops :
       ops[j].output.token \in Nat
       /\ \E k \in 1..LastSite : OpAt(ops[j], k) /\ Passed(ops[j].output.token, k)

(* The last snapshot is the one before the site the step makes next. *)
LastSnapshot ==
  at.stage # "failed" /\ acts # << >> =>
    LET a == acts[Len(acts)]
    IN  IF "acts" \in at.on /\ at.stage # "embed"
        THEN a.token = at.token /\ IsSite(a, SiteNow - 1)
        ELSE a.token < at.token /\ a.checkpoint = "post_lm_head"

(* A snapshot of the residual stream has not changed before an op reads it. *)
SnapshotIsStream ==
  at.stage \in Running =>
    \A i \in DOMAIN acts :
      acts[i].token = at.token /\ IsSite(acts[i], SiteNow - 1) => acts[i].tensor = x

(* What the last two snapshots of a step are the output of. *)
HeadMade ==
  \A i \in DOMAIN acts :
    acts[i].tensor.made # "override" =>
      /\ acts[i].checkpoint = "pre_lm_head" => acts[i].tensor.made = "rms_final"
      /\ acts[i].checkpoint = "post_lm_head" => acts[i].tensor.made = HeadKey

RecorderInv ==
  /\ Typed /\ StreamInv /\ CapturesFollowPlan
  /\ Ordered /\ LastSnapshot /\ SnapshotsInOrder
  /\ SnapshotIsStream /\ HeadMade /\ RecordsFitTogether

-----------------------------------------------------------------------------
(* The sites of a token. *)
LEMMA RecSizes == /\ NLayers \in Nat /\ NLayers >= 1 /\ NTokens \in Nat /\ MaxOverrides \in Nat
                  /\ LastSite \in Nat /\ LastSite = 2 * NLayers + 2 /\ MAX = NLayers
BY RecorderAssumption DEF LastSite, MAX

(* What is made where ... *)
LEMMA SiteNames ==
  /\ Checkpoint(0) = "post_embed" /\ LayerOf(0) = MAX
  /\ Checkpoint(LastSite - 1) = "pre_lm_head" /\ LayerOf(LastSite - 1) = MAX
  /\ Checkpoint(LastSite) = "post_lm_head" /\ LayerOf(LastSite) = MAX
  /\ \A l \in 0..NLayers-1 :
       /\ Checkpoint(2 * l + 1) = "post_attn" /\ LayerOf(2 * l + 1) = l
       /\ Checkpoint(2 * l + 2) = "post_ffn" /\ LayerOf(2 * l + 2) = l
<1>1. /\ Checkpoint(0) = "post_embed" /\ LayerOf(0) = MAX
      /\ Checkpoint(LastSite - 1) = "pre_lm_head" /\ LayerOf(LastSite - 1) = MAX
      /\ Checkpoint(LastSite) = "post_lm_head" /\ LayerOf(LastSite) = MAX
  BY RecSizes DEF Checkpoint, LayerOf
<1>2. ASSUME NEW l \in 0..NLayers-1
      PROVE  /\ Checkpoint(2 * l + 1) = "post_attn" /\ LayerOf(2 * l + 1) = l
             /\ Checkpoint(2 * l + 2) = "post_ffn" /\ LayerOf(2 * l + 2) = l
  <2>1. /\ (2 * l + 1) % 2 = 1 /\ (2 * l + 2) % 2 = 0
        /\ (2 * l + 1 - 1) \div 2 = l /\ (2 * l + 2 - 1) \div 2 = l
    BY RecSizes
  <2>2. 2 * l + 1 # 0 /\ 2 * l + 2 # 0 /\ 2 * l + 1 < LastSite - 1 /\ 2 * l + 2 < LastSite - 1
    BY RecSizes
  <2> QED BY <2>1, <2>2, RecSizes DEF Checkpoint, LayerOf
<1> QED BY <1>1, <1>2

(* ... of sites there are these ... *)
LEMMA SiteCases ==
  ASSUME NEW k \in Site
  PROVE  \/ k = 0 \/ k = LastSite - 1 \/ k = LastSite
         \/ \E l \in 0..NLayers-1 : k = 2 * l + 1
         \/ \E l \in 0..NLayers-1 : k = 2 * l + 2
<1>1. k \in Nat /\ k <= LastSite
  BY RecSizes DEF Site
<1>2. ASSUME 0 < k, k < LastSite - 1
      PROVE  \/ \E l \in 0..NLayers-1 : k = 2 * l + 1
             \/ \E l \in 0..NLayers-1 : k = 2 * l + 2
  <2>1. PICK l \in Nat : l = (k - 1) \div 2
    BY <1>1, <1>2
  <2>2. k = 2 * l + 1 \/ k = 2 * l + 2
    BY <1>1, <1>2, <2>1
  <2>3. l \in 0..NLayers-1
    BY <1>2, <2>2, RecSizes
  <2> QED BY <2>2, <2>3
<1> QED BY <1>1, <1>2, RecSizes

(* ... and each has its own name. *)
LEMMA SiteUnique ==
  ASSUME NEW j \in Site, NEW k \in Site, Checkpoint(j) = Checkpoint(k), LayerOf(j) = LayerOf(k)
  PROVE  j = k
BY SiteCases, SiteNames

(* The parameters of each stage. *)
LEMMA ParamsOf ==
  /\ Params(0) = {} /\ Params(LastSite - 1) = {"rms_final"} /\ Params(LastSite) = {HeadKey}
  /\ \A l \in 0..NLayers-1 :
       /\ Params(2 * l + 1) = {"rms_att", "wq", "wk", "wv", "wo"}
       /\ Params(2 * l + 2) = {"rms_ffn", "w1", "w3", "w2"}
<1>1. Params(0) = {} /\ Params(LastSite - 1) = {"rms_final"} /\ Params(LastSite) = {HeadKey}
  BY SiteNames DEF Params
<1>2. ASSUME NEW l \in 0..NLayers-1
      PROVE  /\ Params(2 * l + 1) = {"rms_att", "wq", "wk", "wv", "wo"}
             /\ Params(2 * l + 2) = {"rms_ffn", "w1", "w3", "w2"}
  BY SiteNames DEF Params
<1> QED BY <1>1, <1>2

(* An op belongs to one stage. *)
LEMMA OpUnique ==
  ASSUME NEW j \in Site, NEW k \in Site, NEW op, OpAt(op, j), OpAt(op, k)
  PROVE  j = k
<1>1. op.layer = LayerOf(j) /\ op.layer = LayerOf(k) /\ op.params \in Params(j) /\ op.params \in Params(k)
  BY DEF OpAt
<1>2. HeadKey \in {"token_embd", "wcls"}
  BY DEF HeadKey
<1>3. Checkpoint(j) = Checkpoint(k)
  <2>1. Checkpoint(j) \in {"post_embed", "post_attn", "post_ffn", "pre_lm_head", "post_lm_head"}
    BY SiteCases, SiteNames
  <2>2. Checkpoint(k) \in {"post_embed", "post_attn", "post_ffn", "pre_lm_head", "post_lm_head"}
    BY SiteCases, SiteNames
  <2> QED BY <1>1, <1>2, <2>1, <2>2 DEF Params
<1> QED BY <1>1, <1>3, SiteUnique

(* What a snapshot is read by ... *)
LEMMA ReaderOf ==
  /\ \A l \in 0..NLayers-1 :
       /\ Reader(2 * l) = [params |-> "rms_att", layer |-> l]
       /\ Reader(2 * l + 1) = [params |-> "rms_ffn", layer |-> l]
  /\ Reader(LastSite - 2) = [params |-> "rms_final", layer |-> MAX]
  /\ Reader(LastSite - 1) = [params |-> HeadKey, layer |-> MAX]
<1>1. ASSUME NEW l \in 0..NLayers-1
      PROVE  Reader(2 * l) = [params |-> "rms_att", layer |-> l]
  <2>1. PICK k \in Nat : k = 2 * l
    OBVIOUS
  <2>2. Checkpoint(k) \in {"post_embed", "post_ffn"}
    <3>1. CASE l = 0
      BY <2>1, <3>1, SiteNames
    <3>2. CASE l # 0
      <4>1. l - 1 \in 0..NLayers-1 /\ k = 2 * (l - 1) + 2
        BY <2>1, <3>2, RecSizes
      <4> QED BY <4>1, SiteNames
    <3> QED BY <3>1, <3>2
  <2>3. k # LastSite - 2 /\ k \div 2 = l
    BY <2>1, RecSizes
  <2> QED BY <2>1, <2>2, <2>3 DEF Reader
<1>2. ASSUME NEW l \in 0..NLayers-1
      PROVE  Reader(2 * l + 1) = [params |-> "rms_ffn", layer |-> l]
  <2>1. PICK k \in Nat : k = 2 * l + 1
    OBVIOUS
  <2>2. Checkpoint(k) = "post_attn" /\ LayerOf(k) = l
    BY <2>1, SiteNames
  <2>3. k # LastSite - 2
    BY <2>1, RecSizes
  <2> QED BY <2>1, <2>2, <2>3 DEF Reader
<1>3. Reader(LastSite - 2) = [params |-> "rms_final", layer |-> MAX]
  <2>1. PICK k \in Nat : k = LastSite - 2
    BY RecSizes
  <2>2. NLayers - 1 \in 0..NLayers-1 /\ k = 2 * (NLayers - 1) + 2
    BY <2>1, RecSizes
  <2>3. Checkpoint(k) = "post_ffn"
    BY <2>2, SiteNames
  <2> QED BY <2>1, <2>3 DEF Reader
<1>4. Reader(LastSite - 1) = [params |-> HeadKey, layer |-> MAX]
  <2>1. PICK k \in Nat : k = LastSite - 1
    BY RecSizes
  <2>2. Checkpoint(k) = "pre_lm_head" /\ k # LastSite - 2
    BY <2>1, SiteNames, RecSizes
  <2> QED BY <2>1, <2>2 DEF Reader, HeadKey
<1> QED BY <1>1, <1>2, <1>3, <1>4

(* ... is an op of the next stage. *)
LEMMA ReaderNext ==
  ASSUME NEW k \in 0..LastSite-1
  PROVE  /\ k + 1 \in Site /\ k \in Site
         /\ Reader(k).params \in Params(k + 1) /\ Reader(k).layer = LayerOf(k + 1)
<1>1. k \in Site /\ k + 1 \in Site /\ k + 1 # 0
  BY RecSizes DEF Site
<1>2. CASE k + 1 = LastSite
  <2>1. Reader(k) = [params |-> HeadKey, layer |-> MAX]
    <3>1. k = LastSite - 1
      BY <1>2, RecSizes
    <3> QED BY <3>1, ReaderOf
  <2> QED BY <1>1, <1>2, <2>1, SiteNames, ParamsOf
<1>3. CASE k + 1 = LastSite - 1
  <2>1. Reader(k) = [params |-> "rms_final", layer |-> MAX]
    <3>1. k = LastSite - 2
      BY <1>3, RecSizes
    <3> QED BY <3>1, ReaderOf
  <2> QED BY <1>1, <1>3, <2>1, SiteNames, ParamsOf
<1>4. CASE \E l \in 0..NLayers-1 : k + 1 = 2 * l + 1
  <2>1. PICK l \in 0..NLayers-1 : k + 1 = 2 * l + 1
    BY <1>4
  <2>2. Reader(k) = [params |-> "rms_att", layer |-> l]
    <3>1. k = 2 * l
      BY <2>1
    <3> QED BY <3>1, ReaderOf
  <2>3. LayerOf(k + 1) = l /\ Params(k + 1) = {"rms_att", "wq", "wk", "wv", "wo"}
    BY <2>1, SiteNames, ParamsOf
  <2> QED BY <1>1, <2>2, <2>3
<1>5. CASE \E l \in 0..NLayers-1 : k + 1 = 2 * l + 2
  <2>1. PICK l \in 0..NLayers-1 : k + 1 = 2 * l + 2
    BY <1>5
  <2>2. Reader(k) = [params |-> "rms_ffn", layer |-> l]
    <3>1. k = 2 * l + 1
      BY <2>1
    <3> QED BY <3>1, ReaderOf
  <2>3. LayerOf(k + 1) = l /\ Params(k + 1) = {"rms_ffn", "w1", "w3", "w2"}
    BY <2>1, SiteNames, ParamsOf
  <2> QED BY <1>1, <2>2, <2>3
<1> QED BY <1>1, <1>2, <1>3, <1>4, <1>5, SiteCases

-----------------------------------------------------------------------------
(* Lists, and what is added to them. *)
(* A list's indices. *)
LEMMA ListedFacts ==
  ASSUME NEW s, Listed(s)
  PROVE  Len(s) \in Nat /\ DOMAIN s = 1..Len(s) /\ (s = << >> <=> Len(s) = 0)
<1>1. PICK S : s \in Seq(S)
  BY DEF Listed
<1> QED BY <1>1, LenProperties, EmptySeq

(* A concatenation has the first list's elements, and then the second's. *)
LEMMA ListedConcat ==
  ASSUME NEW s, NEW t, Listed(s), Listed(t)
  PROVE  /\ Listed(s \o t) /\ Len(s \o t) = Len(s) + Len(t)
         /\ \A i \in DOMAIN s : i \in DOMAIN (s \o t) /\ (s \o t)[i] = s[i]
         /\ \A i \in DOMAIN (s \o t) :
              \/ i \in DOMAIN s /\ (s \o t)[i] = s[i]
              \/ \E j \in DOMAIN t : i = Len(s) + j /\ (s \o t)[i] = t[j]
<1>1. PICK A : s \in Seq(A)
  BY DEF Listed
<1>2. PICK B : t \in Seq(B)
  BY DEF Listed
<1> DEFINE S == A \cup B
<1>3. s \in Seq(S) /\ t \in Seq(S)
  <2>1. \A i \in 1..Len(s) : s[i] \in S
    BY <1>1, ElementOfSeq, LenProperties
  <2>2. \A i \in 1..Len(t) : t[i] \in S
    BY <1>2, ElementOfSeq, LenProperties
  <2>3. s \in [1..Len(s) -> S] /\ Len(s) \in Nat
    BY <1>1, <2>1, LenProperties
  <2>4. t \in [1..Len(t) -> S] /\ Len(t) \in Nat
    BY <1>2, <2>2, LenProperties
  <2> QED BY <2>3, <2>4, SeqDef
<1> HIDE DEF S
<1> DEFINE c == s \o t
<1>4. /\ c \in Seq(S) /\ Len(c) = Len(s) + Len(t)
      /\ \A i \in 1..Len(s) + Len(t) : c[i] = IF i <= Len(s) THEN s[i] ELSE t[i - Len(s)]
  BY <1>3, ConcatProperties
<1>5. Len(s) \in Nat /\ Len(t) \in Nat /\ DOMAIN s = 1..Len(s) /\ DOMAIN t = 1..Len(t)
  BY <1>3, LenProperties
<1> HIDE DEF c
<1>6. DOMAIN c = 1..Len(s) + Len(t)
  BY <1>4, LenProperties
<1>7. \A i \in DOMAIN s : i \in DOMAIN c /\ c[i] = s[i]
  BY <1>4, <1>5, <1>6
<1>8. ASSUME NEW i \in DOMAIN c
      PROVE  \/ i \in DOMAIN s /\ c[i] = s[i]
             \/ \E j \in DOMAIN t : i = Len(s) + j /\ c[i] = t[j]
  <2>1. CASE i <= Len(s)
    BY <1>4, <1>5, <1>6, <2>1
  <2>2. CASE ~ (i <= Len(s))
    <3>1. i - Len(s) \in DOMAIN t /\ i = Len(s) + (i - Len(s)) /\ c[i] = t[i - Len(s)]
      BY <1>4, <1>5, <1>6, <2>2
    <3> QED BY <3>1
  <2> QED BY <2>1, <2>2
<1>9. Listed(c)
  BY <1>4 DEF Listed
<1> QED BY <1>4, <1>7, <1>8, <1>9 DEF c

(* Tuples are lists. *)
LEMMA ShortLists ==
  /\ Listed(<< >>) /\ Len(<< >>) = 0
  /\ \A e : Listed(<<e>>) /\ Len(<<e>>) = 1 /\ <<e>>[1] = e
<1>1. Listed(<< >>) /\ Len(<< >>) = 0
  BY EmptySeq DEF Listed
<1>2. ASSUME NEW e
      PROVE  Listed(<<e>>) /\ Len(<<e>>) = 1 /\ <<e>>[1] = e
  <2>1. <<e>> \in Seq({e}) /\ Len(<<e>>) = 1 /\ <<e>>[1] = e
    OBVIOUS
  <2> QED BY <2>1 DEF Listed
<1> QED BY <1>1, <1>2

(* A list of one. *)
LEMMA Singletons == \A e : \A j \in DOMAIN <<e>> : <<e>>[j] = e
<1>1. ASSUME NEW e, NEW j \in DOMAIN <<e>> PROVE <<e>>[j] = e
  OBVIOUS
<1> QED BY <1>1

(* What a recorder lists, if it is attached. *)
Joined(c, s, r, t) == c = s \o When(r, t)

(* What it is given is listed after what it had. *)
LEMMA Recorded ==
  ASSUME NEW s, NEW t, NEW r, NEW c, Listed(s), Listed(t), Joined(c, s, r, t)
  PROVE  /\ Listed(c)
         /\ \A i \in DOMAIN c : (i \in DOMAIN s /\ c[i] = s[i]) \/ \E j \in DOMAIN t : c[i] = t[j]
<1>1. CASE r \in at.on
  <2>1. c = s \o t
    BY <1>1 DEF When, Joined
  <2>2. PICK d : d = s \o t
    OBVIOUS
  <2>3. /\ Listed(d)
        /\ \A i \in DOMAIN d :
             \/ i \in DOMAIN s /\ d[i] = s[i]
             \/ \E j \in DOMAIN t : i = Len(s) + j /\ d[i] = t[j]
    BY <2>2, ListedConcat
  <2> QED BY <2>1, <2>2, <2>3, Zenon
<1>2. CASE r \notin at.on
  <2>1. When(r, t) = << >>
    BY <1>2 DEF When
  <2>2. s \o << >> = s
    <3>1. PICK S : s \in Seq(S)
      BY DEF Listed
    <3> QED BY <3>1, ConcatEmptySeq
  <2>3. c = s
    BY <2>1, <2>2 DEF Joined
  <2> QED BY <2>3
<1> QED BY <1>1, <1>2

-----------------------------------------------------------------------------
(* The causes of a site, as their recursive definition says. *)
Cause == ({"override", "token"} \X Nat)

CausesRight ==
  \A t \in 0..NTokens-1, k \in Site :
    Causes[<<t, k>>] = IF Replaced(t, k) THEN {<<"override", Max(OverridesOf(t, k))>>}
                       ELSE IF k = 0 THEN {<<"token", t>>}
                       ELSE UNION {Causes[s] : s \in Feeds(t, k)}

(* A bounded set of numbers that is not empty has a maximum. *)
LEMMA MaxOfSome ==
  ASSUME NEW S, S \subseteq Nat, S # {}, NEW n \in Nat, \A i \in S : i <= n
  PROVE  Max(S) \in S /\ \A i \in S : i <= Max(S)
<1> DEFINE T == {n - i : i \in S}
<1>1. T \subseteq Nat /\ T # {}
  <2>1. \A i \in S : n - i \in Nat
    OBVIOUS
  <2> QED BY <2>1
<1>2. PICK m \in T : \A i \in T : m <= i
  BY <1>1, LeastElement
<1>3. PICK j \in S : m = n - j
  OBVIOUS
<1>4. \A i \in S : j >= i
  <2>1. \A i \in S : n - i \in T
    OBVIOUS
  <2>2. ASSUME NEW i \in S PROVE j >= i
    <3>1. n - j <= n - i /\ i \in Nat /\ j \in Nat
      BY <1>2, <1>3, <2>1
    <3> QED BY <3>1
  <2> QED BY <2>2
<1>5. \E v : v \in S /\ \A i \in S : v >= i
  BY <1>3, <1>4
<1>6. Max(S) \in S /\ \A i \in S : Max(S) >= i
  BY <1>5 DEF Max
<1>7. \A i \in S : i \in Nat
  OBVIOUS
<1> QED BY <1>6, <1>7

(* The recursive definition has a solution, and Causes is it. *)
LEMMA CausesDefined == Typed => CausesRight
<1> SUFFICES ASSUME Typed PROVE CausesRight
  OBVIOUS
<1> DEFINE Cut(t, k) == {<<"override", Max(OverridesOf(t, k))>>}
           V == [0..NTokens-1 -> SUBSET Cause]
           D == {k \in Nat : k # 0}
           h == [k \in Nat |-> IF k = 0 THEN 0 ELSE k - 1]
           base == [k \in Nat |-> [t \in 0..NTokens-1 |->
                      IF Replaced(t, 0) THEN Cut(t, 0) ELSE {<<"token", t>>}]]
           Above(t, k) == {u \in 0..t : u = t \/ Checkpoint(k) = "post_attn"}
           step == [k \in Nat |-> [c \in V |-> [t \in 0..NTokens-1 |->
                      IF Replaced(t, k) THEN Cut(t, k) ELSE UNION {c[u] : u \in Above(t, k)}]]]
<1>1. ASSUME NEW t \in 0..NTokens-1, NEW k \in Nat, Replaced(t, k)
      PROVE  Cut(t, k) \in SUBSET Cause
  <2>1. OverridesOf(t, k) # {} /\ OverridesOf(t, k) \subseteq 1..known[t]
    BY <1>1 DEF Replaced, OverridesOf
  <2>2. known[t] \in Nat
    <3>1. Len(plan) \in Nat
      BY LenProperties DEF Typed
    <3> QED BY <3>1 DEF Typed
  <2>3. Max(OverridesOf(t, k)) \in OverridesOf(t, k)
    <3>1. OverridesOf(t, k) \subseteq Nat /\ \A i \in OverridesOf(t, k) : i <= known[t]
      BY <2>1, <2>2
    <3> QED BY <2>1, <2>2, <3>1, MaxOfSome
  <2>4. Max(OverridesOf(t, k)) \in Nat
    BY <2>1, <2>2, <2>3
  <2> QED BY <2>4 DEF Cause
<1> HIDE DEF Cut
<1>2. base \in [Nat -> V]
  <2>1. ASSUME NEW t \in 0..NTokens-1
        PROVE  (IF Replaced(t, 0) THEN Cut(t, 0) ELSE {<<"token", t>>}) \in SUBSET Cause
    <3>1. {<<"token", t>>} \in SUBSET Cause
      BY DEF Cause
    <3> QED BY <1>1, <3>1
  <2> QED BY <2>1
<1>3. step \in [Nat -> [V -> V]]
  <2>1. ASSUME NEW k \in Nat, NEW c \in V, NEW t \in 0..NTokens-1
        PROVE  (IF Replaced(t, k) THEN Cut(t, k) ELSE UNION {c[u] : u \in Above(t, k)}) \in SUBSET Cause
    <3>1. \A u \in 0..t : u \in 0..NTokens-1
      BY RecSizes
    <3>2. UNION {c[u] : u \in Above(t, k)} \in SUBSET Cause
      BY <3>1
    <3> QED BY <1>1, <3>2
  <2> QED BY <2>1
<1>4. h \in [Nat -> Nat] /\ D \in SUBSET Nat /\ \A k \in D : h[k] < k
  OBVIOUS
<1>5. \A k \in Nat : base[k] = base[0]
  OBVIOUS
<1>6. \A k \in Nat, c \in V, t \in 0..NTokens-1 :
        step[k][c][t] = IF Replaced(t, k) THEN Cut(t, k) ELSE UNION {c[u] : u \in Above(t, k)}
  OBVIOUS
<1>7. \A t \in 0..NTokens-1 : base[0][t] = IF Replaced(t, 0) THEN Cut(t, 0) ELSE {<<"token", t>>}
  OBVIOUS
<1>8. \A k \in Nat : (k \in D <=> k # 0) /\ (k # 0 => h[k] = k - 1)
  OBVIOUS
<1> HIDE DEF V, D, h, base, step
<1>9. PICK f \in [Nat -> V] : Solves(f, D, h, base, step)
  BY <1>2, <1>3, <1>4, Recursion
<1>10. /\ \A t \in 0..NTokens-1 : f[0][t] = IF Replaced(t, 0) THEN Cut(t, 0) ELSE {<<"token", t>>}
       /\ \A k \in Nat, t \in 0..NTokens-1 :
            k # 0 => f[k][t] = IF Replaced(t, k) THEN Cut(t, k)
                               ELSE UNION {f[k - 1][u] : u \in Above(t, k)}
  <2>1. f[0] = base[0]
    BY <1>8, <1>9 DEF Solves
  <2>2. ASSUME NEW k \in Nat, k # 0
        PROVE  f[k] = step[k][f[k - 1]] /\ f[k - 1] \in V
    BY <1>8, <1>9, <2>2 DEF Solves
  <2>3. ASSUME NEW k \in Nat, NEW t \in 0..NTokens-1, k # 0
        PROVE  f[k][t] = IF Replaced(t, k) THEN Cut(t, k) ELSE UNION {f[k - 1][u] : u \in Above(t, k)}
    <3>1. PICK c \in V : c = f[k - 1] /\ f[k] = step[k][c]
      BY <2>2, <2>3
    <3> HIDE DEF Above
    <3>2. f[k][t] = IF Replaced(t, k) THEN Cut(t, k) ELSE UNION {c[u] : u \in Above(t, k)}
      <4>1. step[k][c][t] = IF Replaced(t, k) THEN Cut(t, k) ELSE UNION {c[u] : u \in Above(t, k)}
        BY <1>6, Zenon
      <4>2. f[k][t] = step[k][c][t]
        BY <3>1
      <4> QED BY <4>1, <4>2, Zenon
    <3> QED BY <3>1, <3>2
  <2>4. \A t \in 0..NTokens-1 : f[0][t] = IF Replaced(t, 0) THEN Cut(t, 0) ELSE {<<"token", t>>}
    BY <1>7, <2>1
  <2> HIDE DEF Above
  <2> QED BY <2>3, <2>4
<1> DEFINE S == (0..NTokens-1) \X (0..LastSite)
           Body(g, t, k) == IF Replaced(t, k) THEN Cut(t, k)
                            ELSE IF k = 0 THEN {<<"token", t>>}
                            ELSE UNION {g[s] : s \in Feeds(t, k)}
           g == [site \in S |-> f[site[2]][site[1]]]
<1>11. \A t \in 0..NTokens-1, k \in 0..LastSite : g[<<t, k>>] = f[k][t]
  BY RecSizes
<1>12. ASSUME NEW t \in 0..NTokens-1, NEW k \in 0..LastSite
       PROVE  g[<<t, k>>] = Body(g, t, k)
  <2> HIDE DEF g
  <2>1. CASE k = 0
    BY <1>10, <1>11, <2>1
  <2>2. CASE k # 0
    <3>1. k \in Nat /\ k - 1 \in 0..LastSite
      BY <2>2, RecSizes
    <3>2. {f[k - 1][u] : u \in Above(t, k)} = {g[s] : s \in Feeds(t, k)}
      <4>1. Feeds(t, k) = {<<u, k - 1>> : u \in Above(t, k)}
        BY RecSizes DEF Feeds
      <4>2. \A u \in Above(t, k) : g[<<u, k - 1>>] = f[k - 1][u]
        <5>1. \A u \in Above(t, k) : u \in 0..NTokens-1
          BY RecSizes
        <5> QED BY <1>11, <3>1, <5>1
      <4> HIDE DEF Above
      <4>3. {g[s] : s \in {<<u, k - 1>> : u \in Above(t, k)}} = {g[<<u, k - 1>>] : u \in Above(t, k)}
        OBVIOUS
      <4>4. {g[<<u, k - 1>>] : u \in Above(t, k)} = {f[k - 1][u] : u \in Above(t, k)}
        BY <4>2
      <4> QED BY <4>1, <4>3, <4>4
    <3> HIDE DEF Above
    <3>3. f[k][t] = IF Replaced(t, k) THEN Cut(t, k) ELSE UNION {f[k - 1][u] : u \in Above(t, k)}
      BY <1>10, <2>2, <3>1
    <3> QED BY <1>11, <2>2, <3>2, <3>3
  <2> QED BY <2>1, <2>2
<1>13. g = [site \in S |-> Body(g, site[1], site[2])]
  <2> DEFINE r == [site \in S |-> Body(g, site[1], site[2])]
  <2>1. \A site \in S : site[1] \in 0..NTokens-1 /\ site[2] \in 0..LastSite /\ site = <<site[1], site[2]>>
    OBVIOUS
  <2>2. \A site \in S : g[site] = Body(g, site[1], site[2])
    <3> HIDE DEF g, Body, S
    <3> QED BY <1>12, <2>1
  <2>3. g = [site \in S |-> g[site]]
    OBVIOUS
  <2> HIDE DEF Body, S
  <2>4. [site \in S |-> g[site]] = [site \in S |-> Body(g, site[1], site[2])]
    <3> HIDE DEF g
    <3> QED BY <2>2
  <2> QED BY <2>3, <2>4, Zenon
<1>14. Causes = CHOOSE c : c = [site \in S |-> Body(c, site[1], site[2])]
  BY Zenon DEF Causes, Cut
<1> HIDE DEF g
<1>15. Causes = [site \in S |-> Body(Causes, site[1], site[2])]
  <2> HIDE DEF Body, S
  <2> QED BY <1>13, <1>14, Zenon
<1>16. ASSUME NEW t \in 0..NTokens-1, NEW k \in Site
       PROVE  Causes[<<t, k>>] = Body(Causes, t, k)
  <2>1. <<t, k>> \in S /\ <<t, k>>[1] = t /\ <<t, k>>[2] = k
    BY DEF Site
  <2> HIDE DEF Body, S
  <2> QED BY <1>15, <2>1
<1> QED BY <1>16 DEF CausesRight, Cut

(* The plan a token was processed with determines its causes. *)
LEMMA CausesKept ==
  ASSUME Typed, Typed', NEW T \in Nat,
         \A t \in 0..NTokens-1 :
           t < T => known'[t] = known[t] /\ \A i \in 1..known[t] : plan'[i] = plan[i]
  PROVE  \A t \in 0..NTokens-1, k \in Site : t < T => Causes'[<<t, k>>] = Causes[<<t, k>>]
<1>1. CausesRight
  BY CausesDefined
<1>2. CausesRight'
  <2>1. (Typed => CausesRight)'
    BY CausesDefined, PTL
  <2> QED BY <2>1
<1>3. ASSUME NEW t \in 0..NTokens-1, NEW k \in Site, t < T
      PROVE  /\ OverridesOf(t, k)' = OverridesOf(t, k)
             /\ Replaced(t, k)' <=> Replaced(t, k)
  <2>1. OverridesOf(t, k)' = OverridesOf(t, k)
    BY <1>3 DEF OverridesOf
  <2>2. OverridesOf(t, k) # {} => Max(OverridesOf(t, k)) \in 1..known[t]
    <3>1. OverridesOf(t, k) \subseteq 1..known[t]
      BY DEF OverridesOf
    <3>2. known[t] \in Nat
      <4>1. Len(plan) \in Nat
        BY LenProperties DEF Typed
      <4> QED BY <4>1 DEF Typed
    <3>3. OverridesOf(t, k) \subseteq Nat /\ \A i \in OverridesOf(t, k) : i <= known[t]
      BY <3>1, <3>2
    <3> QED BY <3>1, <3>2, <3>3, MaxOfSome
  <2>3. OverridesOf(t, k) # {} =>
          plan'[Max(OverridesOf(t, k)')] = plan[Max(OverridesOf(t, k))]
    BY <1>3, <2>1, <2>2
  <2>4. Replaced(t, k)' <=> Replaced(t, k)
    BY <2>1, <2>3 DEF Replaced
  <2> QED BY <2>1, <2>4
<1> DEFINE Bad == {k \in Nat : k \in Site /\ \E t \in 0..NTokens-1 : t < T /\ Causes'[<<t, k>>] # Causes[<<t, k>>]}
<1>4. SUFFICES ASSUME Bad # {} PROVE FALSE
  <2>1. \A k \in Site : k \in Nat
    BY RecSizes DEF Site
  <2> QED BY <2>1
<1>5. PICK m \in Bad : \A k \in Bad : m <= k
  BY <1>4, LeastElement
<1>6. PICK t \in 0..NTokens-1 : t < T /\ Causes'[<<t, m>>] # Causes[<<t, m>>]
  OBVIOUS
<1>7. m \in Site /\ m \in Nat
  OBVIOUS
<1>8. ASSUME m # 0, NEW s \in Feeds(t, m)
      PROVE  Causes'[s] = Causes[s]
  <2>1. PICK u \in 0..t : s = <<u, m - 1>>
    BY <1>6 DEF Feeds
  <2>2. u \in 0..NTokens-1 /\ u < T
    BY <1>6, RecSizes
  <2>3. m - 1 \in Nat /\ m - 1 \in Site /\ ~ (m <= m - 1)
    BY <1>7, <1>8, RecSizes DEF Site
  <2>4. m - 1 \notin Bad
    BY <1>5, <2>3
  <2> QED BY <2>1, <2>2, <2>3, <2>4
<1> HIDE DEF Bad
<1>9. Causes[<<t, m>>] = IF Replaced(t, m) THEN {<<"override", Max(OverridesOf(t, m))>>}
                         ELSE IF m = 0 THEN {<<"token", t>>}
                         ELSE UNION {Causes[s] : s \in Feeds(t, m)}
  BY <1>1, <1>7 DEF CausesRight
<1>10. Causes'[<<t, m>>] = IF Replaced(t, m)' THEN {<<"override", Max(OverridesOf(t, m)')>>}
                          ELSE IF m = 0 THEN {<<"token", t>>}
                          ELSE UNION {Causes'[s] : s \in Feeds(t, m)}
  BY <1>2, <1>7 DEF CausesRight
<1>11. m # 0 => {Causes'[s] : s \in Feeds(t, m)} = {Causes[s] : s \in Feeds(t, m)}
  BY <1>8
<1> QED BY <1>3, <1>6, <1>7, <1>9, <1>10, <1>11

(* So a step that leaves the plan alone leaves the causes alone. *)
LEMMA CausesSame ==
  ASSUME Typed, Typed', plan' = plan, known' = known
  PROVE  \A t \in 0..NTokens-1, k \in Site : Causes'[<<t, k>>] = Causes[<<t, k>>]
<1>1. PICK T \in Nat : T = NTokens
  BY RecSizes
<1>2. \A t \in 0..NTokens-1 : t < T => known'[t] = known[t] /\ \A i \in 1..known[t] : plan'[i] = plan[i]
  OBVIOUS
<1>3. \A t \in 0..NTokens-1, k \in Site : t < T => Causes'[<<t, k>>] = Causes[<<t, k>>]
  BY <1>2, CausesKept
<1>4. \A t \in 0..NTokens-1 : t < T
  BY <1>1, RecSizes
<1> QED BY <1>3, <1>4, Zenon

-----------------------------------------------------------------------------
(* The stages of a step. *)
LEMMA StageSite ==
  ASSUME Typed, at.stage \in {"embed"} \cup Running
  PROVE  /\ at.token \in 0..NTokens-1 /\ at.token \in Nat /\ at.layer \in 0..NLayers-1
         /\ SiteNow \in Site
         /\ at.stage = "embed" => SiteNow = 0
         /\ at.stage \in Running => SiteNow - 1 \in 0..LastSite-1 /\ SiteNow \in 1..LastSite
         /\ at.stage = "attn"  => SiteNow = 2 * at.layer + 1
         /\ at.stage = "ffn"   => SiteNow = 2 * at.layer + 2
         /\ at.stage = "final" => SiteNow = LastSite - 1
         /\ at.stage = "head"  => SiteNow = LastSite
<1>1. at.token \in 0..NTokens-1 /\ at.token \in Nat /\ at.layer \in 0..NLayers-1
  <2>1. at.token \in 0..NTokens /\ at.token < NTokens /\ at.layer \in 0..NLayers-1
    BY DEF Typed, Idle, Running
  <2> QED BY <2>1, RecSizes
<1>2. CASE at.stage = "embed"
  BY <1>1, <1>2, RecSizes DEF SiteNow, Site, Running
<1>3. CASE at.stage = "attn"
  BY <1>1, <1>3, RecSizes DEF SiteNow, Site, Running
<1>4. CASE at.stage = "ffn"
  BY <1>1, <1>4, RecSizes DEF SiteNow, Site, Running
<1>5. CASE at.stage = "final"
  BY <1>1, <1>5, RecSizes DEF SiteNow, Site, Running
<1>6. CASE at.stage = "head"
  BY <1>1, <1>6, RecSizes DEF SiteNow, Site, Running
<1> QED BY <1>2, <1>3, <1>4, <1>5, <1>6 DEF Running

(* What the override of a checkpoint leaves of the causes of what is computed there. *)
LEMMA OverriddenCauses ==
  ASSUME Typed, at.stage \in {"embed"} \cup Running, NEW tensor,
         Causes[<<at.token, SiteNow>>] =
           IF Replaced(at.token, SiteNow)
           THEN {<<"override", Max(OverridesOf(at.token, SiteNow))>>}
           ELSE tensor.causes
  PROVE  LET v == Overridden(Checkpoint(SiteNow), LayerOf(SiteNow), tensor)
         IN  /\ v.causes = Causes[<<at.token, SiteNow>>]
             /\ v.made = "override" \/ v = tensor
<1>1. Matching(Checkpoint(SiteNow), LayerOf(SiteNow)) = OverridesOf(at.token, SiteNow)
  <2>1. known[at.token] = Len(plan) /\ DOMAIN plan = 1..Len(plan)
    BY LenProperties DEF Typed, Idle, Running
  <2> QED BY <2>1 DEF Matching, OverridesOf
<1> QED BY <1>1 DEF Overridden, Lookup, Replaced, Tensor

(* The ops of a stage are its own, and the first reads the residual stream. *)
StageRecord(op) ==
  /\ OpAt(op, SiteNow) /\ op.output.token = at.token
  /\ op.params = Reader(SiteNow - 1).params => op.input = x

(* Every op of a stage is such, and a stage of the head has one. *)
LEMMA StageRecords ==
  ASSUME Typed, at.stage \in Running
  PROVE  /\ Listed(StageOps) /\ StageOps # << >>
         /\ \A m \in DOMAIN StageOps : StageRecord(StageOps[m])
         /\ at.stage \in {"final", "head"} => Len(StageOps) = 1 /\ StageOps[1] = StageOps[Len(StageOps)]
<1> DEFINE k == SiteNow
<1>1. at.layer \in 0..NLayers-1 /\ k \in Nat
  BY StageSite, RecSizes DEF Site
<1>2. ASSUME NEW op, NEW l, NEW name, NEW input, op = Op(op.op_name, name, l, input)
      PROVE  /\ op.layer = l /\ op.params = name /\ op.input = input
             /\ op.output.made = name /\ op.output.token = at.token
  <2>1. op = [op_name |-> op.op_name, layer |-> l, params |-> name, input |-> input,
              output |-> [made |-> name, layer |-> l, token |-> at.token, causes |-> input.causes]]
    BY <1>2 DEF Op, Tensor
  <2> QED BY <2>1
<1>3. \A w, l, input : LET op == RmsNorm(w, l, input) IN op = Op(op.op_name, w, l, input)
  BY DEF RmsNorm, Op
<1>4. \A w, l, input : LET op == Linear(w, l, input) IN op = Op(op.op_name, w, l, input)
  BY DEF Linear, Op
<1>5. CASE at.stage = "attn"
  <2>1. k = 2 * at.layer + 1 /\ LayerOf(k) = at.layer /\ Params(k) = {"rms_att", "wq", "wk", "wv", "wo"}
    BY <1>1, <1>5, StageSite, SiteNames, ParamsOf
  <2>2. Reader(k - 1).params = "rms_att"
    <3>1. k - 1 = 2 * at.layer
      BY <1>1, <2>1
    <3>2. PICK r : r = Reader(2 * at.layer) /\ r = [params |-> "rms_att", layer |-> at.layer]
      <4>1. Reader(2 * at.layer) = [params |-> "rms_att", layer |-> at.layer]
        BY <1>1, ReaderOf, Zenon
      <4> QED BY <4>1
    <3> QED BY <3>1, <3>2
  <2>3. PICK u : StageOps = <<RmsNorm("rms_att", at.layer, x), Linear("wq", at.layer, u),
                             Linear("wk", at.layer, u), Linear("wv", at.layer, u),
                             Linear("wo", at.layer, Heads)>>
    BY <1>5 DEF StageOps, AttentionOps
  <2>4. StageRecord(RmsNorm("rms_att", at.layer, x))
    BY <1>2, <1>3, <2>1, <2>2 DEF StageRecord, OpAt
  <2>5. ASSUME NEW w \in {"wq", "wk", "wv", "wo"}, NEW input
        PROVE  StageRecord(Linear(w, at.layer, input))
    <3>1. w \in Params(k) /\ w # Reader(k - 1).params
      BY <2>1, <2>2
    <3> QED BY <1>2, <1>4, <2>1, <3>1 DEF StageRecord, OpAt
  <2> HIDE DEF k
  <2>6. \A a, b, c, d, e : /\ Listed(<<a, b, c, d, e>>) /\ <<a, b, c, d, e>> # << >>
                          /\ \A m \in DOMAIN <<a, b, c, d, e>> : <<a, b, c, d, e>>[m] \in {a, b, c, d, e}
    <3>1. ASSUME NEW a, NEW b, NEW c, NEW d, NEW e
          PROVE  <<a, b, c, d, e>> \in Seq({a, b, c, d, e}) /\ <<a, b, c, d, e>> # << >>
      OBVIOUS
    <3> QED BY <3>1, ElementOfSeq, LenProperties, ZenonT(40) DEF Listed
  <2> QED BY <1>5, <2>3, <2>4, <2>5, <2>6
<1>6. CASE at.stage = "ffn"
  <2>1. k = 2 * at.layer + 2 /\ LayerOf(k) = at.layer /\ Params(k) = {"rms_ffn", "w1", "w3", "w2"}
    BY <1>1, <1>6, StageSite, SiteNames, ParamsOf
  <2>2. Reader(k - 1).params = "rms_ffn"
    <3>1. k - 1 = 2 * at.layer + 1
      BY <1>1, <2>1
    <3>2. PICK r : r = Reader(2 * at.layer + 1) /\ r = [params |-> "rms_ffn", layer |-> at.layer]
      <4>1. Reader(2 * at.layer + 1) = [params |-> "rms_ffn", layer |-> at.layer]
        BY <1>1, ReaderOf, Zenon
      <4> QED BY <4>1
    <3> QED BY <3>1, <3>2
  <2>3. PICK u, v : StageOps = <<RmsNorm("rms_ffn", at.layer, x), Linear("w1", at.layer, u),
                                Linear("w3", at.layer, u), Linear("w2", at.layer, v)>>
    BY <1>6 DEF StageOps, FeedForwardOps
  <2>4. StageRecord(RmsNorm("rms_ffn", at.layer, x))
    BY <1>2, <1>3, <2>1, <2>2 DEF StageRecord, OpAt
  <2>5. ASSUME NEW w \in {"w1", "w3", "w2"}, NEW input
        PROVE  StageRecord(Linear(w, at.layer, input))
    <3>1. w \in Params(k) /\ w # Reader(k - 1).params
      BY <2>1, <2>2
    <3> QED BY <1>2, <1>4, <2>1, <3>1 DEF StageRecord, OpAt
  <2> HIDE DEF k
  <2>6. \A a, b, c, d : /\ Listed(<<a, b, c, d>>) /\ <<a, b, c, d>> # << >>
                       /\ \A m \in DOMAIN <<a, b, c, d>> : <<a, b, c, d>>[m] \in {a, b, c, d}
    <3>1. ASSUME NEW a, NEW b, NEW c, NEW d
          PROVE  <<a, b, c, d>> \in Seq({a, b, c, d}) /\ <<a, b, c, d>> # << >>
      OBVIOUS
    <3> QED BY <3>1, ElementOfSeq, LenProperties DEF Listed
  <2> QED BY <1>6, <2>3, <2>4, <2>5, <2>6
<1>7. \A e : /\ Listed(<<e>>) /\ <<e>> # << >> /\ Len(<<e>>) = 1
             /\ \A m \in DOMAIN <<e>> : <<e>>[m] = e
  <2>1. ASSUME NEW e
        PROVE  <<e>> \in Seq({e}) /\ <<e>> # << >> /\ Len(<<e>>) = 1
    OBVIOUS
  <2>2. ASSUME NEW e, NEW m \in DOMAIN <<e>>
        PROVE  <<e>>[m] = e
    OBVIOUS
  <2> QED BY <2>1, <2>2 DEF Listed
<1>8. CASE at.stage = "final"
  <2>1. k = LastSite - 1 /\ LayerOf(k) = MAX /\ Params(k) = {"rms_final"}
    BY <1>8, StageSite, SiteNames, ParamsOf
  <2>2. StageOps = <<RmsNorm("rms_final", MAX, x)>>
    BY <1>8 DEF StageOps
  <2>3. StageRecord(RmsNorm("rms_final", MAX, x))
    BY <1>2, <1>3, <2>1 DEF StageRecord, OpAt
  <2> HIDE DEF k
  <2> QED BY <1>7, <1>8, <2>2, <2>3
<1>9. CASE at.stage = "head"
  <2>1. k = LastSite /\ LayerOf(k) = MAX /\ Params(k) = {HeadKey}
    BY <1>9, StageSite, SiteNames, ParamsOf
  <2>2. StageOps = <<Linear(HeadKey, MAX, x)>>
    BY <1>9 DEF StageOps
  <2>3. StageRecord(Linear(HeadKey, MAX, x))
    BY <1>2, <1>4, <2>1 DEF StageRecord, OpAt
  <2> HIDE DEF k
  <2> QED BY <1>7, <1>9, <2>2, <2>3
<1> QED BY <1>5, <1>6, <1>8, <1>9 DEF Running

-----------------------------------------------------------------------------
(* What a stage adds to the lists. *)
Old(new, old, i) == i \in DOMAIN old /\ new[i] = old[i]
Snapshot(v) == Entry(Checkpoint(SiteNow), LayerOf(SiteNow), v)

Adds(v) ==
  /\ \A i \in DOMAIN acts' : Old(acts', acts, i) \/ acts'[i] = Snapshot(v)
  /\ \A i \in DOMAIN lens' :
       \/ Old(lens', lens, i)
       \/ lens'[i] = Snapshot(v)
       \/ lens'[i].checkpoint = "pre_wo" /\ lens'[i].token \in Nat
  /\ \A j \in DOMAIN ops' :
       Old(ops', ops, j) \/ (at.stage \in Running /\ \E m \in DOMAIN StageOps : ops'[j] = StageOps[m])

(* Of the last two stages the output is the snapshot, or is overridden. *)
HeadOutput(v) == at.stage \in {"final", "head"} => v.made = "override" \/ v = StageOps[1].output

(* A snapshot is of the site being made. *)
LEMMA SnapshotFacts ==
  ASSUME NEW v
  PROVE  /\ Snapshot(v).token = at.token /\ Snapshot(v).tensor = v
         /\ IsSite(Snapshot(v), SiteNow)
BY DEF Snapshot, Entry, IsSite

(* No site is named for the heads or has another's block. *)
LEMMA SiteHead ==
  ASSUME NEW k \in Site
  PROVE  /\ Checkpoint(k) # "pre_wo"
         /\ Checkpoint(k) = "pre_lm_head" => k = LastSite - 1
         /\ Checkpoint(k) = "post_lm_head" => k = LastSite
         /\ LayerOf(k) = MAX => k = 0 \/ k = LastSite - 1 \/ k = LastSite
<1>1. \A l \in 0..NLayers-1 : l # MAX
  BY RecSizes
<1> QED BY <1>1, SiteCases, SiteNames

(* A site of this token that has been made is an earlier one. *)
LEMMA PassedEarlier ==
  ASSUME Typed, NEW k, Passed(at.token, k)
  PROVE  k < SiteNow
<1>1. at.token \in Nat
  BY RecSizes DEF Typed
<1> QED BY <1>1 DEF Passed

(* The snapshot just made and the ops before it: none reads it, none is taken for it. *)
LEMMA NewSnapshotFits ==
  ASSUME Typed, Ordered, at.stage \in {"embed"} \cup Running, NEW v, Adds(v), HeadOutput(v),
         NEW j \in DOMAIN ops', ops'[j].output.token = at.token
  PROVE  /\ \A k \in 0..LastSite-1 :
              ~ (/\ IsSite(Snapshot(v), k)
                 /\ ops'[j].params = Reader(k).params /\ ops'[j].layer = Reader(k).layer)
         /\ Snapshot(v).checkpoint \in {"pre_lm_head", "post_lm_head"} /\ v.made # "override"
            /\ ops'[j].output.made = v.made /\ ops'[j].layer = MAX
              => ops'[j].output = v
<1> DEFINE n == SiteNow
<1>1. n \in Site /\ Site \subseteq Nat
  BY StageSite, RecSizes DEF Site
<1>2. PICK o : o \in 1..LastSite /\ OpAt(ops'[j], o) /\ (o < n \/ (at.stage \in Running /\ o = n))
  <2>1. CASE Old(ops', ops, j)
    <3>1. PICK o \in 1..LastSite : OpAt(ops[j], o) /\ Passed(ops[j].output.token, o)
      BY <2>1 DEF Ordered, Old
    <3> QED BY <2>1, <3>1, PassedEarlier DEF Old
  <2>2. CASE at.stage \in Running /\ \E m \in DOMAIN StageOps : ops'[j] = StageOps[m]
    BY <2>2, StageSite, StageRecords DEF StageRecord
  <2> QED BY <2>1, <2>2 DEF Adds
<1> HIDE DEF n
<1>3. o \in Site /\ o \in Nat /\ n \in Nat
  BY <1>1, <1>2, RecSizes DEF Site
<1>4. ASSUME NEW k \in 0..LastSite-1, IsSite(Snapshot(v), k),
             ops'[j].params = Reader(k).params, ops'[j].layer = Reader(k).layer
      PROVE  FALSE
  <2>1. k \in Site /\ k + 1 \in Site /\ OpAt(ops'[j], k + 1)
    BY <1>2, <1>4, ReaderNext DEF OpAt
  <2>2. k = n
    BY <1>1, <1>4, <2>1, SnapshotFacts, SiteUnique DEF IsSite, n
  <2>3. o = k + 1
    BY <1>2, <1>3, <2>1, OpUnique
  <2> QED BY <1>2, <1>3, <2>2, <2>3
<1>5. ASSUME Snapshot(v).checkpoint \in {"pre_lm_head", "post_lm_head"}, v.made # "override",
             ops'[j].output.made = v.made, ops'[j].layer = MAX
      PROVE  ops'[j].output = v
  <2>1. Checkpoint(n) \in {"pre_lm_head", "post_lm_head"}
    BY <1>5, SnapshotFacts DEF IsSite, n
  <2>2. n = LastSite - 1 \/ n = LastSite
    BY <1>1, <2>1, SiteHead
  <2>3. at.stage \in {"final", "head"}
    <3>1. at.layer \in 0..NLayers-1 /\ at.stage = "embed" => n = 0
      BY StageSite DEF n
    <3>2. at.stage \notin {"attn", "ffn"}
      BY <2>2, StageSite, RecSizes DEF n, Running
    <3>3. at.stage # "embed"
      BY <2>2, StageSite, RecSizes DEF n
    <3> QED BY <3>2, <3>3 DEF Running
  <2>4. v = StageOps[1].output /\ Len(StageOps) = 1 /\ StageRecord(StageOps[1]) /\ DOMAIN StageOps = {1}
    <3>1. Listed(StageOps) /\ Len(StageOps) = 1 /\ \A m \in DOMAIN StageOps : StageRecord(StageOps[m])
      BY <2>3, StageRecords DEF Running
    <3>2. DOMAIN StageOps = 1..1
      BY <3>1, ListedFacts
    <3> QED BY <1>5, <2>3, <3>1, <3>2 DEF HeadOutput
  <2>5. v.made \in Params(n)
    BY <2>4 DEF StageRecord, OpAt, n
  <2>6. o = n
    <3>1. o = LastSite - 1 \/ o = LastSite
      <4>1. LayerOf(o) = MAX /\ o # 0
        BY <1>2, <1>5, RecSizes DEF OpAt
      <4> QED BY <1>3, <4>1, SiteHead
    <3>2. CASE o = n
      BY <3>2
    <3>3. CASE o < n
      <4>1. o = LastSite - 1 /\ n = LastSite
        BY <1>3, <2>2, <3>1, <3>3, RecSizes
      <4>2. ops'[j].output.made = "rms_final" /\ v.made = HeadKey
        BY <1>2, <2>5, <4>1, ParamsOf DEF OpAt
      <4> QED BY <1>5, <4>2 DEF HeadKey
    <3> QED BY <1>2, <3>2, <3>3
  <2>7. CASE Old(ops', ops, j)
    <3>1. PICK p \in 1..LastSite : OpAt(ops'[j], p) /\ Passed(at.token, p)
      BY <2>7 DEF Ordered, Old
    <3>2. p < n /\ p \in Site /\ p \in Nat
      BY <3>1, PassedEarlier, RecSizes DEF n, Site
    <3>3. p = o
      BY <1>2, <1>3, <3>1, <3>2, OpUnique
    <3> QED BY <1>3, <2>6, <3>2, <3>3
  <2>8. CASE \E m \in DOMAIN StageOps : ops'[j] = StageOps[m]
    BY <2>4, <2>8
  <2> QED BY <2>7, <2>8 DEF Adds
<1> QED BY <1>4, <1>5

(* The ops a stage adds and the snapshots before it: what reads one reads it as it was. *)
LEMMA OldSnapshotFits ==
  ASSUME Typed, Ordered, SnapshotIsStream, HeadMade, RecordsFitTogether,
         at.stage \in {"embed"} \cup Running, NEW v, Adds(v),
         NEW i \in DOMAIN acts, NEW j \in DOMAIN ops', ops'[j].output.token = acts[i].token
  PROVE  /\ \A k \in 0..LastSite-1 :
              (/\ IsSite(acts[i], k)
               /\ ops'[j].params = Reader(k).params /\ ops'[j].layer = Reader(k).layer)
                => ops'[j].input = acts[i].tensor
         /\ acts[i].checkpoint \in {"pre_lm_head", "post_lm_head"} /\ acts[i].tensor.made # "override"
            /\ ops'[j].output.made = acts[i].tensor.made /\ ops'[j].layer = MAX
              => ops'[j].output = acts[i].tensor
<1> DEFINE n == SiteNow
           a == acts[i]
<1>1. n \in Site /\ n \in Nat
  BY StageSite, RecSizes DEF Site
<1>2. CASE Old(ops', ops, j)
  <2>1. j \in DOMAIN ops /\ ops'[j] = ops[j]
    BY <1>2 DEF Old
  <2> QED BY <2>1 DEF RecordsFitTogether, IsSite
<1>3. CASE at.stage \in Running /\ \E m \in DOMAIN StageOps : ops'[j] = StageOps[m]
  <2>1. StageRecord(ops'[j]) /\ n \in 1..LastSite
    BY <1>3, StageRecords, StageSite
  <2>2. a.token = at.token
    BY <2>1 DEF StageRecord
  <2>3. PICK o \in Site : IsSite(a, o) /\ o < n
    <3>1. PICK o \in Site : IsSite(a, o) /\ Passed(at.token, o)
      BY <2>2 DEF Ordered
    <3> QED BY <3>1, PassedEarlier
  <2>4. o \in Nat
    BY RecSizes DEF Site
  <2> HIDE DEF n, a
  <2>5. ASSUME NEW k \in 0..LastSite-1, IsSite(a, k),
               ops'[j].params = Reader(k).params, ops'[j].layer = Reader(k).layer
        PROVE  ops'[j].input = a.tensor
    <3>1. k \in Site /\ k + 1 \in Site /\ OpAt(ops'[j], k + 1)
      BY <2>1, <2>5, ReaderNext DEF OpAt, StageRecord
    <3>2. k + 1 = n /\ k \in Nat
      BY <1>1, <2>1, <3>1, OpUnique, RecSizes DEF StageRecord, n, Site
    <3>3. k = n - 1
      BY <1>1, <3>2
    <3>4. ops'[j].input = x
      BY <2>1, <2>5, <3>3 DEF StageRecord, n
    <3>5. a.tensor = x
      BY <1>3, <2>2, <2>5, <3>3 DEF SnapshotIsStream, a, n
    <3> QED BY <3>4, <3>5
  <2>6. ASSUME a.checkpoint \in {"pre_lm_head", "post_lm_head"}, a.tensor.made # "override",
               ops'[j].output.made = a.tensor.made
        PROVE  FALSE
    <3>1. o = LastSite - 1 \/ o = LastSite
      BY <2>3, <2>6, SiteHead DEF IsSite
    <3>2. o = LastSite - 1 /\ n = LastSite
      BY <1>1, <2>1, <2>3, <3>1, RecSizes
    <3>3. a.tensor.made = "rms_final"
      <4>1. a.checkpoint = "pre_lm_head"
        BY <2>3, <3>2, SiteNames DEF IsSite
      <4> QED BY <2>6, <4>1 DEF HeadMade, a
    <3>4. ops'[j].output.made = HeadKey
      BY <2>1, <3>2, ParamsOf DEF StageRecord, OpAt, n
    <3> QED BY <2>6, <3>3, <3>4 DEF HeadKey
  <2> QED BY <2>5, <2>6 DEF a
<1> QED BY <1>2, <1>3 DEF Adds

(* So the lists go on fitting together. *)
LEMMA AddsFit ==
  ASSUME Typed, Ordered, SnapshotIsStream, HeadMade, RecordsFitTogether,
         at.stage \in {"embed"} \cup Running, NEW v, Adds(v), HeadOutput(v)
  PROVE  RecordsFitTogether' /\ HeadMade'
<1> DEFINE n == SiteNow
<1>1. n \in Site /\ n \in Nat
  BY StageSite, RecSizes DEF Site
<1>2. ASSUME NEW i \in DOMAIN acts'
      PROVE  \/ i \in DOMAIN acts /\ acts'[i] = acts[i]
             \/ acts'[i] = Snapshot(v)
  BY DEF Adds, Old
<1>3. ASSUME NEW i \in DOMAIN acts', NEW j \in DOMAIN ops', ops'[j].output.token = acts'[i].token
      PROVE  /\ \A k \in 0..LastSite-1 :
                  (/\ IsSite(acts'[i], k)
                   /\ ops'[j].params = Reader(k).params /\ ops'[j].layer = Reader(k).layer)
                    => ops'[j].input = acts'[i].tensor
             /\ acts'[i].checkpoint \in {"pre_lm_head", "post_lm_head"} /\ acts'[i].tensor.made # "override"
                /\ ops'[j].output.made = acts'[i].tensor.made /\ ops'[j].layer = MAX
                  => ops'[j].output = acts'[i].tensor
  <2>1. CASE i \in DOMAIN acts /\ acts'[i] = acts[i]
    <3>1. ops'[j].output.token = acts[i].token
      BY <1>3, <2>1
    <3> QED BY <2>1, <3>1, OldSnapshotFits
  <2>2. CASE acts'[i] = Snapshot(v)
    <3>1. ops'[j].output.token = at.token /\ Snapshot(v).tensor = v
      BY <1>3, <2>2, SnapshotFacts
    <3> QED BY <2>2, <3>1, NewSnapshotFits
  <2> QED BY <1>2, <2>1, <2>2
<1>4. ASSUME NEW i \in DOMAIN acts', NEW j \in DOMAIN lens', lens'[j].token = acts'[i].token,
             lens'[j].layer = acts'[i].layer, lens'[j].checkpoint = acts'[i].checkpoint
      PROVE  lens'[j] = acts'[i]
  <2> DEFINE a == acts'[i]
             e == lens'[j]
  <2>1. PICK o \in Site : IsSite(a, o) /\ (o = n \/ Old(acts', acts, i))
    <3>1. CASE Old(acts', acts, i)
      BY <3>1 DEF Ordered, Old
    <3>2. CASE a = Snapshot(v)
      BY <1>1, <3>2, SnapshotFacts
    <3> QED BY <1>2, <3>1, <3>2 DEF Old
  <2>2. e.checkpoint # "pre_wo"
    BY <1>4, <2>1, SiteHead DEF IsSite
  <2>3. ASSUME NEW y \in Site, IsSite(e, y) PROVE y = o
    BY <1>4, <2>1, <2>3, SiteUnique DEF IsSite
  <2>4. CASE Old(lens', lens, j)
    <3>1. PICK y \in Site : IsSite(e, y) /\ Passed(e.token, y)
      BY <2>2, <2>4 DEF Ordered, Old
    <3>2. y = o /\ y \in Nat
      BY <2>3, <3>1, RecSizes DEF Site
    <3>3. CASE i \in DOMAIN acts /\ acts'[i] = acts[i]
      BY <1>4, <2>4, <3>3 DEF RecordsFitTogether, Old
    <3>4. CASE a = Snapshot(v)
      <4>1. e.token = at.token /\ IsSite(a, n)
        BY <1>4, <3>4, SnapshotFacts
      <4>2. o = n
        BY <1>1, <2>1, <4>1, SiteUnique DEF IsSite
      <4> QED BY <1>1, <3>1, <3>2, <4>1, <4>2, PassedEarlier
    <3> QED BY <1>2, <3>3, <3>4
  <2>5. CASE e = Snapshot(v)
    <3>1. o = n
      BY <1>1, <2>3, <2>5, SnapshotFacts
    <3>2. CASE i \in DOMAIN acts /\ acts'[i] = acts[i]
      <4>1. PICK y \in Site : IsSite(a, y) /\ Passed(a.token, y)
        BY <3>2 DEF Ordered
      <4>2. y = o /\ y \in Nat
        <5>1. Checkpoint(y) = Checkpoint(o) /\ LayerOf(y) = LayerOf(o)
          BY <2>1, <4>1 DEF IsSite
        <5> QED BY <4>1, <5>1, SiteUnique, RecSizes DEF Site
      <4>3. a.token = at.token
        BY <1>4, <2>5, SnapshotFacts
      <4> QED BY <1>1, <3>1, <4>1, <4>2, <4>3, PassedEarlier
    <3> QED BY <1>2, <2>5, <3>2
  <2> QED BY <2>2, <2>4, <2>5 DEF Adds
<1>5. RecordsFitTogether'
  BY <1>3, <1>4 DEF RecordsFitTogether, IsSite
<1>6. ASSUME NEW i \in DOMAIN acts', acts'[i].tensor.made # "override"
      PROVE  /\ acts'[i].checkpoint = "pre_lm_head" => acts'[i].tensor.made = "rms_final"
             /\ acts'[i].checkpoint = "post_lm_head" => acts'[i].tensor.made = HeadKey
  <2>1. CASE i \in DOMAIN acts /\ acts'[i] = acts[i]
    BY <1>6, <2>1 DEF HeadMade
  <2>2. CASE acts'[i] = Snapshot(v)
    <3>1. IsSite(acts'[i], n) /\ acts'[i].tensor = v
      BY <2>2, SnapshotFacts
    <3> HIDE DEF n
    <3>2. ASSUME NEW c \in {"final", "head"}, at.stage = c
          PROVE  v.made \in Params(n)
      <4>1. Listed(StageOps) /\ Len(StageOps) = 1 /\ \A m \in DOMAIN StageOps : StageRecord(StageOps[m])
        BY <3>2, StageRecords DEF Running
      <4>2. DOMAIN StageOps = 1..1
        BY <4>1, ListedFacts
      <4>3. StageRecord(StageOps[1])
        BY <4>1, <4>2
      <4>4. v = StageOps[1].output
        BY <1>6, <3>1, <3>2 DEF HeadOutput
      <4> QED BY <4>3, <4>4 DEF StageRecord, OpAt, n
    <3>3. ASSUME n = LastSite - 1 \/ n = LastSite
          PROVE  \E c \in {"final", "head"} : at.stage = c
      <4>1. at.stage \notin {"attn", "ffn"}
        BY <3>3, StageSite, RecSizes DEF n, Running
      <4>2. at.stage # "embed"
        BY <3>3, StageSite, RecSizes DEF n
      <4> QED BY <4>1, <4>2 DEF Running
    <3>4. ASSUME acts'[i].checkpoint = "pre_lm_head"
          PROVE  acts'[i].tensor.made = "rms_final"
      <4>1. n = LastSite - 1
        BY <1>1, <3>1, <3>4, SiteHead DEF IsSite
      <4> QED BY <3>1, <3>2, <3>3, <4>1, ParamsOf
    <3>5. ASSUME acts'[i].checkpoint = "post_lm_head"
          PROVE  acts'[i].tensor.made = HeadKey
      <4>1. n = LastSite
        BY <1>1, <3>1, <3>5, SiteHead DEF IsSite
      <4> QED BY <3>1, <3>2, <3>3, <4>1, ParamsOf
    <3> QED BY <3>4, <3>5
  <2> QED BY <1>2, <2>1, <2>2
<1>7. HeadMade'
  BY <1>6 DEF HeadMade
<1> QED BY <1>5, <1>7

(* What is recorded stays in the order of the sites. *)
LEMMA AddsOrdered ==
  ASSUME Typed, Ordered, at.stage \in {"embed"} \cup Running, NEW v, Adds(v),
         \A t \in Nat, k \in Site :
           Passed(t, k) \/ (t = at.token /\ k = SiteNow) => Passed(t, k)'
  PROVE  Ordered'
<1>1. SiteNow \in Site /\ at.token \in Nat
  BY StageSite
<1>2. IsSite(Snapshot(v), SiteNow) /\ Snapshot(v).token = at.token
  BY SnapshotFacts
<1>3. ASSUME NEW i \in DOMAIN acts'
      PROVE  \E t \in Nat, k \in Site : acts'[i].token = t /\ IsSite(acts'[i], k) /\ Passed(t, k)'
  <2>1. CASE Old(acts', acts, i)
    BY <2>1 DEF Ordered, Old
  <2>2. CASE acts'[i] = Snapshot(v)
    BY <1>1, <1>2, <2>2
  <2> QED BY <2>1, <2>2 DEF Adds
<1>4. ASSUME NEW i \in DOMAIN lens'
      PROVE  \/ lens'[i].token \in Nat /\ lens'[i].checkpoint = "pre_wo"
             \/ \E t \in Nat, k \in Site : lens'[i].token = t /\ IsSite(lens'[i], k) /\ Passed(t, k)'
  <2>1. CASE Old(lens', lens, i)
    BY <2>1 DEF Ordered, Old
  <2>2. CASE lens'[i] = Snapshot(v)
    BY <1>1, <1>2, <2>2
  <2> QED BY <2>1, <2>2 DEF Adds
<1>5. ASSUME NEW j \in DOMAIN ops'
      PROVE  \E t \in Nat, k \in 1..LastSite :
               ops'[j].output.token = t /\ OpAt(ops'[j], k) /\ Passed(t, k)'
  <2>1. CASE Old(ops', ops, j)
    <3>1. PICK k \in 1..LastSite : OpAt(ops'[j], k) /\ Passed(ops'[j].output.token, k)
      BY <2>1 DEF Ordered, Old
    <3>2. ops'[j].output.token \in Nat /\ k \in Site
      BY <2>1, RecSizes DEF Ordered, Old, Site
    <3> QED BY <3>1, <3>2
  <2>2. CASE at.stage \in Running /\ \E m \in DOMAIN StageOps : ops'[j] = StageOps[m]
    <3>1. StageRecord(ops'[j]) /\ SiteNow \in 1..LastSite
      BY <2>2, StageRecords, StageSite
    <3>2. OpAt(ops'[j], SiteNow) /\ ops'[j].output.token = at.token
      BY <3>1 DEF StageRecord
    <3> QED BY <1>1, <3>1, <3>2
  <2> QED BY <2>1, <2>2 DEF Adds
<1>6. (\A i \in DOMAIN acts : acts[i].token \in Nat /\ \E k \in Site : IsSite(acts[i], k) /\ Passed(acts[i].token, k))'
  BY <1>3 DEF Passed
<1>7. (\A i \in DOMAIN lens :
         lens[i].token \in Nat
         /\ (lens[i].checkpoint = "pre_wo" \/ \E k \in Site : IsSite(lens[i], k) /\ Passed(lens[i].token, k)))'
  BY <1>4 DEF Passed
<1>8. (\A j \in DOMAIN ops :
         ops[j].output.token \in Nat
         /\ \E k \in 1..LastSite : OpAt(ops[j], k) /\ Passed(ops[j].output.token, k))'
  BY <1>5 DEF Passed
<1> QED BY <1>6, <1>7, <1>8 DEF Ordered

(* The entries of a list of snapshots have the causes the plan gives them. *)
AsPlanned(list) ==
  \A i \in DOMAIN list, k \in Site : IsSite(list[i], k) => list[i].tensor.causes = Causes[<<list[i].token, k>>]

(* The property, in these terms. *)
LEMMA PlanFollowed ==
  CapturesFollowPlan <=> /\ AsPlanned(acts) /\ AsPlanned(lens)
                         /\ \A i \in DOMAIN logits : logits[i].causes = Causes[<<i - 1, LastSite>>]
BY DEF CapturesFollowPlan, AsPlanned, IsSite, Site

(* A stage whose tensor has the causes of its site keeps it so. *)
LEMMA AddsPlanned ==
  ASSUME Typed, Ordered, AsPlanned(acts), AsPlanned(lens),
         at.stage \in {"embed"} \cup Running, NEW v, Adds(v),
         v.causes = Causes[<<at.token, SiteNow>>],
         \A t \in 0..NTokens-1, k \in Site : Causes'[<<t, k>>] = Causes[<<t, k>>]
  PROVE  AsPlanned(acts)' /\ AsPlanned(lens)'
<1>1. SiteNow \in Site /\ at.token \in 0..NTokens-1
  BY StageSite
<1>2. /\ IsSite(Snapshot(v), SiteNow) /\ Snapshot(v).token = at.token /\ Snapshot(v).tensor = v
  BY SnapshotFacts
<1>3. ASSUME NEW k \in Site, IsSite(Snapshot(v), k)
      PROVE  Snapshot(v).tensor.causes = Causes'[<<Snapshot(v).token, k>>]
  <2>1. k = SiteNow
    BY <1>1, <1>2, <1>3, SiteUnique DEF IsSite
  <2> QED BY <1>1, <1>2, <2>1
<1>4. ASSUME NEW e, NEW o \in Site, NEW k \in Site, IsSite(e, o), IsSite(e, k),
             e.token \in Nat, Passed(e.token, o), e.tensor.causes = Causes[<<e.token, k>>]
      PROVE  e.tensor.causes = Causes'[<<e.token, k>>]
  <2>1. e.token \in 0..NTokens-1
    BY <1>1, <1>4, RecSizes DEF Passed
  <2> QED BY <1>4, <2>1
<1>5. ASSUME NEW i \in DOMAIN acts', NEW k \in Site, IsSite(acts'[i], k)
      PROVE  acts'[i].tensor.causes = Causes'[<<acts'[i].token, k>>]
  <2>1. CASE Old(acts', acts, i)
    <3>1. i \in DOMAIN acts /\ acts'[i] = acts[i]
      BY <2>1 DEF Old
    <3>2. PICK o \in Site : IsSite(acts'[i], o) /\ Passed(acts'[i].token, o) /\ acts'[i].token \in Nat
      BY <3>1 DEF Ordered
    <3>3. acts'[i].tensor.causes = Causes[<<acts'[i].token, k>>]
      BY <1>5, <3>1 DEF AsPlanned
    <3> QED BY <1>4, <1>5, <3>2, <3>3
  <2>2. CASE acts'[i] = Snapshot(v)
    BY <1>3, <1>5, <2>2
  <2> QED BY <2>1, <2>2 DEF Adds
<1>6. ASSUME NEW i \in DOMAIN lens', NEW k \in Site, IsSite(lens'[i], k)
      PROVE  lens'[i].tensor.causes = Causes'[<<lens'[i].token, k>>]
  <2>1. CASE Old(lens', lens, i)
    <3>1. i \in DOMAIN lens /\ lens'[i] = lens[i]
      BY <2>1 DEF Old
    <3>2. lens'[i].checkpoint # "pre_wo"
      BY <1>6, SiteHead DEF IsSite
    <3>3. PICK o \in Site : IsSite(lens'[i], o) /\ Passed(lens'[i].token, o) /\ lens'[i].token \in Nat
      BY <3>1, <3>2 DEF Ordered
    <3>4. lens'[i].tensor.causes = Causes[<<lens'[i].token, k>>]
      BY <1>6, <3>1 DEF AsPlanned
    <3> QED BY <1>4, <1>6, <3>3, <3>4
  <2>2. CASE lens'[i] = Snapshot(v)
    BY <1>3, <1>6, <2>2
  <2>3. CASE lens'[i].checkpoint = "pre_wo"
    BY <1>6, <2>3, SiteHead DEF IsSite
  <2> QED BY <2>1, <2>2, <2>3 DEF Adds
<1> QED BY <1>5, <1>6 DEF AsPlanned

(* Snapshots follow each other as the sites do. *)
LEMMA AddsInOrder ==
  ASSUME Typed, LastSnapshot, SnapshotsInOrder, at.stage \in {"embed"} \cup Running,
         NEW v, acts' = acts \o When("acts", <<Snapshot(v)>>)
  PROVE  /\ SnapshotsInOrder'
         /\ "acts" \in at.on => acts' # << >> /\ acts'[Len(acts')] = Snapshot(v)
         /\ "acts" \notin at.on => acts' = acts
<1>1. CASE "acts" \notin at.on
  <2>1. acts' = acts
    <3>1. PICK S : acts \in Seq(S)
      BY DEF Typed, Listed
    <3>2. acts \o << >> = acts
      BY <3>1, ConcatEmptySeq
    <3> QED BY <1>1, <3>2 DEF When
  <2> QED BY <1>1, <2>1 DEF SnapshotsInOrder
<1>2. CASE "acts" \in at.on
  <2> DEFINE e == Snapshot(v)
             n == SiteNow
  <2> HIDE DEF e
  <2>1. acts' = acts \o <<e>>
    BY <1>2 DEF When, e
  <2>2. Listed(acts) /\ Listed(<<e>>) /\ Len(<<e>>) = 1 /\ <<e>>[1] = e
    BY ShortLists DEF Typed
  <2>3. /\ Listed(acts') /\ Len(acts') = Len(acts) + 1
        /\ \A i \in DOMAIN acts : acts'[i] = acts[i]
        /\ \A i \in DOMAIN acts' : i \in DOMAIN acts \/ \E j \in DOMAIN <<e>> : i = Len(acts) + j /\ acts'[i] = <<e>>[j]
    <3>1. PICK c : c = acts \o <<e>>
      OBVIOUS
    <3>2. /\ Listed(c) /\ Len(c) = Len(acts) + Len(<<e>>)
          /\ \A i \in DOMAIN acts : i \in DOMAIN c /\ c[i] = acts[i]
          /\ \A i \in DOMAIN c :
               \/ i \in DOMAIN acts /\ c[i] = acts[i]
               \/ \E j \in DOMAIN <<e>> : i = Len(acts) + j /\ c[i] = <<e>>[j]
      BY <2>2, <3>1, ListedConcat
    <3> QED BY <2>1, <2>2, <3>1, <3>2, Zenon
  <2>4. /\ Len(acts) \in Nat /\ DOMAIN acts = 1..Len(acts) /\ (acts = << >> <=> Len(acts) = 0)
        /\ DOMAIN acts' = 1..Len(acts) + 1 /\ acts' # << >>
    <3>1. DOMAIN acts' = 1..Len(acts') /\ (acts' = << >> <=> Len(acts') = 0)
      BY <2>3, ListedFacts
    <3>2. Len(acts) \in Nat /\ DOMAIN acts = 1..Len(acts) /\ (acts = << >> <=> Len(acts) = 0)
      BY <2>2, ListedFacts
    <3> QED BY <2>3, <3>1, <3>2
  <2>5. acts'[Len(acts) + 1] = e
    <3>1. \A j \in DOMAIN <<e>> : j = 1
      OBVIOUS
    <3>2. Len(acts) + 1 \in DOMAIN acts' /\ Len(acts) + 1 \notin DOMAIN acts
      BY <2>4
    <3>3. PICK j \in DOMAIN <<e>> : acts'[Len(acts) + 1] = <<e>>[j]
      BY <2>3, <3>2
    <3> QED BY <2>2, <3>1, <3>3
  <2>6. e.token = at.token /\ e.checkpoint = Checkpoint(n) /\ e.layer = LayerOf(n) /\ n \in Site
    BY SnapshotFacts, StageSite DEF e, IsSite
  <2>7. ASSUME NEW i \in 1..Len(acts), i = Len(acts)
        PROVE  \/ \E k \in 0..LastSite-1 :
                    /\ acts'[i].token = acts'[i + 1].token
                    /\ <<acts'[i].checkpoint, acts'[i].layer>> = <<Checkpoint(k), LayerOf(k)>>
                    /\ <<acts'[i + 1].checkpoint, acts'[i + 1].layer>> = <<Checkpoint(k + 1), LayerOf(k + 1)>>
               \/ /\ acts'[i].token < acts'[i + 1].token /\ acts'[i].checkpoint = "post_lm_head"
                  /\ acts'[i + 1].checkpoint = "post_embed"
    <3>1. acts'[i + 1] = e /\ acts'[i] = acts[Len(acts)] /\ acts # << >>
      BY <2>3, <2>4, <2>5, <2>7
    <3>2. CASE at.stage = "embed"
      <4>1. n = 0
        BY <3>2, StageSite
      <4>2. acts[Len(acts)].token < at.token /\ acts[Len(acts)].checkpoint = "post_lm_head"
        BY <3>1, <3>2 DEF LastSnapshot
      <4> QED BY <2>6, <3>1, <4>1, <4>2, SiteNames
    <3>3. CASE at.stage \in Running
      <4>1. PICK k \in 0..LastSite-1 : k = n - 1 /\ k + 1 = n
        BY <2>6, <3>3, StageSite, RecSizes DEF Site
      <4>2. acts[Len(acts)].token = at.token /\ IsSite(acts[Len(acts)], k)
        BY <1>2, <3>1, <3>3, <4>1 DEF LastSnapshot, Running
      <4> QED BY <2>6, <3>1, <4>1, <4>2 DEF IsSite
    <3> QED BY <3>2, <3>3
  <2>8. ASSUME NEW i \in 1..Len(acts'), i <= Len(acts') - 1
        PROVE  \/ \E k \in 0..LastSite-1 :
                    /\ acts'[i].token = acts'[i + 1].token
                    /\ <<acts'[i].checkpoint, acts'[i].layer>> = <<Checkpoint(k), LayerOf(k)>>
                    /\ <<acts'[i + 1].checkpoint, acts'[i + 1].layer>> = <<Checkpoint(k + 1), LayerOf(k + 1)>>
               \/ /\ acts'[i].token < acts'[i + 1].token /\ acts'[i].checkpoint = "post_lm_head"
                  /\ acts'[i + 1].checkpoint = "post_embed"
    <3>1. i \in 1..Len(acts)
      BY <2>3, <2>4, <2>8
    <3>2. CASE i = Len(acts)
      BY <2>7, <3>1, <3>2
    <3>3. CASE i # Len(acts)
      <4>1. i \in DOMAIN acts /\ i + 1 \in DOMAIN acts /\ i \in 1..Len(acts)-1
        <5>1. PICK L \in Nat : L = Len(acts)
          BY <2>4
        <5>2. DOMAIN acts = 1..L /\ i \in 1..L /\ i # L
          BY <2>4, <3>1, <3>3, <5>1, Zenon
        <5>3. i + 1 \in 1..L /\ i \in 1..L-1
          BY <5>2
        <5> QED BY <5>1, <5>2, <5>3, Zenon
      <4>2. acts'[i] = acts[i] /\ acts'[i + 1] = acts[i + 1]
        BY <2>3, <4>1
      <4> QED BY <4>1, <4>2 DEF SnapshotsInOrder
    <3> QED BY <3>2, <3>3
  <2>9. SnapshotsInOrder'
    <3>1. \A i \in 1..Len(acts')-1 : i \in 1..Len(acts') /\ i <= Len(acts') - 1
      BY <2>3, <2>4
    <3> QED BY <2>8, <3>1 DEF SnapshotsInOrder
  <2> QED BY <1>2, <2>3, <2>4, <2>5, <2>9 DEF e
<1> QED BY <1>1, <1>2

-----------------------------------------------------------------------------
(* What a stage that ends with tensor v does to the lists. *)
LEMMA StageAdds ==
  ASSUME Typed, at.stage \in {"embed"} \cup Running, NEW v, NEW added, NEW extra,
         Record(added, <<Snapshot(v)>>, extra), Listed(added), Listed(extra),
         added = << >> \/ (at.stage \in Running /\ added = StageOps),
         \A j \in DOMAIN extra :
           extra[j] = Snapshot(v) \/ (extra[j].checkpoint = "pre_wo" /\ extra[j].token \in Nat)
  PROVE  /\ Adds(v) /\ Listed(ops)' /\ Listed(acts)' /\ Listed(lens)'
         /\ acts' = acts \o When("acts", <<Snapshot(v)>>)
<1> DEFINE e == <<Snapshot(v)>>
<1>1. ops' = ops \o When("ops", added) /\ acts' = acts \o When("acts", e) /\ lens' = lens \o When("lens", extra)
  BY DEF Record
<1>2. Listed(e) /\ \A j \in DOMAIN e : e[j] = Snapshot(v)
  <2>1. \A d : Listed(<<d>>) /\ \A j \in DOMAIN <<d>> : <<d>>[j] = d
    <3>1. ASSUME NEW d, NEW j \in DOMAIN <<d>> PROVE <<d>>[j] = d
      OBVIOUS
    <3> QED BY <3>1, ShortLists
  <2> QED BY <2>1
<1>3. Listed(ops) /\ Listed(acts) /\ Listed(lens)
  BY DEF Typed
<1> HIDE DEF e
<1>4. Listed(acts)' /\ \A i \in DOMAIN acts' : Old(acts', acts, i) \/ acts'[i] = Snapshot(v)
  <2>1. PICK c : c = acts'
    OBVIOUS
  <2>2. Joined(c, acts, "acts", e)
    BY <1>1, <2>1 DEF Joined
  <2>3. /\ Listed(c)
        /\ \A i \in DOMAIN c : (i \in DOMAIN acts /\ c[i] = acts[i]) \/ \E j \in DOMAIN e : c[i] = e[j]
    BY <1>2, <1>3, <2>2, Recorded
  <2> QED BY <1>2, <2>1, <2>3 DEF Old, Listed
<1>5. /\ Listed(lens)'
      /\ \A i \in DOMAIN lens' : Old(lens', lens, i) \/ \E j \in DOMAIN extra : lens'[i] = extra[j]
  <2>1. PICK c : c = lens'
    OBVIOUS
  <2>2. Joined(c, lens, "lens", extra)
    BY <1>1, <2>1 DEF Joined
  <2>3. /\ Listed(c)
        /\ \A i \in DOMAIN c : (i \in DOMAIN lens /\ c[i] = lens[i]) \/ \E j \in DOMAIN extra : c[i] = extra[j]
    BY <1>3, <2>2, Recorded
  <2> QED BY <2>1, <2>3 DEF Old, Listed
<1>6. /\ Listed(ops)'
      /\ \A i \in DOMAIN ops' : Old(ops', ops, i) \/ \E j \in DOMAIN added : ops'[i] = added[j]
  <2>1. PICK c : c = ops'
    OBVIOUS
  <2>2. Joined(c, ops, "ops", added)
    BY <1>1, <2>1 DEF Joined
  <2>3. /\ Listed(c)
        /\ \A i \in DOMAIN c : (i \in DOMAIN ops /\ c[i] = ops[i]) \/ \E j \in DOMAIN added : c[i] = added[j]
    BY <1>3, <2>2, Recorded
  <2> QED BY <2>1, <2>3 DEF Old, Listed
<1>7. \A i \in DOMAIN lens' :
        \/ Old(lens', lens, i)
        \/ lens'[i] = Snapshot(v)
        \/ lens'[i].checkpoint = "pre_wo" /\ lens'[i].token \in Nat
  BY <1>5
<1>8. \A j \in DOMAIN ops' :
        Old(ops', ops, j) \/ (at.stage \in Running /\ \E m \in DOMAIN StageOps : ops'[j] = StageOps[m])
  <2>1. DOMAIN << >> = {}
    OBVIOUS
  <2>2. CASE added = << >>
    BY <1>6, <2>1, <2>2
  <2>3. CASE at.stage \in Running /\ added = StageOps
    BY <1>6, <2>3
  <2> QED BY <2>2, <2>3
<1> QED BY <1>1, <1>4, <1>5, <1>6, <1>7, <1>8, Zenon DEF Adds, e

(* A stage that is not the last keeps the invariant. *)
LEMMA StageKeeps ==
  ASSUME RecorderInv, at.stage \in {"embed"} \cup Running, NEW v, Adds(v), HeadOutput(v),
         acts' = acts \o When("acts", <<Snapshot(v)>>),
         v.causes = Causes[<<at.token, SiteNow>>], x' = v,
         plan' = plan, known' = known, logits' = logits,
         at'.token = at.token, at'.on = at.on, at'.stage \in Running, SiteNow' = SiteNow + 1,
         \A l \in 0..NLayers-1, t \in 0..NTokens-1 :
           rows'[l][t] = IF at.stage = "attn" /\ l = at.layer /\ t = at.token THEN x.causes ELSE rows[l][t],
         Typed'
  PROVE  RecorderInv'
<1> DEFINE n == SiteNow
<1>1. n \in Site /\ n \in Nat /\ at.token \in 0..NTokens-1 /\ at.token \in Nat
  BY StageSite, RecSizes DEF RecorderInv, Site
<1>2. \A t \in 0..NTokens-1, k \in Site : Causes'[<<t, k>>] = Causes[<<t, k>>]
  BY CausesSame DEF RecorderInv
<1>3. ASSUME NEW t \in Nat, NEW k \in Site
      PROVE  Passed(t, k)' <=> Passed(t, k) \/ (t = at.token /\ k = SiteNow)
  <2>1. k \in Nat
    BY RecSizes DEF Site
  <2> QED BY <1>1, <2>1 DEF Passed
<1>4. Ordered'
  BY <1>3, AddsOrdered DEF RecorderInv
<1>5. RecordsFitTogether' /\ HeadMade'
  BY AddsFit DEF RecorderInv
<1>6. CapturesFollowPlan'
  <2>1. AsPlanned(acts) /\ AsPlanned(lens) /\ \A i \in DOMAIN logits : logits[i].causes = Causes[<<i - 1, LastSite>>]
    BY PlanFollowed DEF RecorderInv
  <2>2. AsPlanned(acts)' /\ AsPlanned(lens)'
    BY <1>2, <2>1, AddsPlanned DEF RecorderInv
  <2>3. ASSUME NEW i \in DOMAIN logits
        PROVE  logits[i].causes = Causes'[<<i - 1, LastSite>>]
    <3>1. Listed(logits) /\ Len(logits) = at.token
      BY DEF RecorderInv, Typed
    <3>2. i \in 1..at.token
      BY <3>1, ListedFacts
    <3>3. i - 1 \in 0..NTokens-1 /\ LastSite \in Site
      BY <1>1, <3>2, RecSizes DEF Site
    <3> QED BY <1>2, <2>1, <3>3
  <2>4. (\A i \in DOMAIN logits : logits[i].causes = Causes[<<i - 1, LastSite>>])'
    BY <2>3
  <2>5. (CapturesFollowPlan <=> /\ AsPlanned(acts) /\ AsPlanned(lens)
                                /\ \A i \in DOMAIN logits : logits[i].causes = Causes[<<i - 1, LastSite>>])'
    BY PlanFollowed, PTL
  <2> QED BY <2>2, <2>4, <2>5, Zenon
<1>7. SnapshotsInOrder' /\ LastSnapshot'
  <2>1. /\ SnapshotsInOrder'
        /\ "acts" \in at.on => acts' # << >> /\ acts'[Len(acts')] = Snapshot(v)
        /\ "acts" \notin at.on => acts' = acts
    BY AddsInOrder DEF RecorderInv
  <2>2. CASE "acts" \in at.on
    <3>1. acts'[Len(acts')].token = at.token /\ IsSite(acts'[Len(acts')], n)
      BY <2>1, <2>2, SnapshotFacts
    <3>2. SiteNow' - 1 = n
      BY <1>1
    <3> QED BY <2>1, <2>2, <3>1, <3>2 DEF LastSnapshot, IsSite, Running
  <2>3. CASE "acts" \notin at.on
    BY <2>1, <2>3 DEF LastSnapshot, RecorderInv, Running
  <2> QED BY <2>1, <2>2, <2>3
<1>8. SnapshotIsStream'
  <2>1. ASSUME NEW i \in DOMAIN acts', acts'[i].token = at.token, IsSite(acts'[i], n)
        PROVE  acts'[i].tensor = v
    <3>1. CASE Old(acts', acts, i)
      <4>1. PICK o \in Site : IsSite(acts'[i], o) /\ Passed(acts'[i].token, o)
        BY <3>1 DEF RecorderInv, Ordered, Old
      <4>2. o = n
        BY <1>1, <2>1, <4>1, SiteUnique DEF IsSite
      <4>3. n < n
        BY <2>1, <4>1, <4>2, PassedEarlier DEF RecorderInv
      <4> QED BY <1>1, <4>3
    <3>2. CASE acts'[i] = Snapshot(v)
      BY <3>2, SnapshotFacts
    <3> QED BY <3>1, <3>2 DEF Adds
  <2>2. SiteNow' - 1 = n
    BY <1>1
  <2> QED BY <2>1, <2>2 DEF SnapshotIsStream, IsSite
<1>9. StreamInv'
  <2>1. x'.causes = Causes'[<<at'.token, SiteNow' - 1>>]
    BY <1>1, <1>2, SMTT(40)
  <2>2. ASSUME NEW l \in 0..NLayers-1, NEW t \in 0..NTokens-1, Passed(t, 2 * l + 1)'
        PROVE  rows'[l][t] = Causes'[<<t, 2 * l>>]
    <3>1. 2 * l + 1 \in Site /\ 2 * l \in Site /\ t \in Nat
      BY RecSizes, SMTT(40) DEF Site
    <3>2. Passed(t, 2 * l + 1) \/ (t = at.token /\ 2 * l + 1 = n)
      BY <1>3, <2>2, <3>1
    <3>3. CASE Passed(t, 2 * l + 1)
      <4>1. ~ (at.stage = "attn" /\ l = at.layer /\ t = at.token)
        <5>1. SUFFICES ASSUME at.stage = "attn", l = at.layer, t = at.token PROVE FALSE
          OBVIOUS
        <5>2. n = 2 * l + 1 /\ n \in Nat
          BY <1>1, <5>1, StageSite DEF RecorderInv
        <5>3. 2 * l + 1 < n
          BY <3>3, <5>1, PassedEarlier DEF RecorderInv
        <5> QED BY <5>2, <5>3
      <4>2. rows[l][t] = Causes[<<t, 2 * l>>]
        BY <3>3 DEF RecorderInv, StreamInv, Running
      <4> QED BY <1>2, <3>1, <4>1, <4>2
    <3>4. CASE t = at.token /\ 2 * l + 1 = n
      <4>1. at.stage = "attn" /\ l = at.layer
        <5>1. PICK m \in 0..NLayers-1 : m = at.layer
          BY StageSite DEF RecorderInv
        <5>2. at.stage \notin {"embed", "ffn", "final", "head"}
          BY <3>4, <5>1, StageSite, RecSizes DEF RecorderInv, n
        <5>3. at.stage = "attn"
          BY <5>2 DEF Running
        <5>4. n = 2 * m + 1
          BY <5>1, <5>3, StageSite DEF RecorderInv
        <5> QED BY <3>4, <5>1, <5>3, <5>4
      <4>2. x.causes = Causes[<<t, n - 1>>] /\ n - 1 = 2 * l
        BY <3>4, <4>1 DEF RecorderInv, StreamInv, Running
      <4> QED BY <1>2, <3>1, <3>4, <4>1, <4>2, ZenonT(40)
    <3> QED BY <3>2, <3>3, <3>4
  <2>3. (\A l \in 0..NLayers-1, t \in 0..NTokens-1 : Passed(t, 2 * l + 1) => rows[l][t] = Causes[<<t, 2 * l>>])'
    BY <2>2
  <2> QED BY <2>1, <2>3 DEF StreamInv
<1> QED BY <1>4, <1>5, <1>6, <1>7, <1>8, <1>9 DEF RecorderInv

-----------------------------------------------------------------------------
(* The first state. *)
LEMMA RecorderInitInv == Init => RecorderInv
<1> SUFFICES ASSUME Init PROVE RecorderInv
  OBVIOUS
<1>1. acts = << >> /\ lens = << >> /\ ops = << >> /\ logits = << >> /\ plan = << >> /\ DOMAIN << >> = {}
  BY DEF Init
<1>2. at.token = 0 /\ at.layer = 0 /\ at.stage = "idle" /\ at.on = {}
  BY DEF Init
<1>3. Typed
  <2>1. plan \in Seq(Overrides) /\ Len(plan) = 0 /\ Len(plan) <= MaxOverrides
    BY <1>1, RecSizes
  <2>2. at \in [token : 0..NTokens, layer : 0..NLayers-1, stage : {"idle", "embed", "failed"} \cup Running,
                on : SUBSET {"ops", "acts", "lens"}]
    BY RecSizes DEF Init
  <2>3. rows = [l \in 0..NLayers-1 |-> [t \in 0..NTokens-1 |-> rows[l][t]]]
    BY DEF Init
  <2>4. \A l \in 0..NLayers-1, t \in 0..NTokens-1 : rows[l][t] = {}
    BY DEF Init
  <2>5. Listed(ops) /\ Listed(acts) /\ Listed(lens) /\ Listed(logits) /\ Len(logits) = 0
    BY <1>1, ShortLists
  <2>6. known \in [0..NTokens-1 -> 0..Len(plan)] /\ declared = {}
    BY <2>1 DEF Init
  <2> QED BY <1>2, <2>1, <2>2, <2>3, <2>4, <2>5, <2>6 DEF Typed, Idle
<1>4. StreamInv
  <2>1. SiteNow = 0
    BY <1>2 DEF SiteNow
  <2>2. ASSUME NEW l \in 0..NLayers-1, NEW t \in 0..NTokens-1 PROVE ~ Passed(t, 2 * l + 1)
    BY <1>2, <2>1, RecSizes DEF Passed
  <2> QED BY <1>2, <2>2 DEF StreamInv, Running
<1>5. Ordered /\ CapturesFollowPlan /\ LastSnapshot /\ SnapshotIsStream /\ HeadMade /\ RecordsFitTogether
  BY <1>1 DEF Ordered, CapturesFollowPlan, LastSnapshot, SnapshotIsStream, HeadMade, RecordsFitTogether
<1>6. SnapshotsInOrder
  <2>1. Len(acts) = 0
    BY <1>1
  <2> QED BY <2>1 DEF SnapshotsInOrder
<1> QED BY <1>3, <1>4, <1>5, <1>6 DEF RecorderInv

(* What is recorded of the tokens before T keeps its causes with them. *)
LEMMA RecordsKept ==
  ASSUME Typed, Typed', Ordered, CapturesFollowPlan,
         acts' = acts, lens' = lens, logits' = logits, plan' \in Seq(Overrides), NEW T \in Nat,
         Len(logits) <= T,
         \A t \in Nat, k \in Site : Passed(t, k) => t < T,
         \A t \in 0..NTokens-1 :
           t < T => known'[t] = known[t] /\ \A i \in 1..known[t] : plan'[i] = plan[i]
  PROVE  CapturesFollowPlan'
<1>1. \A t \in 0..NTokens-1, k \in Site : t < T => Causes'[<<t, k>>] = Causes[<<t, k>>]
  BY CausesKept
<1>2. AsPlanned(acts) /\ AsPlanned(lens) /\ \A i \in DOMAIN logits : logits[i].causes = Causes[<<i - 1, LastSite>>]
  BY PlanFollowed
<1>3. at.token \in 0..NTokens
  BY DEF Typed
<1>4. \A t \in Nat, k \in Site : Passed(t, k) => t \in 0..NTokens-1
  <2>1. ASSUME NEW t \in Nat, NEW k \in Site, Passed(t, k) PROVE t \in 0..NTokens-1
    <3>1. CASE t < at.token
      BY <1>3, <3>1, RecSizes
    <3>2. CASE t = at.token /\ k < SiteNow
      <4>1. ~ Idle
        <5>1. k \in Nat
          BY RecSizes DEF Site
        <5> QED BY <3>2, <5>1 DEF Idle, SiteNow
      <4> QED BY <1>3, <3>2, <4>1, RecSizes DEF Typed
    <3> QED BY <2>1, <3>1, <3>2 DEF Passed
  <2> QED BY <2>1
<1>5. ASSUME NEW i \in DOMAIN acts, NEW k \in Site, IsSite(acts[i], k)
      PROVE  acts[i].tensor.causes = Causes'[<<acts[i].token, k>>]
  <2>1. PICK o \in Site : acts[i].token \in Nat /\ Passed(acts[i].token, o)
    BY DEF Ordered
  <2>2. acts[i].token \in 0..NTokens-1 /\ acts[i].token < T
    BY <1>4, <2>1
  <2> QED BY <1>1, <1>2, <1>5, <2>2 DEF AsPlanned
<1>6. ASSUME NEW i \in DOMAIN lens, NEW k \in Site, IsSite(lens[i], k)
      PROVE  lens[i].tensor.causes = Causes'[<<lens[i].token, k>>]
  <2>1. lens[i].checkpoint # "pre_wo"
    BY <1>6, SiteHead DEF IsSite
  <2>2. PICK o \in Site : lens[i].token \in Nat /\ Passed(lens[i].token, o)
    BY <2>1 DEF Ordered
  <2>3. lens[i].token \in 0..NTokens-1 /\ lens[i].token < T
    BY <1>4, <2>2
  <2> QED BY <1>1, <1>2, <1>6, <2>3 DEF AsPlanned
<1>7. ASSUME NEW i \in DOMAIN logits
      PROVE  logits[i].causes = Causes'[<<i - 1, LastSite>>]
  <2>1. i \in 1..at.token /\ Len(logits) = at.token
    BY ListedFacts DEF Typed
  <2>2. i - 1 \in 0..NTokens-1 /\ i - 1 < T /\ LastSite \in Site
    BY <1>3, <2>1, RecSizes DEF Site
  <2> QED BY <1>1, <1>2, <2>2
<1>8. AsPlanned(acts)' /\ AsPlanned(lens)'
      /\ (\A i \in DOMAIN logits : logits[i].causes = Causes[<<i - 1, LastSite>>])'
  BY <1>5, <1>6, <1>7 DEF AsPlanned
<1>9. (CapturesFollowPlan <=> /\ AsPlanned(acts) /\ AsPlanned(lens)
                              /\ \A i \in DOMAIN logits : logits[i].causes = Causes[<<i - 1, LastSite>>])'
  BY PlanFollowed, PTL
<1> QED BY <1>8, <1>9, Zenon

(* Between steps the plan may grow, and a step begin. *)
LEMMA IdleKeeps ==
  ASSUME RecorderInv, Idle, Typed', at'.token = at.token, at'.stage \in {"idle", "embed"},
         UNCHANGED <<rows, records, logits>>,
         \A t \in 0..NTokens-1 :
           t < at.token => known'[t] = known[t] /\ \A i \in 1..known[t] : plan'[i] = plan[i]
  PROVE  RecorderInv'
<1>1. ops' = ops /\ acts' = acts /\ lens' = lens /\ rows' = rows /\ logits' = logits
  BY DEF records
<1>2. SiteNow = 0 /\ SiteNow' = 0 /\ at.token \in Nat /\ Typed /\ Len(logits) = at.token
      /\ plan' \in Seq(Overrides)
  BY RecSizes, SMTT(40) DEF Idle, SiteNow, RecorderInv, Typed
<1>3. \A t \in Nat, k \in Nat : (Passed(t, k) <=> t < at.token) /\ (Passed(t, k)' <=> t < at.token)
  BY <1>2 DEF Passed
<1>4. \A k \in Site : k \in Nat
  BY RecSizes DEF Site
<1>5. CapturesFollowPlan'
  <2>1. PICK T \in Nat : T = at.token
    BY <1>2
  <2>2. \A t \in 0..NTokens-1 :
          t < T => known'[t] = known[t] /\ \A i \in 1..known[t] : plan'[i] = plan[i]
    BY <2>1
  <2>3. Len(logits) <= T /\ \A t \in Nat, k \in Site : Passed(t, k) => t < T
    BY <1>2, <1>3, <1>4, <2>1
  <2> QED BY <1>1, <1>2, <2>2, <2>3, RecordsKept DEF RecorderInv
<1>6. Ordered'
  <2>1. \A t \in Nat, k \in Nat : Passed(t, k) => Passed(t, k)'
    BY <1>3
  <2>2. ASSUME NEW i \in DOMAIN acts
        PROVE  \E t \in Nat, k \in Site : acts[i].token = t /\ IsSite(acts[i], k) /\ Passed(t, k)'
    BY <1>4, <2>1 DEF RecorderInv, Ordered
  <2>3. ASSUME NEW i \in DOMAIN lens
        PROVE  \/ lens[i].token \in Nat /\ lens[i].checkpoint = "pre_wo"
               \/ \E t \in Nat, k \in Site : lens[i].token = t /\ IsSite(lens[i], k) /\ Passed(t, k)'
    BY <1>4, <2>1 DEF RecorderInv, Ordered
  <2>4. ASSUME NEW j \in DOMAIN ops
        PROVE  \E t \in Nat, k \in 1..LastSite : ops[j].output.token = t /\ OpAt(ops[j], k) /\ Passed(t, k)'
    <3>1. \A k \in 1..LastSite : k \in Nat
      BY RecSizes
    <3> QED BY <2>1, <3>1 DEF RecorderInv, Ordered
  <2>5. (\A i \in DOMAIN acts : acts[i].token \in Nat /\ \E k \in Site : IsSite(acts[i], k) /\ Passed(acts[i].token, k))'
    BY <1>1, <2>2 DEF Passed
  <2>6. (\A i \in DOMAIN lens :
           lens[i].token \in Nat
           /\ (lens[i].checkpoint = "pre_wo" \/ \E k \in Site : IsSite(lens[i], k) /\ Passed(lens[i].token, k)))'
    BY <1>1, <2>3 DEF Passed
  <2>7. (\A j \in DOMAIN ops :
           ops[j].output.token \in Nat
           /\ \E k \in 1..LastSite : OpAt(ops[j], k) /\ Passed(ops[j].output.token, k))'
    BY <1>1, <2>4 DEF Passed
  <2> QED BY <2>5, <2>6, <2>7 DEF Ordered
<1>7. LastSnapshot'
  BY <1>1, <1>2 DEF RecorderInv, LastSnapshot, Typed, Idle
<1>8. SnapshotsInOrder' /\ SnapshotIsStream' /\ HeadMade' /\ RecordsFitTogether'
  BY <1>1 DEF RecorderInv, SnapshotsInOrder, SnapshotIsStream, HeadMade, RecordsFitTogether, Running
<1>9. StreamInv'
  <2>1. ASSUME NEW l \in 0..NLayers-1, NEW t \in 0..NTokens-1, Passed(t, 2 * l + 1)'
        PROVE  rows'[l][t] = Causes'[<<t, 2 * l>>]
    <3>1. 2 * l + 1 \in Nat /\ 2 * l \in Site /\ t \in Nat
      BY RecSizes DEF Site
    <3>2. t < at.token /\ Passed(t, 2 * l + 1)
      BY <1>3, <2>1, <3>1
    <3>3. rows[l][t] = Causes[<<t, 2 * l>>]
      BY <3>2 DEF RecorderInv, StreamInv, Idle
    <3>4. Causes'[<<t, 2 * l>>] = Causes[<<t, 2 * l>>]
      <4>1. PICK T \in Nat : T = at.token
        BY <1>2
      <4>2. \A u \in 0..NTokens-1 :
              u < T => known'[u] = known[u] /\ \A i \in 1..known[u] : plan'[i] = plan[i]
        BY <4>1
      <4>3. \A u \in 0..NTokens-1, k \in Site : u < T => Causes'[<<u, k>>] = Causes[<<u, k>>]
        BY <1>2, <4>2, CausesKept
      <4>4. \E k \in Site : k = 2 * l
        BY <3>1
      <4> QED BY <3>2, <4>1, <4>3, <4>4
    <3> QED BY <1>1, <3>3, <3>4
  <2>2. (\A l \in 0..NLayers-1, t \in 0..NTokens-1 : Passed(t, 2 * l + 1) => rows[l][t] = Causes[<<t, 2 * l>>])'
    BY <2>1
  <2> QED BY <2>2 DEF StreamInv, Running
<1> QED BY <1>5, <1>6, <1>7, <1>8, <1>9 DEF RecorderInv

(* An override added between steps reaches no token already processed. *)
LEMMA AddOverrideInv == RecorderInv /\ AddOverride => RecorderInv'
<1> SUFFICES ASSUME RecorderInv, AddOverride PROVE RecorderInv'
  OBVIOUS
<1>1. Typed /\ Idle /\ declared' = declared /\ at' = at /\ rows' = rows /\ logits' = logits /\ known' = known
      /\ ops' = ops /\ acts' = acts /\ lens' = lens
  BY DEF RecorderInv, AddOverride, records
<1>2. PICK e \in Overrides : plan' = Append(plan, e)
  BY DEF AddOverride
<1>3. /\ plan \in Seq(Overrides) /\ Len(plan) \in Nat /\ Len(plan) < MaxOverrides
      /\ plan' \in Seq(Overrides) /\ Len(plan') = Len(plan) + 1
      /\ \A i \in 1..Len(plan) : plan'[i] = plan[i]
  BY <1>1, <1>2, AppendProperties, LenProperties DEF Typed, AddOverride
<1>4. Typed'
  <2>1. known' \in [0..NTokens-1 -> 0..Len(plan')]
    BY <1>1, <1>3 DEF Typed
  <2>2. Len(plan') <= MaxOverrides
    BY <1>3, RecSizes
  <2> QED BY <1>1, <1>3, <2>1, <2>2 DEF Typed, Idle, Listed, Running
<1>5. \A t \in 0..NTokens-1 :
        t < at.token => known'[t] = known[t] /\ \A i \in 1..known[t] : plan'[i] = plan[i]
  <2>1. \A t \in 0..NTokens-1 : known[t] \in 0..Len(plan)
    BY <1>1 DEF Typed
  <2>2. \A t \in 0..NTokens-1 : \A i \in 1..known[t] : i \in 1..Len(plan)
    BY <1>3, <2>1
  <2> QED BY <1>1, <1>3, <2>2
<1>6. at'.token = at.token /\ at'.stage \in {"idle", "embed"} /\ UNCHANGED <<rows, records, logits>>
  BY <1>1 DEF Idle, records
<1> QED BY <1>1, <1>4, <1>5, <1>6, IdleKeeps

(* A declaration changes nothing else. *)
LEMMA DeclareInterventionInv == RecorderInv /\ DeclareIntervention => RecorderInv'
<1> SUFFICES ASSUME RecorderInv, DeclareIntervention PROVE RecorderInv'
  OBVIOUS
<1>1. Typed /\ Idle /\ plan' = plan /\ at' = at /\ rows' = rows /\ logits' = logits /\ known' = known
      /\ ops' = ops /\ acts' = acts /\ lens' = lens
  BY DEF RecorderInv, DeclareIntervention, records
<1>2. declared' \subseteq Declarations
  BY <1>1 DEF DeclareIntervention, Typed
<1>3. Typed'
  BY <1>1, <1>2 DEF Typed, Idle, Listed, Running
<1>4. at'.token = at.token /\ at'.stage \in {"idle", "embed"} /\ UNCHANGED <<rows, records, logits>>
  BY <1>1 DEF Idle, records
<1> QED BY <1>1, <1>3, <1>4, IdleKeeps

(* A step begins with the plan as it is. *)
LEMMA BeginInv == RecorderInv /\ Begin => RecorderInv'
<1> SUFFICES ASSUME RecorderInv, Begin PROVE RecorderInv'
  OBVIOUS
<1>1. Typed /\ Idle /\ plan' = plan /\ declared' = declared /\ rows' = rows /\ logits' = logits
      /\ ops' = ops /\ acts' = acts /\ lens' = lens
  BY DEF RecorderInv, Begin, records
<1>2. PICK on \in Attachments : at' = [at EXCEPT !.stage = "embed", !.layer = 0, !.on = on]
  BY DEF Begin
<1>3. /\ at' \in [token : 0..NTokens, layer : 0..NLayers-1, stage : {"idle", "embed", "failed"} \cup Running,
                 on : SUBSET {"ops", "acts", "lens"}]
      /\ at'.token = at.token /\ at'.stage = "embed" /\ at'.layer = 0
  <2>1. on \in SUBSET {"ops", "acts", "lens"} /\ 0 \in 0..NLayers-1
    BY RecorderAssumption, RecSizes
  <2> QED BY <1>1, <1>2, <2>1 DEF Typed
<1>4. at.token \in 0..NTokens-1
  <2>1. at.token \in 0..NTokens /\ at.token < NTokens
    BY <1>1 DEF Typed, Begin
  <2> QED BY <2>1, RecSizes
<1>5. known' = [known EXCEPT ![at.token] = Len(plan)]
  BY DEF Begin
<1>6. Len(plan) \in Nat /\ known \in [0..NTokens-1 -> 0..Len(plan)]
  BY <1>1, LenProperties DEF Typed
<1>7. known' \in [0..NTokens-1 -> 0..Len(plan)] /\ known'[at.token] = Len(plan)
      /\ \A t \in 0..NTokens-1 : t # at.token => known'[t] = known[t]
  BY <1>4, <1>5, <1>6
<1>8. Typed'
  <2>1. at.token < NTokens
    BY <1>4, RecSizes
  <2> QED BY <1>1, <1>3, <1>7, <2>1 DEF Typed, Idle, Listed, Running
<1>9. \A t \in 0..NTokens-1 :
        t < at.token => known'[t] = known[t] /\ \A i \in 1..known[t] : plan'[i] = plan[i]
  <2>1. \A t \in 0..NTokens-1 : t < at.token => t # at.token
    BY <1>4, RecSizes
  <2> QED BY <1>1, <1>7, <2>1
<1>10. at'.token = at.token /\ at'.stage \in {"idle", "embed"} /\ UNCHANGED <<rows, records, logits>>
  BY <1>1, <1>3 DEF records
<1> QED BY <1>1, <1>8, <1>9, <1>10, IdleKeeps

-----------------------------------------------------------------------------
(* The cache after the row of this position is stored. *)
LEMMA CachedRows ==
  ASSUME Typed, at.stage \in {"embed"} \cup Running
  PROVE  /\ Cached = [l \in 0..NLayers-1 |-> [t \in 0..NTokens-1 |-> Cached[l][t]]]
         /\ \A l \in 0..NLayers-1, t \in 0..NTokens-1 :
              Cached[l][t] = IF l = at.layer /\ t = at.token THEN x.causes ELSE rows[l][t]
<1>1. at.token \in 0..NTokens-1 /\ at.layer \in 0..NLayers-1
  BY StageSite
<1>2. PICK f : f = rows /\ f = [l \in 0..NLayers-1 |-> [t \in 0..NTokens-1 |-> f[l][t]]]
  BY DEF Typed
<1>3. PICK m, p, c : m = at.layer /\ p = at.token /\ c = x.causes
  OBVIOUS
<1>4. PICK g : g = [f EXCEPT ![m][p] = c]
  OBVIOUS
<1>5. \A l \in 0..NLayers-1, t \in 0..NTokens-1 : g[l][t] = IF l = m /\ t = p THEN c ELSE f[l][t]
  BY <1>1, <1>2, <1>3, <1>4
<1>6. g = [l \in 0..NLayers-1 |-> [t \in 0..NTokens-1 |-> g[l][t]]]
  <2>1. g = [l \in 0..NLayers-1 |-> g[l]]
    BY <1>2, <1>4
  <2>2. ASSUME NEW l \in 0..NLayers-1 PROVE g[l] = [t \in 0..NTokens-1 |-> g[l][t]]
    <3>1. f[l] = [t \in 0..NTokens-1 |-> f[l][t]]
      BY <1>2
    <3>2. g[l] = f[l] \/ g[l] = [f[l] EXCEPT ![p] = c]
      BY <1>2, <1>4
    <3> QED BY <3>1, <3>2
  <2>3. [l \in 0..NLayers-1 |-> g[l]] = [l \in 0..NLayers-1 |-> [t \in 0..NTokens-1 |-> g[l][t]]]
    BY <2>2
  <2> QED BY <2>1, <2>3, Zenon
<1>7. Cached = g
  BY <1>2, <1>3, <1>4 DEF Cached
<1> QED BY <1>2, <1>3, <1>5, <1>6, <1>7

(* A stage keeps the types. *)
LEMMA TypedKept ==
  ASSUME Typed, at.stage \in {"embed"} \cup Running,
         UNCHANGED <<plan, declared, known, logits>>,
         at'.token = at.token, at'.layer \in 0..NLayers-1, at'.stage \in Running \cup {"failed"},
         at' = [at EXCEPT !.layer = at'.layer, !.stage = at'.stage],
         Listed(ops)', Listed(acts)', Listed(lens)',
         rows' = rows \/ rows' = Cached
  PROVE  Typed'
<1>1. at.token \in 0..NTokens-1 /\ at.layer \in 0..NLayers-1 /\ at.token < NTokens
  BY StageSite, RecSizes
<1>2. at' \in [token : 0..NTokens, layer : 0..NLayers-1, stage : {"idle", "embed", "failed"} \cup Running,
               on : SUBSET {"ops", "acts", "lens"}]
  BY DEF Typed
<1>3. rows' = [l \in 0..NLayers-1 |-> [t \in 0..NTokens-1 |-> rows'[l][t]]]
  <2>1. PICK r : r = rows'
    OBVIOUS
  <2>2. CASE rows' = rows
    <3>1. rows = [l \in 0..NLayers-1 |-> [t \in 0..NTokens-1 |-> rows[l][t]]]
      BY DEF Typed
    <3> QED BY <2>1, <2>2, <3>1, Zenon
  <2>3. CASE rows' = Cached
    <3>1. Cached = [l \in 0..NLayers-1 |-> [t \in 0..NTokens-1 |-> Cached[l][t]]]
      BY CachedRows
    <3> QED BY <2>1, <2>3, <3>1, Zenon
  <2> QED BY <2>2, <2>3
<1>4. \A l \in 0..NLayers-1, t \in 0..NTokens-1 : rows'[l][t] # {} => t <= at.token
  <2>1. ASSUME NEW l \in 0..NLayers-1, NEW t \in 0..NTokens-1, rows'[l][t] # {} PROVE t <= at.token
    <3>1. rows'[l][t] = rows[l][t] \/ t = at.token
      BY CachedRows
    <3> QED BY <1>1, <2>1, <3>1, RecSizes DEF Typed
  <2> QED BY <2>1
<1>5. known[at.token] = Len(plan)
  BY DEF Typed, Idle, Running
<1>6. ~ (at'.stage \in {"embed", "idle"})
  BY DEF Running
<1> QED BY <1>1, <1>2, <1>3, <1>4, <1>5, <1>6 DEF Typed, Listed, Idle

-----------------------------------------------------------------------------
(* The causes of what a stage computes, before its override. *)
Computed ==
  IF SiteNow = 0 THEN {<<"token", at.token>>}
  ELSE UNION {Causes[s] : s \in Feeds(at.token, SiteNow)}

(* After it, they are those of the site. *)
LEMMA ComputedCauses ==
  ASSUME Typed, at.stage \in {"embed"} \cup Running, NEW tensor, tensor.causes = Computed
  PROVE  LET v == Overridden(Checkpoint(SiteNow), LayerOf(SiteNow), tensor)
         IN  /\ v.causes = Causes[<<at.token, SiteNow>>]
             /\ v.made = "override" \/ v = tensor
<1>1. at.token \in 0..NTokens-1 /\ SiteNow \in Site
  BY StageSite
<1>2. Causes[<<at.token, SiteNow>>] =
        IF Replaced(at.token, SiteNow)
        THEN {<<"override", Max(OverridesOf(at.token, SiteNow))>>}
        ELSE tensor.causes
  <2>1. CausesRight
    BY CausesDefined
  <2>2. PICK t \in 0..NTokens-1, k \in Site : t = at.token /\ k = SiteNow
    BY <1>1
  <2>3. Causes[<<t, k>>] = IF Replaced(t, k) THEN {<<"override", Max(OverridesOf(t, k))>>}
                           ELSE IF k = 0 THEN {<<"token", t>>}
                           ELSE UNION {Causes[s] : s \in Feeds(t, k)}
    BY <2>1 DEF CausesRight
  <2>4. tensor.causes = IF k = 0 THEN {<<"token", t>>} ELSE UNION {Causes[s] : s \in Feeds(t, k)}
    BY <2>2, Zenon DEF Computed
  <2>5. Causes[<<t, k>>] = IF Replaced(t, k) THEN {<<"override", Max(OverridesOf(t, k))>>}
                           ELSE tensor.causes
    BY <2>3, <2>4
  <2> QED BY <2>2, <2>5, Zenon
<1> QED BY <1>2, OverriddenCauses

(* Outside attention that is what entered the stage ... *)
LEMMA ComputedFromLast ==
  ASSUME Typed, StreamInv, at.stage \in {"ffn", "final", "head"}
  PROVE  x.causes = Computed
<1>1. at.stage \in Running
  BY DEF Running
<1>2. at.token \in 0..NTokens-1 /\ SiteNow \in Site /\ SiteNow # 0 /\ at.layer \in 0..NLayers-1
  BY <1>1, StageSite, RecSizes
<1>3. Checkpoint(SiteNow) # "post_attn"
  <2>1. CASE at.stage = "ffn"
    <3>1. PICK l \in 0..NLayers-1 : SiteNow = 2 * l + 2
      BY <1>1, <2>1, StageSite
    <3> QED BY <3>1, SiteNames
  <2>2. CASE at.stage \in {"final", "head"}
    BY <1>1, <2>2, StageSite, SiteNames
  <2> QED BY <2>1, <2>2
<1>4. Feeds(at.token, SiteNow) = {<<at.token, SiteNow - 1>>}
  BY <1>3 DEF Feeds
<1>5. x.causes = Causes[<<at.token, SiteNow - 1>>]
  BY <1>1 DEF StreamInv
<1>6. \A s : UNION {Causes[r] : r \in {s}} = Causes[s]
  OBVIOUS
<1> QED BY <1>2, <1>4, <1>5, <1>6, Zenon DEF Computed

(* ... and in attention, what entered the layer at every token up to this one. *)
LEMMA ComputedFromRows ==
  ASSUME Typed, StreamInv, at.stage = "attn"
  PROVE  x.causes \cup Heads.causes = Computed
<1>1. PICK T \in 0..NTokens-1, l \in 0..NLayers-1 : T = at.token /\ l = at.layer
  BY StageSite DEF Running
<1>2. SiteNow = 2 * l + 1 /\ Checkpoint(2 * l + 1) = "post_attn" /\ SiteNow # 0 /\ SiteNow - 1 = 2 * l
  BY <1>1, StageSite, SiteNames DEF Running
<1>3. x.causes = Causes[<<T, 2 * l>>]
  BY <1>1, <1>2 DEF StreamInv, Running
<1>4. \A u \in 0..T : Cached[l][u] = Causes[<<u, 2 * l>>]
  <2>1. ASSUME NEW u \in 0..T PROVE Cached[l][u] = Causes[<<u, 2 * l>>]
    <3>1. u \in 0..NTokens-1 /\ (u # T => u < T)
      BY RecSizes
    <3>2. CASE u = T
      BY <1>1, <1>3, <3>1, <3>2, CachedRows DEF Running
    <3>3. CASE u # T
      <4>1. Passed(u, 2 * l + 1)
        BY <1>1, <3>1, <3>3 DEF Passed
      <4>2. rows[l][u] = Causes[<<u, 2 * l>>]
        BY <3>1, <4>1 DEF StreamInv
      <4> QED BY <1>1, <3>1, <3>3, <4>2, CachedRows DEF Running
    <3> QED BY <3>2, <3>3
  <2> QED BY <2>1
<1>5. Feeds(T, 2 * l + 1) = {<<u, 2 * l>> : u \in 0..T}
  <2>1. 0..T = {T} \cup 0..T-1 /\ (2 * l + 1) - 1 = 2 * l
    BY RecSizes
  <2>2. Feeds(T, 2 * l + 1) = {<<T, 2 * l>>} \cup {<<u, 2 * l>> : u \in 0..T-1}
    BY <1>2, <2>1 DEF Feeds
  <2>3. \A k : {<<T, k>>} \cup {<<u, k>> : u \in 0..T-1} = {<<u, k>> : u \in {T} \cup 0..T-1}
    OBVIOUS
  <2> QED BY <2>1, <2>2, <2>3, Zenon
<1>6. Heads.causes = UNION {Causes[<<u, 2 * l>>] : u \in 0..T}
  <2>1. Heads.causes = UNION {Cached[l][u] : u \in 0..T}
    BY <1>1 DEF Heads, Tensor
  <2>2. {Cached[l][u] : u \in 0..T} = {Causes[<<u, 2 * l>>] : u \in 0..T}
    BY <1>4
  <2> QED BY <2>1, <2>2
<1>7. Causes[<<T, 2 * l>>] \subseteq UNION {Causes[<<u, 2 * l>>] : u \in 0..T}
  <2>1. T \in 0..T
    BY RecSizes
  <2> QED BY <2>1
<1>8. {Causes[s] : s \in {<<u, 2 * l>> : u \in 0..T}} = {Causes[<<u, 2 * l>>] : u \in 0..T}
  <2>1. \A k : {Causes[s] : s \in {<<u, k>> : u \in 0..T}} = {Causes[<<u, k>>] : u \in 0..T}
    OBVIOUS
  <2> QED BY <2>1, Zenon
<1>9. Computed = UNION {Causes[s] : s \in Feeds(T, 2 * l + 1)}
  BY <1>1, <1>2, Zenon DEF Computed
<1> QED BY <1>3, <1>5, <1>6, <1>7, <1>8, <1>9

(* A stage that is not the last, of any kind. *)
LEMMA StageStep ==
  ASSUME RecorderInv, at.stage \in {"embed"} \cup Running, NEW tensor, NEW v, NEW added, NEW extra,
         v = Overridden(Checkpoint(SiteNow), LayerOf(SiteNow), tensor), x' = v,
         tensor.causes = Computed,
         at.stage \in {"final", "head"} => tensor = StageOps[1].output,
         Record(added, <<Snapshot(v)>>, extra), Listed(added), Listed(extra),
         added = << >> \/ (at.stage \in Running /\ added = StageOps),
         \A j \in DOMAIN extra :
           extra[j] = Snapshot(v) \/ (extra[j].checkpoint = "pre_wo" /\ extra[j].token \in Nat),
         UNCHANGED <<plan, declared, known, logits>>,
         at'.layer \in 0..NLayers-1, at'.stage \in Running,
         at' = [at EXCEPT !.layer = at'.layer, !.stage = at'.stage], SiteNow' = SiteNow + 1,
         rows' = IF at.stage = "attn" THEN Cached ELSE rows
  PROVE  RecorderInv'
<1>1. Typed
  BY DEF RecorderInv
<1>2. /\ Adds(v) /\ Listed(ops)' /\ Listed(acts)' /\ Listed(lens)'
      /\ acts' = acts \o When("acts", <<Snapshot(v)>>)
  BY <1>1, StageAdds
<1>3. v.causes = Causes[<<at.token, SiteNow>>] /\ (v.made = "override" \/ v = tensor)
  BY <1>1, ComputedCauses
<1>4. HeadOutput(v)
  BY <1>3 DEF HeadOutput
<1>5. at'.token = at.token /\ at'.on = at.on
  <2>1. PICK a : a = at'
    OBVIOUS
  <2>2. a = [at EXCEPT !.layer = a.layer, !.stage = a.stage]
    BY <2>1, Zenon
  <2>3. a.token = at.token /\ a.on = at.on
    BY <1>1, <2>2 DEF Typed
  <2> QED BY <2>1, <2>3
<1>6. Typed'
  BY <1>1, <1>2, <1>5, TypedKept
<1>7. \A l \in 0..NLayers-1, t \in 0..NTokens-1 :
        rows'[l][t] = IF at.stage = "attn" /\ l = at.layer /\ t = at.token THEN x.causes ELSE rows[l][t]
  BY <1>1, CachedRows
<1> QED BY <1>2, <1>3, <1>4, <1>5, <1>6, <1>7, StageKeeps

(* The stages: the embedding, ... *)
LEMMA EmbedInv == RecorderInv /\ Embed => RecorderInv'
<1> SUFFICES ASSUME RecorderInv, Embed PROVE RecorderInv'
  OBVIOUS
<1>1. Typed /\ at.stage = "embed" /\ at.layer = 0 /\ at.stage \notin Running
  BY DEF RecorderInv, Typed, Embed, Running
<1>2. SiteNow = 0 /\ Checkpoint(SiteNow) = "post_embed" /\ LayerOf(SiteNow) = MAX
  BY <1>1, SiteNames DEF SiteNow
<1>3. PICK v : v = x'
  OBVIOUS
<1>4. PICK tensor : tensor = Tensor("post_embed", MAX, {<<"token", at.token>>})
  OBVIOUS
<1>5. v = Overridden(Checkpoint(SiteNow), LayerOf(SiteNow), tensor)
  BY <1>2, <1>3, <1>4 DEF Embed
<1>6. tensor.causes = Computed
  BY <1>2, <1>4 DEF Tensor, Computed
<1>7. Record(<< >>, <<Snapshot(v)>>, <<Snapshot(v)>>)
  BY <1>2, <1>3 DEF Embed, Snapshot
<1>8. Listed(<< >>) /\ Listed(<<Snapshot(v)>>) /\ \A j \in DOMAIN <<Snapshot(v)>> : <<Snapshot(v)>>[j] = Snapshot(v)
  BY ShortLists, Singletons
<1>9. at' = [at EXCEPT !.stage = "attn"] /\ UNCHANGED <<plan, declared, rows, logits, known>>
  BY DEF Embed
<1>10. at'.layer = 0 /\ at'.stage = "attn" /\ 0 \in 0..NLayers-1
       /\ at' = [at EXCEPT !.layer = at'.layer, !.stage = at'.stage]
  BY <1>1, <1>9, RecSizes DEF Typed
<1>11. SiteNow' = 1
  BY <1>10 DEF SiteNow
<1>12. at'.stage \in Running /\ SiteNow' = SiteNow + 1
  BY <1>2, <1>10, <1>11 DEF Running
<1> HIDE DEF Embed
<1> QED BY <1>1, <1>3, <1>5, <1>6, <1>7, <1>8, <1>9, <1>10, <1>12, StageStep

(* ... the norm before the head, ... *)
LEMMA FinalNormInv == RecorderInv /\ FinalNorm => RecorderInv'
<1> SUFFICES ASSUME RecorderInv, FinalNorm PROVE RecorderInv'
  OBVIOUS
<1>1. Typed /\ StreamInv /\ at.stage = "final" /\ at.stage \in Running
  BY DEF RecorderInv, FinalNorm, Running
<1>2. SiteNow = LastSite - 1 /\ Checkpoint(SiteNow) = "pre_lm_head" /\ LayerOf(SiteNow) = MAX
  BY <1>1, SiteNames, StageSite
<1>3. PICK v : v = x'
  OBVIOUS
<1>4. StageOps = <<RmsNorm("rms_final", MAX, x)>> /\ Result = RmsNorm("rms_final", MAX, x).output
  BY <1>1 DEF StageOps, Result
<1>5. PICK tensor : tensor = Result
  OBVIOUS
<1>6. v = Overridden(Checkpoint(SiteNow), LayerOf(SiteNow), tensor)
  BY <1>2, <1>3, <1>5 DEF FinalNorm
<1>7. tensor.causes = Computed /\ tensor = StageOps[1].output
  <2>1. tensor.causes = x.causes
    BY <1>4, <1>5 DEF RmsNorm, Op, Tensor
  <2> QED BY <1>1, <1>4, <1>5, <2>1, ComputedFromLast
<1>8. Record(StageOps, <<Snapshot(v)>>, <<Snapshot(v)>>)
  BY <1>2, <1>3 DEF FinalNorm, Snapshot
<1>9. Listed(StageOps) /\ Listed(<<Snapshot(v)>>) /\ \A j \in DOMAIN <<Snapshot(v)>> : <<Snapshot(v)>>[j] = Snapshot(v)
  BY <1>1, ShortLists, Singletons, StageRecords
<1>10. at' = [at EXCEPT !.stage = "head"] /\ UNCHANGED <<plan, declared, rows, logits, known>>
  BY DEF FinalNorm
<1>11. at'.layer = at.layer /\ at'.stage = "head" /\ at.layer \in 0..NLayers-1
       /\ at' = [at EXCEPT !.layer = at'.layer, !.stage = at'.stage]
  BY <1>1, <1>10 DEF Typed
<1>12. SiteNow' = LastSite
  BY <1>11 DEF SiteNow
<1>13. at'.stage \in Running /\ SiteNow' = SiteNow + 1
  BY <1>2, <1>11, <1>12, RecSizes DEF Running
<1> QED BY <1>1, <1>3, <1>6, <1>7, <1>8, <1>9, <1>10, <1>11, <1>13, StageStep

(* ... the feed-forward block, and on to the next layer or the norm, ... *)
LEMMA FeedForwardInv == RecorderInv /\ FeedForward => RecorderInv'
<1> SUFFICES ASSUME RecorderInv, FeedForward PROVE RecorderInv'
  OBVIOUS
<1>1. Typed /\ StreamInv /\ at.stage = "ffn" /\ at.stage \in Running
  BY DEF RecorderInv, FeedForward, Running
<1>2. SiteNow = 2 * at.layer + 2 /\ at.layer \in 0..NLayers-1
  BY <1>1, StageSite
<1>3. Checkpoint(SiteNow) = "post_ffn" /\ LayerOf(SiteNow) = at.layer
  BY <1>2, SiteNames
<1>4. PICK v : v = x'
  OBVIOUS
<1>5. PICK tensor : tensor = Tensor("post_ffn", at.layer, x.causes \cup Result.causes)
  OBVIOUS
<1>6. v = Overridden(Checkpoint(SiteNow), LayerOf(SiteNow), tensor)
  BY <1>3, <1>4, <1>5 DEF FeedForward, Residual
<1>7. tensor.causes = Computed
  <2>1. StageOps = FeedForwardOps
    BY <1>1 DEF StageOps
  <2>2. Result.causes = x.causes
    BY <2>1 DEF Result, FeedForwardOps, RmsNorm, Linear, Op, Tensor
  <2>3. tensor.causes = x.causes
    BY <1>5, <2>2 DEF Tensor
  <2> QED BY <1>1, <2>3, ComputedFromLast
<1>8. Record(StageOps, <<Snapshot(v)>>, <<Snapshot(v)>>)
  <2>1. StageOps = FeedForwardOps
    BY <1>1 DEF StageOps
  <2> QED BY <1>3, <1>4, <2>1 DEF FeedForward, Snapshot
<1>9. Listed(StageOps) /\ Listed(<<Snapshot(v)>>) /\ \A j \in DOMAIN <<Snapshot(v)>> : <<Snapshot(v)>>[j] = Snapshot(v)
  BY <1>1, ShortLists, Singletons, StageRecords
<1>10. at' = NextLayer /\ UNCHANGED <<plan, declared, rows, logits, known>>
  BY DEF FeedForward
<1>11. /\ at'.layer \in 0..NLayers-1 /\ at'.stage \in Running
       /\ at' = [at EXCEPT !.layer = at'.layer, !.stage = at'.stage] /\ SiteNow' = SiteNow + 1
  <2>1. CASE at.layer + 1 < NLayers
    <3>1. at' = [at EXCEPT !.layer = @ + 1, !.stage = "attn"]
      BY <1>10, <2>1 DEF NextLayer
    <3>2. at'.layer = at.layer + 1 /\ at'.stage = "attn"
          /\ at' = [at EXCEPT !.layer = at'.layer, !.stage = at'.stage]
      BY <1>1, <3>1 DEF Typed
    <3>3. SiteNow' = 2 * (at.layer + 1) + 1
      BY <3>2 DEF SiteNow
    <3>4. at.layer + 1 \in 0..NLayers-1
      BY <1>2, <2>1, RecSizes
    <3>5. 2 * (at.layer + 1) + 1 = 2 * at.layer + 2 + 1
      BY <1>2, RecSizes
    <3>6. at'.layer \in 0..NLayers-1
      BY <3>2, <3>4
    <3>7. SiteNow' = SiteNow + 1
      BY <1>2, <3>3, <3>5
    <3> QED BY <3>2, <3>6, <3>7 DEF Running
  <2>2. CASE ~ (at.layer + 1 < NLayers)
    <3>1. at' = [at EXCEPT !.stage = "final"]
      BY <1>10, <2>2 DEF NextLayer
    <3>2. at'.layer = at.layer /\ at'.stage = "final"
          /\ at' = [at EXCEPT !.layer = at'.layer, !.stage = at'.stage]
      BY <1>1, <3>1 DEF Typed
    <3>3. SiteNow' = LastSite - 1
      BY <3>2 DEF SiteNow
    <3>4. LastSite - 1 = 2 * at.layer + 2 + 1
      <4>1. PICK m \in 0..NLayers-1 : m = at.layer
        BY <1>2
      <4>2. ~ (m + 1 < NLayers)
        BY <2>2, <4>1
      <4>3. LastSite - 1 = 2 * m + 2 + 1
        BY <4>2, RecSizes
      <4> QED BY <4>1, <4>3
    <3> QED BY <1>2, <3>2, <3>3, <3>4 DEF Running
  <2> QED BY <2>1, <2>2
<1> QED BY <1>1, <1>4, <1>6, <1>7, <1>8, <1>9, <1>10, <1>11, StageStep

(* ... and attention, which caches its row first. *)
LEMMA AttentionInv == RecorderInv /\ Attention => RecorderInv'
<1> SUFFICES ASSUME RecorderInv, Attention PROVE RecorderInv'
  OBVIOUS
<1>1. Typed /\ StreamInv /\ at.stage = "attn" /\ at.stage \in Running
  BY DEF RecorderInv, Attention, Running
<1>2. SiteNow = 2 * at.layer + 1 /\ at.layer \in 0..NLayers-1 /\ at.token \in Nat
  BY <1>1, StageSite
<1>3. Checkpoint(SiteNow) = "post_attn" /\ LayerOf(SiteNow) = at.layer
  BY <1>2, SiteNames
<1>4. PICK v : v = x'
  OBVIOUS
<1>5. PICK tensor : tensor = Tensor("post_attn", at.layer, x.causes \cup Result.causes)
  OBVIOUS
<1>6. v = Overridden(Checkpoint(SiteNow), LayerOf(SiteNow), tensor)
  BY <1>3, <1>4, <1>5 DEF Attention, Residual
<1>7. StageOps = AttentionOps
  BY <1>1 DEF StageOps
<1>8. tensor.causes = Computed
  <2>1. PICK h : h = Heads
    OBVIOUS
  <2>2. Result.causes = h.causes
    BY <1>7, <2>1 DEF Result, AttentionOps, Linear, Op, Tensor
  <2>3. tensor.causes = x.causes \cup Heads.causes
    BY <1>5, <2>1, <2>2 DEF Tensor
  <2> QED BY <1>1, <2>3, ComputedFromRows
<1>9. PICK h : h = Entry("pre_wo", at.layer, Heads)
  OBVIOUS
<1>10. PICK e : e = Snapshot(v)
  OBVIOUS
<1>11. Record(StageOps, <<e>>, <<h, e>>)
  BY <1>3, <1>4, <1>7, <1>9, <1>10 DEF Attention, Snapshot
<1>12. PICK extra : extra = <<h, e>>
  OBVIOUS
<1>13. /\ Listed(extra)
       /\ \A j \in DOMAIN extra : extra[j] = e \/ (extra[j].checkpoint = "pre_wo" /\ extra[j].token \in Nat)
  <2>1. extra \in Seq({h, e}) /\ \A j \in DOMAIN extra : extra[j] = h \/ extra[j] = e
    BY <1>12
  <2>2. h.checkpoint = "pre_wo" /\ h.token \in Nat
    BY <1>2, <1>9 DEF Entry
  <2> QED BY <2>1, <2>2 DEF Listed
<1>14. Listed(StageOps)
  BY <1>1, StageRecords
<1>15. at' = [at EXCEPT !.stage = "ffn"] /\ rows' = Cached /\ UNCHANGED <<plan, declared, logits, known>>
  BY DEF Attention
<1>16. at'.layer = at.layer /\ at'.stage = "ffn"
       /\ at' = [at EXCEPT !.layer = at'.layer, !.stage = at'.stage]
  BY <1>1, <1>15 DEF Typed
<1>17. SiteNow' = 2 * at.layer + 2
  BY <1>16 DEF SiteNow
<1>18. at'.stage \in Running /\ SiteNow' = SiteNow + 1
  BY <1>2, <1>16, <1>17, RecSizes DEF Running
<1> QED BY <1>1, <1>2, <1>4, <1>6, <1>8, <1>10, <1>11, <1>12, <1>13, <1>14, <1>15, <1>16, <1>18, StageStep, SMTT(40)

(* The last stage: the token's logits are the plan's, and the next token is up. *)
LEMMA LmHeadInv == RecorderInv /\ LmHead => RecorderInv'
<1> SUFFICES ASSUME RecorderInv, LmHead PROVE RecorderInv'
  OBVIOUS
<1>1. Typed /\ StreamInv /\ Ordered /\ at.stage = "head" /\ at.stage \in Running
  BY DEF RecorderInv, LmHead, Running
<1>2. PICK T \in 0..NTokens-1 : T = at.token
  BY <1>1, StageSite
<1>3. SiteNow = LastSite /\ Checkpoint(SiteNow) = "post_lm_head" /\ LayerOf(SiteNow) = MAX /\ LastSite \in Site
  BY <1>1, SiteNames, StageSite, RecSizes DEF Site
<1>4. StageOps = <<Linear(HeadKey, MAX, x)>> /\ Result = Linear(HeadKey, MAX, x).output
  BY <1>1 DEF StageOps, Result
<1>5. PICK tensor : tensor = Result
  OBVIOUS
<1>6. PICK v : v = Overridden(Checkpoint(SiteNow), LayerOf(SiteNow), tensor)
  OBVIOUS
<1>7. tensor.causes = Computed /\ tensor = StageOps[1].output
  <2>1. tensor.causes = x.causes
    BY <1>4, <1>5 DEF Linear, Op, Tensor
  <2> QED BY <1>1, <1>4, <1>5, <2>1, ComputedFromLast
<1>8. v.causes = Causes[<<T, LastSite>>] /\ v.causes = Causes[<<at.token, SiteNow>>] /\ HeadOutput(v)
  <2>1. v.causes = Causes[<<at.token, SiteNow>>] /\ (v.made = "override" \/ v = tensor)
    BY <1>1, <1>6, <1>7, ComputedCauses
  <2> QED BY <1>2, <1>3, <1>7, <2>1 DEF HeadOutput
<1>9. Record(StageOps, <<Snapshot(v)>>, << >>) /\ logits' = Append(logits, v)
  BY <1>3, <1>5, <1>6 DEF LmHead, Snapshot
<1>10. /\ Adds(v) /\ Listed(ops)' /\ Listed(acts)' /\ Listed(lens)'
       /\ acts' = acts \o When("acts", <<Snapshot(v)>>)
  <2>1. Listed(StageOps) /\ Listed(<< >>) /\ DOMAIN << >> = {}
    BY <1>1, StageRecords, ShortLists
  <2> QED BY <1>1, <1>9, <2>1, StageAdds
<1>11. UNCHANGED <<plan, declared, rows, known>> /\ at' = [at EXCEPT !.stage = "idle", !.token = @ + 1, !.layer = 0, !.on = {}]
  BY DEF LmHead
<1>12. /\ at' \in [token : 0..NTokens, layer : 0..NLayers-1, stage : {"idle", "embed", "failed"} \cup Running,
                   on : SUBSET {"ops", "acts", "lens"}]
       /\ at'.token = T + 1 /\ at'.stage = "idle" /\ at'.on = {}
  <2>1. at.token + 1 \in 0..NTokens /\ 0 \in 0..NLayers-1
    BY <1>2, RecSizes
  <2> QED BY <1>1, <1>2, <1>11, <2>1 DEF Typed
<1>13. /\ Listed(logits') /\ Len(logits') = T + 1
       /\ \A i \in DOMAIN logits' : (i \in DOMAIN logits /\ logits'[i] = logits[i]) \/ (i = T + 1 /\ logits'[i] = v)
  <2>1. PICK S : logits \in Seq(S)
    BY <1>1 DEF Typed, Listed
  <2>2. Len(logits) = T
    BY <1>1, <1>2 DEF Typed
  <2>3. logits \in Seq(S \cup {v})
    BY <2>1, ElementOfSeq, LenProperties, SeqDef
  <2>4. /\ logits' \in Seq(S \cup {v}) /\ Len(logits') = T + 1
        /\ \A i \in 1..T : logits'[i] = logits[i]
        /\ logits'[T + 1] = v
    BY <1>9, <2>2, <2>3, AppendProperties
  <2>5. DOMAIN logits' = 1..T+1 /\ DOMAIN logits = 1..T
    BY <2>2, <2>3, <2>4, LenProperties
  <2>6. \A i \in 1..T+1 : i \in 1..T \/ i = T + 1
    BY RecSizes
  <2> QED BY <2>4, <2>5, <2>6 DEF Listed
<1>14. Typed'
  <2>1. T < T + 1 /\ \A t \in 0..NTokens-1 : t <= T => t <= T + 1
    BY RecSizes
  <2>2. \A l \in 0..NLayers-1, t \in 0..NTokens-1 : rows[l][t] # {} => t <= T + 1
    BY <1>1, <1>2, <2>1 DEF Typed
  <2> QED BY <1>1, <1>10, <1>11, <1>12, <1>13, <2>2, SMTT(40) DEF Typed, Idle, Listed
<1>15. \A t \in 0..NTokens-1, k \in Site : Causes'[<<t, k>>] = Causes[<<t, k>>]
  BY <1>1, <1>11, <1>14, CausesSame
<1>16. SiteNow' = 0
  BY <1>12 DEF SiteNow
<1>17. \A t \in Nat, k \in Site : Passed(t, k)' <=> Passed(t, k) \/ (t = at.token /\ k = SiteNow)
  <2>1. ASSUME NEW t \in Nat, NEW k \in Site
        PROVE  Passed(t, k)' <=> Passed(t, k) \/ (t = at.token /\ k = SiteNow)
    <3>1. k \in Nat /\ k <= LastSite
      BY RecSizes DEF Site
    <3>2. (Passed(t, k) <=> t < T \/ (t = T /\ k < LastSite)) /\ (Passed(t, k)' <=> t < T + 1)
      BY <1>2, <1>3, <1>12, <1>16, <3>1 DEF Passed
    <3>3. T \in Nat
      BY RecSizes
    <3>4. t < T + 1 <=> t < T \/ (t = T /\ k < LastSite) \/ (t = T /\ k = LastSite)
      BY <3>1, <3>3, RecSizes
    <3> QED BY <1>2, <1>3, <3>2, <3>4
  <2> QED BY <2>1
<1>18. Ordered'
  BY <1>1, <1>10, <1>17, AddsOrdered
<1>19. RecordsFitTogether' /\ HeadMade'
  BY <1>1, <1>8, <1>10, AddsFit DEF RecorderInv
<1>20. CapturesFollowPlan'
  <2>1. AsPlanned(acts) /\ AsPlanned(lens) /\ \A i \in DOMAIN logits : logits[i].causes = Causes[<<i - 1, LastSite>>]
    BY PlanFollowed DEF RecorderInv
  <2>2. AsPlanned(acts)' /\ AsPlanned(lens)'
    BY <1>1, <1>8, <1>10, <1>15, <2>1, AddsPlanned
  <2>3. ASSUME NEW i \in DOMAIN logits'
        PROVE  logits'[i].causes = Causes'[<<i - 1, LastSite>>]
    <3>1. i \in 1..T+1
      BY <1>13, ListedFacts
    <3>2. i - 1 \in 0..NTokens-1
      BY <3>1, RecSizes
    <3>3. CASE i \in DOMAIN logits /\ logits'[i] = logits[i]
      BY <1>3, <1>15, <2>1, <3>2, <3>3
    <3>4. CASE i = T + 1 /\ logits'[i] = v
      <4>1. i - 1 = T
        BY <3>4, RecSizes
      <4> QED BY <1>3, <1>8, <1>15, <3>2, <3>4, <4>1
    <3> QED BY <1>13, <3>3, <3>4
  <2>4. (\A i \in DOMAIN logits : logits[i].causes = Causes[<<i - 1, LastSite>>])'
    BY <2>3
  <2>5. (CapturesFollowPlan <=> /\ AsPlanned(acts) /\ AsPlanned(lens)
                                /\ \A i \in DOMAIN logits : logits[i].causes = Causes[<<i - 1, LastSite>>])'
    BY PlanFollowed, PTL
  <2> QED BY <2>2, <2>4, <2>5, Zenon
<1>21. SnapshotsInOrder' /\ LastSnapshot'
  <2>1. /\ SnapshotsInOrder'
        /\ "acts" \in at.on => acts' # << >> /\ acts'[Len(acts')] = Snapshot(v)
        /\ "acts" \notin at.on => acts' = acts
    BY <1>1, <1>10, AddsInOrder DEF RecorderInv
  <2>2. CASE "acts" \in at.on
    <3>1. acts'[Len(acts')].token = T /\ acts'[Len(acts')].checkpoint = "post_lm_head" /\ T < T + 1
      BY <1>2, <1>3, <2>1, <2>2, SnapshotFacts, RecSizes DEF IsSite
    <3> QED BY <1>12, <2>1, <3>1 DEF LastSnapshot
  <2>3. CASE "acts" \notin at.on
    <3>1. ASSUME acts # << >>
          PROVE  acts[Len(acts)].token < T + 1 /\ acts[Len(acts)].checkpoint = "post_lm_head"
      <4>1. acts[Len(acts)].token < T /\ acts[Len(acts)].checkpoint = "post_lm_head"
        BY <1>1, <1>2, <2>3, <3>1 DEF RecorderInv, LastSnapshot
      <4>2. Len(acts) \in DOMAIN acts
        BY <1>1, <3>1, ListedFacts DEF Typed
      <4>3. acts[Len(acts)].token \in Nat
        BY <1>1, <4>2 DEF Ordered
      <4> QED BY <4>1, <4>3, RecSizes
    <3> QED BY <1>12, <2>1, <2>3, <3>1 DEF LastSnapshot
  <2> QED BY <2>1, <2>2, <2>3
<1>22. SnapshotIsStream'
  BY <1>12 DEF SnapshotIsStream, Running
<1>23. StreamInv'
  <2>1. ASSUME NEW l \in 0..NLayers-1, NEW t \in 0..NTokens-1, Passed(t, 2 * l + 1)'
        PROVE  rows'[l][t] = Causes'[<<t, 2 * l>>]
    <3>1. 2 * l + 1 \in Site /\ 2 * l \in Site /\ t \in Nat /\ 2 * l + 1 # LastSite
      BY RecSizes DEF Site
    <3>2. Passed(t, 2 * l + 1)
      <4>1. PICK k \in Site : k = 2 * l + 1
        BY <3>1
      <4>2. Passed(t, k)' /\ k # SiteNow
        BY <1>3, <2>1, <3>1, <4>1
      <4> QED BY <1>17, <3>1, <4>1, <4>2
    <3>3. rows[l][t] = Causes[<<t, 2 * l>>]
      BY <1>1, <3>2 DEF StreamInv
    <3> QED BY <1>11, <1>15, <3>1, <3>3
  <2>2. (\A l \in 0..NLayers-1, t \in 0..NTokens-1 : Passed(t, 2 * l + 1) => rows[l][t] = Causes[<<t, 2 * l>>])'
    BY <2>1
  <2> QED BY <1>12, <2>2 DEF StreamInv, Running
<1> QED BY <1>14, <1>18, <1>19, <1>20, <1>21, <1>22, <1>23 DEF RecorderInv

(* The ops before an error are those of the stage, in order. *)
LEMMA SomeOps ==
  ASSUME Typed, at.stage \in {"embed"} \cup Running, NEW n \in 0..Len(StageOps)
  PROVE  /\ Listed(SubSeq(StageOps, 1, n))
         /\ \A j \in DOMAIN SubSeq(StageOps, 1, n) :
              at.stage \in Running /\ \E m \in DOMAIN StageOps : SubSeq(StageOps, 1, n)[j] = StageOps[m]
<1>1. Listed(StageOps) /\ (at.stage = "embed" => Len(StageOps) = 0)
  <2>1. CASE at.stage \in Running
    BY <2>1, StageRecords DEF Running
  <2>2. CASE at.stage = "embed"
    <3>1. StageOps = << >>
      BY <2>2 DEF StageOps
    <3> QED BY <3>1, ShortLists
  <2> QED BY <2>1, <2>2
<1>2. PICK s : s = StageOps
  OBVIOUS
<1>3. PICK S : s \in Seq(S)
  BY <1>1, <1>2 DEF Listed
<1>4. Len(s) \in Nat /\ DOMAIN s = 1..Len(s) /\ n \in Int /\ n <= Len(s) /\ n \in Nat
  BY <1>2, <1>3, LenProperties
<1>5. \A i \in 1..n : s[i] \in S /\ i \in DOMAIN s
  <2>1. \A i \in 1..n : i \in 1..Len(s)
    BY <1>4
  <2> QED BY <1>3, <1>4, <2>1, ElementOfSeq
<1>6. PICK c : c = SubSeq(s, 1, n)
  OBVIOUS
<1>7. c \in Seq(S) /\ Len(c) = n /\ \A j \in 1..n : c[j] = s[j]
  <2>1. /\ SubSeq(s, 1, n) \in Seq(S)
        /\ Len(SubSeq(s, 1, n)) = IF 1 <= n THEN n - 1 + 1 ELSE 0
        /\ \A i \in 1..n - 1 + 1 : SubSeq(s, 1, n)[i] = s[1 + i - 1]
    BY <1>4, <1>5, SubSeqProperties
  <2>2. 1..n - 1 + 1 = 1..n /\ \A i \in 1..n : 1 + i - 1 = i
    BY <1>4
  <2>3. (IF 1 <= n THEN n - 1 + 1 ELSE 0) = n
    BY <1>4
  <2> QED BY <1>6, <2>1, <2>2, <2>3
<1>8. DOMAIN c = 1..n
  BY <1>7, LenProperties
<1>9. ASSUME NEW j \in DOMAIN c
      PROVE  at.stage \in Running /\ \E m \in DOMAIN s : c[j] = s[m]
  <2>1. n # 0
    BY <1>4, <1>8
  <2> QED BY <1>1, <1>2, <1>4, <1>5, <1>7, <1>8, <2>1
<1> QED BY <1>2, <1>6, <1>7, <1>9, Zenon DEF Listed

(* A step that fails leaves what was recorded before the error, and no more. *)
LEMMA FailInv == RecorderInv /\ Fail => RecorderInv'
<1> SUFFICES ASSUME RecorderInv, Fail PROVE RecorderInv'
  OBVIOUS
<1>1. Typed /\ Ordered /\ at.stage \in {"embed"} \cup Running
  BY DEF RecorderInv, Fail, Running
<1>2. /\ at' = [at EXCEPT !.stage = "failed"] /\ UNCHANGED <<plan, declared, known, logits>>
      /\ acts' = acts /\ x' = x
  BY DEF Fail
<1>3. PICK n \in 0..Len(StageOps) :
        /\ ops' = ops \o When("ops", SubSeq(StageOps, 1, n))
        /\ IF at.stage = "attn" /\ n >= 4
           THEN /\ rows' = Cached
                /\ lens' = lens \o When("lens", <<Entry("pre_wo", at.layer, Heads)>>)
           ELSE UNCHANGED <<rows, lens>>
  BY DEF Fail
<1>4. PICK v : v = [made |-> "override", causes |-> Causes[<<at.token, SiteNow>>]]
  OBVIOUS
<1>5. v.made = "override" /\ v.causes = Causes[<<at.token, SiteNow>>] /\ HeadOutput(v)
  BY <1>4 DEF HeadOutput
<1>6. Listed(ops)' /\ \A j \in DOMAIN ops' :
        Old(ops', ops, j) \/ (at.stage \in Running /\ \E m \in DOMAIN StageOps : ops'[j] = StageOps[m])
  <2>1. PICK t : t = SubSeq(StageOps, 1, n)
    OBVIOUS
  <2>2. Listed(t) /\ \A j \in DOMAIN t : at.stage \in Running /\ \E m \in DOMAIN StageOps : t[j] = StageOps[m]
    BY <1>1, <2>1, SomeOps
  <2>3. PICK c : c = ops'
    OBVIOUS
  <2>4. Joined(c, ops, "ops", t)
    BY <1>3, <2>1, <2>3 DEF Joined
  <2>5. /\ Listed(c)
        /\ \A i \in DOMAIN c : (i \in DOMAIN ops /\ c[i] = ops[i]) \/ \E j \in DOMAIN t : c[i] = t[j]
    BY <1>1, <2>2, <2>4, Recorded DEF Typed
  <2> QED BY <2>2, <2>3, <2>5 DEF Old, Listed
<1>7. Listed(lens)' /\ \A i \in DOMAIN lens' :
        Old(lens', lens, i) \/ (lens'[i].checkpoint = "pre_wo" /\ lens'[i].token \in Nat)
  <2>1. CASE at.stage = "attn" /\ n >= 4
    <3>1. PICK h : h = Entry("pre_wo", at.layer, Heads)
      OBVIOUS
    <3>2. h.checkpoint = "pre_wo" /\ h.token \in Nat
      BY <1>1, <3>1, StageSite DEF Entry
    <3>3. PICK t : t = <<h>>
      OBVIOUS
    <3>4. Listed(t) /\ \A j \in DOMAIN t : t[j] = h
      BY <3>3, ShortLists, Singletons
    <3>5. PICK c : c = lens'
      OBVIOUS
    <3>6. Joined(c, lens, "lens", t)
      BY <1>3, <2>1, <3>1, <3>3, <3>5 DEF Joined
    <3>7. /\ Listed(c)
          /\ \A i \in DOMAIN c : (i \in DOMAIN lens /\ c[i] = lens[i]) \/ \E j \in DOMAIN t : c[i] = t[j]
      BY <1>1, <3>4, <3>6, Recorded DEF Typed
    <3> QED BY <3>2, <3>4, <3>5, <3>7 DEF Old, Listed
  <2>2. CASE ~ (at.stage = "attn" /\ n >= 4)
    <3>1. lens' = lens
      BY <1>3, <2>2
    <3> QED BY <1>1, <3>1 DEF Old, Listed, Typed
  <2> QED BY <2>1, <2>2
<1>8. Adds(v)
  BY <1>2, <1>6, <1>7 DEF Adds, Old
<1>9. at'.token = at.token /\ at'.layer = at.layer /\ at'.stage = "failed" /\ at.layer \in 0..NLayers-1
      /\ at' = [at EXCEPT !.layer = at'.layer, !.stage = at'.stage]
  BY <1>1, <1>2 DEF Typed
<1>10. Typed'
  <2>1. Listed(acts)'
    BY <1>1, <1>2 DEF Typed, Listed
  <2>2. rows' = rows \/ rows' = Cached
    BY <1>3
  <2> QED BY <1>1, <1>2, <1>6, <1>7, <1>9, <2>1, <2>2, TypedKept
<1>11. SiteNow' = LastSite + 1
  BY <1>9 DEF SiteNow
<1>12. \A t \in Nat, k \in Site : Passed(t, k) \/ (t = at.token /\ k = SiteNow) => Passed(t, k)'
  <2>1. \A k \in Site : k < LastSite + 1
    BY RecSizes DEF Site
  <2> QED BY <1>9, <1>11, <2>1 DEF Passed
<1>13. Ordered'
  BY <1>1, <1>8, <1>12, AddsOrdered
<1>14. RecordsFitTogether' /\ HeadMade'
  BY <1>1, <1>5, <1>8, AddsFit DEF RecorderInv
<1>15. CapturesFollowPlan'
  <2>1. \A t \in 0..NTokens-1, k \in Site : Causes'[<<t, k>>] = Causes[<<t, k>>]
    BY <1>1, <1>2, <1>10, CausesSame
  <2>2. AsPlanned(acts) /\ AsPlanned(lens) /\ \A i \in DOMAIN logits : logits[i].causes = Causes[<<i - 1, LastSite>>]
    BY PlanFollowed DEF RecorderInv
  <2>3. AsPlanned(acts)' /\ AsPlanned(lens)'
    BY <1>1, <1>5, <1>8, <2>1, <2>2, AddsPlanned
  <2>4. ASSUME NEW i \in DOMAIN logits
        PROVE  logits[i].causes = Causes'[<<i - 1, LastSite>>]
    <3>1. i \in 1..at.token /\ at.token \in 0..NTokens-1
      BY <1>1, ListedFacts, StageSite DEF Typed
    <3>2. i - 1 \in 0..NTokens-1 /\ LastSite \in Site
      BY <3>1, RecSizes DEF Site
    <3> QED BY <2>1, <2>2, <3>2
  <2>5. (\A i \in DOMAIN logits : logits[i].causes = Causes[<<i - 1, LastSite>>])'
    BY <1>2, <2>4
  <2>6. (CapturesFollowPlan <=> /\ AsPlanned(acts) /\ AsPlanned(lens)
                                /\ \A i \in DOMAIN logits : logits[i].causes = Causes[<<i - 1, LastSite>>])'
    BY PlanFollowed, PTL
  <2> QED BY <2>3, <2>5, <2>6, Zenon
<1>16. SnapshotsInOrder' /\ LastSnapshot' /\ SnapshotIsStream' /\ StreamInv'
  BY <1>2, <1>9 DEF RecorderInv, SnapshotsInOrder, LastSnapshot, SnapshotIsStream, StreamInv, Running
<1> QED BY <1>10, <1>13, <1>14, <1>15, <1>16 DEF RecorderInv

-----------------------------------------------------------------------------
(* In every state, of any run of steps with any recorders attached to each,
   the stream and the cache are those of the plan, and what is recorded is
   of sites that were made, in their order (step_with_recorders). *)
THEOREM RecorderInvariant == Spec => []RecorderInv
<1>1. RecorderInv /\ [Next]_vars => RecorderInv'
  <2>1. RecorderInv /\ UNCHANGED vars => RecorderInv'
    <3> SUFFICES ASSUME RecorderInv, UNCHANGED vars PROVE RecorderInv'
      OBVIOUS
    <3>1. /\ plan' = plan /\ declared' = declared /\ at' = at /\ x' = x /\ rows' = rows
          /\ ops' = ops /\ acts' = acts /\ lens' = lens /\ logits' = logits /\ known' = known
      BY DEF vars, records
    <3>2. Typed'
      BY <3>1 DEF RecorderInv, Typed, Idle, Listed, Running
    <3>3. SiteNow' = SiteNow /\ Causes' = Causes
      BY <3>1 DEF SiteNow, Causes, Replaced, OverridesOf
    <3> QED BY <3>1, <3>2, <3>3 DEF RecorderInv, StreamInv, CapturesFollowPlan, Ordered, LastSnapshot,
              SnapshotsInOrder, SnapshotIsStream, HeadMade, RecordsFitTogether, Passed
  <2>2. RecorderInv /\ Next => RecorderInv'
    BY AddOverrideInv, DeclareInterventionInv, BeginInv, EmbedInv, AttentionInv, FeedForwardInv,
       FinalNormInv, LmHeadInv, FailInv DEF Next
  <2> QED BY <2>1, <2>2
<1> QED BY <1>1, RecorderInitInv, PTL DEF Spec

(* A step in progress is at a token and a layer of the model, and the cache
   has rows of no later token. *)
THEOREM RecorderTyped == Spec => []TypeOK
<1>1. RecorderInv => TypeOK
  <2> SUFFICES ASSUME RecorderInv PROVE TypeOK
    OBVIOUS
  <2>1. Typed
    BY DEF RecorderInv
  <2>2. \A k \in DOMAIN plan : plan[k] \in Overrides
    BY <2>1, ElementOfSeq, LenProperties DEF Typed
  <2> QED BY <2>1, <2>2 DEF Typed, TypeOK
<1> QED BY <1>1, RecorderInvariant, PTL

(* An override reaches exactly the checkpoints it causes, of its own token
   and through the cache of later ones, whatever is recorded of each step
   (forward_quantized.rs:317-319, 356-358). *)
THEOREM RecorderFollowsPlan == Spec => []CapturesFollowPlan
<1>1. RecorderInv => CapturesFollowPlan
  BY DEF RecorderInv
<1> QED BY <1>1, RecorderInvariant, PTL

(* A receipt's ops, its snapshots and the lens's entries chain: each reader
   of a snapshot read the tensor that was recorded. *)
THEOREM RecorderFits == Spec => []RecordsFitTogether
<1>1. RecorderInv => RecordsFitTogether
  BY DEF RecorderInv
<1> QED BY <1>1, RecorderInvariant, PTL

(* The snapshots are listed in the order of execution, one for each
   checkpoint of each recorded step (builder.rs:283-287). *)
THEOREM RecorderInOrder == Spec => []SnapshotsInOrder
<1>1. RecorderInv => SnapshotsInOrder
  BY DEF RecorderInv
<1> QED BY <1>1, RecorderInvariant, PTL
=============================================================================

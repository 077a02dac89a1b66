------------------------------ MODULE SeqLemmas ------------------------------
(***************************************************************************)
(* Facts about sequences and natural numbers the proofs of this project    *)
(* rest on.                                                                *)
(***************************************************************************)
EXTENDS Integers, Sequences, SequenceTheorems, WellFoundedInduction, TLAPS

(* A set of naturals that is not empty has a least element: the form in
   which the proofs use induction. *)
LEMMA LeastElement ==
  ASSUME NEW T, T \subseteq Nat, T # {}
  PROVE  \E m \in T : \A n \in T : m <= n
<1> DEFINE R == OpToRel(<, Nat)
<1>1. IsWellFoundedOn(R, Nat)
  BY NatLessThanWellFounded
<1>2. \A x, y \in Nat : <<y, x>> \in R <=> y < x
  BY DEF OpToRel
<1> HIDE DEF R
<1>3. PICK m \in T : \A y \in T : ~ (<<y, m>> \in R)
  BY <1>1, WFMin
<1>4. \A y \in T : ~ (y < m)
  BY <1>2, <1>3, Zenon
<1> QED BY <1>3, <1>4

(* The last element of a sequence something was appended to. *)
LEMMA AppendLast ==
  ASSUME NEW S, NEW s \in Seq(S), NEW e \in S
  PROVE  Append(s, e)[Len(s) + 1] = e
BY AppendProperties

(* What a prefix of a sequence is. *)
LEMMA PrefixFacts ==
  ASSUME NEW S, NEW s \in Seq(S), NEW n \in 0..Len(s)
  PROVE  /\ SubSeq(s, 1, n) \in Seq(S)
         /\ Len(SubSeq(s, 1, n)) = n
         /\ \A i \in 1..n : SubSeq(s, 1, n)[i] = s[i]
<1>1. \A i \in 1..n : s[i] \in S
  BY ElementOfSeq, LenProperties
<1>2. /\ SubSeq(s, 1, n) \in Seq(S)
      /\ Len(SubSeq(s, 1, n)) = IF 1 <= n THEN n - 1 + 1 ELSE 0
      /\ \A i \in 1..n-1+1 : SubSeq(s, 1, n)[i] = s[1 + i - 1]
  BY <1>1, SubSeqProperties, LenProperties
<1> QED BY <1>2, LenProperties

(* A prefix of a prefix. *)
LEMMA PrefixOfPrefix ==
  ASSUME NEW S, NEW s \in Seq(S), NEW n \in 0..Len(s), NEW m \in 0..n
  PROVE  SubSeq(SubSeq(s, 1, n), 1, m) = SubSeq(s, 1, m)
<1>1. /\ SubSeq(s, 1, n) \in Seq(S) /\ Len(SubSeq(s, 1, n)) = n
      /\ \A i \in 1..n : SubSeq(s, 1, n)[i] = s[i]
  BY PrefixFacts
<1>2. /\ SubSeq(s, 1, m) \in Seq(S) /\ Len(SubSeq(s, 1, m)) = m
      /\ \A i \in 1..m : SubSeq(s, 1, m)[i] = s[i]
  BY PrefixFacts, LenProperties
<1> DEFINE p == SubSeq(s, 1, n)
<1>3. /\ SubSeq(p, 1, m) \in Seq(S) /\ Len(SubSeq(p, 1, m)) = m
      /\ \A i \in 1..m : SubSeq(p, 1, m)[i] = p[i]
  <2> HIDE DEF p
  <2> QED BY <1>1, PrefixFacts DEF p
<1> HIDE DEF p
<1>4. \A i \in 1..m : SubSeq(p, 1, m)[i] = SubSeq(s, 1, m)[i]
  BY <1>1, <1>2, <1>3 DEF p
<1> QED BY <1>2, <1>3, <1>4, SeqEqual DEF p

(* A prefix extended by the next element is the next prefix. *)
LEMMA PrefixExtended ==
  ASSUME NEW S, NEW s \in Seq(S), NEW n \in 0..Len(s)-1
  PROVE  Append(SubSeq(s, 1, n), s[n + 1]) = SubSeq(s, 1, n + 1)
<1>0. n \in 0..Len(s) /\ n + 1 \in 0..Len(s) /\ n + 1 \in 1..Len(s)
  BY LenProperties
<1>1. s[n + 1] \in S
  BY <1>0, ElementOfSeq
<1> DEFINE p == SubSeq(s, 1, n)
           q == SubSeq(s, 1, n + 1)
           a == Append(p, s[n + 1])
<1>2. p \in Seq(S) /\ Len(p) = n /\ \A i \in 1..n : p[i] = s[i]
  BY <1>0, PrefixFacts
<1>3. q \in Seq(S) /\ Len(q) = n + 1 /\ \A i \in 1..n+1 : q[i] = s[i]
  BY <1>0, PrefixFacts
<1> HIDE DEF p, q
<1>4. /\ a \in Seq(S) /\ Len(a) = n + 1
      /\ \A i \in 1..n : a[i] = p[i]
      /\ a[n + 1] = s[n + 1]
  BY <1>1, <1>2, AppendProperties
<1> HIDE DEF a
<1>5. \A i \in 1..n+1 : a[i] = q[i]
  BY <1>2, <1>3, <1>4
<1>6. a = q
  BY <1>3, <1>4, <1>5, SeqEqual
<1> QED BY <1>6 DEF a, p, q

(* A prefix of the first part of a concatenation. *)
LEMMA PrefixOfConcat ==
  ASSUME NEW S, NEW s \in Seq(S), NEW t \in Seq(S), NEW n \in 0..Len(s)
  PROVE  SubSeq(s \o t, 1, n) = SubSeq(s, 1, n)
<1> DEFINE c == s \o t
<1>1. c \in Seq(S) /\ Len(c) = Len(s) + Len(t)
      /\ \A i \in 1..Len(s) : c[i] = s[i]
  BY ConcatProperties, LenProperties
<1> HIDE DEF c
<1>2. n \in 0..Len(c)
  BY <1>1, LenProperties
<1>3. /\ SubSeq(c, 1, n) \in Seq(S) /\ Len(SubSeq(c, 1, n)) = n
      /\ \A i \in 1..n : SubSeq(c, 1, n)[i] = c[i]
  BY <1>1, <1>2, PrefixFacts
<1>4. /\ SubSeq(s, 1, n) \in Seq(S) /\ Len(SubSeq(s, 1, n)) = n
      /\ \A i \in 1..n : SubSeq(s, 1, n)[i] = s[i]
  BY PrefixFacts
<1>5. \A i \in 1..n : SubSeq(c, 1, n)[i] = SubSeq(s, 1, n)[i]
  BY <1>1, <1>3, <1>4, LenProperties
<1> QED BY <1>3, <1>4, <1>5, SeqEqual DEF c

(* Appending to a concatenation. *)
LEMMA AppendToConcat ==
  ASSUME NEW S, NEW s \in Seq(S), NEW t \in Seq(S), NEW e \in S
  PROVE  s \o Append(t, e) = Append(s \o t, e)
<1>1. Append(t, e) = t \o <<e>> /\ Append(s \o t, e) = (s \o t) \o <<e>>
  BY AppendIsConcat, ConcatProperties
<1>2. <<e>> \in Seq(S)
  OBVIOUS
<1> QED BY <1>1, <1>2, ConcatAssociative

(* usize addition does not wrap below the modulus. *)
LEMMA ModBelow ==
  ASSUME NEW a \in Nat, NEW n \in Nat, a < n
  PROVE  a % n = a
OBVIOUS

(* A function can be defined at n from its value at a smaller h[n]: the
   recursive functions of this project are such functions. *)
Solves(f, D, h, base, step) ==
  \A n \in Nat : f[n] = IF n \in D THEN step[n][f[h[n]]] ELSE base[n]

LEMMA Recursion ==
  ASSUME NEW V, NEW D \in SUBSET Nat, NEW h \in [Nat -> Nat],
         NEW base \in [Nat -> V], NEW step \in [Nat -> [V -> V]],
         \A n \in D : h[n] < n
  PROVE  \E f \in [Nat -> V] : Solves(f, D, h, base, step)
<1> DEFINE Body(f, n) == IF n \in D THEN step[n][f[h[n]]] ELSE base[n]
           Good(f, n) == f \in [Nat -> V] /\ \A k \in Nat : k < n => f[k] = Body(f, k)
<1>0. ASSUME NEW f \in [Nat -> V], NEW n \in Nat PROVE Body(f, n) \in V
  OBVIOUS
<1>1. ASSUME NEW n \in Nat, NEW f, Good(f, n) PROVE \E g : Good(g, n + 1)
  <2> DEFINE v == Body(f, n)
             g == [f EXCEPT ![n] = v]
  <2>1. v \in V /\ f \in [Nat -> V]
    BY <1>0, <1>1
  <2> HIDE DEF v
  <2>2. g \in [Nat -> V] /\ g[n] = v /\ \A k \in Nat : k # n => g[k] = f[k]
    BY <2>1
  <2> HIDE DEF g
  <2>3. ASSUME NEW k \in Nat, k < n + 1 PROVE g[k] = Body(g, k)
    <3>1. k < n \/ k = n
      BY <2>3
    <3>2. k \in D => h[k] \in Nat /\ h[k] < k /\ h[k] # n
      BY <3>1
    <3>3. Body(g, k) = Body(f, k)
      BY <2>2, <3>2
    <3>4. CASE k = n
      BY <2>2, <3>3, <3>4 DEF v
    <3>5. CASE k < n
      <4>1. f[k] = Body(f, k) /\ k # n
        BY <1>1, <3>5
      <4> QED
        BY <2>2, <3>3, <4>1
    <3> QED
      BY <3>1, <3>4, <3>5
  <2> QED
    BY <2>2, <2>3
<1>2. ASSUME NEW n \in Nat PROVE \E f : Good(f, n)
  <2> DEFINE T == {k \in Nat : ~ \E f : Good(f, k)}
  <2> HIDE DEF Good
  <2>1. CASE T = {}
    BY <2>1
  <2>2. CASE T # {}
    <3>1. PICK m \in T : \A k \in T : m <= k
      BY <2>2, LeastElement
    <3>2. m # 0
      <4>1. Good(base, 0)
        BY DEF Good
      <4> QED
        BY <4>1
    <3>3. m - 1 \in Nat /\ ~ (m <= m - 1) /\ m - 1 + 1 = m
      BY <3>2
    <3>4. \E f : Good(f, m - 1)
      BY <3>1, <3>3
    <3>5. \E f : Good(f, m - 1 + 1)
      BY <1>1, <3>3, <3>4
    <3> QED
      BY <3>3, <3>5
  <2> QED
    BY <2>1, <2>2
<1>3. ASSUME NEW f, NEW g, NEW n \in Nat, Good(f, n), Good(g, n), NEW i \in Nat, i < n
      PROVE  f[i] = g[i]
  <2> DEFINE T == {k \in Nat : k < n /\ f[k] # g[k]}
  <2>1. CASE T = {}
    BY <1>3, <2>1
  <2>2. CASE T # {}
    <3>1. PICK m \in T : \A k \in T : m <= k
      BY <2>2, LeastElement
    <3>2. m \in D => h[m] \in Nat /\ h[m] < n /\ ~ (m <= h[m])
      BY <3>1
    <3>3. m \in D => f[h[m]] = g[h[m]]
      BY <3>1, <3>2
    <3>4. f[m] = Body(f, m) /\ g[m] = Body(g, m)
      BY <1>3, <3>1
    <3> QED
      BY <3>1, <3>3, <3>4
  <2> QED
    BY <2>1, <2>2
<1> DEFINE At(n) == CHOOSE f : Good(f, n + 1)
           F == [n \in Nat |-> At(n)[n]]
<1>4. ASSUME NEW n \in Nat PROVE Good(At(n), n + 1)
  <2> HIDE DEF Good
  <2>1. n + 1 \in Nat
    OBVIOUS
  <2> QED
    BY <1>2, <2>1
<1>5. \A n \in Nat : F[n] = At(n)[n]
  OBVIOUS
<1> HIDE DEF At, F
<1>6. ASSUME NEW n \in Nat PROVE F[n] = Body(F, n) /\ F[n] \in V
  <2>1. At(n) \in [Nat -> V] /\ At(n)[n] = Body(At(n), n)
    BY <1>4
  <2>2. ASSUME n \in D PROVE At(n)[h[n]] = F[h[n]]
    <3>1. h[n] \in Nat /\ h[n] < n
      BY <2>2
    <3>2. Good(At(h[n]), h[n] + 1)
      BY <1>4, <3>1
    <3>3. Good(At(n), h[n] + 1)
      BY <1>4, <3>1
    <3>4. h[n] < h[n] + 1 /\ h[n] + 1 \in Nat
      BY <3>1
    <3> HIDE DEF Good
    <3>5. At(n)[h[n]] = At(h[n])[h[n]]
      BY <1>3, <3>1, <3>2, <3>3, <3>4
    <3> QED
      BY <1>5, <3>1, <3>5
  <2> QED
    BY <1>5, <2>1, <2>2
<1>7. F \in [Nat -> V]
  <2>1. F = [n \in Nat |-> F[n]]
    BY DEF F
  <2> QED
    BY <1>6, <2>1
<1> QED
  BY <1>6, <1>7 DEF Solves
-----------------------------------------------------------------------------
(* Division by a positive number ... *)
LEMMA DivNat ==
  ASSUME NEW a \in Nat, NEW n \in Nat \ {0}
  PROVE  a \div n \in Nat /\ a % n \in 0..n-1 /\ a = n * (a \div n) + (a % n)
OBVIOUS

(* ... whose quotient and remainder are the only ones. *)
LEMMA DivUnique ==
  ASSUME NEW n \in Nat \ {0}, NEW q \in Int, NEW r \in 0..n-1, NEW a \in Int, a = n * q + r
  PROVE  a \div n = q /\ a % n = r
OBVIOUS

(* What the quotient of a number between two multiples is ... *)
LEMMA DivWithin ==
  ASSUME NEW n \in Nat \ {0}, NEW q \in Int, NEW a \in Int, n * q <= a, a < n * q + n
  PROVE  a \div n = q
<1> DEFINE r == a - n * q
<1>1. r \in 0..n-1 /\ a = n * q + r
  OBVIOUS
<1> HIDE DEF r
<1> QED BY <1>1, DivUnique

(* ... and that of a multiple. *)
LEMMA DivExact ==
  ASSUME NEW n \in Nat \ {0}, NEW q \in Int, NEW a \in Int, a = n * q
  PROVE  a \div n = q /\ a % n = 0
<1>1. a = n * q + 0 /\ 0 \in 0..n-1
  OBVIOUS
<1> QED BY <1>1, DivUnique

(* Larger factors make larger products. *)
LEMMA TimesMonotone ==
  ASSUME NEW n \in Nat, NEW p \in Int, NEW q \in Int, p <= q
  PROVE  n * p <= n * q
OBVIOUS

(* A number is a multiple and a remainder in one way only. *)
LEMMA SplitOnce ==
  ASSUME NEW n \in Nat \ {0}, NEW x \in Int, NEW r \in 0..n-1, NEW u \in Int, NEW v \in 0..n-1,
         x * n + r = u * n + v
  PROVE  x = u /\ r = v
<1>1. PICK a \in Int : a = n * x + r /\ a = n * u + v
  OBVIOUS
<1>2. a \div n = x /\ a % n = r
  BY <1>1, DivUnique
<1>3. a \div n = u /\ a % n = v
  BY <1>1, DivUnique
<1> QED BY <1>2, <1>3

(* Taking multiples of the divisor away takes them from the quotient. *)
LEMMA DivShift ==
  ASSUME NEW n \in Nat \ {0}, NEW a \in Nat, NEW m \in Int
  PROVE  (a - m * n) \div n = (a \div n) - m
<1>1. a \div n \in Int /\ a % n \in 0..n-1 /\ a = n * (a \div n) + (a % n)
  BY DivNat
<1>2. PICK p \in Int : p = a \div n /\ a = n * p + (a % n)
  BY <1>1
<1>3. PICK d \in Int : d = a - m * n
  OBVIOUS
<1>4. p - m \in Int /\ d = n * (p - m) + (a % n)
  BY <1>1, <1>2, <1>3
<1>5. d \div n = p - m
  BY <1>1, <1>4, DivUnique, ZenonT(40)
<1> QED BY <1>2, <1>3, <1>5

-----------------------------------------------------------------------------
(* Tables: sequences that are given entry by entry. *)
IsTable(p, n) == p = [t \in 1..n |-> p[t]]

(* Its length ... *)
LEMMA LenTable ==
  ASSUME NEW n \in Nat, NEW p, IsTable(p, n)
  PROVE  Len(p) = n
<1> DEFINE V == {p[t] : t \in 1..n}
<1>1. p \in [1..n -> V]
  BY DEF IsTable
<1>2. p \in Seq(V)
  BY <1>1, SeqDef
<1> QED BY <1>1, <1>2, LenProperties

(* ... and the next longer one. *)
LEMMA AppendTable ==
  ASSUME NEW n \in Nat, NEW p, IsTable(p, n), NEW e, NEW q, IsTable(q, n + 1),
         \A t \in 1..n : q[t] = p[t], q[n + 1] = e
  PROVE  Append(p, e) = q
<1> DEFINE V == {p[t] : t \in 1..n} \cup {e}
<1>1. p \in [1..n -> V]
  BY DEF IsTable
<1>2. p \in Seq(V) /\ e \in V /\ Len(p) = n
  BY <1>1, LenTable, SeqDef, SMTT(40)
<1>3. /\ Append(p, e) \in Seq(V) /\ Len(Append(p, e)) = n + 1
      /\ \A i \in 1..n : Append(p, e)[i] = p[i] /\ Append(p, e)[n + 1] = e
      /\ Append(p, e)[n + 1] = e
  <2> HIDE DEF V
  <2> QED BY <1>2, AppendProperties
<1>4. q \in [1..n+1 -> V]
  <2>1. \A t \in 1..n+1 : q[t] \in V
    <3>1. \A t \in 1..n+1 : t \in 1..n \/ t = n + 1
      OBVIOUS
    <3> QED BY <3>1
  <2> QED BY <2>1 DEF IsTable
<1>5. q \in Seq(V) /\ Len(q) = n + 1
  <2>1. n + 1 \in Nat
    OBVIOUS
  <2> QED BY <1>4, <2>1, LenTable, SeqDef
<1>6. \A i \in 1..n+1 : Append(p, e)[i] = q[i]
  <2>1. \A t \in 1..n+1 : t \in 1..n \/ t = n + 1
    OBVIOUS
  <2> QED BY <1>3, <2>1
<1> HIDE DEF V
<1> QED BY <1>3, <1>5, <1>6, SeqEqual
=============================================================================

------------------------------- MODULE Blocks -------------------------------
(***************************************************************************)
(* Where a quantized block keeps each of its weights, and who reads it:    *)
(* dequantization, the fused and the integer dots of src/ops/quant.rs and  *)
(* of the CUDA kernels, each with index arithmetic of its own, and         *)
(* quantization, which writes.  Sizes are the real ones.                   *)
(*                                                                         *)
(* A decoder is the set of the weights it finds in two neighbouring        *)
(* blocks: the element, the bits of its number from the lowest, what is    *)
(* subtracted from the number, and the factors of its scale and of its     *)
(* minimum.  A bit is <<byte, position>>; all layouts are little-endian.   *)
(***************************************************************************)
EXTENDS Integers, FiniteSets, Sequences

Types == {"Q4_0", "Q5_0", "Q8_0", "Q4_K", "Q6_K"}

\* Elements and bytes of a block, and the elements under one scale.
Numel(t) == IF t \in {"Q4_K", "Q6_K"} THEN 256 ELSE 32
BlockBytes(t) ==
  CASE t = "Q4_0" -> 18 [] t = "Q5_0" -> 22 [] t = "Q8_0" -> 34 [] t = "Q4_K" -> 144 [] t = "Q6_K" -> 210
Group(t) == IF t = "Q6_K" THEN 16 ELSE 32
BytesForNumel(t, n) == (n \div Numel(t)) * BlockBytes(t)

Bits(byte, from, n) == [k \in 1..n |-> <<byte, from + k - 1>>]
Low(byte) == Bits(byte, 0, 4)
High(byte) == Bits(byte, 4, 4)
Byte(byte) == Bits(byte, 0, 8)
U16(byte) == Byte(byte) \o Byte(byte + 1)

Weight(at, number, less, scale, min) ==
  [at |-> at, number |-> number, less |-> less, scale |-> scale, min |-> min]

\* The same decoder on the next block: the code adds the offset of the block.
Shifted(t, w) ==
  LET Later(bits) == [k \in DOMAIN bits |-> <<bits[k][1] + BlockBytes(t), bits[k][2]>>]
  IN  Weight(w.at + Numel(t), Later(w.number), w.less,
             [f \in DOMAIN w.scale |-> Later(w.scale[f])], [f \in DOMAIN w.min |-> Later(w.min[f])])
BlockByBlock(t, d) == d \cup {Shifted(t, w) : w \in d}
-----------------------------------------------------------------------------
(* Q4_0, Q5_0 and Q8_0. *)

DequantizeQ40 ==
  BlockByBlock("Q4_0", UNION {{Weight(2*k, Low(2 + k), 8, <<U16(0)>>, << >>),
                               Weight(2*k + 1, High(2 + k), 8, <<U16(0)>>, << >>)} : k \in 0..15})
QuantizeQ40 ==
  BlockByBlock("Q4_0", UNION {LET element(m) == Weight(2*k + m, Bits(2 + k, 4*m, 4), 8, <<U16(0)>>, << >>)
                              IN  {element(0), element(1)} : k \in 0..15})

\* Bit k of the u32 at byte 2.
Qh(k) == <<<<2 + k \div 8, k % 8>>>>
DequantizeQ50 ==
  BlockByBlock("Q5_0",
    UNION {{Weight(j, Low(6 + j) \o Qh(j), 16, <<U16(0)>>, << >>),
            Weight(j + 16, High(6 + j) \o Qh(j + 12 + 4), 16, <<U16(0)>>, << >>)} : j \in 0..15})
\* The device finds the block and the half of an index of the row.
DeviceQ50 ==
  {LET bp == 22 * (idx \div 32)
       within == idx % 32
       At(k) == <<<<bp + Qh(k)[1][1], Qh(k)[1][2]>>>>
   IN  Weight(idx, IF within < 16 THEN Low(bp + 6 + within) \o At(within)
                   ELSE High(bp + 6 + within - 16) \o At(within - 16 + 12 + 4),
              16, <<U16(bp)>>, << >>) : idx \in 0..63}

DequantizeQ80 ==
  BlockByBlock("Q8_0", {Weight(k, Byte(2 + k), "signed", <<U16(0)>>, << >>) : k \in 0..31})
QuantizeQ80 ==
  {Weight(32 * n + k, Byte(34 * n + 2 + k), "signed", <<U16(34 * n)>>, << >>) : n \in 0..1, k \in 0..31}
DeviceQ80 ==
  {LET bp == 34 * (idx \div 32)
   IN  Weight(idx, Byte(bp + 2 + (idx % 32)), "signed", <<U16(bp)>>, << >>) : idx \in 0..63}
-----------------------------------------------------------------------------
(* Q4_K: d and dmin, eight scales and minimums of six bits in twelve bytes,*)
(* and nibbles.                                                            *)

\* Mutant: the high bits of a later minimum are taken from beside its scale's.
MinK4Misplaced(j) ==
  IF j < 4 THEN Bits(4 + j + 4, 0, 6) ELSE Bits(4 + j + 4, 4, 4) \o Bits(4 + j - 4, 6, 2)

ScaleK4(j) == IF j < 4 THEN Bits(4 + j, 0, 6) ELSE Bits(4 + j + 4, 0, 4) \o Bits(4 + j - 4, 6, 2)
MinK4(j) == IF j < 4 THEN Bits(4 + j + 4, 0, 6) ELSE Bits(4 + j + 4, 4, 4) \o Bits(4 + j, 6, 2)

Q4K(at, nibble, scale, min) ==
  Weight(at, nibble, 0, <<U16(0), ScaleK4(scale)>>, <<U16(2), MinK4(min)>>)

\* Two sub-blocks an iteration.
DequantizeQ4K ==
  UNION {LET is == 2 * s
             q_off == 16 + 32 * s
             base == 64 * s
         IN  {Q4K(base + l, Low(q_off + l), is, is) : l \in 0..31}
             \cup {Q4K(base + 32 + l, High(q_off + l), is + 1, is + 1) : l \in 0..31} : s \in 0..3}

\* The bytes of 32 that are multiplied with the activations of both halves: one
\* after the other, and in the lanes of NEON's widening multiplications.
DotPairScalar == {<<l, l>> : l \in 0..31}
DotPairNeon == {<<16 * k + 8 * half + i, 16 * k + 8 * half + i>> : k \in 0..1, half \in 0..1, i \in 0..7}

\* The integer dot multiplies a minimum with the sum of the 32 activations of its group.
DotQ4K(pair) ==
  UNION {LET base == 64 * half
         IN  UNION {{Q4K(base + p[2], Low(16 + 32 * half + p[1]), 2 * half, (base + p[2]) \div 32),
                     Q4K(base + 32 + p[2], High(16 + 32 * half + p[1]), 2 * half + 1,
                         (base + 32 + p[2]) \div 32)} : p \in pair} : half \in 0..3}

\* A thread of the cooperative kernel: the positions p = lane + 8 tt.
CoopQ4K ==
  {LET p == lane + 8 * tt
       sub == p \div 64
       within == p % 64
       half == within \div 32
       byte == 16 + 32 * sub + (within % 32)
   IN  Q4K(p, IF half = 0 THEN Low(byte) ELSE High(byte), 2 * sub + half, 2 * sub + half) :
     lane \in 0..7, tt \in 0..31}

\* The batched kernels unpack by element and multiply by sub-block.
GemmQ4K ==
  {LET half == e \div 64
       within == e % 64
       byte == 16 + 32 * half + (within % 32)
       sub == 2 * half + (e - 64 * half) \div 32
   IN  Q4K(e, IF within < 32 THEN Low(byte) ELSE High(byte), sub, sub) : e \in 0..255}
-----------------------------------------------------------------------------
(* Q6_K: low nibbles, high pairs of bits, sixteen scales, d. *)

Q6K(at, byte, g, qh, scale) ==
  Weight(at, (IF g < 2 THEN Low(byte) ELSE High(byte)) \o Bits(128 + qh, 2 * g, 2), 32,
         <<U16(208), Byte(192 + scale)>>, << >>)

DequantizeQ6K ==
  {Q6K(128 * half + l + 32 * g, 64 * half + l + 32 * (g % 2), g, 32 * half + l, 8 * half + l \div 16 + 2 * g) :
     half \in 0..1, l \in 0..31, g \in 0..3}

\* The fused dot fills its buffer in the same walk, with cursors of its own.
FusedQ6K ==
  UNION {LET ql_p == 64 * pass
             qh_p == 32 * pass
             sc_p == 8 * pass
             base == 128 * pass
         IN  {Q6K(base + l + 32 * g, ql_p + l + (IF g \in {1, 3} THEN 32 ELSE 0), g, qh_p + l,
                  sc_p + l \div 16 + 2 * g) : l \in 0..31, g \in 0..3} : pass \in 0..1}

\* The integer dot has an accumulator for each run of sixteen, and scale j for sum j.
DotQ6K ==
  UNION {{Q6K(128 * half + l + 32 * g, 64 * half + l + 32 * (g % 2), g, 32 * half + l,
              8 * half + run + 2 * g) : l \in 16 * run..16 * run + 15, g \in 0..3} :
           half \in 0..1, run \in 0..1}

\* The batched kernel unpacks by element, and takes a scale for sixteen of them.
GemmQ6K ==
  {LET hb == e \div 128
       g == (e % 128) \div 32
       l == e % 32
   IN  Q6K(e, 64 * hb + l + (IF g % 2 = 1 THEN 32 ELSE 0), g, 32 * hb + l, e \div 16) : e \in 0..255}

Decoders(t) ==
  CASE t = "Q4_0" -> {DequantizeQ40, QuantizeQ40}
    [] t = "Q5_0" -> {DequantizeQ50, DeviceQ50}
    [] t = "Q8_0" -> {DequantizeQ80, QuantizeQ80, DeviceQ80}
    [] t = "Q4_K" -> {BlockByBlock(t, d) : d \in {DequantizeQ4K, DotQ4K(DotPairScalar),
                                                  DotQ4K(DotPairNeon), CoopQ4K, GemmQ4K}}
    [] t = "Q6_K" -> {BlockByBlock(t, d) : d \in {DequantizeQ6K, FusedQ6K, DotQ6K, GemmQ6K}}
-----------------------------------------------------------------------------
(* The bits of the scales: half-precision floats, as sign, exponent and    *)
(* mantissa of ten bits (of a float, its highest ten).                     *)

\* Mutant: the exponent of a subnormal starts one too low.
NormalizedFromZero(mant) ==
  LET shift == CHOOSE s \in 1..10 : mant * 2^s \in 1024..2047
  IN  <<127 - 15 - shift, mant * 2^shift - 1024>>

\* A subnormal half is shifted until its leading one is the hidden bit.
Normalized(mant) ==
  LET shift == CHOOSE s \in 1..10 : mant * 2^s \in 1024..2047
  IN  <<127 - 15 + 1 - shift, mant * 2^shift - 1024>>

F16ToF32(exp, mant) ==
  CASE exp = 0 /\ mant = 0 -> <<0, 0>>
    [] exp = 0 /\ mant # 0 -> Normalized(mant)
    [] exp = 31 -> <<255, mant>>
    [] exp \in 1..30 -> <<exp + 127 - 15, mant>>

F32ToF16(f) ==
  LET exp == f[1] - 127 + 15
  IN  CASE exp <= 0 -> <<0, 0>> [] exp >= 31 -> <<31, 0>> [] exp \in 1..30 -> <<exp, f[2]>>
-----------------------------------------------------------------------------
\* Every element of two blocks has one place and every bit one meaning: numbers
\* share no bit with each other or with a scale, scales change where a group
\* begins and nowhere else, and no byte of dtype.rs's block sizes is unused.
Partition(t, d) ==
  LET Set(bits) == {bits[k] : k \in DOMAIN bits}
      numbers == UNION {Set(w.number) : w \in d}
      factors == UNION {{w.scale[f] : f \in DOMAIN w.scale} \cup {w.min[f] : f \in DOMAIN w.min} : w \in d}
      Place == [e \in 0..2 * Numel(t) - 1 |-> CHOOSE w \in d : w.at = e]
      Total(S) == Cardinality(UNION {{<<s, k>> : k \in DOMAIN s} : s \in S})
  IN  /\ {w.at : w \in d} = 0..2 * Numel(t) - 1 /\ Cardinality(d) = 2 * Numel(t)
      /\ Cardinality(numbers) = Total({w.number : w \in d})
      /\ Cardinality(UNION {Set(f) : f \in factors}) = Total(factors)
      /\ numbers \cap UNION {Set(f) : f \in factors} = {}
      /\ numbers \cup UNION {Set(f) : f \in factors}
           = (0..BytesForNumel(t, 2 * Numel(t)) - 1) \X (0..7)
      /\ \A e \in 1..2 * Numel(t) - 1 :
           (Place[e].scale = Place[e - 1].scale /\ Place[e].min = Place[e - 1].min) <=> e % Group(t) # 0

\* The types every reader and writer of which means the same bits by an element.
Agreeing == {t \in Types : \A d, f \in Decoders(t) : d = f /\ Partition(t, d)}

\* A subnormal keeps its value, larger halves are larger floats over every boundary
\* of the format, and a normal one is written back as it was.
HalvesExact ==
  LET Halves == (0..31) \X (0..1023)
      Code(f) == 1024 * f[1] + f[2]
  IN  /\ \A mant \in 1..1023 :
           LET f == F16ToF32(0, mant) IN 1024 + f[2] = mant * 2^(113 - f[1])
      /\ \A c \in 1..Code(<<31, 1023>>) :
           Code(F16ToF32(c \div 1024, c % 1024)) > Code(F16ToF32((c - 1) \div 1024, (c - 1) % 1024))
      /\ \A h \in Halves : h[1] \in 1..30 => F32ToF16(F16ToF32(h[1], h[2])) = h

\* GGML's Q4_0: the two nibbles of a byte are half a block apart, as the decoder of
\* Q5_0 says of GGML's elements.
GgmlQ40 ==
  BlockByBlock("Q4_0", UNION {{Weight(j, Low(2 + j), 8, <<U16(0)>>, << >>),
                               Weight(j + 16, High(2 + j), 8, <<U16(0)>>, << >>)} : j \in 0..15})
GgmlAgrees == DequantizeQ40 = GgmlQ40
=============================================================================

---------------------------- MODULE OpcodesProofs ----------------------------
(***************************************************************************)
(* Proofs about Opcodes for every firmware, part and board.                *)
(***************************************************************************)
EXTENDS Opcodes, TLAPS

-----------------------------------------------------------------------------
(* Bits of a byte.                                                         *)

Digit == {0, 1}
Place == 0 .. 7

\* An interval by its ends.
LEMMA Span == \A r \in Int : \A z : z \in 0 .. r <=> z \in Int /\ 0 <= z /\ z <= r
  BY SMT

\* The words by their ends.
LEMMA WordIs == \A z : z \in Word <=> z \in Int /\ 0 <= z /\ z <= 65535
<1> DEFINE top == 65535
<1>1. top \in Int BY SMT
<1>2. Word = 0 .. top BY SMT DEF Word
<1> HIDE DEF top
<1>3. \A z : z \in Word <=> z \in Int /\ 0 <= z /\ z <= top BY <1>1, <1>2, Span, Zenon
<1> QED BY <1>3, SMT DEF top

\* The values of the bits.
LEMMA Weights ==
  /\ 2^0 = 1 /\ 2^1 = 2 /\ 2^2 = 4 /\ 2^3 = 8
  /\ 2^4 = 16 /\ 2^5 = 32 /\ 2^6 = 64 /\ 2^7 = 128
  OBVIOUS

\* The value of a bit is one of the eight.
LEMMA WeightOf == ASSUME NEW k \in Place PROVE 2^k \in {1, 2, 4, 8, 16, 32, 64, 128}
<1>1. k = 0 \/ k = 1 \/ k = 2 \/ k = 3 \/ k = 4 \/ k = 5 \/ k = 6 \/ k = 7 BY SMT DEF Place
<1>2. \A d : d \in {1, 2, 4, 8, 16, 32, 64, 128} <=>
             \/ d = 1 \/ d = 2 \/ d = 4 \/ d = 8 \/ d = 16 \/ d = 32 \/ d = 64 \/ d = 128
  BY Zenon
<1>3. k = 0 => 2^k = 1 BY Weights, Zenon
<1>4. k = 1 => 2^k = 2 BY Weights, Zenon
<1>5. k = 2 => 2^k = 4 BY Weights, Zenon
<1>6. k = 3 => 2^k = 8 BY Weights, Zenon
<1>7. k = 4 => 2^k = 16 BY Weights, Zenon
<1>8. k = 5 => 2^k = 32 BY Weights, Zenon
<1>9. k = 6 => 2^k = 64 BY Weights, Zenon
<1>10. k = 7 => 2^k = 128 BY Weights, Zenon
<1> QED BY <1>1, <1>2, <1>3, <1>4, <1>5, <1>6, <1>7, <1>8, <1>9, <1>10, Zenon

\* A bit is 0 or 1.
LEMMA BitDigit == ASSUME NEW v \in Nat, NEW k \in Place PROVE Bit(v, k) \in Digit
<1>1. \A d \in {1, 2, 4, 8, 16, 32, 64, 128} : ((v \div d) % 2) \in {0, 1} BY SMT
<1> QED BY <1>1, WeightOf, Zenon DEF Bit, Digit

\* Setting a bit leaves a byte.
LEMMA SetBitByte ==
  ASSUME NEW v \in Byte, NEW k \in Place, NEW x \in Digit
  PROVE  SetBit(v, k, x) \in Byte
<1>1. \A d \in {1, 2, 4, 8, 16, 32, 64, 128} : v + (x - ((v \div d) % 2)) * d \in Byte
  BY SMT DEF Byte, Digit
<1> QED BY <1>1, WeightOf, Zenon DEF Bit, SetBit

\* Eight bits make a byte.
LEMMA OfBitsByte ==
  ASSUME NEW f, \A k \in Place : f[k] \in Digit
  PROVE  OfBits(f) \in Byte
  BY SMT DEF OfBits, Byte, Digit, Place

\* A byte is made of its bits.
LEMMA OfItsBits == ASSUME NEW v \in Byte PROVE OfBits([k \in 0 .. 7 |-> Bit(v, k)]) = v
<1> DEFINE f == [k \in 0 .. 7 |-> Bit(v, k)]
<1>1. /\ f[0] = (v \div 1) % 2 /\ f[1] = (v \div 2) % 2
      /\ f[2] = (v \div 4) % 2 /\ f[3] = (v \div 8) % 2
      /\ f[4] = (v \div 16) % 2 /\ f[5] = (v \div 32) % 2
      /\ f[6] = (v \div 64) % 2 /\ f[7] = (v \div 128) % 2
  BY Weights, SMT DEF Bit
<1> HIDE DEF f
<1>2. f[0] + 2 * f[1] + 4 * f[2] + 8 * f[3] + 16 * f[4] + 32 * f[5] + 64 * f[6] + 128 * f[7] = v
  BY <1>1, SMT DEF Byte
<1> QED BY <1>2, Zenon DEF OfBits, f

\* The bits of a byte made of eight.
LEMMA BitOf ==
  ASSUME NEW f, \A k \in Place : f[k] \in Digit, NEW j \in Place
  PROVE  Bit(OfBits(f), j) = f[j]
<1>1. \A q \in {0, 1, 2, 3, 4, 5, 6, 7} : f[q] \in 0 .. 1 BY SMT DEF Place, Digit
<1> DEFINE s == f[0] + 2 * f[1] + 4 * f[2] + 8 * f[3] + 16 * f[4] + 32 * f[5] + 64 * f[6] + 128 * f[7]
<1>2. (s \div 1) % 2 = f[0] BY <1>1, SMT
<1>3. (s \div 2) % 2 = f[1] BY <1>1, SMT
<1>4. (s \div 4) % 2 = f[2] BY <1>1, SMT
<1>5. (s \div 8) % 2 = f[3] BY <1>1, SMT
<1>6. (s \div 16) % 2 = f[4] BY <1>1, SMT
<1>7. (s \div 32) % 2 = f[5] BY <1>1, SMT
<1>8. (s \div 64) % 2 = f[6] BY <1>1, SMT
<1>9. (s \div 128) % 2 = f[7] BY <1>1, SMT
<1>10. OfBits(f) = s BY Zenon DEF OfBits
<1> HIDE DEF s
<1>11. j = 0 \/ j = 1 \/ j = 2 \/ j = 3 \/ j = 4 \/ j = 5 \/ j = 6 \/ j = 7 BY SMT DEF Place
<1>12. (s \div 2^j) % 2 = f[j]
  <2>1. j = 0 => (s \div 2^j) % 2 = f[j] BY <1>2, Weights, Zenon
  <2>2. j = 1 => (s \div 2^j) % 2 = f[j] BY <1>3, Weights, Zenon
  <2>3. j = 2 => (s \div 2^j) % 2 = f[j] BY <1>4, Weights, Zenon
  <2>4. j = 3 => (s \div 2^j) % 2 = f[j] BY <1>5, Weights, Zenon
  <2>5. j = 4 => (s \div 2^j) % 2 = f[j] BY <1>6, Weights, Zenon
  <2>6. j = 5 => (s \div 2^j) % 2 = f[j] BY <1>7, Weights, Zenon
  <2>7. j = 6 => (s \div 2^j) % 2 = f[j] BY <1>8, Weights, Zenon
  <2>8. j = 7 => (s \div 2^j) % 2 = f[j] BY <1>9, Weights, Zenon
  <2> QED BY <1>11, <2>1, <2>2, <2>3, <2>4, <2>5, <2>6, <2>7, <2>8, Zenon
<1> QED BY <1>10, <1>12, Zenon DEF Bit

\* Eight digits with one replaced.
LEMMA ReplaceDigit ==
  ASSUME NEW f \in [0 .. 7 -> Int], NEW x \in Int
  PROVE  /\ OfBits(f) + (x - f[0]) * 1 = OfBits([f EXCEPT ![0] = x])
         /\ OfBits(f) + (x - f[1]) * 2 = OfBits([f EXCEPT ![1] = x])
         /\ OfBits(f) + (x - f[2]) * 4 = OfBits([f EXCEPT ![2] = x])
         /\ OfBits(f) + (x - f[3]) * 8 = OfBits([f EXCEPT ![3] = x])
         /\ OfBits(f) + (x - f[4]) * 16 = OfBits([f EXCEPT ![4] = x])
         /\ OfBits(f) + (x - f[5]) * 32 = OfBits([f EXCEPT ![5] = x])
         /\ OfBits(f) + (x - f[6]) * 64 = OfBits([f EXCEPT ![6] = x])
         /\ OfBits(f) + (x - f[7]) * 128 = OfBits([f EXCEPT ![7] = x])
<1>1. OfBits(f) + (x - f[0]) * 1 = OfBits([f EXCEPT ![0] = x]) BY SMT DEF OfBits
<1>2. OfBits(f) + (x - f[1]) * 2 = OfBits([f EXCEPT ![1] = x]) BY SMT DEF OfBits
<1>3. OfBits(f) + (x - f[2]) * 4 = OfBits([f EXCEPT ![2] = x]) BY SMT DEF OfBits
<1>4. OfBits(f) + (x - f[3]) * 8 = OfBits([f EXCEPT ![3] = x]) BY SMT DEF OfBits
<1>5. OfBits(f) + (x - f[4]) * 16 = OfBits([f EXCEPT ![4] = x]) BY SMT DEF OfBits
<1>6. OfBits(f) + (x - f[5]) * 32 = OfBits([f EXCEPT ![5] = x]) BY SMT DEF OfBits
<1>7. OfBits(f) + (x - f[6]) * 64 = OfBits([f EXCEPT ![6] = x]) BY SMT DEF OfBits
<1>8. OfBits(f) + (x - f[7]) * 128 = OfBits([f EXCEPT ![7] = x]) BY SMT DEF OfBits
<1> QED BY <1>1, <1>2, <1>3, <1>4, <1>5, <1>6, <1>7, <1>8

\* Setting a bit sets it and leaves the others.
LEMMA SetBitBits ==
  ASSUME NEW v \in Byte, NEW k \in Place, NEW x \in Digit
  PROVE  \A j \in Place : Bit(SetBit(v, k, x), j) = IF j = k THEN x ELSE Bit(v, j)
<1> DEFINE f == [j \in 0 .. 7 |-> Bit(v, j)]
           g == [f EXCEPT ![k] = x]
<1>1. \A j \in Place : Bit(v, j) \in Digit BY BitDigit, SMT DEF Byte
<1>2. \A j \in Place : f[j] = Bit(v, j) /\ g[j] = (IF j = k THEN x ELSE Bit(v, j)) BY Zenon DEF Place
<1>3. \A j \in Place : f[j] \in Digit /\ g[j] \in Digit BY <1>1, <1>2, Zenon
<1>4. OfBits(f) = v BY OfItsBits
<1>5. f \in [0 .. 7 -> Int] /\ x \in Int
  <2>1. Digit \subseteq Int BY SMT DEF Digit
  <2> QED BY <1>1, <2>1, Zenon DEF Place
<1> HIDE DEF f
<1>6. SetBit(v, k, x) = OfBits(g)
  <2>1. SetBit(v, k, x) = OfBits(f) + (x - f[k]) * 2^k BY <1>2, <1>4, Zenon DEF SetBit
  <2>2. k = 0 \/ k = 1 \/ k = 2 \/ k = 3 \/ k = 4 \/ k = 5 \/ k = 6 \/ k = 7 BY SMT DEF Place
  <2>3. CASE k = 0
    <3>1. OfBits(f) + (x - f[0]) * 1 = OfBits([f EXCEPT ![0] = x]) BY <1>5, ReplaceDigit
    <3>2. 2^k = 1 BY <2>3, Weights, SMT
    <3>3. OfBits(f) + (x - f[k]) * 2^k = OfBits([f EXCEPT ![k] = x]) BY <2>3, <3>1, <3>2
    <3> QED BY <2>1, <3>3, Zenon
  <2>4. CASE k = 1
    <3>1. OfBits(f) + (x - f[1]) * 2 = OfBits([f EXCEPT ![1] = x]) BY <1>5, ReplaceDigit
    <3>2. 2^k = 2 BY <2>4, Weights, SMT
    <3>3. OfBits(f) + (x - f[k]) * 2^k = OfBits([f EXCEPT ![k] = x]) BY <2>4, <3>1, <3>2
    <3> QED BY <2>1, <3>3, Zenon
  <2>5. CASE k = 2
    <3>1. OfBits(f) + (x - f[2]) * 4 = OfBits([f EXCEPT ![2] = x]) BY <1>5, ReplaceDigit
    <3>2. 2^k = 4 BY <2>5, Weights, SMT
    <3>3. OfBits(f) + (x - f[k]) * 2^k = OfBits([f EXCEPT ![k] = x]) BY <2>5, <3>1, <3>2
    <3> QED BY <2>1, <3>3, Zenon
  <2>6. CASE k = 3
    <3>1. OfBits(f) + (x - f[3]) * 8 = OfBits([f EXCEPT ![3] = x]) BY <1>5, ReplaceDigit
    <3>2. 2^k = 8 BY <2>6, Weights, SMT
    <3>3. OfBits(f) + (x - f[k]) * 2^k = OfBits([f EXCEPT ![k] = x]) BY <2>6, <3>1, <3>2
    <3> QED BY <2>1, <3>3, Zenon
  <2>7. CASE k = 4
    <3>1. OfBits(f) + (x - f[4]) * 16 = OfBits([f EXCEPT ![4] = x]) BY <1>5, ReplaceDigit
    <3>2. 2^k = 16 BY <2>7, Weights, SMT
    <3>3. OfBits(f) + (x - f[k]) * 2^k = OfBits([f EXCEPT ![k] = x]) BY <2>7, <3>1, <3>2
    <3> QED BY <2>1, <3>3, Zenon
  <2>8. CASE k = 5
    <3>1. OfBits(f) + (x - f[5]) * 32 = OfBits([f EXCEPT ![5] = x]) BY <1>5, ReplaceDigit
    <3>2. 2^k = 32 BY <2>8, Weights, SMT
    <3>3. OfBits(f) + (x - f[k]) * 2^k = OfBits([f EXCEPT ![k] = x]) BY <2>8, <3>1, <3>2
    <3> QED BY <2>1, <3>3, Zenon
  <2>9. CASE k = 6
    <3>1. OfBits(f) + (x - f[6]) * 64 = OfBits([f EXCEPT ![6] = x]) BY <1>5, ReplaceDigit
    <3>2. 2^k = 64 BY <2>9, Weights, SMT
    <3>3. OfBits(f) + (x - f[k]) * 2^k = OfBits([f EXCEPT ![k] = x]) BY <2>9, <3>1, <3>2
    <3> QED BY <2>1, <3>3, Zenon
  <2>10. CASE k = 7
    <3>1. OfBits(f) + (x - f[7]) * 128 = OfBits([f EXCEPT ![7] = x]) BY <1>5, ReplaceDigit
    <3>2. 2^k = 128 BY <2>10, Weights, SMT
    <3>3. OfBits(f) + (x - f[k]) * 2^k = OfBits([f EXCEPT ![k] = x]) BY <2>10, <3>1, <3>2
    <3> QED BY <2>1, <3>3, Zenon
  <2> QED BY <2>2, <2>3, <2>4, <2>5, <2>6, <2>7, <2>8, <2>9, <2>10
<1>7. \A j \in Place : Bit(OfBits(g), j) = g[j] BY <1>3, BitOf
<1> QED BY <1>2, <1>6, <1>7, Zenon

\* Bitwise operations of bytes give bytes.
LEMMA LogicByte ==
  ASSUME NEW v \in Byte, NEW w \in Byte
  PROVE  And8(v, w) \in Byte /\ Or8(v, w) \in Byte /\ Xor8(v, w) \in Byte
<1>1. \A k \in Place : Bit(v, k) \in Digit /\ Bit(w, k) \in Digit BY BitDigit, SMT DEF Byte
<1>2. \A k \in Place : Bit(v, k) * Bit(w, k) \in Digit /\ ((Bit(v, k) + Bit(w, k)) % 2) \in Digit
  BY <1>1, SMT DEF Digit
<1> DEFINE a == [k \in 0 .. 7 |-> Bit(v, k) * Bit(w, k)]
           e == [k \in 0 .. 7 |-> (Bit(v, k) + Bit(w, k)) % 2]
           g == [k \in 0 .. 7 |-> Bit(v, k)]
           h == [k \in 0 .. 7 |-> Bit(w, k)]
<1>3. \A k \in Place : a[k] \in Digit /\ e[k] \in Digit BY <1>2, Zenon DEF Place
<1>4. OfBits(a) \in Byte /\ OfBits(e) \in Byte BY <1>3, OfBitsByte, Zenon
<1>5. OfBits(g) = v /\ OfBits(h) = w BY OfItsBits, Zenon
<1>6. \A k \in 0 .. 7 : /\ a[k] = g[k] * h[k] /\ g[k] \in Digit /\ h[k] \in Digit
  BY <1>1, Zenon DEF Place
<1> HIDE DEF a, e, g, h
<1>7. OfBits(g) + OfBits(h) - OfBits(a) \in Byte
  <2>1. \A k \in Place : a[k] \in Digit /\ g[k] \in Digit /\ h[k] \in Digit /\ g[k] + h[k] - a[k] \in Digit
    BY <1>6, SMT DEF Digit, Place
  <2> DEFINE n6(f) == f[6] + 2 * f[7]
             n5(f) == f[5] + 2 * n6(f)
             n4(f) == f[4] + 2 * n5(f)
             n3(f) == f[3] + 2 * n4(f)
             n2(f) == f[2] + 2 * n3(f)
             n1(f) == f[1] + 2 * n2(f)
             n0(f) == f[0] + 2 * n1(f)
             Under(x, y, z, r) == x \in Nat /\ y \in Nat /\ z \in Nat /\ x + y - z \in 0 .. r
  <2>2. \A p, q, d \in Digit, x, y, z \in Nat, r \in Nat :
          p + q - d \in Digit /\ x + y - z \in 0 .. r
          => /\ p + 2 * x \in Nat /\ q + 2 * y \in Nat /\ d + 2 * z \in Nat
             /\ (p + 2 * x) + (q + 2 * y) - (d + 2 * z) \in 0 .. 2 * r + 1
    BY SMT DEF Digit
  <2>3. \A k \in Place : \A x, y, z, r : r \in Nat /\ Under(x, y, z, r)
          => Under(g[k] + 2 * x, h[k] + 2 * y, a[k] + 2 * z, 2 * r + 1)
    BY <2>1, <2>2, Zenon
  <2>4. \A k \in {0, 1, 2, 3, 4, 5, 6, 7} : k \in Place BY SMT DEF Place
  <2>5. Under(g[7], h[7], a[7], 1) BY <2>1, <2>4, SMT DEF Digit
  <2> HIDE DEF Under
  <2>6. Under(n6(g), n6(h), n6(a), 3)
    <3>1. Under(n6(g), n6(h), n6(a), 2 * 1 + 1) BY <2>3, <2>4, <2>5, 1 \in Nat, Zenon
    <3> QED BY <3>1, SMT
  <2>7. Under(n5(g), n5(h), n5(a), 7)
    <3>1. Under(n5(g), n5(h), n5(a), 2 * 3 + 1) BY <2>3, <2>4, <2>6, 3 \in Nat, Zenon
    <3> QED BY <3>1, SMT
  <2>8. Under(n4(g), n4(h), n4(a), 15)
    <3>1. Under(n4(g), n4(h), n4(a), 2 * 7 + 1) BY <2>3, <2>4, <2>7, 7 \in Nat, Zenon
    <3> QED BY <3>1, SMT
  <2>9. Under(n3(g), n3(h), n3(a), 31)
    <3>1. Under(n3(g), n3(h), n3(a), 2 * 15 + 1) BY <2>3, <2>4, <2>8, 15 \in Nat, Zenon
    <3> QED BY <3>1, SMT
  <2>10. Under(n2(g), n2(h), n2(a), 63)
    <3>1. Under(n2(g), n2(h), n2(a), 2 * 31 + 1) BY <2>3, <2>4, <2>9, 31 \in Nat, Zenon
    <3> QED BY <3>1, SMT
  <2>11. Under(n1(g), n1(h), n1(a), 127)
    <3>1. Under(n1(g), n1(h), n1(a), 2 * 63 + 1) BY <2>3, <2>4, <2>10, 63 \in Nat, Zenon
    <3> QED BY <3>1, SMT
  <2>12. Under(n0(g), n0(h), n0(a), 255)
    <3>1. Under(n0(g), n0(h), n0(a), 2 * 127 + 1) BY <2>3, <2>4, <2>11, 127 \in Nat, Zenon
    <3> QED BY <3>1, SMT
  <2>13. Under(n0(g), n0(h), n0(a), 255) BY <2>12
  <2>14. \A f : (\A k \in Place : f[k] \in Digit) => n0(f) = OfBits(f)
    BY SMT DEF OfBits, Place, Digit
  <2> HIDE DEF n0, n1, n2, n3, n4, n5, n6
  <2>15. n0(g) = OfBits(g) /\ n0(h) = OfBits(h) /\ n0(a) = OfBits(a) BY <2>1, <2>14, Zenon
  <2> QED BY <2>13, <2>15, Zenon DEF Under, Byte
<1>8. And8(v, w) = OfBits(a) /\ Xor8(v, w) = OfBits(e) BY Zenon DEF And8, Xor8, a, e
<1> QED BY <1>4, <1>5, <1>7, <1>8, Zenon DEF Or8

-----------------------------------------------------------------------------
(* Memories, and machines.                                                 *)

Mem(addresses) == UNION {[d -> Byte] : d \in SUBSET addresses}
Levels == [drive : Byte, m1 : Byte, m0 : Byte]
Lows == 0 .. 127
Sfrs == 128 .. 255
Exception == {"STACK", "ACC_TO_A", "ILLEGAL_OPCODE"}

\* The machine's shape.
Typed == [pc : Word, low : Mem(Lows), up : Mem(Sfrs), sfr : Mem(Sfrs), xdata : Mem(Word),
          ext : Pins, shadow : [Port -> Levels], board : [Port -> Levels], raised : SUBSET Exception]

\* A memory reads a byte at any address.
LEMMA AtByte == ASSUME NEW s, NEW f \in Mem(s), NEW a PROVE At(f, a) \in Byte
<1>1. PICK d \in SUBSET s : f \in [d -> Byte] BY DEF Mem
<1> QED BY <1>1, SMT DEF At, Byte

\* A store of a byte at an address of the memory leaves a memory, which reads there
\* what was stored and elsewhere what it did.
LEMMA PutAt ==
  ASSUME NEW s, NEW f \in Mem(s), NEW a \in s, NEW v \in Byte
  PROVE  /\ Put(f, a, v) \in Mem(s)
         /\ \A x : At(Put(f, a, v), x) = IF x = a THEN v ELSE At(f, x)
<1>1. PICK d \in SUBSET s : f \in [d -> Byte] BY DEF Mem
<1>2. Put(f, a, v) \in [d \cup {a} -> Byte] BY <1>1, SMT DEF Put
<1>3. d \cup {a} \in SUBSET s BY <1>1
<1>4. \A x : At(Put(f, a, v), x) = IF x = a THEN v ELSE At(f, x) BY <1>1, SMT DEF Put, At
<1> QED BY <1>2, <1>3, <1>4 DEF Mem

\* The empty memory.
LEMMA Wiped == ASSUME NEW s PROVE <<>> \in Mem(s) /\ \A a : At(<<>>, a) = 0
<1>1. <<>> \in [{} -> Byte] /\ DOMAIN <<>> = {} BY SMT
<1>2. \A a : At(<<>>, a) = 0 BY <1>1, Zenon DEF At
<1> QED BY <1>1, <1>2 DEF Mem

\* A register holds a byte.
LEMMA SfrByte == ASSUME NEW c \in Typed, NEW a PROVE Sfr(c, a) \in Byte
<1>1. c.sfr \in Mem(Sfrs) BY DEF Typed
<1> QED BY <1>1, AtByte, Zenon DEF Sfr

\* A store into a register changes nothing else.
LEMMA SetSfrFields ==
  ASSUME NEW c \in Typed, NEW a \in Sfrs, NEW v \in Byte
  PROVE  LET n == SetSfr(c, a, v) IN
         /\ n \in Typed
         /\ \A x : Sfr(n, x) = IF x = a THEN v ELSE Sfr(c, x)
         /\ n.pc = c.pc /\ n.low = c.low /\ n.up = c.up /\ n.xdata = c.xdata /\ n.ext = c.ext
         /\ n.shadow = c.shadow /\ n.board = c.board /\ n.raised = c.raised
         /\ n.sfr = Put(c.sfr, a, v)
<1> DEFINE f == Put(c.sfr, a, v)
           n == SetSfr(c, a, v)
<1>1. c.sfr \in Mem(Sfrs) BY DEF Typed
<1>2. f \in Mem(Sfrs) /\ \A x : At(f, x) = IF x = a THEN v ELSE At(c.sfr, x)
  BY <1>1, PutAt
<1>3. n = [c EXCEPT !.sfr = f] BY Zenon DEF SetSfr
<1> HIDE DEF f, n
<1>4. /\ n \in Typed /\ n.sfr = f
      /\ n.pc = c.pc /\ n.low = c.low /\ n.up = c.up /\ n.xdata = c.xdata /\ n.ext = c.ext
      /\ n.shadow = c.shadow /\ n.board = c.board /\ n.raised = c.raised
  BY <1>2, <1>3, SMT DEF Typed
<1> QED BY <1>2, <1>4, Zenon DEF Sfr, n, f

-----------------------------------------------------------------------------
(* Ports.                                                                  *)

\* No two ports share a register, and each has one address for each register.
LEMMA OnePort ==
  /\ \A p \in Port : PortAt[p] \in Sfrs /\ Mode1At[p] \in Sfrs /\ Mode0At[p] \in Sfrs
  /\ \A p, q \in Port : p # q => {PortAt[p], Mode1At[p], Mode0At[p]} \cap {PortAt[q], Mode1At[q], Mode0At[q]} = {}
<1>1. \A p \in Port : p = 1 \/ p = 2 \/ p = 3 \/ p = 4 \/ p = 5 \/ p = 6 BY SMT DEF Port
<1>2. /\ PortAt[1] = 128 /\ PortAt[2] = 144 /\ PortAt[3] = 160 /\ PortAt[4] = 176 /\ PortAt[5] = 192 /\ PortAt[6] = 200
      /\ Mode1At[1] = 147 /\ Mode1At[2] = 145 /\ Mode1At[3] = 149 /\ Mode1At[4] = 177 /\ Mode1At[5] = 179 /\ Mode1At[6] = 201
      /\ Mode0At[1] = 148 /\ Mode0At[2] = 146 /\ Mode0At[3] = 150 /\ Mode0At[4] = 178 /\ Mode0At[5] = 180 /\ Mode0At[6] = 202
  BY SMT DEF PortAt, Mode1At, Mode0At
<1>3. \A p \in Port : PortAt[p] \in Sfrs /\ Mode1At[p] \in Sfrs /\ Mode0At[p] \in Sfrs
  BY <1>1, <1>2, SMT DEF Sfrs
<1>4. \A p, q \in Port : p # q => {PortAt[p], Mode1At[p], Mode0At[p]} \cap {PortAt[q], Mode1At[q], Mode0At[q]} = {}
  BY <1>1, <1>2, SMT
<1> QED BY <1>3, <1>4

\* The wires of a port carry bytes.
LEMMA WiresLevels == ASSUME NEW c \in Typed, NEW p PROVE Wires(c, p) \in Levels
<1> QED BY SfrByte, SMT DEF Wires, Levels

\* A port read gives a byte.
LEMMA PortReadByte == ASSUME NEW c \in Typed, NEW p PROVE PortRead(c, p) \in Byte
<1> DEFINE w == Wires(c, p)
           f == [k \in 0 .. 7 |-> ModeRead(Bit(w.drive, k), Bit(c.ext, k), Bit(w.m1, k), Bit(w.m0, k))]
<1>1. w.drive \in Nat /\ w.m1 \in Nat /\ w.m0 \in Nat BY WiresLevels, SMT DEF Levels, Byte
<1>2. c.ext \in Nat
  <2>1. c.ext \in Pins BY DEF Typed
  <2>2. c.ext \in Byte BY <2>1, PartAssumption, Zenon
  <2> QED BY <2>2, SMT DEF Byte
<1>3. \A x, y, m1, m0 \in Digit : ModeRead(x, y, m1, m0) \in Digit BY SMT DEF ModeRead, Digit
<1>4. \A k \in Place : f[k] \in Digit BY <1>1, <1>2, <1>3, BitDigit, Zenon DEF Place
<1> QED BY <1>4, OfBitsByte, Zenon DEF PortRead

-----------------------------------------------------------------------------
(* The board is told.                                                      *)

Told(c) == \A p \in Port : c.shadow[p] = Wires(c, p) /\ c.board[p] = Wires(c, p)
Good(c) == c \in Typed /\ Told(c)

\* Where board and shadow agree, after EmitPinChanges both are the wires.
LEMMA EmitTells ==
  ASSUME NEW c \in Typed, NEW p \in Port, c.board[p] = c.shadow[p]
  PROVE  EmitPinChanges(c, p) = [c EXCEPT !.shadow[p] = Wires(c, p), !.board[p] = Wires(c, p)]
<1> DEFINE w == Wires(c, p)
           s == c.shadow[p]
           Differs(k) == Bit(w.drive, k) # Bit(s.drive, k) \/ Bit(w.m1, k) # Bit(s.m1, k)
                         \/ Bit(w.m0, k) # Bit(s.m0, k)
           Heard(old, new) == OfBits([k \in 0 .. 7 |-> IF Differs(k) THEN Bit(new, k) ELSE Bit(old, k)])
<1>1. w \in Levels BY WiresLevels
<1>2. /\ [k \in 0 .. 7 |-> IF Differs(k) THEN Bit(w.drive, k) ELSE Bit(s.drive, k)] = [k \in 0 .. 7 |-> Bit(w.drive, k)]
      /\ [k \in 0 .. 7 |-> IF Differs(k) THEN Bit(w.m1, k) ELSE Bit(s.m1, k)] = [k \in 0 .. 7 |-> Bit(w.m1, k)]
      /\ [k \in 0 .. 7 |-> IF Differs(k) THEN Bit(w.m0, k) ELSE Bit(s.m0, k)] = [k \in 0 .. 7 |-> Bit(w.m0, k)]
  BY Zenon
<1>3. Heard(s.drive, w.drive) = w.drive /\ Heard(s.m1, w.m1) = w.m1 /\ Heard(s.m0, w.m0) = w.m0
  <2>1. w.drive \in Byte /\ w.m1 \in Byte /\ w.m0 \in Byte BY <1>1 DEF Levels
  <2> QED BY <1>2, <2>1, OfItsBits, Zenon
<1>4. [drive |-> w.drive, m1 |-> w.m1, m0 |-> w.m0] = w BY DEF Wires
<1>5. EmitPinChanges(c, p)
      = [c EXCEPT !.shadow[p] = w,
                  !.board[p] = [drive |-> Heard(s.drive, w.drive), m1 |-> Heard(s.m1, w.m1),
                                m0 |-> Heard(s.m0, w.m0)]]
  BY Zenon DEF EmitPinChanges
<1> HIDE DEF Heard, w, Differs
<1> QED BY <1>3, <1>4, <1>5, Zenon DEF w

\* Machines that differ in what the board was told at most.
Alike(n, c) ==
  /\ n.pc = c.pc /\ n.low = c.low /\ n.up = c.up /\ n.sfr = c.sfr /\ n.xdata = c.xdata
  /\ n.ext = c.ext /\ n.raised = c.raised

\* A change of what the board was told, and of the shadow.
LEMMA BoardField ==
  ASSUME NEW s \in Typed, NEW bd \in [Port -> Levels]
  PROVE  /\ [s EXCEPT !.board = bd] \in Typed /\ Alike([s EXCEPT !.board = bd], s)
         /\ [s EXCEPT !.board = bd].shadow = s.shadow /\ [s EXCEPT !.board = bd].board = bd
  BY SMT DEF Typed, Alike

\* The same of the shadow.
LEMMA ShadowField ==
  ASSUME NEW s \in Typed, NEW sh \in [Port -> Levels]
  PROVE  /\ [s EXCEPT !.shadow = sh] \in Typed /\ Alike([s EXCEPT !.shadow = sh], s)
         /\ [s EXCEPT !.shadow = sh].board = s.board /\ [s EXCEPT !.shadow = sh].shadow = sh
  BY SMT DEF Typed, Alike

\* A port's callback changes these only.
LEMMA EmitFields ==
  ASSUME NEW c \in Typed, NEW p \in Port, NEW w \in Levels
  PROVE  LET n == [c EXCEPT !.shadow[p] = w, !.board[p] = w] IN
         /\ n \in Typed /\ Alike(n, c)
         /\ n.shadow = [c.shadow EXCEPT ![p] = w] /\ n.board = [c.board EXCEPT ![p] = w]
<1> DEFINE sh == [c.shadow EXCEPT ![p] = w]
           bd == [c.board EXCEPT ![p] = w]
           s == [c EXCEPT !.shadow = sh]
           n == [s EXCEPT !.board = bd]
<1>1. c.shadow \in [Port -> Levels] /\ c.board \in [Port -> Levels] BY DEF Typed
<1>2. sh \in [Port -> Levels] /\ bd \in [Port -> Levels] BY <1>1
<1>3. [c EXCEPT !.shadow[p] = w, !.board[p] = w] = n BY SMT DEF Typed
<1> HIDE DEF sh, bd
<1>4. s \in Typed /\ Alike(s, c) /\ s.shadow = sh BY <1>2, ShadowField
<1> HIDE DEF s
<1>5. n \in Typed /\ Alike(n, s) /\ n.shadow = s.shadow /\ n.board = bd BY <1>2, <1>4, BoardField
<1> HIDE DEF n
<1>6. Alike(n, c) BY <1>4, <1>5, Zenon DEF Alike
<1> QED BY <1>3, <1>4, <1>5, <1>6, Zenon DEF sh, bd

\* Wires depend on the registers only.
LEMMA SameWires == ASSUME NEW c, NEW n, n.sfr = c.sfr, NEW p PROVE Wires(n, p) = Wires(c, p)
  BY Zenon DEF Wires, Sfr

\* A store through the callback of an SFR reaches the board.
LEMMA SfrWrittenGood ==
  ASSUME NEW c, Good(c), NEW a \in Sfrs, NEW v \in Byte
  PROVE  LET n == SfrWritten(SetSfr(c, a, v), a) IN
         /\ Good(n)
         /\ n.pc = c.pc /\ n.low = c.low /\ n.up = c.up /\ n.sfr = Put(c.sfr, a, v)
         /\ n.xdata = c.xdata /\ n.ext = c.ext /\ n.raised = c.raised
<1> DEFINE s == SetSfr(c, a, v)
           n == SfrWritten(s, a)
<1>1. c \in Typed /\ Told(c) BY DEF Good
<1>2. /\ s \in Typed /\ \A x : Sfr(s, x) = IF x = a THEN v ELSE Sfr(c, x)
      /\ s.pc = c.pc /\ s.low = c.low /\ s.up = c.up /\ s.xdata = c.xdata /\ s.ext = c.ext
      /\ s.shadow = c.shadow /\ s.board = c.board /\ s.raised = c.raised
      /\ s.sfr = Put(c.sfr, a, v)
  BY <1>1, SetSfrFields
<1> HIDE DEF s
<1>3. \A p \in Port : p \notin PortsOf(a) => Wires(s, p) = Wires(c, p)
  <2> TAKE p \in Port
  <2> HAVE p \notin PortsOf(a)
  <2>1. PortAt[p] # a /\ Mode1At[p] # a /\ Mode0At[p] # a BY Zenon DEF PortsOf
  <2>2. /\ Sfr(s, PortAt[p]) = Sfr(c, PortAt[p]) /\ Sfr(s, Mode1At[p]) = Sfr(c, Mode1At[p])
        /\ Sfr(s, Mode0At[p]) = Sfr(c, Mode0At[p])
    BY <1>2, <2>1, Zenon
  <2> QED BY <2>2, Zenon DEF Wires
<1>4. CASE PortsOf(a) = {}
  <2>1. n = s BY <1>4, Zenon DEF SfrWritten
  <2>2. Told(s) BY <1>1, <1>2, <1>3, <1>4, Zenon DEF Told
  <2> QED BY <1>2, <2>1, <2>2, Zenon DEF Good, s
<1>5. CASE PortsOf(a) # {}
  <2> DEFINE q == CHOOSE p \in PortsOf(a) : TRUE
  <2>1. q \in PortsOf(a) BY <1>5, Zenon
  <2>2. q \in Port /\ a \in {PortAt[q], Mode1At[q], Mode0At[q]} BY <2>1, Zenon DEF PortsOf
  <2>3. \A p \in Port : p # q => p \notin PortsOf(a) BY <2>2, OnePort, Zenon DEF PortsOf
  <2>4. n = EmitPinChanges(s, q) BY <1>5, Zenon DEF SfrWritten
  <2> HIDE DEF q, n
  <2> DEFINE w == Wires(s, q)
  <2>5. s.board[q] = s.shadow[q] BY <1>1, <1>2, <2>2, Zenon DEF Told
  <2>6. w \in Levels BY <1>2, WiresLevels
  <2>7. n = [s EXCEPT !.shadow[q] = w, !.board[q] = w] BY <1>2, <2>2, <2>4, <2>5, EmitTells, Zenon
  <2> HIDE DEF w
  <2>8. /\ n \in Typed /\ Alike(n, s)
        /\ n.shadow = [s.shadow EXCEPT ![q] = w] /\ n.board = [s.board EXCEPT ![q] = w]
    <3>1. LET n2 == [s EXCEPT !.shadow[q] = w, !.board[q] = w] IN
          /\ n2 \in Typed /\ Alike(n2, s)
          /\ n2.shadow = [s.shadow EXCEPT ![q] = w] /\ n2.board = [s.board EXCEPT ![q] = w]
      BY <1>2, <2>2, <2>6, EmitFields
    <3> QED BY <2>7, <3>1, Zenon
  <2>9. Told(n)
    <3> SUFFICES ASSUME NEW p \in Port PROVE n.shadow[p] = Wires(n, p) /\ n.board[p] = Wires(n, p)
      BY Zenon DEF Told
    <3>1. Wires(n, p) = Wires(s, p) BY <2>8, SameWires, Zenon DEF Alike
    <3>2. s.shadow \in [Port -> Levels] /\ s.board \in [Port -> Levels] BY <1>2 DEF Typed
    <3>3. CASE p = q
      <4>1. n.shadow[q] = w /\ n.board[q] = w BY <2>2, <2>8, <3>2, Zenon
      <4> QED BY <3>1, <3>3, <4>1, Zenon DEF w
    <3>4. CASE p # q
      <4>1. n.shadow[p] = s.shadow[p] /\ n.board[p] = s.board[p] BY <2>8, <3>2, <3>4, Zenon
      <4>2. Wires(s, p) = Wires(c, p) BY <1>3, <2>3, <3>4, Zenon
      <4> QED BY <1>1, <1>2, <3>1, <4>1, <4>2, Zenon DEF Told
    <3> QED BY <3>3, <3>4
  <2> QED BY <1>2, <2>8, <2>9, Zenon DEF Good, n, s, Alike
<1> QED BY <1>4, <1>5

\* A register that belongs to no port.
Plain(a) == a \in Sfrs /\ PortsOf(a) = {}

\* The core's registers are such.
LEMMA CorePlain ==
  /\ Plain(ACC) /\ Plain(B) /\ Plain(PSW) /\ Plain(SP) /\ Plain(DPL) /\ Plain(DPH)
<1>1. \A p \in Port : p = 1 \/ p = 2 \/ p = 3 \/ p = 4 \/ p = 5 \/ p = 6 BY SMT DEF Port
<1>2. \A p \in Port, a \in {ACC, B, PSW, SP, DPL, DPH} :
        a # PortAt[p] /\ a # Mode1At[p] /\ a # Mode0At[p]
  BY <1>1, SMT DEF ACC, B, PSW, SP, DPL, DPH, PortAt, Mode1At, Mode0At
<1>3. \A a \in {ACC, B, PSW, SP, DPL, DPH} : PortsOf(a) = {} BY <1>2, Zenon DEF PortsOf
<1>4. \A a \in {ACC, B, PSW, SP, DPL, DPH} : a \in Sfrs
  BY SMT DEF ACC, B, PSW, SP, DPL, DPH, Sfrs
<1> QED BY <1>3, <1>4, Zenon DEF Plain

\* A store into such a register needs no callback.
LEMMA PlainGood ==
  ASSUME NEW c, Good(c), NEW a, Plain(a), NEW v \in Byte
  PROVE  LET n == SetSfr(c, a, v) IN
         /\ Good(n)
         /\ \A x : Sfr(n, x) = IF x = a THEN v ELSE Sfr(c, x)
         /\ n.pc = c.pc /\ n.low = c.low /\ n.up = c.up /\ n.sfr = Put(c.sfr, a, v)
         /\ n.xdata = c.xdata /\ n.ext = c.ext /\ n.raised = c.raised
<1>1. c \in Typed /\ a \in Sfrs BY DEF Good, Plain
<1>2. SfrWritten(SetSfr(c, a, v), a) = SetSfr(c, a, v) BY Zenon DEF SfrWritten, Plain
<1> QED BY <1>1, <1>2, SfrWrittenGood, SetSfrFields

-----------------------------------------------------------------------------
(* What handlers read.                                                     *)

\* Byte-wide values and their halves.
LEMMA Wraps ==
  /\ \A x \in Int : B8(x) \in Byte /\ W16(x) \in Word
  /\ \A x, y \in Byte : x * 256 + y \in Word /\ x + y * 256 \in Word
  /\ \A x \in Word : x % 256 \in Byte /\ x \div 256 \in Byte
  /\ \A x \in Byte : x \in Nat /\ Signed(x) \in Int
  /\ \A x \in Word : x \in Nat
<1>1. ASSUME NEW x \in Int PROVE B8(x) \in Byte /\ W16(x) \in Word
  BY WordIs, SMT DEF B8, W16, Byte
<1>2. ASSUME NEW x \in Byte, NEW y \in Byte PROVE x * 256 + y \in Word /\ x + y * 256 \in Word
  BY WordIs, SMT DEF Byte
<1>3. ASSUME NEW x \in Word PROVE x % 256 \in Byte /\ x \div 256 \in Byte
  BY WordIs, SMT DEF Byte
<1>4. \A x \in Byte : x \in Nat /\ Signed(x) \in Int BY SMT DEF Byte, Signed
<1>5. \A x \in Word : x \in Nat BY WordIs, SMT
<1> QED BY <1>1, <1>2, <1>3, <1>4, <1>5

\* Every read is of a byte.
LEMMA ReadMemByte == ASSUME NEW c \in Typed, NEW a PROVE ReadMem(c, a) \in Byte
<1>1. At(c.low, a) \in Byte
  <2>1. c.low \in Mem(Lows) BY DEF Typed
  <2> QED BY <2>1, AtByte, Zenon
<1>2. Sfr(c, a) \in Byte /\ PortRead(c, CHOOSE p \in Port : PortAt[p] = a) \in Byte
  BY SfrByte, PortReadByte, Zenon
<1> QED BY <1>1, <1>2, Zenon DEF ReadMem

\* The read through a register.
LEMMA ReadIndirByte == ASSUME NEW c \in Typed, NEW a \in Byte PROVE ReadIndir(c, a) \in Byte
<1>1. At(c.low, a) \in Byte /\ At(c.up, a) \in Byte
  <2>1. c.low \in Mem(Lows) /\ c.up \in Mem(Sfrs) BY DEF Typed
  <2> QED BY <2>1, AtByte, Zenon
<1>2. BadValue \in Byte BY SMT DEF BadValue, Byte
<1>3. a < 128 \/ a > 127 BY SMT DEF Byte
<1> QED BY <1>1, <1>2, <1>3, Zenon DEF ReadIndir

\* The registers of a bank are in the lower RAM, and hold bytes.
LEMMA RxByte ==
  ASSUME NEW c \in Typed, NEW i, i.op \in Byte
  PROVE  /\ RxAddress(c, i) \in Lows /\ Rx(c, i) \in Byte /\ IndirAddress(c, i) \in Byte
         /\ Bank(c) \in 0 .. 24
<1>1. Bank(c) \in 0 .. 24
  <2>1. Sfr(c, PSW) \in Byte BY SfrByte
  <2> QED BY <2>1, SMT DEF Bank, Byte
<1>2. RxAddress(c, i) \in Lows BY <1>1, SMT DEF RxAddress, Byte, Lows
<1>3. c.low \in Mem(Lows) BY DEF Typed
<1> QED BY <1>1, <1>2, <1>3, AtByte, Zenon DEF Rx, IndirAddress

\* The latch, the carry, the data pointer and the top of the stack.
LEMMA LatchByte == ASSUME NEW c \in Typed, NEW a PROVE Latch(c, a) \in Byte
<1>1. c.low \in Mem(Lows) BY DEF Typed
<1> QED BY <1>1, AtByte, SfrByte, Zenon DEF Latch

\* Flags and bits are digits.
LEMMA CarryDigit == ASSUME NEW c \in Typed PROVE Carry(c) \in Digit
<1>1. Sfr(c, PSW) \in Nat /\ 7 \in Place BY SfrByte, Wraps, SMT DEF Place
<1> QED BY <1>1, BitDigit, Zenon DEF Carry

\* The home of a bit is an address, its place in it one of eight.
LEMMA BitPlace ==
  ASSUME NEW b \in Byte PROVE BitHome(b) \in Byte /\ b % 8 \in Place
  BY SMT DEF BitHome, Byte, Place

\* Bits read are digits.
LEMMA ReadBitDigit ==
  ASSUME NEW c \in Typed, NEW b \in Byte
  PROVE  ReadBit(c, b) \in Digit /\ LatchBit(c, b) \in Digit
<1>1. ReadMem(c, BitHome(b)) \in Nat /\ Latch(c, BitHome(b)) \in Nat
  BY ReadMemByte, LatchByte, Wraps, Zenon
<1> QED BY <1>1, BitPlace, BitDigit, Zenon DEF ReadBit, LatchBit

\* The accumulator, the data pointer and the external address.
LEMMA PointerWord ==
  ASSUME NEW c \in Typed, NEW i, i.op \in Byte
  PROVE  A(c) \in Byte /\ DPTR(c) \in Word /\ XAddress(c, i) \in Word
<1>1. \A a : Sfr(c, a) \in Byte BY SfrByte
<1>2. IndirAddress(c, i) \in Byte BY RxByte
<1>3. DPTR(c) \in Word BY <1>1, Wraps, Zenon DEF DPTR
<1>4. XAddress(c, i) \in Word BY <1>1, <1>2, Wraps, Zenon DEF XAddress
<1> QED BY <1>1, <1>3, <1>4, Zenon DEF A

-----------------------------------------------------------------------------
(* What handlers write: a machine n comes of c by stores into the bytes S  *)
(* only, and the flags F of the PSW.                                       *)

Touches(n, c, S, F) ==
  /\ \A a : At(n.low, a) = At(c.low, a) \/ <<"low", a>> \in S
  /\ \A a : At(n.up, a) = At(c.up, a) \/ <<"up", a>> \in S
  /\ \A a : a = PSW \/ Sfr(n, a) = Sfr(c, a) \/ <<"sfr", a>> \in S
  /\ \/ <<"sfr", PSW>> \in S
     \/ \A k \in Place : k \in F \/ Bit(Sfr(n, PSW), k) = Bit(Sfr(c, PSW), k)

Keeps(n, c, S, F) == Good(n) /\ n.pc = c.pc /\ Touches(n, c, S, F)

\* Nothing written.
LEMMA KeepsSelf == ASSUME NEW c, Good(c), NEW S, NEW F PROVE Keeps(c, c, S, F)
  BY Zenon DEF Keeps, Touches

\* One store after another.
LEMMA KeepsThen ==
  ASSUME NEW n, NEW c, NEW q, NEW S, NEW F, Keeps(n, c, S, F), Keeps(q, n, S, F)
  PROVE  Keeps(q, c, S, F)
<1>1. Touches(n, c, S, F) /\ Touches(q, n, S, F) BY DEF Keeps
<1>2. \A a : At(q.low, a) = At(c.low, a) \/ <<"low", a>> \in S BY <1>1, Zenon DEF Touches
<1>3. \A a : At(q.up, a) = At(c.up, a) \/ <<"up", a>> \in S BY <1>1, Zenon DEF Touches
<1>4. \A a : a = PSW \/ Sfr(q, a) = Sfr(c, a) \/ <<"sfr", a>> \in S BY <1>1, Zenon DEF Touches
<1>5. \/ <<"sfr", PSW>> \in S
      \/ \A k \in Place : k \in F \/ Bit(Sfr(q, PSW), k) = Bit(Sfr(c, PSW), k)
  BY <1>1, Zenon DEF Touches
<1> QED BY <1>2, <1>3, <1>4, <1>5, Zenon DEF Keeps, Touches

\* The footprint may be widened.
LEMMA KeepsMore ==
  ASSUME NEW n, NEW c, NEW S, NEW F, NEW T, NEW G, Keeps(n, c, S, F), S \subseteq T, F \subseteq G
  PROVE  Keeps(n, c, T, G)
<1>1. Touches(n, c, S, F) BY DEF Keeps
<1>2. Touches(n, c, T, G) BY <1>1, Zenon DEF Touches
<1> QED BY <1>2, Zenon DEF Keeps

\* A Good machine is typed.
LEMMA GoodTyped == ASSUME NEW n, NEW c, NEW S, NEW F, Keeps(n, c, S, F) PROVE Good(n) /\ n \in Typed
  BY Zenon DEF Keeps, Good

\* Where the direct and indirect addresses are.
LEMMA Places ==
  ASSUME NEW a \in Byte
  PROVE  /\ a < 128 => a \in Lows /\ Direct(a) = {<<"low", a>>} /\ Indirect(a) = {<<"low", a>>}
         /\ ~(a < 128) => a \in Sfrs /\ a > 127 /\ Direct(a) = {<<"sfr", a>>} /\ Indirect(a) = {<<"up", a>>}
<1>1. a < 128 => a \in Lows BY SMT DEF Byte, Lows
<1>2. ~(a < 128) => a \in Sfrs /\ a > 127 BY SMT DEF Byte, Sfrs
<1> QED BY <1>1, <1>2, Zenon DEF Direct, Indirect

Core == {ACC, B, PSW, SP, DPL, DPH}

\* The core's registers, by name.
LEMMA InCore ==
  ACC \in Core /\ B \in Core /\ PSW \in Core /\ SP \in Core /\ DPL \in Core /\ DPH \in Core
  BY Zenon DEF Core

\* The core's registers are direct addresses above 127.
LEMMA DirectCore ==
  ASSUME NEW a \in Core
  PROVE  a \in Byte /\ Direct(a) = {<<"sfr", a>>}
<1>1. a \in Byte /\ ~(a < 128) BY SMT DEF Core, ACC, B, PSW, SP, DPL, DPH, Byte
<1> QED BY <1>1, Places, Zenon

\* A store into a register of the core.
LEMMA SetCore ==
  ASSUME NEW c, Good(c), NEW a \in Core, NEW v \in Byte
  PROVE  /\ Keeps(SetSfr(c, a, v), c, Direct(a), {})
         /\ \A x : Sfr(SetSfr(c, a, v), x) = IF x = a THEN v ELSE Sfr(c, x)
         /\ SetSfr(c, a, v).low = c.low /\ SetSfr(c, a, v).up = c.up
<1> DEFINE n == SetSfr(c, a, v)
<1>1. Plain(a) BY CorePlain, Zenon DEF Core
<1>2. Direct(a) = {<<"sfr", a>>} BY DirectCore
<1>3. /\ Good(n) /\ \A x : Sfr(n, x) = IF x = a THEN v ELSE Sfr(c, x)
      /\ n.pc = c.pc /\ n.low = c.low /\ n.up = c.up
  BY <1>1, PlainGood
<1> HIDE DEF n
<1>4. \A x : x # a => Sfr(n, x) = Sfr(c, x) BY <1>3, Zenon
<1>5. \A x : x = a => <<"sfr", x>> \in Direct(a) BY <1>2, Zenon
<1>6. \/ <<"sfr", PSW>> \in Direct(a)
      \/ \A k \in Place : Bit(Sfr(n, PSW), k) = Bit(Sfr(c, PSW), k)
  BY <1>4, <1>5, Zenon
<1>7. Keeps(n, c, Direct(a), {}) BY <1>3, <1>4, <1>5, <1>6, Zenon DEF Keeps, Touches
<1> QED BY <1>3, <1>7, Zenon DEF n

\* A store into the PSW that changes some flags.
LEMMA SetFlags ==
  ASSUME NEW c, Good(c), NEW v \in Byte, NEW F,
         \A k \in Place : k \in F \/ Bit(v, k) = Bit(Sfr(c, PSW), k)
  PROVE  Keeps(SetSfr(c, PSW, v), c, {}, F)
<1> DEFINE n == SetSfr(c, PSW, v)
<1>1. Plain(PSW) BY CorePlain, Zenon
<1>2. /\ Good(n) /\ \A x : Sfr(n, x) = IF x = PSW THEN v ELSE Sfr(c, x)
      /\ n.pc = c.pc /\ n.low = c.low /\ n.up = c.up
  BY <1>1, PlainGood
<1> HIDE DEF n
<1>3. Sfr(n, PSW) = v /\ \A x : x = PSW \/ Sfr(n, x) = Sfr(c, x) BY <1>2, Zenon
<1>4. Keeps(n, c, {}, F) BY <1>2, <1>3, Zenon DEF Keeps, Touches
<1> QED BY <1>4, Zenon DEF n

\* Good depends on memory only where the ports are.
LEMMA GoodAlike ==
  ASSUME NEW c, Good(c), NEW n \in Typed, n.sfr = c.sfr, n.shadow = c.shadow, n.board = c.board
  PROVE  Good(n) /\ \A x : Sfr(n, x) = Sfr(c, x)
<1>1. \A p : Wires(n, p) = Wires(c, p) BY SameWires, Zenon
<1>2. Told(c) BY DEF Good
<1>3. Told(n) BY <1>1, <1>2, Zenon DEF Told
<1>4. \A x : Sfr(n, x) = Sfr(c, x) BY Zenon DEF Sfr
<1> QED BY <1>3, <1>4, Zenon DEF Good

\* A store into the RAM reached directly or through a register.
LEMMA SetLow ==
  ASSUME NEW c, Good(c), NEW a \in Lows, NEW v \in Byte
  PROVE  LET n == [c EXCEPT !.low = Put(@, a, v)] IN
         Keeps(n, c, {<<"low", a>>}, {}) /\ n.sfr = c.sfr /\ n.up = c.up
         /\ n.low = Put(c.low, a, v)
<1> DEFINE f == Put(c.low, a, v)
           n == [c EXCEPT !.low = f]
<1>1. c \in Typed BY DEF Good
<1>2. c.low \in Mem(Lows) BY <1>1 DEF Typed
<1>3. f \in Mem(Lows) /\ \A x : At(f, x) = IF x = a THEN v ELSE At(c.low, x) BY <1>2, PutAt
<1> HIDE DEF f
<1>4. /\ n \in Typed /\ n.pc = c.pc /\ n.low = f /\ n.up = c.up /\ n.sfr = c.sfr
      /\ n.shadow = c.shadow /\ n.board = c.board
  BY <1>1, <1>3, SMT DEF Typed
<1> HIDE DEF n
<1>5. Good(n) /\ \A x : Sfr(n, x) = Sfr(c, x) BY <1>4, GoodAlike
<1>6. \A x : At(n.low, x) = At(c.low, x) \/ <<"low", x>> \in {<<"low", a>>} BY <1>3, <1>4, Zenon
<1>7. Keeps(n, c, {<<"low", a>>}, {}) BY <1>4, <1>5, <1>6, Zenon DEF Keeps, Touches
<1> QED BY <1>4, <1>7, Zenon DEF n, f

\* A store into the upper RAM.
LEMMA SetUp ==
  ASSUME NEW c, Good(c), NEW a \in Sfrs, NEW v \in Byte
  PROVE  LET n == [c EXCEPT !.up = Put(@, a, v)] IN
         Keeps(n, c, {<<"up", a>>}, {}) /\ n.sfr = c.sfr /\ n.low = c.low
         /\ n.up = Put(c.up, a, v)
<1> DEFINE f == Put(c.up, a, v)
           n == [c EXCEPT !.up = f]
<1>1. c \in Typed BY DEF Good
<1>2. c.up \in Mem(Sfrs) BY <1>1 DEF Typed
<1>3. f \in Mem(Sfrs) /\ \A x : At(f, x) = IF x = a THEN v ELSE At(c.up, x) BY <1>2, PutAt
<1> HIDE DEF f
<1>4. /\ n \in Typed /\ n.pc = c.pc /\ n.low = c.low /\ n.up = f /\ n.sfr = c.sfr
      /\ n.shadow = c.shadow /\ n.board = c.board
  BY <1>1, <1>3, SMT DEF Typed
<1> HIDE DEF n
<1>5. Good(n) /\ \A x : Sfr(n, x) = Sfr(c, x) BY <1>4, GoodAlike
<1>6. \A x : At(n.up, x) = At(c.up, x) \/ <<"up", x>> \in {<<"up", a>>} BY <1>3, <1>4, Zenon
<1>7. Keeps(n, c, {<<"up", a>>}, {}) BY <1>4, <1>5, <1>6, Zenon DEF Keeps, Touches
<1> QED BY <1>4, <1>7, Zenon DEF n, f

\* Fields the properties do not compare.
LEMMA SetOther ==
  ASSUME NEW c, Good(c), NEW x \in Mem(Word), NEW r \in SUBSET Exception
  PROVE  /\ Keeps([c EXCEPT !.xdata = x], c, {}, {}) /\ Keeps([c EXCEPT !.raised = r], c, {}, {})
         /\ [c EXCEPT !.raised = r].sfr = c.sfr /\ [c EXCEPT !.raised = r].low = c.low
         /\ [c EXCEPT !.raised = r].up = c.up
<1>1. c \in Typed BY DEF Good
<1>2. ASSUME NEW n, n = [c EXCEPT !.xdata = x] \/ n = [c EXCEPT !.raised = r]
      PROVE  Keeps(n, c, {}, {}) /\ n.sfr = c.sfr /\ n.low = c.low /\ n.up = c.up
  <2>1. /\ n \in Typed /\ n.pc = c.pc /\ n.low = c.low /\ n.up = c.up /\ n.sfr = c.sfr
        /\ n.shadow = c.shadow /\ n.board = c.board
    <3>1. CASE n = [c EXCEPT !.xdata = x] BY <1>1, <3>1, SMT DEF Typed
    <3>2. CASE n = [c EXCEPT !.raised = r] BY <1>1, <3>2, SMT DEF Typed
    <3> QED BY <1>2, <3>1, <3>2
  <2>2. Good(n) /\ \A a : Sfr(n, a) = Sfr(c, a) BY <2>1, GoodAlike
  <2> QED BY <2>1, <2>2, Zenon DEF Keeps, Touches
<1> QED BY <1>2, Zenon

\* Raising an exception.
LEMMA RaiseKeeps ==
  ASSUME NEW c, Good(c), NEW e \in Exception
  PROVE  /\ Keeps(Raise(c, e), c, {}, {}) /\ Raise(c, e).sfr = c.sfr /\ Raise(c, e).low = c.low
         /\ Raise(c, e).up = c.up
<1>1. c.raised \cup {e} \in SUBSET Exception BY DEF Good, Typed
<1>2. <<>> \in Mem(Word) BY Wiped
<1> QED BY <1>1, <1>2, SetOther, Zenon DEF Raise

\* A store at a direct address.
LEMMA WriteMemKeeps ==
  ASSUME NEW c, Good(c), NEW a \in Byte, NEW v \in Byte
  PROVE  Keeps(WriteMem(c, a, v), c, Direct(a), {})
<1>1. CASE a < 128
  <2>1. a \in Lows /\ Direct(a) = {<<"low", a>>} BY <1>1, Places
  <2>2. WriteMem(c, a, v) = [c EXCEPT !.low = Put(@, a, v)] BY <1>1, Zenon DEF WriteMem
  <2>3. Keeps([c EXCEPT !.low = Put(@, a, v)], c, {<<"low", a>>}, {}) BY <2>1, SetLow
  <2> QED BY <2>1, <2>2, <2>3, Zenon
<1>2. CASE ~(a < 128)
  <2>1. a \in Sfrs /\ Direct(a) = {<<"sfr", a>>} BY <1>2, Places
  <2> DEFINE n == SfrWritten(SetSfr(c, a, v), a)
  <2>2. WriteMem(c, a, v) = n BY <1>2, Zenon DEF WriteMem
  <2>3. Good(n) /\ n.pc = c.pc /\ n.low = c.low /\ n.up = c.up /\ n.sfr = Put(c.sfr, a, v)
    BY <2>1, SfrWrittenGood
  <2> HIDE DEF n
  <2>4. c.sfr \in Mem(Sfrs) BY DEF Good, Typed
  <2>5. \A x : Sfr(n, x) = IF x = a THEN v ELSE Sfr(c, x)
    <3>1. \A x : At(Put(c.sfr, a, v), x) = IF x = a THEN v ELSE At(c.sfr, x) BY <2>1, <2>4, PutAt
    <3> QED BY <2>3, <3>1, Zenon DEF Sfr
  <2>6. \A x : x # a => Sfr(n, x) = Sfr(c, x) BY <2>5, Zenon
  <2>7. \A x : x = a => <<"sfr", x>> \in Direct(a) BY <2>1, Zenon
  <2>8. \/ <<"sfr", PSW>> \in Direct(a)
        \/ \A k \in Place : Bit(Sfr(n, PSW), k) = Bit(Sfr(c, PSW), k)
    BY <2>6, <2>7, Zenon
  <2>9. Keeps(n, c, Direct(a), {}) BY <2>3, <2>6, <2>7, <2>8, Zenon DEF Keeps, Touches
  <2> QED BY <2>2, <2>9, Zenon
<1> QED BY <1>1, <1>2

\* The direct byte then reads, as a latch, what was stored.
LEMMA WriteMemLatch ==
  ASSUME NEW c, Good(c), NEW a \in Byte, NEW v \in Byte
  PROVE  ~(a < 128) => Sfr(WriteMem(c, a, v), a) = v
<1> SUFFICES ASSUME ~(a < 128) PROVE Sfr(WriteMem(c, a, v), a) = v OBVIOUS
<1>1. a \in Sfrs BY Places
<1> DEFINE n == SfrWritten(SetSfr(c, a, v), a)
<1>2. n.sfr = Put(c.sfr, a, v) BY <1>1, SfrWrittenGood
<1>3. c.sfr \in Mem(Sfrs) BY DEF Good, Typed
<1>4. At(Put(c.sfr, a, v), a) = v BY <1>1, <1>3, PutAt
<1>5. WriteMem(c, a, v) = n BY Zenon DEF WriteMem
<1> QED BY <1>2, <1>4, <1>5, Zenon DEF Sfr

\* A store through a register: of a part without the upper RAM, none above 127.
LEMMA WriteIndirKeeps ==
  ASSUME NEW c, Good(c), NEW a \in Byte, NEW v \in Byte
  PROVE  /\ Keeps(WriteIndir(c, a, v), c, Indirect(a), {}) /\ WriteIndir(c, a, v).sfr = c.sfr
         /\ (a < 128 \/ HasUpper) => ReadIndir(WriteIndir(c, a, v), a) = v
<1>1. CASE a < 128
  <2>1. a \in Lows /\ Indirect(a) = {<<"low", a>>} BY <1>1, Places
  <2> DEFINE n == [c EXCEPT !.low = Put(@, a, v)]
  <2>2. WriteIndir(c, a, v) = n BY <1>1, SMT DEF WriteIndir, Byte
  <2>3. Keeps(n, c, {<<"low", a>>}, {}) /\ n.sfr = c.sfr /\ n.low = Put(c.low, a, v) BY <2>1, SetLow
  <2>4. c.low \in Mem(Lows) BY DEF Good, Typed
  <2>5. At(Put(c.low, a, v), a) = v BY <2>1, <2>4, PutAt
  <2> HIDE DEF n
  <2>6. ReadIndir(n, a) = At(n.low, a) BY <1>1, SMT DEF ReadIndir, Byte
  <2> QED BY <2>1, <2>2, <2>3, <2>5, <2>6, Zenon
<1>2. CASE ~(a < 128) /\ HasUpper
  <2>1. a \in Sfrs /\ a > 127 /\ Indirect(a) = {<<"up", a>>} BY <1>2, Places
  <2> DEFINE n == [c EXCEPT !.up = Put(@, a, v)]
  <2>2. WriteIndir(c, a, v) = n BY <1>2, <2>1, Zenon DEF WriteIndir
  <2>3. Keeps(n, c, {<<"up", a>>}, {}) /\ n.sfr = c.sfr /\ n.up = Put(c.up, a, v) BY <2>1, SetUp
  <2>4. c.up \in Mem(Sfrs) BY DEF Good, Typed
  <2>5. At(Put(c.up, a, v), a) = v BY <2>1, <2>4, PutAt
  <2> HIDE DEF n
  <2>6. ReadIndir(n, a) = At(n.up, a) BY <1>2, <2>1, Zenon DEF ReadIndir
  <2> QED BY <2>1, <2>2, <2>3, <2>5, <2>6, Zenon
<1>3. CASE ~(a < 128) /\ ~HasUpper
  <2>1. a > 127 BY <1>3, Places
  <2>2. WriteIndir(c, a, v) = c BY <1>3, <2>1, Zenon DEF WriteIndir
  <2> QED BY <1>3, <2>2, KeepsSelf, Zenon
<1> QED BY <1>1, <1>2, <1>3

\* A store into a register of the bank.
LEMMA SetRxKeeps ==
  ASSUME NEW c, Good(c), NEW i, i.op \in Byte, NEW v \in Byte
  PROVE  Keeps(SetRx(c, i, v), c, Direct(RxAddress(c, i)), {})
<1>1. c \in Typed BY DEF Good
<1>2. RxAddress(c, i) \in Lows BY <1>1, RxByte
<1>3. RxAddress(c, i) \in Byte /\ RxAddress(c, i) < 128 BY <1>2, SMT DEF Byte, Lows
<1>4. Direct(RxAddress(c, i)) = {<<"low", RxAddress(c, i)>>} BY <1>3, Places
<1>5. Keeps([c EXCEPT !.low = Put(@, RxAddress(c, i), v)], c, {<<"low", RxAddress(c, i)>>}, {})
  BY <1>2, SetLow
<1> QED BY <1>4, <1>5, Zenon DEF SetRx

\* A store of a bit.
LEMMA PutBitKeeps ==
  ASSUME NEW c, Good(c), NEW b \in Byte, NEW x \in Digit
  PROVE  Keeps(PutBit(c, b, x), c, Direct(BitHome(b)), {})
<1>1. c \in Typed BY DEF Good
<1>2. BitHome(b) \in Byte /\ b % 8 \in Place BY BitPlace
<1>3. Latch(c, BitHome(b)) \in Byte BY <1>1, LatchByte
<1>4. SetBit(Latch(c, BitHome(b)), b % 8, x) \in Byte BY <1>2, <1>3, SetBitByte
<1> QED BY <1>2, <1>4, WriteMemKeeps, Zenon DEF PutBit

-----------------------------------------------------------------------------
(* The stack.                                                              *)

\* Reading through a register is undisturbed where nothing was stored.
LEMMA ReadIndirKept ==
  ASSUME NEW n, NEW c, NEW S, NEW F, Touches(n, c, S, F), NEW a \in Byte,
         Indirect(a) \cap S = {}
  PROVE  ReadIndir(n, a) = ReadIndir(c, a)
<1>1. CASE a < 128
  <2>1. <<"low", a>> \notin S BY <1>1, Places, Zenon
  <2>2. At(n.low, a) = At(c.low, a) BY <2>1, Zenon DEF Touches
  <2> QED BY <1>1, <2>2, SMT DEF ReadIndir, Byte
<1>2. CASE ~(a < 128)
  <2>1. <<"up", a>> \notin S /\ a > 127 BY <1>2, Places, Zenon
  <2>2. At(n.up, a) = At(c.up, a) BY <2>1, Zenon DEF Touches
  <2>3. CASE HasUpper BY <1>2, <2>1, <2>2, <2>3, Zenon DEF ReadIndir
  <2>4. CASE ~HasUpper BY <1>2, <2>1, <2>4, Zenon DEF ReadIndir
  <2> QED BY <2>3, <2>4
<1> QED BY <1>1, <1>2

\* Around the stack pointer.
LEMMA StackSteps ==
  ASSUME NEW s \in Byte
  PROVE  /\ B8(s + 1) \in Byte /\ B8(s + 2) \in Byte /\ B8(s - 1) \in Byte
         /\ B8(B8(s + 1) + 1) = B8(s + 2) /\ B8(B8(s - 1) + 1) = s /\ B8(B8(s - 1) - 1) \in Byte
         /\ B8(s + 1) # s /\ B8(s + 1) # B8(s + 2) /\ B8(s - 1) # s
<1>1. B8(s + 1) \in Byte /\ B8(s + 2) \in Byte /\ B8(s - 1) \in Byte BY SMT DEF B8, Byte
<1>2. B8(B8(s - 1) - 1) \in Byte BY SMT DEF B8, Byte
<1>3. B8(B8(s + 1) + 1) = B8(s + 2) BY SMT DEF B8, Byte
<1>4. B8(B8(s - 1) + 1) = s BY SMT DEF B8, Byte
<1>5. B8(s + 1) # s /\ B8(s - 1) # s BY SMT DEF B8, Byte
<1>6. B8(s + 1) # B8(s + 2) BY SMT DEF B8, Byte
<1> QED BY <1>1, <1>2, <1>3, <1>4, <1>5, <1>6

\* A pop moves the pointer only.
LEMMA PopKeeps ==
  ASSUME NEW c, Good(c)
  PROVE  /\ Keeps(Pop(c), c, Direct(SP), {}) /\ Sfr(Pop(c), SP) = B8(Sfr(c, SP) - 1)
         /\ Pop(c).low = c.low /\ Pop(c).up = c.up /\ B8(Sfr(c, SP) - 1) \in Byte
<1>1. c \in Typed BY DEF Good
<1> DEFINE sp == B8(Sfr(c, SP) - 1)
           n == SetSfr(c, SP, sp)
<1>2. sp \in Byte BY <1>1, SfrByte, StackSteps, Zenon
<1> HIDE DEF sp
<1>3. /\ Keeps(n, c, Direct(SP), {}) /\ Sfr(n, SP) = sp /\ n.low = c.low /\ n.up = c.up
  BY <1>2, InCore, SetCore
<1> HIDE DEF n
<1>4. Good(n) BY <1>3 DEF Keeps
<1>5. /\ Keeps(Raise(n, "STACK"), n, {}, {}) /\ Raise(n, "STACK").sfr = n.sfr
      /\ Raise(n, "STACK").low = n.low /\ Raise(n, "STACK").up = n.up
  BY <1>4, RaiseKeeps, Zenon DEF Exception
<1>6. Keeps(Raise(n, "STACK"), c, Direct(SP), {})
  <2>1. Keeps(Raise(n, "STACK"), n, Direct(SP), {}) BY <1>5, KeepsMore
  <2> QED BY <1>3, <2>1, KeepsThen
<1>7. Sfr(Raise(n, "STACK"), SP) = sp BY <1>3, <1>5, Zenon DEF Sfr
<1>8. Pop(c) = IF sp = 255 THEN Raise(n, "STACK") ELSE n BY Zenon DEF Pop, n, sp
<1> QED BY <1>2, <1>3, <1>5, <1>6, <1>7, <1>8, Zenon DEF sp

\* A push moves the pointer and stores the byte there.
LEMMA PushKeeps ==
  ASSUME NEW c, Good(c), NEW v \in Byte
  PROVE  /\ Keeps(Push(c, v), c, Direct(SP) \cup Indirect(B8(Sfr(c, SP) + 1)), {})
         /\ Sfr(Push(c, v), SP) = B8(Sfr(c, SP) + 1) /\ B8(Sfr(c, SP) + 1) \in Byte
         /\ (B8(Sfr(c, SP) + 1) < 128 \/ HasUpper) => ReadIndir(Push(c, v), B8(Sfr(c, SP) + 1)) = v
<1>1. c \in Typed BY DEF Good
<1> DEFINE sp == B8(Sfr(c, SP) + 1)
           s == SetSfr(c, SP, sp)
           n == WriteIndir(s, sp, v)
           S == Direct(SP) \cup Indirect(sp)
<1>2. sp \in Byte BY <1>1, SfrByte, StackSteps, Zenon
<1> HIDE DEF sp
<1>3. Keeps(s, c, Direct(SP), {}) /\ Sfr(s, SP) = sp BY <1>2, InCore, SetCore
<1> HIDE DEF s
<1>4. Good(s) BY <1>3 DEF Keeps
<1>5. /\ Keeps(n, s, Indirect(sp), {}) /\ n.sfr = s.sfr
      /\ (sp < 128 \/ HasUpper) => ReadIndir(n, sp) = v
  BY <1>2, <1>4, WriteIndirKeeps
<1> HIDE DEF n
<1>6. Keeps(n, c, S, {})
  <2>1. Keeps(s, c, S, {}) BY <1>3, KeepsMore
  <2>2. Keeps(n, s, S, {}) BY <1>5, KeepsMore
  <2> QED BY <2>1, <2>2, KeepsThen
<1>7. Good(n) BY <1>6 DEF Keeps
<1>8. /\ Keeps(Raise(n, "STACK"), n, {}, {}) /\ Raise(n, "STACK").sfr = n.sfr
      /\ Raise(n, "STACK").low = n.low /\ Raise(n, "STACK").up = n.up
  BY <1>7, RaiseKeeps, Zenon DEF Exception
<1>9. Keeps(Raise(n, "STACK"), c, S, {})
  <2>1. Keeps(Raise(n, "STACK"), n, S, {}) BY <1>8, KeepsMore
  <2> QED BY <1>6, <2>1, KeepsThen
<1>10. Sfr(Raise(n, "STACK"), SP) = sp /\ Sfr(n, SP) = sp BY <1>3, <1>5, <1>8, Zenon DEF Sfr
<1>11. ReadIndir(Raise(n, "STACK"), sp) = ReadIndir(n, sp) BY <1>8, Zenon DEF ReadIndir
<1>12. Push(c, v) = IF sp = 0 THEN Raise(n, "STACK") ELSE n BY Zenon DEF Push, n, s, sp
<1> QED BY <1>2, <1>5, <1>6, <1>9, <1>10, <1>11, <1>12, Zenon DEF sp

\* A call leaves the address after it on the stack, low byte first.
LEMMA PushPCKeeps ==
  ASSUME NEW c, Good(c), NEW length \in Nat
  PROVE  LET s == Sfr(c, SP)
             n == PushPC(c, length)
             back == W16(c.pc + length)
         IN  /\ Keeps(n, c, Direct(SP) \cup Indirect(B8(s + 1)) \cup Indirect(B8(s + 2)), {})
             /\ (B8(s + 1) < 128 \/ HasUpper) /\ (B8(s + 2) < 128 \/ HasUpper) =>
                  ReadIndir(n, B8(s + 1)) = back % 256 /\ ReadIndir(n, B8(s + 2)) = back \div 256
<1> DEFINE s == Sfr(c, SP)
           back == W16(c.pc + length)
           low == Push(c, back % 256)
           n == Push(low, back \div 256)
           S == Direct(SP) \cup Indirect(B8(s + 1)) \cup Indirect(B8(s + 2))
<1>1. c \in Typed BY DEF Good
<1>2. back \in Word
  <2>1. c.pc \in Nat BY <1>1, Wraps DEF Typed
  <2> QED BY <2>1, Wraps, SMT
<1>3. back % 256 \in Byte /\ back \div 256 \in Byte BY <1>2, Wraps, Zenon
<1>4. n = PushPC(c, length) BY Zenon DEF PushPC
<1> HIDE DEF back
<1>5. s \in Byte BY <1>1, SfrByte
<1>6. /\ B8(s + 1) \in Byte /\ B8(s + 2) \in Byte /\ B8(B8(s + 1) + 1) = B8(s + 2)
      /\ B8(s + 1) # B8(s + 2)
  BY <1>5, StackSteps
<1>7. /\ Keeps(low, c, Direct(SP) \cup Indirect(B8(s + 1)), {}) /\ Sfr(low, SP) = B8(s + 1)
      /\ (B8(s + 1) < 128 \/ HasUpper) => ReadIndir(low, B8(s + 1)) = back % 256
  BY <1>3, PushKeeps, Zenon
<1> HIDE DEF low, s
<1>8. Good(low) BY <1>7 DEF Keeps
<1>9. /\ Keeps(n, low, Direct(SP) \cup Indirect(B8(s + 2)), {})
      /\ (B8(s + 2) < 128 \/ HasUpper) => ReadIndir(n, B8(s + 2)) = back \div 256
  BY <1>3, <1>6, <1>7, <1>8, PushKeeps
<1> HIDE DEF n
<1>10. Keeps(n, c, S, {})
  <2>1. Keeps(low, c, S, {}) BY <1>7, KeepsMore
  <2>2. Keeps(n, low, S, {}) BY <1>9, KeepsMore
  <2> QED BY <2>1, <2>2, KeepsThen
<1>11. ReadIndir(n, B8(s + 1)) = ReadIndir(low, B8(s + 1))
  <2>1. Indirect(B8(s + 1)) \cap (Direct(SP) \cup Indirect(B8(s + 2))) = {}
    <3>1. Direct(SP) = {<<"sfr", SP>>} BY InCore, DirectCore
    <3>2. \A a : Indirect(a) = {<<"low", a>>} \/ Indirect(a) = {<<"up", a>>} BY Zenon DEF Indirect
    <3> QED BY <1>6, <3>1, <3>2, SMT
  <2>2. Touches(n, low, Direct(SP) \cup Indirect(B8(s + 2)), {}) BY <1>9 DEF Keeps
  <2> QED BY <1>6, <2>1, <2>2, ReadIndirKept
<1> QED BY <1>4, <1>7, <1>9, <1>10, <1>11, Zenon DEF s, back

\* What a return reads is an address.
LEMMA ReturnWord == ASSUME NEW c, Good(c) PROVE ReturnAddress(c) \in Word
<1>1. Good(Pop(c)) BY PopKeeps DEF Keeps
<1>2. c \in Typed /\ Pop(c) \in Typed BY <1>1 DEF Good
<1>3. Top(c) \in Byte BY <1>2, SfrByte, ReadIndirByte, Zenon DEF Top
<1>4. Top(Pop(c)) \in Byte BY <1>2, SfrByte, ReadIndirByte, Zenon DEF Top
<1> QED BY <1>3, <1>4, Wraps, Zenon DEF ReturnAddress

-----------------------------------------------------------------------------
(* Accumulator, flags and arithmetic.                                      *)

\* The accumulator.
LEMMA SetAKeeps ==
  ASSUME NEW c, Good(c), NEW v \in Byte
  PROVE  /\ Keeps(SetA(c, v), c, Direct(ACC), {}) /\ A(SetA(c, v)) = v
         /\ \A x : x # ACC => Sfr(SetA(c, v), x) = Sfr(c, x)
         /\ SetA(c, v).low = c.low /\ SetA(c, v).up = c.up
<1>1. SetA(c, v) = SetSfr(c, ACC, v) BY Zenon DEF SetA
<1>2. /\ Keeps(SetSfr(c, ACC, v), c, Direct(ACC), {})
      /\ \A x : Sfr(SetSfr(c, ACC, v), x) = IF x = ACC THEN v ELSE Sfr(c, x)
      /\ SetSfr(c, ACC, v).low = c.low /\ SetSfr(c, ACC, v).up = c.up
  BY InCore, SetCore
<1> QED BY <1>1, <1>2, Zenon DEF A

\* The places of the flags, and two that differ from a third.
LEMMA FlagPlaces == 7 \in Place /\ 6 \in Place /\ 2 \in Place /\ 0 \in Place
  BY SMT DEF Place

\* Stores into the PSW that set three flags.
LEMMA FlagsKeeps ==
  ASSUME NEW c, Good(c), NEW carry \in Digit, NEW aux \in Digit, NEW overflow \in Digit
  PROVE  LET n == Flags(c, carry, aux, overflow) IN
         /\ Keeps(n, c, {}, {7, 6, 2}) /\ Carry(n) = carry /\ Bit(Sfr(n, PSW), 2) = overflow
         /\ \A x : x # PSW => Sfr(n, x) = Sfr(c, x)
<1> DEFINE w == Sfr(c, PSW)
           w1 == SetBit(w, 7, carry)
           w2 == SetBit(w1, 6, aux)
           w3 == SetBit(w2, 2, overflow)
           n == SetSfr(c, PSW, w3)
<1>1. w \in Byte BY SfrByte, Zenon DEF Good
<1> HIDE DEF w
<1>2. w1 \in Byte BY <1>1, SetBitByte, FlagPlaces, Zenon
<1>3. \A k \in Place : Bit(w1, k) = IF k = 7 THEN carry ELSE Bit(w, k) BY <1>1, SetBitBits, FlagPlaces
<1> HIDE DEF w1
<1>4. w2 \in Byte BY <1>2, SetBitByte, FlagPlaces, Zenon
<1>5. \A k \in Place : Bit(w2, k) = IF k = 6 THEN aux ELSE Bit(w1, k) BY <1>2, SetBitBits, FlagPlaces
<1> HIDE DEF w2
<1>6. w3 \in Byte BY <1>4, SetBitByte, FlagPlaces, Zenon
<1>7. \A k \in Place : Bit(w3, k) = IF k = 2 THEN overflow ELSE Bit(w2, k)
  BY <1>4, SetBitBits, FlagPlaces
<1> HIDE DEF w3
<1>8. \A k \in Place : k \in {7, 6, 2} \/ Bit(w3, k) = Bit(w, k) BY <1>3, <1>5, <1>7
<1>9. Bit(w3, 7) = carry /\ Bit(w3, 2) = overflow BY <1>3, <1>5, <1>7, FlagPlaces, SMT
<1>10. Keeps(n, c, {}, {7, 6, 2}) BY <1>6, <1>8, SetFlags, Zenon DEF w
<1>11. \A x : Sfr(n, x) = IF x = PSW THEN w3 ELSE Sfr(c, x) BY <1>6, InCore, SetCore
<1>12. n = Flags(c, carry, aux, overflow) BY Zenon DEF Flags, w1, w2, w3, w
<1> HIDE DEF n
<1> QED BY <1>9, <1>10, <1>11, <1>12, Zenon DEF Carry

\* Setting the carry.
LEMMA SetCarryKeeps ==
  ASSUME NEW c, Good(c), NEW x \in Digit
  PROVE  Keeps(SetCarry(c, x), c, {}, {7}) /\ \A a : a # PSW => Sfr(SetCarry(c, x), a) = Sfr(c, a)
<1> DEFINE w == SetBit(Sfr(c, PSW), 7, x)
           n == SetSfr(c, PSW, w)
<1>1. Sfr(c, PSW) \in Byte BY SfrByte, Zenon DEF Good
<1>2. w \in Byte BY <1>1, SetBitByte, FlagPlaces, Zenon
<1>3. \A k \in Place : k \in {7} \/ Bit(w, k) = Bit(Sfr(c, PSW), k)
  <2>1. \A k \in Place : Bit(w, k) = IF k = 7 THEN x ELSE Bit(Sfr(c, PSW), k)
    BY <1>1, SetBitBits, FlagPlaces
  <2> QED BY <2>1, Zenon
<1> HIDE DEF w
<1>4. Keeps(n, c, {}, {7}) BY <1>2, <1>3, SetFlags, Zenon
<1>5. \A a : Sfr(n, a) = IF a = PSW THEN w ELSE Sfr(c, a) BY <1>2, InCore, SetCore
<1> QED BY <1>4, <1>5, Zenon DEF SetCarry, w

\* An accumulator stored after the flags.
LEMMA FlaggedA ==
  ASSUME NEW c, Good(c), NEW n, NEW F, Keeps(n, c, {}, F), NEW v \in Byte
  PROVE  /\ Keeps(SetA(n, v), c, Direct(ACC), F) /\ A(SetA(n, v)) = v
         /\ Sfr(SetA(n, v), PSW) = Sfr(n, PSW)
<1>1. Good(n) BY DEF Keeps
<1>2. Keeps(SetA(n, v), n, Direct(ACC), {}) /\ A(SetA(n, v)) = v BY <1>1, SetAKeeps
<1>3. \A x : x # ACC => Sfr(SetA(n, v), x) = Sfr(n, x) BY <1>1, SetAKeeps
<1>4. Sfr(SetA(n, v), PSW) = Sfr(n, PSW)
  <2>1. PSW # ACC BY SMT DEF PSW, ACC
  <2> QED BY <1>3, <2>1, Zenon
<1>5. Keeps(SetA(n, v), n, Direct(ACC), F) BY <1>2, KeepsMore
<1>6. Keeps(n, c, Direct(ACC), F) BY KeepsMore
<1> QED BY <1>2, <1>4, <1>5, <1>6, KeepsThen

\* A byte's lower seven bits, and the byte read as a signed one.
LEMMA HalfByte ==
  ASSUME NEW x \in Byte
  PROVE  x % 128 \in 0 .. 127 /\ (\/ x = x % 128 /\ Signed(x) = x % 128
                                  \/ x = (x % 128) + 128 /\ Signed(x) = (x % 128) - 128)
  BY SMT DEF Byte, Signed

\* A sum with its carry is the integer sum; OV says it does not fit a signed byte.
LEMMA AddKeeps ==
  ASSUME NEW c, Good(c), NEW v \in Byte, NEW k \in Digit
  PROVE  LET n == Add(c, v, k) IN
         /\ Keeps(n, c, Direct(ACC), {7, 6, 2})
         /\ A(n) + 256 * Carry(n) = A(c) + v + k
         /\ Bit(Sfr(n, PSW), 2) = 1 <=> ~(Signed(A(c)) + Signed(v) + k \in -128 .. 127)
<1> DEFINE a == A(c)
           carry == (a + v + k) \div 256
           aux == ((a % 8) + (v % 8) + k) \div 8
           overflow == ((((a % 128) + (v % 128) + k) \div 128) + carry) % 2
           f == Flags(c, carry, aux, overflow)
           n == SetA(f, B8(a + v + k))
<1>1. a \in Byte BY SfrByte, Zenon DEF Good, A
<1> HIDE DEF a
<1>2. carry \in Digit BY <1>1, SMT DEF Digit, Byte
<1>3. aux \in Digit BY <1>1, SMT DEF Digit, Byte
<1>4. overflow \in Digit BY <1>1, SMT DEF Digit, Byte
<1>5. overflow = 1 <=> ~(Signed(a) + Signed(v) + k \in -128 .. 127)
  <2> DEFINE p == a % 128
             q == v % 128
             high == (p + q + k) \div 128
  <2>1. /\ p \in 0 .. 127 /\ ((a = p /\ Signed(a) = p) \/ (a = p + 128 /\ Signed(a) = p - 128))
        /\ q \in 0 .. 127 /\ ((v = q /\ Signed(v) = q) \/ (v = q + 128 /\ Signed(v) = q - 128))
    BY <1>1, HalfByte
  <2> HIDE DEF p, q
  <2>2. /\ (high = 1 /\ p + q + k > 127) \/ (high = 0 /\ p + q + k < 128)
        /\ (carry = 1 /\ a + v + k > 255) \/ (carry = 0 /\ a + v + k < 256)
    <3>1. \A x \in Int : 0 <= x /\ x < 256 => (x \div 128 = 1 /\ x > 127) \/ (x \div 128 = 0 /\ x < 128)
      BY SMT
    <3>2. \A x \in Int : 0 <= x /\ x < 512 => (x \div 256 = 1 /\ x > 255) \/ (x \div 256 = 0 /\ x < 256)
      BY SMT
    <3>3. p + q + k \in Int /\ 0 <= p + q + k /\ p + q + k < 256 BY <2>1, SMT DEF Digit
    <3>4. a + v + k \in Int /\ 0 <= a + v + k /\ a + v + k < 512 BY <1>1, SMT DEF Digit, Byte
    <3> QED BY <3>1, <3>2, <3>3, <3>4
  <2>3. overflow = (high + carry) % 2 BY Zenon DEF p, q
  <2> HIDE DEF high, carry, overflow
  <2>4. overflow = 1 <=> high # carry BY <2>2, <2>3, SMT
  <2>5. CASE a = p /\ Signed(a) = p /\ v = q /\ Signed(v) = q
    BY <1>1, <2>1, <2>2, <2>4, <2>5, SMT DEF Digit
  <2>6. CASE a = p /\ Signed(a) = p /\ v = q + 128 /\ Signed(v) = q - 128
    BY <1>1, <2>1, <2>2, <2>4, <2>6, SMT DEF Digit
  <2>7. CASE a = p + 128 /\ Signed(a) = p - 128 /\ v = q /\ Signed(v) = q
    BY <1>1, <2>1, <2>2, <2>4, <2>7, SMT DEF Digit
  <2>8. CASE a = p + 128 /\ Signed(a) = p - 128 /\ v = q + 128 /\ Signed(v) = q - 128
    BY <1>1, <2>1, <2>2, <2>4, <2>8, SMT DEF Digit
  <2> QED BY <2>1, <2>5, <2>6, <2>7, <2>8
<1>6. B8(a + v + k) + 256 * carry = a + v + k BY <1>1, SMT DEF Digit, Byte, B8
<1>7. B8(a + v + k) \in Byte BY <1>1, SMT DEF Byte, Digit, B8
<1> HIDE DEF carry, aux, overflow
<1>8. Keeps(f, c, {}, {7, 6, 2}) /\ Carry(f) = carry /\ Bit(Sfr(f, PSW), 2) = overflow
  BY <1>2, <1>3, <1>4, FlagsKeeps
<1> HIDE DEF f
<1>9. /\ Keeps(n, c, Direct(ACC), {7, 6, 2}) /\ A(n) = B8(a + v + k)
      /\ Sfr(n, PSW) = Sfr(f, PSW)
  BY <1>7, <1>8, FlaggedA
<1>10. n = Add(c, v, k) BY Zenon DEF Add, AddFlags, f, a, carry, aux, overflow
<1> HIDE DEF n
<1>11. Carry(n) = carry /\ Bit(Sfr(n, PSW), 2) = overflow BY <1>8, <1>9, Zenon DEF Carry
<1> QED BY <1>5, <1>6, <1>9, <1>10, <1>11, Zenon DEF a

\* A difference with its borrow is the integer difference.
LEMMA SubbKeeps ==
  ASSUME NEW c, Good(c), NEW v \in Byte
  PROVE  LET n == Subb(c, v) IN
         /\ Keeps(n, c, Direct(ACC), {7, 6, 2})
         /\ A(n) - 256 * Carry(n) = A(c) - v - Carry(c)
         /\ Bit(Sfr(n, PSW), 2) = 1 <=> ~(Signed(A(c)) - Signed(v) - Carry(c) \in -128 .. 127)
<1> DEFINE a == A(c)
           k == Carry(c)
           carry == Borrow(a, v, k)
           aux == Borrow(a % 8, v % 8, k)
           overflow == (Borrow(a % 128, v % 128, k) + carry) % 2
           f == Flags(c, carry, aux, overflow)
           n == SetA(f, B8(a - v - k))
<1>1. a \in Byte /\ k \in Digit BY SfrByte, CarryDigit, Zenon DEF Good, A
<1> HIDE DEF a, k
<1>2. carry \in Digit /\ aux \in Digit BY Zenon DEF Digit, Borrow
<1>4. overflow \in Digit BY <1>1, SMT DEF Digit, Byte, Borrow
<1>5. overflow = 1 <=> ~(Signed(a) - Signed(v) - k \in -128 .. 127)
  <2> DEFINE p == a % 128
             q == v % 128
             low == Borrow(p, q, k)
  <2>1. /\ p \in 0 .. 127 /\ ((a = p /\ Signed(a) = p) \/ (a = p + 128 /\ Signed(a) = p - 128))
        /\ q \in 0 .. 127 /\ ((v = q /\ Signed(v) = q) \/ (v = q + 128 /\ Signed(v) = q - 128))
    BY <1>1, HalfByte
  <2> HIDE DEF p, q
  <2>2. /\ (low = 1 /\ p - q - k < 0) \/ (low = 0 /\ p - q - k >= 0)
        /\ (carry = 1 /\ a - v - k < 0) \/ (carry = 0 /\ a - v - k >= 0)
    BY <1>1, <2>1, SMT DEF Borrow, Digit
  <2>3. overflow = (low + carry) % 2 BY Zenon DEF p, q
  <2> HIDE DEF low, carry, overflow
  <2>4. overflow = 1 <=> low # carry BY <2>2, <2>3, SMT
  <2>5. CASE a = p /\ Signed(a) = p /\ v = q /\ Signed(v) = q
    BY <1>1, <2>1, <2>2, <2>4, <2>5, SMT DEF Digit
  <2>6. CASE a = p /\ Signed(a) = p /\ v = q + 128 /\ Signed(v) = q - 128
    BY <1>1, <2>1, <2>2, <2>4, <2>6, SMT DEF Digit
  <2>7. CASE a = p + 128 /\ Signed(a) = p - 128 /\ v = q /\ Signed(v) = q
    BY <1>1, <2>1, <2>2, <2>4, <2>7, SMT DEF Digit
  <2>8. CASE a = p + 128 /\ Signed(a) = p - 128 /\ v = q + 128 /\ Signed(v) = q - 128
    BY <1>1, <2>1, <2>2, <2>4, <2>8, SMT DEF Digit
  <2> QED BY <2>1, <2>5, <2>6, <2>7, <2>8
<1>6. B8(a - v - k) - 256 * carry = a - v - k BY <1>1, SMT DEF Digit, Byte, B8, Borrow
<1>7. B8(a - v - k) \in Byte BY <1>1, SMT DEF Byte, Digit, B8
<1> HIDE DEF carry, aux, overflow
<1>8. Keeps(f, c, {}, {7, 6, 2}) /\ Carry(f) = carry /\ Bit(Sfr(f, PSW), 2) = overflow
  BY <1>2, <1>4, FlagsKeeps
<1> HIDE DEF f
<1>9. /\ Keeps(n, c, Direct(ACC), {7, 6, 2}) /\ A(n) = B8(a - v - k)
      /\ Sfr(n, PSW) = Sfr(f, PSW)
  BY <1>7, <1>8, FlaggedA
<1>10. n = Subb(c, v) BY Zenon DEF Subb, SubFlags, f, a, k, carry, aux, overflow
<1> HIDE DEF n
<1>11. Carry(n) = carry /\ Bit(Sfr(n, PSW), 2) = overflow BY <1>8, <1>9, Zenon DEF Carry
<1> QED BY <1>5, <1>6, <1>9, <1>10, <1>11, Zenon DEF a, k

\* The flags of MUL and DIV.
LEMMA ProductFlags ==
  ASSUME NEW c, Good(c), NEW x \in Digit
  PROVE  LET n == SetSfr(c, PSW, SetBit(SetBit(Sfr(c, PSW), 7, 0), 2, x)) IN
         /\ Keeps(n, c, {}, {7, 2}) /\ Bit(Sfr(n, PSW), 2) = x
         /\ \A a : a # PSW => Sfr(n, a) = Sfr(c, a)
<1> DEFINE w == Sfr(c, PSW)
           w1 == SetBit(w, 7, 0)
           w2 == SetBit(w1, 2, x)
           n == SetSfr(c, PSW, w2)
<1>1. w \in Byte BY SfrByte, Zenon DEF Good
<1>2. 0 \in Digit BY DEF Digit
<1> HIDE DEF w
<1>3. w1 \in Byte BY <1>1, <1>2, SetBitByte, FlagPlaces, Zenon
<1>4. \A k \in Place : Bit(w1, k) = IF k = 7 THEN 0 ELSE Bit(w, k) BY <1>1, <1>2, SetBitBits, FlagPlaces
<1> HIDE DEF w1
<1>5. w2 \in Byte BY <1>3, SetBitByte, FlagPlaces, Zenon
<1>6. \A k \in Place : Bit(w2, k) = IF k = 2 THEN x ELSE Bit(w1, k) BY <1>3, SetBitBits, FlagPlaces
<1> HIDE DEF w2
<1>7. \A k \in Place : k \in {7, 2} \/ Bit(w2, k) = Bit(w, k) BY <1>4, <1>6
<1>8. Bit(w2, 2) = x BY <1>6, FlagPlaces, SMT
<1>9. Keeps(n, c, {}, {7, 2}) BY <1>5, <1>7, SetFlags, Zenon DEF w
<1>10. \A a : Sfr(n, a) = IF a = PSW THEN w2 ELSE Sfr(c, a) BY <1>5, InCore, SetCore
<1> HIDE DEF n
<1> QED BY <1>8, <1>9, <1>10, Zenon DEF n, w2, w1, w

\* Stores into A and B after flags.
LEMMA FlaggedAB ==
  ASSUME NEW c, Good(c), NEW n, NEW F, Keeps(n, c, {}, F), NEW v \in Byte, NEW w \in Byte
  PROVE  LET q == SetSfr(SetA(n, v), B, w) IN
         /\ Keeps(q, c, Direct(ACC) \cup Direct(B), F) /\ A(q) = v /\ Sfr(q, B) = w
         /\ Sfr(q, PSW) = Sfr(n, PSW)
<1> DEFINE p == SetA(n, v)
           q == SetSfr(p, B, w)
           S == Direct(ACC) \cup Direct(B)
<1>1. Keeps(p, c, Direct(ACC), F) /\ A(p) = v /\ Sfr(p, PSW) = Sfr(n, PSW) BY FlaggedA
<1> HIDE DEF p
<1>2. Good(p) BY <1>1 DEF Keeps
<1>3. Keeps(q, p, Direct(B), {}) /\ \A a : Sfr(q, a) = IF a = B THEN w ELSE Sfr(p, a)
  BY <1>2, InCore, SetCore
<1>4. ACC # B /\ PSW # B BY SMT DEF ACC, B, PSW
<1> HIDE DEF q
<1>5. Keeps(p, c, S, F)
  <2>1. Direct(ACC) \subseteq S /\ F \subseteq F OBVIOUS
  <2> HIDE DEF S
  <2> QED BY <1>1, <2>1, KeepsMore
<1>6. Keeps(q, p, S, F)
  <2>1. Direct(B) \subseteq S /\ {} \subseteq F OBVIOUS
  <2> HIDE DEF S
  <2> QED BY <1>3, <2>1, KeepsMore
<1>7. Keeps(q, c, S, F) BY <1>5, <1>6, KeepsThen
<1>8. A(q) = v /\ Sfr(q, B) = w /\ Sfr(q, PSW) = Sfr(n, PSW) BY <1>1, <1>3, <1>4, Zenon DEF A
<1> QED BY <1>7, <1>8, Zenon DEF q, p

\* MUL AB is exact.
LEMMA MulKeeps ==
  ASSUME NEW c, Good(c)
  PROVE  LET n == MulAB(c) IN
         /\ Keeps(n, c, Direct(ACC) \cup Direct(B), {7, 2})
         /\ A(n) + 256 * Sfr(n, B) = A(c) * Sfr(c, B)
         /\ Bit(Sfr(n, PSW), 2) = 1 <=> A(c) * Sfr(c, B) > 255
<1> DEFINE product == A(c) * Sfr(c, B)
           x == IF product > 255 THEN 1 ELSE 0
           f == SetSfr(c, PSW, SetBit(SetBit(Sfr(c, PSW), 7, 0), 2, x))
           n == SetSfr(SetA(f, product % 256), B, product \div 256)
<1>1. A(c) \in Byte /\ Sfr(c, B) \in Byte BY SfrByte, Zenon DEF Good, A
<1>2. product \in Nat /\ product <= 65025
  <2>1. \A a, b \in Byte : a * b \in Nat /\ a * b <= 65025
    <3> TAKE a, b \in Byte
    <3>1. a \in Nat /\ b \in Nat /\ a <= 255 /\ b <= 255 BY SMT DEF Byte
    <3>2. a * b <= 255 * b BY <3>1, SMT
    <3> QED BY <3>1, <3>2, SMT
  <2> QED BY <1>1, <2>1
<1> HIDE DEF product
<1>3. product % 256 \in Byte /\ product \div 256 \in Byte BY <1>2, SMT DEF Byte
<1>4. (product % 256) + 256 * (product \div 256) = product BY <1>2, SMT
<1>5. x \in Digit /\ (x = 1 <=> product > 255) BY SMT DEF Digit
<1> HIDE DEF x
<1>6. Keeps(f, c, {}, {7, 2}) /\ Bit(Sfr(f, PSW), 2) = x BY <1>5, ProductFlags
<1> HIDE DEF f
<1>7. /\ Keeps(n, c, Direct(ACC) \cup Direct(B), {7, 2}) /\ A(n) = product % 256
      /\ Sfr(n, B) = product \div 256 /\ Sfr(n, PSW) = Sfr(f, PSW)
  <2> DEFINE v == product % 256
             w == product \div 256
  <2>1. v \in Byte /\ w \in Byte BY <1>3
  <2> HIDE DEF v, w
  <2>2. LET q == SetSfr(SetA(f, v), B, w) IN
        /\ Keeps(q, c, Direct(ACC) \cup Direct(B), {7, 2}) /\ A(q) = v /\ Sfr(q, B) = w
        /\ Sfr(q, PSW) = Sfr(f, PSW)
    BY <1>6, <2>1, FlaggedAB
  <2> QED BY <2>2, Zenon DEF v, w
<1>8. n = MulAB(c) BY Zenon DEF MulAB, f, x, product
<1> HIDE DEF n
<1> QED BY <1>4, <1>5, <1>6, <1>7, <1>8, Zenon DEF product

\* A quotient and its remainder.
LEMMA Division ==
  ASSUME NEW a \in Byte, NEW b \in Byte, b # 0
  PROVE  /\ a \div b \in Byte /\ a % b \in Byte /\ (a % b) < b /\ a = (a \div b) * b + (a % b)
<1>1. a \in Nat /\ b \in Nat \ {0} /\ a <= 255 /\ b <= 255 BY SMT DEF Byte
<1>2. a = b * (a \div b) + (a % b) /\ (a % b) \in 0 .. b - 1 /\ (a \div b) \in Int BY <1>1, SMT
<1>3. (a \div b) \in Nat /\ (a \div b) <= a
  <2> DEFINE q == a \div b
             r == a % b
  <2>1. a = b * q + r /\ r \in Nat /\ q \in Int /\ r < b BY <1>1, <1>2, SMT
  <2> HIDE DEF q, r
  <2>2. q >= 0
    <3>1. CASE q <= -1
      <4>1. b * q <= b * (-1) BY <1>1, <2>1, <3>1, SMTT(30)
      <4> QED BY <1>1, <2>1, <4>1, SMT
    <3> QED BY <2>1, <3>1, SMT
  <2>3. q <= b * q BY <1>1, <2>1, <2>2, SMTT(30)
  <2>4. b * q <= a BY <1>1, <2>1, SMT
  <2> QED BY <1>1, <2>1, <2>2, <2>3, <2>4, SMT DEF q
<1>4. a = (a \div b) * b + (a % b) BY <1>1, <1>2, SMT
<1> QED BY <1>1, <1>2, <1>3, <1>4, SMT DEF Byte

\* DIV AB is exact, and a division by 0 only sets OV.
LEMMA DivKeeps ==
  ASSUME NEW c, Good(c)
  PROVE  LET n == DivAB(c) IN
         /\ Keeps(n, c, Direct(ACC) \cup Direct(B), {7, 2})
         /\ Bit(Sfr(n, PSW), 2) = 1 <=> Sfr(c, B) = 0
         /\ Sfr(c, B) # 0 => A(c) = A(n) * Sfr(c, B) + Sfr(n, B) /\ Sfr(n, B) < Sfr(c, B)
<1> DEFINE a == A(c)
           b == Sfr(c, B)
           x == IF b = 0 THEN 1 ELSE 0
           f == SetSfr(c, PSW, SetBit(SetBit(Sfr(c, PSW), 7, 0), 2, x))
           q == SetSfr(SetA(f, a \div b), B, a % b)
           S == Direct(ACC) \cup Direct(B)
<1>1. a \in Byte /\ b \in Byte BY SfrByte, Zenon DEF Good, A
<1>2. DivAB(c) = IF b = 0 THEN f ELSE q BY Zenon DEF DivAB
<1> HIDE DEF a, b
<1>3. x \in Digit /\ (x = 1 <=> b = 0) BY SMT DEF Digit
<1> HIDE DEF x
<1>4. Keeps(f, c, {}, {7, 2}) /\ Bit(Sfr(f, PSW), 2) = x BY <1>3, ProductFlags
<1> HIDE DEF f
<1>5. CASE b = 0
  <2>1. Keeps(f, c, S, {7, 2})
    <3>1. {} \subseteq S OBVIOUS
    <3> HIDE DEF S
    <3> QED BY <1>4, <3>1, KeepsMore
  <2> QED BY <1>2, <1>3, <1>4, <1>5, <2>1, Zenon DEF b
<1>6. CASE b # 0
  <2>1. /\ a \div b \in Byte /\ a % b \in Byte /\ (a % b) < b /\ a = (a \div b) * b + (a % b)
    BY <1>1, <1>6, Division
  <2>2. /\ Keeps(q, c, S, {7, 2}) /\ A(q) = a \div b /\ Sfr(q, B) = a % b
        /\ Sfr(q, PSW) = Sfr(f, PSW)
    <3> DEFINE v == a \div b
               w == a % b
    <3>1. v \in Byte /\ w \in Byte BY <2>1
    <3> HIDE DEF v, w
    <3>2. LET p == SetSfr(SetA(f, v), B, w) IN
          /\ Keeps(p, c, Direct(ACC) \cup Direct(B), {7, 2}) /\ A(p) = v /\ Sfr(p, B) = w
          /\ Sfr(p, PSW) = Sfr(f, PSW)
      BY <1>4, <3>1, FlaggedAB
    <3> QED BY <3>2, Zenon DEF v, w
  <2> HIDE DEF q
  <2> QED BY <1>2, <1>3, <1>4, <1>6, <2>1, <2>2, Zenon DEF a, b
<1> QED BY <1>5, <1>6

\* DA A.
LEMMA DaKeeps == ASSUME NEW c, Good(c) PROVE Keeps(DaA(c), c, Direct(ACC), {7})
<1> DEFINE low == A(c) + (IF A(c) % 16 > 9 \/ Bit(Sfr(c, PSW), 6) = 1 THEN 6 ELSE 0)
           full == low + (IF low - (low % 16) > 144 \/ Carry(c) = 1 THEN 96 ELSE 0)
           n == IF full > 153 THEN SetCarry(c, 1) ELSE c
<1>1. A(c) \in Byte BY SfrByte, Zenon DEF Good, A
<1>2. low \in Nat BY <1>1, SMT DEF Byte
<1>3. full \in Nat
  <2> HIDE DEF low
  <2> QED BY <1>2, SMT
<1>4. B8(full) \in Byte BY <1>3, Wraps, SMT
<1>5. DaA(c) = SetA(n, B8(full)) BY Zenon DEF DaA
<1> HIDE DEF full
<1>6. Keeps(n, c, {}, {7})
  <2>1. 1 \in Digit BY DEF Digit
  <2>2. Keeps(SetCarry(c, 1), c, {}, {7}) BY <2>1, SetCarryKeeps
  <2> QED BY <2>2, KeepsSelf, Zenon
<1> HIDE DEF n
<1> QED BY <1>4, <1>5, <1>6, FlaggedA

\* CJNE.
LEMMA ComparedKeeps ==
  ASSUME NEW c, Good(c), NEW v, NEW w PROVE Keeps(Compared(c, v, w), c, {}, {7})
<1>1. (IF v < w THEN 1 ELSE 0) \in Digit BY SMT DEF Digit
<1> QED BY <1>1, SetCarryKeeps, Zenon DEF Compared

\* INC DPTR.
LEMMA IncDptrKeeps ==
  ASSUME NEW c, Good(c) PROVE Keeps(IncDptr(c), c, Direct(DPL) \cup Direct(DPH), {})
<1> DEFINE low == SetSfr(c, DPL, B8(Sfr(c, DPL) + 1))
           high == SetSfr(low, DPH, B8(Sfr(c, DPH) + 1))
           S == Direct(DPL) \cup Direct(DPH)
<1>1. Sfr(c, DPL) \in Byte /\ Sfr(c, DPH) \in Byte BY SfrByte, Zenon DEF Good
<1>2. B8(Sfr(c, DPL) + 1) \in Byte /\ B8(Sfr(c, DPH) + 1) \in Byte BY <1>1, StackSteps, Zenon
<1>3. Keeps(low, c, Direct(DPL), {}) BY <1>2, InCore, SetCore
<1> HIDE DEF low
<1>4. Good(low) BY <1>3 DEF Keeps
<1>5. Keeps(high, low, Direct(DPH), {}) BY <1>2, <1>4, InCore, SetCore
<1> HIDE DEF high
<1>6. Direct(DPL) \subseteq S /\ Direct(DPH) \subseteq S OBVIOUS
<1> HIDE DEF S
<1>7. Keeps(low, c, S, {}) /\ Keeps(high, low, S, {}) BY <1>3, <1>5, <1>6, KeepsMore
<1>8. Keeps(high, c, S, {}) BY <1>7, KeepsThen
<1>9. IncDptr(c) = IF Sfr(low, DPL) = 0 THEN high ELSE low BY Zenon DEF IncDptr, low, high
<1> QED BY <1>7, <1>8, <1>9, Zenon DEF S

\* MOVX.
LEMMA XKeeps ==
  ASSUME NEW c, Good(c), NEW a \in Word, NEW v \in Byte
  PROVE  Keeps(XWrite(c, a, v), c, {}, {}) /\ Keeps(XRead(c, a), c, Direct(ACC), {})
<1>1. c.xdata \in Mem(Word) BY DEF Good, Typed
<1>2. Put(c.xdata, a, v) \in Mem(Word) BY <1>1, PutAt
<1>3. {} \in SUBSET Exception OBVIOUS
<1>4. Keeps([c EXCEPT !.xdata = Put(c.xdata, a, v)], c, {}, {}) BY <1>2, <1>3, SetOther, Zenon
<1>5. Keeps(XWrite(c, a, v), c, {}, {}) BY <1>4, KeepsSelf, Zenon DEF XWrite
<1>6. At(c.xdata, a) \in Byte BY <1>1, AtByte
<1>7. Keeps(SetA(c, At(c.xdata, a)), c, Direct(ACC), {}) BY <1>6, SetAKeeps
<1>8. Keeps(XRead(c, a), c, Direct(ACC), {}) BY <1>7, KeepsSelf, Zenon DEF XRead
<1> QED BY <1>5, <1>8

-----------------------------------------------------------------------------
(* The listing: what the disassembler prints for each handler's opcodes.   *)

Is(t, mnemonic, operands, length) ==
  t.mnemonic = mnemonic /\ t.operands = operands /\ t.length = length

Listed(h, t) ==
  \* Row 0.
  /\ h = "ajmp_offset" => Is(t, "AJMP", <<"a11">>, 2)
  /\ h = "nop" => Is(t, "NOP", <<>>, 1) \/ Is(t, "??UNKNOWN", <<>>, 1)
  /\ h = "ljmp_address" => Is(t, "LJMP", <<"a16">>, 3)
  /\ h = "rr_a" => Is(t, "RR", <<"A">>, 1)
  /\ h = "inc_a" => Is(t, "INC", <<"A">>, 1)
  /\ h = "inc_mem" => Is(t, "INC", <<"m1">>, 2)
  /\ h = "inc_indir_rx" => Is(t, "INC", <<"@R">>, 1)
  /\ h = "inc_rx" => Is(t, "INC", <<"R">>, 1)
  \* Row 1.
  /\ h = "acall_offset" => Is(t, "ACALL", <<"a11">>, 2)
  /\ h = "jbc_bitaddr_offset" => Is(t, "JBC", <<"b1", "r2">>, 3)
  /\ h = "lcall_address" => Is(t, "LCALL", <<"a16">>, 3)
  /\ h = "rrc_a" => Is(t, "RRC", <<"A">>, 1)
  /\ h = "dec_a" => Is(t, "DEC", <<"A">>, 1)
  /\ h = "dec_mem" => Is(t, "DEC", <<"m1">>, 2)
  /\ h = "dec_indir_rx" => Is(t, "DEC", <<"@R">>, 1)
  /\ h = "dec_rx" => Is(t, "DEC", <<"R">>, 1)
  \* Row 2.
  /\ h = "jb_bitaddr_offset" => Is(t, "JB", <<"b1", "r2">>, 3)
  /\ h = "ret" => Is(t, "RET", <<>>, 1)
  /\ h = "rl_a" => Is(t, "RL", <<"A">>, 1)
  /\ h = "add_a_imm" => Is(t, "ADD", <<"A", "#1">>, 2)
  /\ h = "add_a_mem" => Is(t, "ADD", <<"A", "m1">>, 2)
  /\ h = "add_a_indir_rx" => Is(t, "ADD", <<"A", "@R">>, 1)
  /\ h = "add_a_rx" => Is(t, "ADD", <<"A", "R">>, 1)
  \* Row 3.
  /\ h = "jnb_bitaddr_offset" => Is(t, "JNB", <<"b1", "r2">>, 3)
  /\ h = "reti" => Is(t, "RETI", <<>>, 1)
  /\ h = "rlc_a" => Is(t, "RLC", <<"A">>, 1)
  /\ h = "addc_a_imm" => Is(t, "ADDC", <<"A", "#1">>, 2)
  /\ h = "addc_a_mem" => Is(t, "ADDC", <<"A", "m1">>, 2)
  /\ h = "addc_a_indir_rx" => Is(t, "ADDC", <<"A", "@R">>, 1)
  /\ h = "addc_a_rx" => Is(t, "ADDC", <<"A", "R">>, 1)
  \* Row 4.
  /\ h = "jc_offset" => Is(t, "JC", <<"r1">>, 2)
  /\ h = "orl_mem_a" => Is(t, "ORL", <<"m1", "A">>, 2)
  /\ h = "orl_mem_imm" => Is(t, "ORL", <<"m1", "#2">>, 3)
  /\ h = "orl_a_imm" => Is(t, "ORL", <<"A", "#1">>, 2)
  /\ h = "orl_a_mem" => Is(t, "ORL", <<"A", "m1">>, 2)
  /\ h = "orl_a_indir_rx" => Is(t, "ORL", <<"A", "@R">>, 1)
  /\ h = "orl_a_rx" => Is(t, "ORL", <<"A", "R">>, 1)
  \* Row 5.
  /\ h = "jnc_offset" => Is(t, "JNC", <<"r1">>, 2)
  /\ h = "anl_mem_a" => Is(t, "ANL", <<"m1", "A">>, 2)
  /\ h = "anl_mem_imm" => Is(t, "ANL", <<"m1", "#2">>, 3)
  /\ h = "anl_a_imm" => Is(t, "ANL", <<"A", "#1">>, 2)
  /\ h = "anl_a_mem" => Is(t, "ANL", <<"A", "m1">>, 2)
  /\ h = "anl_a_indir_rx" => Is(t, "ANL", <<"A", "@R">>, 1)
  /\ h = "anl_a_rx" => Is(t, "ANL", <<"A", "R">>, 1)
  \* Row 6.
  /\ h = "jz_offset" => Is(t, "JZ", <<"r1">>, 2)
  /\ h = "xrl_mem_a" => Is(t, "XRL", <<"m1", "A">>, 2)
  /\ h = "xrl_mem_imm" => Is(t, "XRL", <<"m1", "#2">>, 3)
  /\ h = "xrl_a_imm" => Is(t, "XRL", <<"A", "#1">>, 2)
  /\ h = "xrl_a_mem" => Is(t, "XRL", <<"A", "m1">>, 2)
  /\ h = "xrl_a_indir_rx" => Is(t, "XRL", <<"A", "@R">>, 1)
  /\ h = "xrl_a_rx" => Is(t, "XRL", <<"A", "R">>, 1)
  \* Row 7.
  /\ h = "jnz_offset" => Is(t, "JNZ", <<"r1">>, 2)
  /\ h = "orl_c_bitaddr" => Is(t, "ORL", <<"C", "b1">>, 2)
  /\ h = "jmp_indir_a_dptr" => Is(t, "JMP", <<"@A+DPTR">>, 1)
  /\ h = "mov_a_imm" => Is(t, "MOV", <<"A", "#1">>, 2)
  /\ h = "mov_mem_imm" => Is(t, "MOV", <<"m1", "#2">>, 3)
  /\ h = "mov_indir_rx_imm" => Is(t, "MOV", <<"@R", "#1">>, 2)
  /\ h = "mov_rx_imm" => Is(t, "MOV", <<"R", "#1">>, 2)
  \* Row 8.
  /\ h = "sjmp_offset" => Is(t, "SJMP", <<"r1">>, 2)
  /\ h = "anl_c_bitaddr" => Is(t, "ANL", <<"C", "b1">>, 2)
  /\ h = "movc_a_indir_a_pc" => Is(t, "MOVC", <<"A", "@A+PC">>, 1)
  /\ h = "div_ab" => Is(t, "DIV", <<"AB">>, 1)
  /\ h = "mov_mem_mem" => Is(t, "MOV", <<"m2", "m1">>, 3)
  /\ h = "mov_mem_indir_rx" => Is(t, "MOV", <<"m1", "@R">>, 2)
  /\ h = "mov_mem_rx" => Is(t, "MOV", <<"m1", "R">>, 2)
  \* Row 9.
  /\ h = "mov_dptr_imm" => Is(t, "MOV", <<"DPTR", "#16">>, 3)
  /\ h = "mov_bitaddr_c" => Is(t, "MOV", <<"b1", "C">>, 2)
  /\ h = "movc_a_indir_a_dptr" => Is(t, "MOVC", <<"A", "@A+DPTR">>, 1)
  /\ h = "subb_a_imm" => Is(t, "SUBB", <<"A", "#1">>, 2)
  /\ h = "subb_a_mem" => Is(t, "SUBB", <<"A", "m1">>, 2)
  /\ h = "subb_a_indir_rx" => Is(t, "SUBB", <<"A", "@R">>, 1)
  /\ h = "subb_a_rx" => Is(t, "SUBB", <<"A", "R">>, 1)
  \* Row A.
  /\ h = "orl_c_compl_bitaddr" => Is(t, "ORL", <<"C", "/b1">>, 2)
  /\ h = "mov_c_bitaddr" => Is(t, "MOV", <<"C", "b1">>, 2)
  /\ h = "inc_dptr" => Is(t, "INC", <<"DPTR">>, 1)
  /\ h = "mul_ab" => Is(t, "MUL", <<"AB">>, 1)
  /\ h = "mov_indir_rx_mem" => Is(t, "MOV", <<"@R", "m1">>, 2)
  /\ h = "mov_rx_mem" => Is(t, "MOV", <<"R", "m1">>, 2)
  \* Row B.
  /\ h = "anl_c_compl_bitaddr" => Is(t, "ANL", <<"C", "/b1">>, 2)
  /\ h = "cpl_bitaddr" => Is(t, "CPL", <<"b1">>, 2)
  /\ h = "cpl_c" => Is(t, "CPL", <<"C">>, 1)
  /\ h = "cjne_a_imm_offset" => Is(t, "CJNE", <<"A", "#1", "r2">>, 3)
  /\ h = "cjne_a_mem_offset" => Is(t, "CJNE", <<"A", "m1", "r2">>, 3)
  /\ h = "cjne_indir_rx_imm_offset" => Is(t, "CJNE", <<"@R", "#1", "r2">>, 3)
  /\ h = "cjne_rx_imm_offset" => Is(t, "CJNE", <<"R", "#1", "r2">>, 3)
  \* Row C.
  /\ h = "push_mem" => Is(t, "PUSH", <<"m1">>, 2)
  /\ h = "clr_bitaddr" => Is(t, "CLR", <<"b1">>, 2)
  /\ h = "clr_c" => Is(t, "CLR", <<"C">>, 1)
  /\ h = "swap_a" => Is(t, "SWAP", <<"A">>, 1)
  /\ h = "xch_a_mem" => Is(t, "XCH", <<"A", "m1">>, 2)
  /\ h = "xch_a_indir_rx" => Is(t, "XCH", <<"A", "@R">>, 1)
  /\ h = "xch_a_rx" => Is(t, "XCH", <<"A", "R">>, 1)
  \* Row D.
  /\ h = "pop_mem" => Is(t, "POP", <<"m1">>, 2)
  /\ h = "setb_bitaddr" => Is(t, "SETB", <<"b1">>, 2)
  /\ h = "setb_c" => Is(t, "SETB", <<"C">>, 1)
  /\ h = "da_a" => Is(t, "DA", <<"A">>, 1)
  /\ h = "djnz_mem_offset" => Is(t, "DJNZ", <<"m1", "r2">>, 3)
  /\ h = "xchd_a_indir_rx" => Is(t, "XCHD", <<"A", "@R">>, 1)
  /\ h = "djnz_rx_offset" => Is(t, "DJNZ", <<"R", "r1">>, 2)
  \* Row E.
  /\ h = "movx_a_indir_dptr" => Is(t, "MOVX", <<"A", "@DPTR">>, 1)
  /\ h = "movx_a_indir_rx" => Is(t, "MOVX", <<"A", "@R">>, 1)
  /\ h = "clr_a" => Is(t, "CLR", <<"A">>, 1)
  /\ h = "mov_a_mem" => Is(t, "MOV", <<"A", "m1">>, 2)
  /\ h = "mov_a_indir_rx" => Is(t, "MOV", <<"A", "@R">>, 1)
  /\ h = "mov_a_rx" => Is(t, "MOV", <<"A", "R">>, 1)
  \* Row F.
  /\ h = "movx_indir_dptr_a" => Is(t, "MOVX", <<"@DPTR", "A">>, 1)
  /\ h = "movx_indir_rx_a" => Is(t, "MOVX", <<"@R", "A">>, 1)
  /\ h = "cpl_a" => Is(t, "CPL", <<"A">>, 1)
  /\ h = "mov_mem_a" => Is(t, "MOV", <<"m1", "A">>, 2)
  /\ h = "mov_indir_rx_a" => Is(t, "MOV", <<"@R", "A">>, 1)
  /\ h = "mov_rx_a" => Is(t, "MOV", <<"R", "A">>, 1)

\* An opcode is a row and a column; AJMP and ACALL alternate in column 1.
LEMMA OpcodeDigits ==
  ASSUME NEW op \in Byte
  PROVE  /\ \E r \in 0 .. 15 : op \div 16 = r
         /\ \E k \in 0 .. 15 : op % 16 = k
         /\ op % 32 = 1 <=> (op % 16 = 1 /\ (op \div 16) % 2 = 0)
         /\ op % 32 = 17 <=> (op % 16 = 1 /\ (op \div 16) % 2 = 1)
<1>1. op \div 16 \in 0 .. 15 /\ op % 16 \in 0 .. 15 BY SMT DEF Byte
<1>2. op % 32 = 1 <=> (op % 16 = 1 /\ (op \div 16) % 2 = 0) BY SMT DEF Byte
<1>3. op % 32 = 17 <=> (op % 16 = 1 /\ (op \div 16) % 2 = 1) BY SMT DEF Byte
<1> QED BY <1>1, <1>2, <1>3

\* The column of an opcode's handler, and of its line.
LEMMA Columns ==
  ASSUME NEW op \in Byte
  PROVE  /\ op % 16 = 1 \/ (op % 16 = 0 /\ Column(op) = 1) \/ (op % 16 = 2 /\ Column(op) = 2)
            \/ (op % 16 = 3 /\ Column(op) = 3) \/ (op % 16 = 4 /\ Column(op) = 4)
            \/ (op % 16 = 5 /\ Column(op) = 5) \/ (op % 16 \in {6, 7} /\ Column(op) = 6)
            \/ (op % 16 > 7 /\ Column(op) = 7)
<1>1. op % 16 \in 0 .. 15 BY SMT DEF Byte
<1> QED BY <1>1, SMT DEF Column

\* A row of the switch names the handlers of the table's row, with AJMP or ACALL between them.
RowAgrees(r) ==
  LET row == Switch[r] IN LET table == OpTable[r] IN
  /\ row[1] = table[1] /\ row[2] = (IF r % 2 = 1 THEN "ajmp_offset" ELSE "acall_offset")
  /\ row[3] = table[2] /\ row[4] = table[3] /\ row[5] = table[4] /\ row[6] = table[5]
  /\ row[7] = table[6] /\ row[8] = table[6] /\ row[9] = table[7]

\* Row by row, the switch and the table are the same text.
LEMMA RowsAgree == \A r \in 1 .. 16 : RowAgrees(r)
<1>1. RowAgrees(1) BY SMT DEF RowAgrees, Switch, OpTable
<1>2. RowAgrees(2) BY SMT DEF RowAgrees, Switch, OpTable
<1>3. RowAgrees(3) BY SMT DEF RowAgrees, Switch, OpTable
<1>4. RowAgrees(4) BY SMT DEF RowAgrees, Switch, OpTable
<1>5. RowAgrees(5) BY SMT DEF RowAgrees, Switch, OpTable
<1>6. RowAgrees(6) BY SMT DEF RowAgrees, Switch, OpTable
<1>7. RowAgrees(7) BY SMT DEF RowAgrees, Switch, OpTable
<1>8. RowAgrees(8) BY SMT DEF RowAgrees, Switch, OpTable
<1>9. RowAgrees(9) BY SMT DEF RowAgrees, Switch, OpTable
<1>10. RowAgrees(10) BY SMT DEF RowAgrees, Switch, OpTable
<1>11. RowAgrees(11) BY SMT DEF RowAgrees, Switch, OpTable
<1>12. RowAgrees(12) BY SMT DEF RowAgrees, Switch, OpTable
<1>13. RowAgrees(13) BY SMT DEF RowAgrees, Switch, OpTable
<1>14. RowAgrees(14) BY SMT DEF RowAgrees, Switch, OpTable
<1>15. RowAgrees(15) BY SMT DEF RowAgrees, Switch, OpTable
<1>16. RowAgrees(16) BY SMT DEF RowAgrees, Switch, OpTable
<1> QED BY <1>1, <1>2, <1>3, <1>4, <1>5, <1>6, <1>7, <1>8, <1>9, <1>10, <1>11, <1>12, <1>13, <1>14, <1>15, <1>16, SMT

\* do_op's switch and the table tick() calls through run the same handler for every opcode.
THEOREM DispatchersAgree == \A op \in Byte : DoOp(op) = OpPtr(op)
<1> SUFFICES ASSUME NEW op \in Byte PROVE DoOp(op) = OpPtr(op) OBVIOUS
<1> DEFINE r == op \div 16 + 1
<1>1. r \in 1 .. 16 /\ op % 16 \in 0 .. 15 BY SMT DEF Byte
<1>2. op \div 16 \in 0 .. 15 BY SMT DEF Byte
<1>3. RowAgrees(r) BY <1>1, RowsAgree
<1>4. CASE op % 16 = 1
  <2>1. DoOp(op) = Switch[r][2] BY <1>4, SMT DEF DoOp
  <2>2. \A q \in 0 .. 15 : q % 2 \in {0, 1} /\ ((q + 1) % 2 = 1 <=> q % 2 = 0) BY SMT
  <2>3. (op \div 16) % 2 \in {0, 1} /\ (r % 2 = 1 <=> (op \div 16) % 2 = 0) BY <1>2, <2>2
  <2>4. OpPtr(op) = IF r % 2 = 1 THEN "ajmp_offset" ELSE "acall_offset"
    BY <1>4, <2>3, OpcodeDigits, SMT DEF OpPtr
  <2> QED BY <1>3, <2>1, <2>4 DEF RowAgrees
<1>5. CASE op % 16 # 1
  <2>1. OpPtr(op) = OpTable[r][Column(op)] BY <1>5, OpcodeDigits, SMT DEF OpPtr
  <2>2. DoOp(op) = Switch[r][IF op % 16 < 8 THEN (op % 16) + 1 ELSE 9] BY DEF DoOp
  <2> HIDE DEF r
  <2>3. CASE op % 16 = 0 BY <1>3, <2>1, <2>2, <2>3, Columns, SMT DEF RowAgrees
  <2>4. CASE op % 16 = 2 BY <1>3, <2>1, <2>2, <2>4, Columns, SMT DEF RowAgrees
  <2>5. CASE op % 16 = 3 BY <1>3, <2>1, <2>2, <2>5, Columns, SMT DEF RowAgrees
  <2>6. CASE op % 16 = 4 BY <1>3, <2>1, <2>2, <2>6, Columns, SMT DEF RowAgrees
  <2>7. CASE op % 16 = 5 BY <1>3, <2>1, <2>2, <2>7, Columns, SMT DEF RowAgrees
  <2>8. CASE op % 16 \in {6, 7} BY <1>3, <2>1, <2>2, <2>8, Columns, SMT DEF RowAgrees
  <2>9. CASE op % 16 > 7 BY <1>1, <1>3, <2>1, <2>2, <2>9, Columns, SMT DEF RowAgrees
  <2> QED BY <1>1, <1>5, <2>3, <2>4, <2>5, <2>6, <2>7, <2>8, <2>9, SMT
<1> QED BY <1>4, <1>5

\* Row 0 of the map, handler and line.
LEMMA Row0Listed ==
  ASSUME NEW op \in Byte, op \div 16 = 0
  PROVE  Listed(OpPtr(op), Dec(op))
<1> DEFINE handler == OpTable[1]
<1>1. op % 16 # 1 => OpPtr(op) = handler[Column(op)]
  BY OpcodeDigits, SMT DEF OpPtr
<1>2. CASE op % 16 = 1
  <2>1. OpPtr(op) = "ajmp_offset" BY <1>2, OpcodeDigits, SMT DEF OpPtr
  <2>2. Dec(op) = AJMP BY <1>2, SMT DEF Dec
  <2> QED BY <2>1, <2>2, SMT DEF Listed, Is, AJMP
<1>3. CASE op % 16 = 0 /\ Column(op) = 1
  <2>1. OpPtr(op) = "nop" BY <1>1, <1>3, SMT DEF OpTable
  <2>2. Dec(op) = Row0[1] BY <1>3, SMT DEF Dec
  <2> QED BY <2>1, <2>2, SMT DEF Listed, Is, Row0
<1>4. CASE op % 16 = 2 /\ Column(op) = 2
  <2>1. OpPtr(op) = "ljmp_address" BY <1>1, <1>4, SMT DEF OpTable
  <2>2. Dec(op) = Row0[2] BY <1>4, SMT DEF Dec
  <2> QED BY <2>1, <2>2, SMT DEF Listed, Is, Row0
<1>5. CASE op % 16 = 3 /\ Column(op) = 3
  <2>1. OpPtr(op) = "rr_a" BY <1>1, <1>5, SMT DEF OpTable
  <2>2. Dec(op) = Row0[3] BY <1>5, SMT DEF Dec
  <2> QED BY <2>1, <2>2, SMT DEF Listed, Is, Row0
<1>6. CASE op % 16 = 4 /\ Column(op) = 4
  <2>1. OpPtr(op) = "inc_a" BY <1>1, <1>6, SMT DEF OpTable
  <2>2. Dec(op) = Row0[4] BY <1>6, SMT DEF Dec
  <2> QED BY <2>1, <2>2, SMT DEF Listed, Is, Row0
<1>7. CASE op % 16 = 5 /\ Column(op) = 5
  <2>1. OpPtr(op) = "inc_mem" BY <1>1, <1>7, SMT DEF OpTable
  <2>2. Dec(op) = Row0[5] BY <1>7, SMT DEF Dec
  <2> QED BY <2>1, <2>2, SMT DEF Listed, Is, Row0
<1>8. CASE op % 16 \in {6, 7} /\ Column(op) = 6
  <2>1. OpPtr(op) = "inc_indir_rx" BY <1>1, <1>8, SMT DEF OpTable
  <2>2. Dec(op) = Row0[6] BY <1>8, SMT DEF Dec
  <2> QED BY <2>1, <2>2, SMT DEF Listed, Is, Row0
<1>9. CASE op % 16 > 7 /\ Column(op) = 7
  <2>1. OpPtr(op) = "inc_rx" BY <1>1, <1>9, SMT DEF OpTable
  <2>2. Dec(op) = Registers[1] BY <1>9, SMT DEF Dec
  <2> QED BY <2>1, <2>2, SMT DEF Listed, Is, Registers
<1> QED BY Columns, <1>2, <1>3, <1>4, <1>5, <1>6, <1>7, <1>8, <1>9

\* Row 1 of the map, handler and line.
LEMMA Row1Listed ==
  ASSUME NEW op \in Byte, op \div 16 = 1
  PROVE  Listed(OpPtr(op), Dec(op))
<1> DEFINE handler == OpTable[2]
<1>1. op % 16 # 1 => OpPtr(op) = handler[Column(op)]
  BY OpcodeDigits, SMT DEF OpPtr
<1>2. CASE op % 16 = 1
  <2>1. OpPtr(op) = "acall_offset" BY <1>2, OpcodeDigits, SMT DEF OpPtr
  <2>2. Dec(op) = ACALL BY <1>2, SMT DEF Dec
  <2> QED BY <2>1, <2>2, SMT DEF Listed, Is, ACALL
<1>3. CASE op % 16 = 0 /\ Column(op) = 1
  <2>1. OpPtr(op) = "jbc_bitaddr_offset" BY <1>1, <1>3, SMT DEF OpTable
  <2>2. Dec(op) = Row1[1] BY <1>3, SMT DEF Dec
  <2> QED BY <2>1, <2>2, SMT DEF Listed, Is, Row1
<1>4. CASE op % 16 = 2 /\ Column(op) = 2
  <2>1. OpPtr(op) = "lcall_address" BY <1>1, <1>4, SMT DEF OpTable
  <2>2. Dec(op) = Row1[2] BY <1>4, SMT DEF Dec
  <2> QED BY <2>1, <2>2, SMT DEF Listed, Is, Row1
<1>5. CASE op % 16 = 3 /\ Column(op) = 3
  <2>1. OpPtr(op) = "rrc_a" BY <1>1, <1>5, SMT DEF OpTable
  <2>2. Dec(op) = Row1[3] BY <1>5, SMT DEF Dec
  <2> QED BY <2>1, <2>2, SMT DEF Listed, Is, Row1
<1>6. CASE op % 16 = 4 /\ Column(op) = 4
  <2>1. OpPtr(op) = "dec_a" BY <1>1, <1>6, SMT DEF OpTable
  <2>2. Dec(op) = Row1[4] BY <1>6, SMT DEF Dec
  <2> QED BY <2>1, <2>2, SMT DEF Listed, Is, Row1
<1>7. CASE op % 16 = 5 /\ Column(op) = 5
  <2>1. OpPtr(op) = "dec_mem" BY <1>1, <1>7, SMT DEF OpTable
  <2>2. Dec(op) = Row1[5] BY <1>7, SMT DEF Dec
  <2> QED BY <2>1, <2>2, SMT DEF Listed, Is, Row1
<1>8. CASE op % 16 \in {6, 7} /\ Column(op) = 6
  <2>1. OpPtr(op) = "dec_indir_rx" BY <1>1, <1>8, SMT DEF OpTable
  <2>2. Dec(op) = Row1[6] BY <1>8, SMT DEF Dec
  <2> QED BY <2>1, <2>2, SMT DEF Listed, Is, Row1
<1>9. CASE op % 16 > 7 /\ Column(op) = 7
  <2>1. OpPtr(op) = "dec_rx" BY <1>1, <1>9, SMT DEF OpTable
  <2>2. Dec(op) = Registers[2] BY <1>9, SMT DEF Dec
  <2> QED BY <2>1, <2>2, SMT DEF Listed, Is, Registers
<1> QED BY Columns, <1>2, <1>3, <1>4, <1>5, <1>6, <1>7, <1>8, <1>9

\* Row 2 of the map, handler and line.
LEMMA Row2Listed ==
  ASSUME NEW op \in Byte, op \div 16 = 2
  PROVE  Listed(OpPtr(op), Dec(op))
<1> DEFINE handler == OpTable[3]
<1>1. op % 16 # 1 => OpPtr(op) = handler[Column(op)]
  BY OpcodeDigits, SMT DEF OpPtr
<1>2. CASE op % 16 = 1
  <2>1. OpPtr(op) = "ajmp_offset" BY <1>2, OpcodeDigits, SMT DEF OpPtr
  <2>2. Dec(op) = AJMP BY <1>2, SMT DEF Dec
  <2> QED BY <2>1, <2>2, SMT DEF Listed, Is, AJMP
<1>3. CASE op % 16 = 0 /\ Column(op) = 1
  <2>1. OpPtr(op) = "jb_bitaddr_offset" BY <1>1, <1>3, SMT DEF OpTable
  <2>2. Dec(op) = Row2[1] BY <1>3, SMT DEF Dec
  <2> QED BY <2>1, <2>2, SMT DEF Listed, Is, Row2
<1>4. CASE op % 16 = 2 /\ Column(op) = 2
  <2>1. OpPtr(op) = "ret" BY <1>1, <1>4, SMT DEF OpTable
  <2>2. Dec(op) = Row2[2] BY <1>4, SMT DEF Dec
  <2> QED BY <2>1, <2>2, SMT DEF Listed, Is, Row2
<1>5. CASE op % 16 = 3 /\ Column(op) = 3
  <2>1. OpPtr(op) = "rl_a" BY <1>1, <1>5, SMT DEF OpTable
  <2>2. Dec(op) = Row2[3] BY <1>5, SMT DEF Dec
  <2> QED BY <2>1, <2>2, SMT DEF Listed, Is, Row2
<1>6. CASE op % 16 = 4 /\ Column(op) = 4
  <2>1. OpPtr(op) = "add_a_imm" BY <1>1, <1>6, SMT DEF OpTable
  <2>2. Dec(op) = Row2[4] BY <1>6, SMT DEF Dec
  <2> QED BY <2>1, <2>2, SMT DEF Listed, Is, Row2
<1>7. CASE op % 16 = 5 /\ Column(op) = 5
  <2>1. OpPtr(op) = "add_a_mem" BY <1>1, <1>7, SMT DEF OpTable
  <2>2. Dec(op) = Row2[5] BY <1>7, SMT DEF Dec
  <2> QED BY <2>1, <2>2, SMT DEF Listed, Is, Row2
<1>8. CASE op % 16 \in {6, 7} /\ Column(op) = 6
  <2>1. OpPtr(op) = "add_a_indir_rx" BY <1>1, <1>8, SMT DEF OpTable
  <2>2. Dec(op) = Row2[6] BY <1>8, SMT DEF Dec
  <2> QED BY <2>1, <2>2, SMT DEF Listed, Is, Row2
<1>9. CASE op % 16 > 7 /\ Column(op) = 7
  <2>1. OpPtr(op) = "add_a_rx" BY <1>1, <1>9, SMT DEF OpTable
  <2>2. Dec(op) = Registers[3] BY <1>9, SMT DEF Dec
  <2> QED BY <2>1, <2>2, SMT DEF Listed, Is, Registers
<1> QED BY Columns, <1>2, <1>3, <1>4, <1>5, <1>6, <1>7, <1>8, <1>9

\* Row 3 of the map, handler and line.
LEMMA Row3Listed ==
  ASSUME NEW op \in Byte, op \div 16 = 3
  PROVE  Listed(OpPtr(op), Dec(op))
<1> DEFINE handler == OpTable[4]
<1>1. op % 16 # 1 => OpPtr(op) = handler[Column(op)]
  BY OpcodeDigits, SMT DEF OpPtr
<1>2. CASE op % 16 = 1
  <2>1. OpPtr(op) = "acall_offset" BY <1>2, OpcodeDigits, SMT DEF OpPtr
  <2>2. Dec(op) = ACALL BY <1>2, SMT DEF Dec
  <2> QED BY <2>1, <2>2, SMT DEF Listed, Is, ACALL
<1>3. CASE op % 16 = 0 /\ Column(op) = 1
  <2>1. OpPtr(op) = "jnb_bitaddr_offset" BY <1>1, <1>3, SMT DEF OpTable
  <2>2. Dec(op) = Row3[1] BY <1>3, SMT DEF Dec
  <2> QED BY <2>1, <2>2, SMT DEF Listed, Is, Row3
<1>4. CASE op % 16 = 2 /\ Column(op) = 2
  <2>1. OpPtr(op) = "reti" BY <1>1, <1>4, SMT DEF OpTable
  <2>2. Dec(op) = Row3[2] BY <1>4, SMT DEF Dec
  <2> QED BY <2>1, <2>2, SMT DEF Listed, Is, Row3
<1>5. CASE op % 16 = 3 /\ Column(op) = 3
  <2>1. OpPtr(op) = "rlc_a" BY <1>1, <1>5, SMT DEF OpTable
  <2>2. Dec(op) = Row3[3] BY <1>5, SMT DEF Dec
  <2> QED BY <2>1, <2>2, SMT DEF Listed, Is, Row3
<1>6. CASE op % 16 = 4 /\ Column(op) = 4
  <2>1. OpPtr(op) = "addc_a_imm" BY <1>1, <1>6, SMT DEF OpTable
  <2>2. Dec(op) = Row3[4] BY <1>6, SMT DEF Dec
  <2> QED BY <2>1, <2>2, SMT DEF Listed, Is, Row3
<1>7. CASE op % 16 = 5 /\ Column(op) = 5
  <2>1. OpPtr(op) = "addc_a_mem" BY <1>1, <1>7, SMT DEF OpTable
  <2>2. Dec(op) = Row3[5] BY <1>7, SMT DEF Dec
  <2> QED BY <2>1, <2>2, SMT DEF Listed, Is, Row3
<1>8. CASE op % 16 \in {6, 7} /\ Column(op) = 6
  <2>1. OpPtr(op) = "addc_a_indir_rx" BY <1>1, <1>8, SMT DEF OpTable
  <2>2. Dec(op) = Row3[6] BY <1>8, SMT DEF Dec
  <2> QED BY <2>1, <2>2, SMT DEF Listed, Is, Row3
<1>9. CASE op % 16 > 7 /\ Column(op) = 7
  <2>1. OpPtr(op) = "addc_a_rx" BY <1>1, <1>9, SMT DEF OpTable
  <2>2. Dec(op) = Registers[4] BY <1>9, SMT DEF Dec
  <2> QED BY <2>1, <2>2, SMT DEF Listed, Is, Registers
<1> QED BY Columns, <1>2, <1>3, <1>4, <1>5, <1>6, <1>7, <1>8, <1>9

\* Row 4 of the map, handler and line.
LEMMA Row4Listed ==
  ASSUME NEW op \in Byte, op \div 16 = 4
  PROVE  Listed(OpPtr(op), Dec(op))
<1> DEFINE handler == OpTable[5]
<1>1. op % 16 # 1 => OpPtr(op) = handler[Column(op)]
  BY OpcodeDigits, SMT DEF OpPtr
<1>2. CASE op % 16 = 1
  <2>1. OpPtr(op) = "ajmp_offset" BY <1>2, OpcodeDigits, SMT DEF OpPtr
  <2>2. Dec(op) = AJMP BY <1>2, SMT DEF Dec
  <2> QED BY <2>1, <2>2, SMT DEF Listed, Is, AJMP
<1>3. CASE op % 16 = 0 /\ Column(op) = 1
  <2>1. OpPtr(op) = "jc_offset" BY <1>1, <1>3, SMT DEF OpTable
  <2>2. Dec(op) = Row4[1] BY <1>3, SMT DEF Dec
  <2> QED BY <2>1, <2>2, SMT DEF Listed, Is, Row4
<1>4. CASE op % 16 = 2 /\ Column(op) = 2
  <2>1. OpPtr(op) = "orl_mem_a" BY <1>1, <1>4, SMT DEF OpTable
  <2>2. Dec(op) = Row4[2] BY <1>4, SMT DEF Dec
  <2> QED BY <2>1, <2>2, SMT DEF Listed, Is, Row4
<1>5. CASE op % 16 = 3 /\ Column(op) = 3
  <2>1. OpPtr(op) = "orl_mem_imm" BY <1>1, <1>5, SMT DEF OpTable
  <2>2. Dec(op) = Row4[3] BY <1>5, SMT DEF Dec
  <2> QED BY <2>1, <2>2, SMT DEF Listed, Is, Row4
<1>6. CASE op % 16 = 4 /\ Column(op) = 4
  <2>1. OpPtr(op) = "orl_a_imm" BY <1>1, <1>6, SMT DEF OpTable
  <2>2. Dec(op) = Row4[4] BY <1>6, SMT DEF Dec
  <2> QED BY <2>1, <2>2, SMT DEF Listed, Is, Row4
<1>7. CASE op % 16 = 5 /\ Column(op) = 5
  <2>1. OpPtr(op) = "orl_a_mem" BY <1>1, <1>7, SMT DEF OpTable
  <2>2. Dec(op) = Row4[5] BY <1>7, SMT DEF Dec
  <2> QED BY <2>1, <2>2, SMT DEF Listed, Is, Row4
<1>8. CASE op % 16 \in {6, 7} /\ Column(op) = 6
  <2>1. OpPtr(op) = "orl_a_indir_rx" BY <1>1, <1>8, SMT DEF OpTable
  <2>2. Dec(op) = Row4[6] BY <1>8, SMT DEF Dec
  <2> QED BY <2>1, <2>2, SMT DEF Listed, Is, Row4
<1>9. CASE op % 16 > 7 /\ Column(op) = 7
  <2>1. OpPtr(op) = "orl_a_rx" BY <1>1, <1>9, SMT DEF OpTable
  <2>2. Dec(op) = Registers[5] BY <1>9, SMT DEF Dec
  <2> QED BY <2>1, <2>2, SMT DEF Listed, Is, Registers
<1> QED BY Columns, <1>2, <1>3, <1>4, <1>5, <1>6, <1>7, <1>8, <1>9

\* Row 5 of the map, handler and line.
LEMMA Row5Listed ==
  ASSUME NEW op \in Byte, op \div 16 = 5
  PROVE  Listed(OpPtr(op), Dec(op))
<1> DEFINE handler == OpTable[6]
<1>1. op % 16 # 1 => OpPtr(op) = handler[Column(op)]
  BY OpcodeDigits, SMT DEF OpPtr
<1>2. CASE op % 16 = 1
  <2>1. OpPtr(op) = "acall_offset" BY <1>2, OpcodeDigits, SMT DEF OpPtr
  <2>2. Dec(op) = ACALL BY <1>2, SMT DEF Dec
  <2> QED BY <2>1, <2>2, SMT DEF Listed, Is, ACALL
<1>3. CASE op % 16 = 0 /\ Column(op) = 1
  <2>1. OpPtr(op) = "jnc_offset" BY <1>1, <1>3, SMT DEF OpTable
  <2>2. Dec(op) = Row5[1] BY <1>3, SMT DEF Dec
  <2> QED BY <2>1, <2>2, SMT DEF Listed, Is, Row5
<1>4. CASE op % 16 = 2 /\ Column(op) = 2
  <2>1. OpPtr(op) = "anl_mem_a" BY <1>1, <1>4, SMT DEF OpTable
  <2>2. Dec(op) = Row5[2] BY <1>4, SMT DEF Dec
  <2> QED BY <2>1, <2>2, SMT DEF Listed, Is, Row5
<1>5. CASE op % 16 = 3 /\ Column(op) = 3
  <2>1. OpPtr(op) = "anl_mem_imm" BY <1>1, <1>5, SMT DEF OpTable
  <2>2. Dec(op) = Row5[3] BY <1>5, SMT DEF Dec
  <2> QED BY <2>1, <2>2, SMT DEF Listed, Is, Row5
<1>6. CASE op % 16 = 4 /\ Column(op) = 4
  <2>1. OpPtr(op) = "anl_a_imm" BY <1>1, <1>6, SMT DEF OpTable
  <2>2. Dec(op) = Row5[4] BY <1>6, SMT DEF Dec
  <2> QED BY <2>1, <2>2, SMT DEF Listed, Is, Row5
<1>7. CASE op % 16 = 5 /\ Column(op) = 5
  <2>1. OpPtr(op) = "anl_a_mem" BY <1>1, <1>7, SMT DEF OpTable
  <2>2. Dec(op) = Row5[5] BY <1>7, SMT DEF Dec
  <2> QED BY <2>1, <2>2, SMT DEF Listed, Is, Row5
<1>8. CASE op % 16 \in {6, 7} /\ Column(op) = 6
  <2>1. OpPtr(op) = "anl_a_indir_rx" BY <1>1, <1>8, SMT DEF OpTable
  <2>2. Dec(op) = Row5[6] BY <1>8, SMT DEF Dec
  <2> QED BY <2>1, <2>2, SMT DEF Listed, Is, Row5
<1>9. CASE op % 16 > 7 /\ Column(op) = 7
  <2>1. OpPtr(op) = "anl_a_rx" BY <1>1, <1>9, SMT DEF OpTable
  <2>2. Dec(op) = Registers[6] BY <1>9, SMT DEF Dec
  <2> QED BY <2>1, <2>2, SMT DEF Listed, Is, Registers
<1> QED BY Columns, <1>2, <1>3, <1>4, <1>5, <1>6, <1>7, <1>8, <1>9

\* Row 6 of the map, handler and line.
LEMMA Row6Listed ==
  ASSUME NEW op \in Byte, op \div 16 = 6
  PROVE  Listed(OpPtr(op), Dec(op))
<1> DEFINE handler == OpTable[7]
<1>1. op % 16 # 1 => OpPtr(op) = handler[Column(op)]
  BY OpcodeDigits, SMT DEF OpPtr
<1>2. CASE op % 16 = 1
  <2>1. OpPtr(op) = "ajmp_offset" BY <1>2, OpcodeDigits, SMT DEF OpPtr
  <2>2. Dec(op) = AJMP BY <1>2, SMT DEF Dec
  <2> QED BY <2>1, <2>2, SMT DEF Listed, Is, AJMP
<1>3. CASE op % 16 = 0 /\ Column(op) = 1
  <2>1. OpPtr(op) = "jz_offset" BY <1>1, <1>3, SMT DEF OpTable
  <2>2. Dec(op) = Row6[1] BY <1>3, SMT DEF Dec
  <2> QED BY <2>1, <2>2, SMT DEF Listed, Is, Row6
<1>4. CASE op % 16 = 2 /\ Column(op) = 2
  <2>1. OpPtr(op) = "xrl_mem_a" BY <1>1, <1>4, SMT DEF OpTable
  <2>2. Dec(op) = Row6[2] BY <1>4, SMT DEF Dec
  <2> QED BY <2>1, <2>2, SMT DEF Listed, Is, Row6
<1>5. CASE op % 16 = 3 /\ Column(op) = 3
  <2>1. OpPtr(op) = "xrl_mem_imm" BY <1>1, <1>5, SMT DEF OpTable
  <2>2. Dec(op) = Row6[3] BY <1>5, SMT DEF Dec
  <2> QED BY <2>1, <2>2, SMT DEF Listed, Is, Row6
<1>6. CASE op % 16 = 4 /\ Column(op) = 4
  <2>1. OpPtr(op) = "xrl_a_imm" BY <1>1, <1>6, SMT DEF OpTable
  <2>2. Dec(op) = Row6[4] BY <1>6, SMT DEF Dec
  <2> QED BY <2>1, <2>2, SMT DEF Listed, Is, Row6
<1>7. CASE op % 16 = 5 /\ Column(op) = 5
  <2>1. OpPtr(op) = "xrl_a_mem" BY <1>1, <1>7, SMT DEF OpTable
  <2>2. Dec(op) = Row6[5] BY <1>7, SMT DEF Dec
  <2> QED BY <2>1, <2>2, SMT DEF Listed, Is, Row6
<1>8. CASE op % 16 \in {6, 7} /\ Column(op) = 6
  <2>1. OpPtr(op) = "xrl_a_indir_rx" BY <1>1, <1>8, SMT DEF OpTable
  <2>2. Dec(op) = Row6[6] BY <1>8, SMT DEF Dec
  <2> QED BY <2>1, <2>2, SMT DEF Listed, Is, Row6
<1>9. CASE op % 16 > 7 /\ Column(op) = 7
  <2>1. OpPtr(op) = "xrl_a_rx" BY <1>1, <1>9, SMT DEF OpTable
  <2>2. Dec(op) = Registers[7] BY <1>9, SMT DEF Dec
  <2> QED BY <2>1, <2>2, SMT DEF Listed, Is, Registers
<1> QED BY Columns, <1>2, <1>3, <1>4, <1>5, <1>6, <1>7, <1>8, <1>9

\* Row 7 of the map, handler and line.
LEMMA Row7Listed ==
  ASSUME NEW op \in Byte, op \div 16 = 7
  PROVE  Listed(OpPtr(op), Dec(op))
<1> DEFINE handler == OpTable[8]
<1>1. op % 16 # 1 => OpPtr(op) = handler[Column(op)]
  BY OpcodeDigits, SMT DEF OpPtr
<1>2. CASE op % 16 = 1
  <2>1. OpPtr(op) = "acall_offset" BY <1>2, OpcodeDigits, SMT DEF OpPtr
  <2>2. Dec(op) = ACALL BY <1>2, SMT DEF Dec
  <2> QED BY <2>1, <2>2, SMT DEF Listed, Is, ACALL
<1>3. CASE op % 16 = 0 /\ Column(op) = 1
  <2>1. OpPtr(op) = "jnz_offset" BY <1>1, <1>3, SMT DEF OpTable
  <2>2. Dec(op) = Row7[1] BY <1>3, SMT DEF Dec
  <2> QED BY <2>1, <2>2, SMT DEF Listed, Is, Row7
<1>4. CASE op % 16 = 2 /\ Column(op) = 2
  <2>1. OpPtr(op) = "orl_c_bitaddr" BY <1>1, <1>4, SMT DEF OpTable
  <2>2. Dec(op) = Row7[2] BY <1>4, SMT DEF Dec
  <2> QED BY <2>1, <2>2, SMT DEF Listed, Is, Row7
<1>5. CASE op % 16 = 3 /\ Column(op) = 3
  <2>1. OpPtr(op) = "jmp_indir_a_dptr" BY <1>1, <1>5, SMT DEF OpTable
  <2>2. Dec(op) = Row7[3] BY <1>5, SMT DEF Dec
  <2> QED BY <2>1, <2>2, SMT DEF Listed, Is, Row7
<1>6. CASE op % 16 = 4 /\ Column(op) = 4
  <2>1. OpPtr(op) = "mov_a_imm" BY <1>1, <1>6, SMT DEF OpTable
  <2>2. Dec(op) = Row7[4] BY <1>6, SMT DEF Dec
  <2> QED BY <2>1, <2>2, SMT DEF Listed, Is, Row7
<1>7. CASE op % 16 = 5 /\ Column(op) = 5
  <2>1. OpPtr(op) = "mov_mem_imm" BY <1>1, <1>7, SMT DEF OpTable
  <2>2. Dec(op) = Row7[5] BY <1>7, SMT DEF Dec
  <2> QED BY <2>1, <2>2, SMT DEF Listed, Is, Row7
<1>8. CASE op % 16 \in {6, 7} /\ Column(op) = 6
  <2>1. OpPtr(op) = "mov_indir_rx_imm" BY <1>1, <1>8, SMT DEF OpTable
  <2>2. Dec(op) = Row7[6] BY <1>8, SMT DEF Dec
  <2> QED BY <2>1, <2>2, SMT DEF Listed, Is, Row7
<1>9. CASE op % 16 > 7 /\ Column(op) = 7
  <2>1. OpPtr(op) = "mov_rx_imm" BY <1>1, <1>9, SMT DEF OpTable
  <2>2. Dec(op) = Registers[8] BY <1>9, SMT DEF Dec
  <2> QED BY <2>1, <2>2, SMT DEF Listed, Is, Registers
<1> QED BY Columns, <1>2, <1>3, <1>4, <1>5, <1>6, <1>7, <1>8, <1>9

\* Row 8 of the map, handler and line.
LEMMA Row8Listed ==
  ASSUME NEW op \in Byte, op \div 16 = 8
  PROVE  Listed(OpPtr(op), Dec(op))
<1> DEFINE handler == OpTable[9]
<1>1. op % 16 # 1 => OpPtr(op) = handler[Column(op)]
  BY OpcodeDigits, SMT DEF OpPtr
<1>2. CASE op % 16 = 1
  <2>1. OpPtr(op) = "ajmp_offset" BY <1>2, OpcodeDigits, SMT DEF OpPtr
  <2>2. Dec(op) = AJMP BY <1>2, SMT DEF Dec
  <2> QED BY <2>1, <2>2, SMT DEF Listed, Is, AJMP
<1>3. CASE op % 16 = 0 /\ Column(op) = 1
  <2>1. OpPtr(op) = "sjmp_offset" BY <1>1, <1>3, SMT DEF OpTable
  <2>2. Dec(op) = Row8[1] BY <1>3, SMT DEF Dec
  <2> QED BY <2>1, <2>2, SMT DEF Listed, Is, Row8
<1>4. CASE op % 16 = 2 /\ Column(op) = 2
  <2>1. OpPtr(op) = "anl_c_bitaddr" BY <1>1, <1>4, SMT DEF OpTable
  <2>2. Dec(op) = Row8[2] BY <1>4, SMT DEF Dec
  <2> QED BY <2>1, <2>2, SMT DEF Listed, Is, Row8
<1>5. CASE op % 16 = 3 /\ Column(op) = 3
  <2>1. OpPtr(op) = "movc_a_indir_a_pc" BY <1>1, <1>5, SMT DEF OpTable
  <2>2. Dec(op) = Row8[3] BY <1>5, SMT DEF Dec
  <2> QED BY <2>1, <2>2, SMT DEF Listed, Is, Row8
<1>6. CASE op % 16 = 4 /\ Column(op) = 4
  <2>1. OpPtr(op) = "div_ab" BY <1>1, <1>6, SMT DEF OpTable
  <2>2. Dec(op) = Row8[4] BY <1>6, SMT DEF Dec
  <2> QED BY <2>1, <2>2, SMT DEF Listed, Is, Row8
<1>7. CASE op % 16 = 5 /\ Column(op) = 5
  <2>1. OpPtr(op) = "mov_mem_mem" BY <1>1, <1>7, SMT DEF OpTable
  <2>2. Dec(op) = Row8[5] BY <1>7, SMT DEF Dec
  <2> QED BY <2>1, <2>2, SMT DEF Listed, Is, Row8
<1>8. CASE op % 16 \in {6, 7} /\ Column(op) = 6
  <2>1. OpPtr(op) = "mov_mem_indir_rx" BY <1>1, <1>8, SMT DEF OpTable
  <2>2. Dec(op) = Row8[6] BY <1>8, SMT DEF Dec
  <2> QED BY <2>1, <2>2, SMT DEF Listed, Is, Row8
<1>9. CASE op % 16 > 7 /\ Column(op) = 7
  <2>1. OpPtr(op) = "mov_mem_rx" BY <1>1, <1>9, SMT DEF OpTable
  <2>2. Dec(op) = Registers[9] BY <1>9, SMT DEF Dec
  <2> QED BY <2>1, <2>2, SMT DEF Listed, Is, Registers
<1> QED BY Columns, <1>2, <1>3, <1>4, <1>5, <1>6, <1>7, <1>8, <1>9

\* Row 9 of the map, handler and line.
LEMMA Row9Listed ==
  ASSUME NEW op \in Byte, op \div 16 = 9
  PROVE  Listed(OpPtr(op), Dec(op))
<1> DEFINE handler == OpTable[10]
<1>1. op % 16 # 1 => OpPtr(op) = handler[Column(op)]
  BY OpcodeDigits, SMT DEF OpPtr
<1>2. CASE op % 16 = 1
  <2>1. OpPtr(op) = "acall_offset" BY <1>2, OpcodeDigits, SMT DEF OpPtr
  <2>2. Dec(op) = ACALL BY <1>2, SMT DEF Dec
  <2> QED BY <2>1, <2>2, SMT DEF Listed, Is, ACALL
<1>3. CASE op % 16 = 0 /\ Column(op) = 1
  <2>1. OpPtr(op) = "mov_dptr_imm" BY <1>1, <1>3, SMT DEF OpTable
  <2>2. Dec(op) = Row9[1] BY <1>3, SMT DEF Dec
  <2> QED BY <2>1, <2>2, SMT DEF Listed, Is, Row9
<1>4. CASE op % 16 = 2 /\ Column(op) = 2
  <2>1. OpPtr(op) = "mov_bitaddr_c" BY <1>1, <1>4, SMT DEF OpTable
  <2>2. Dec(op) = Row9[2] BY <1>4, SMT DEF Dec
  <2> QED BY <2>1, <2>2, SMT DEF Listed, Is, Row9
<1>5. CASE op % 16 = 3 /\ Column(op) = 3
  <2>1. OpPtr(op) = "movc_a_indir_a_dptr" BY <1>1, <1>5, SMT DEF OpTable
  <2>2. Dec(op) = Row9[3] BY <1>5, SMT DEF Dec
  <2> QED BY <2>1, <2>2, SMT DEF Listed, Is, Row9
<1>6. CASE op % 16 = 4 /\ Column(op) = 4
  <2>1. OpPtr(op) = "subb_a_imm" BY <1>1, <1>6, SMT DEF OpTable
  <2>2. Dec(op) = Row9[4] BY <1>6, SMT DEF Dec
  <2> QED BY <2>1, <2>2, SMT DEF Listed, Is, Row9
<1>7. CASE op % 16 = 5 /\ Column(op) = 5
  <2>1. OpPtr(op) = "subb_a_mem" BY <1>1, <1>7, SMT DEF OpTable
  <2>2. Dec(op) = Row9[5] BY <1>7, SMT DEF Dec
  <2> QED BY <2>1, <2>2, SMT DEF Listed, Is, Row9
<1>8. CASE op % 16 \in {6, 7} /\ Column(op) = 6
  <2>1. OpPtr(op) = "subb_a_indir_rx" BY <1>1, <1>8, SMT DEF OpTable
  <2>2. Dec(op) = Row9[6] BY <1>8, SMT DEF Dec
  <2> QED BY <2>1, <2>2, SMT DEF Listed, Is, Row9
<1>9. CASE op % 16 > 7 /\ Column(op) = 7
  <2>1. OpPtr(op) = "subb_a_rx" BY <1>1, <1>9, SMT DEF OpTable
  <2>2. Dec(op) = Registers[10] BY <1>9, SMT DEF Dec
  <2> QED BY <2>1, <2>2, SMT DEF Listed, Is, Registers
<1> QED BY Columns, <1>2, <1>3, <1>4, <1>5, <1>6, <1>7, <1>8, <1>9

\* Row A of the map, handler and line.
LEMMA RowAListed ==
  ASSUME NEW op \in Byte, op \div 16 = 10
  PROVE  Listed(OpPtr(op), Dec(op))
<1> DEFINE handler == OpTable[11]
<1>1. op % 16 # 1 => OpPtr(op) = handler[Column(op)]
  BY OpcodeDigits, SMT DEF OpPtr
<1>2. CASE op % 16 = 1
  <2>1. OpPtr(op) = "ajmp_offset" BY <1>2, OpcodeDigits, SMT DEF OpPtr
  <2>2. Dec(op) = AJMP BY <1>2, SMT DEF Dec
  <2> QED BY <2>1, <2>2, SMT DEF Listed, Is, AJMP
<1>3. CASE op % 16 = 0 /\ Column(op) = 1
  <2>1. OpPtr(op) = "orl_c_compl_bitaddr" BY <1>1, <1>3, SMT DEF OpTable
  <2>2. Dec(op) = RowA[1] BY <1>3, SMT DEF Dec
  <2> QED BY <2>1, <2>2, SMT DEF Listed, Is, RowA
<1>4. CASE op % 16 = 2 /\ Column(op) = 2
  <2>1. OpPtr(op) = "mov_c_bitaddr" BY <1>1, <1>4, SMT DEF OpTable
  <2>2. Dec(op) = RowA[2] BY <1>4, SMT DEF Dec
  <2> QED BY <2>1, <2>2, SMT DEF Listed, Is, RowA
<1>5. CASE op % 16 = 3 /\ Column(op) = 3
  <2>1. OpPtr(op) = "inc_dptr" BY <1>1, <1>5, SMT DEF OpTable
  <2>2. Dec(op) = RowA[3] BY <1>5, SMT DEF Dec
  <2> QED BY <2>1, <2>2, SMT DEF Listed, Is, RowA
<1>6. CASE op % 16 = 4 /\ Column(op) = 4
  <2>1. OpPtr(op) = "mul_ab" BY <1>1, <1>6, SMT DEF OpTable
  <2>2. Dec(op) = RowA[4] BY <1>6, SMT DEF Dec
  <2> QED BY <2>1, <2>2, SMT DEF Listed, Is, RowA
<1>7. CASE op % 16 = 5 /\ Column(op) = 5
  <2>1. OpPtr(op) = "nop" BY <1>1, <1>7, SMT DEF OpTable
  <2>2. Dec(op) = RowA[5] BY <1>7, SMT DEF Dec
  <2> QED BY <2>1, <2>2, SMT DEF Listed, Is, RowA
<1>8. CASE op % 16 \in {6, 7} /\ Column(op) = 6
  <2>1. OpPtr(op) = "mov_indir_rx_mem" BY <1>1, <1>8, SMT DEF OpTable
  <2>2. Dec(op) = RowA[6] BY <1>8, SMT DEF Dec
  <2> QED BY <2>1, <2>2, SMT DEF Listed, Is, RowA
<1>9. CASE op % 16 > 7 /\ Column(op) = 7
  <2>1. OpPtr(op) = "mov_rx_mem" BY <1>1, <1>9, SMT DEF OpTable
  <2>2. Dec(op) = Registers[11] BY <1>9, SMT DEF Dec
  <2> QED BY <2>1, <2>2, SMT DEF Listed, Is, Registers
<1> QED BY Columns, <1>2, <1>3, <1>4, <1>5, <1>6, <1>7, <1>8, <1>9

\* Row B of the map, handler and line.
LEMMA RowBListed ==
  ASSUME NEW op \in Byte, op \div 16 = 11
  PROVE  Listed(OpPtr(op), Dec(op))
<1> DEFINE handler == OpTable[12]
<1>1. op % 16 # 1 => OpPtr(op) = handler[Column(op)]
  BY OpcodeDigits, SMT DEF OpPtr
<1>2. CASE op % 16 = 1
  <2>1. OpPtr(op) = "acall_offset" BY <1>2, OpcodeDigits, SMT DEF OpPtr
  <2>2. Dec(op) = ACALL BY <1>2, SMT DEF Dec
  <2> QED BY <2>1, <2>2, SMT DEF Listed, Is, ACALL
<1>3. CASE op % 16 = 0 /\ Column(op) = 1
  <2>1. OpPtr(op) = "anl_c_compl_bitaddr" BY <1>1, <1>3, SMT DEF OpTable
  <2>2. Dec(op) = RowB[1] BY <1>3, SMT DEF Dec
  <2> QED BY <2>1, <2>2, SMT DEF Listed, Is, RowB
<1>4. CASE op % 16 = 2 /\ Column(op) = 2
  <2>1. OpPtr(op) = "cpl_bitaddr" BY <1>1, <1>4, SMT DEF OpTable
  <2>2. Dec(op) = RowB[2] BY <1>4, SMT DEF Dec
  <2> QED BY <2>1, <2>2, SMT DEF Listed, Is, RowB
<1>5. CASE op % 16 = 3 /\ Column(op) = 3
  <2>1. OpPtr(op) = "cpl_c" BY <1>1, <1>5, SMT DEF OpTable
  <2>2. Dec(op) = RowB[3] BY <1>5, SMT DEF Dec
  <2> QED BY <2>1, <2>2, SMT DEF Listed, Is, RowB
<1>6. CASE op % 16 = 4 /\ Column(op) = 4
  <2>1. OpPtr(op) = "cjne_a_imm_offset" BY <1>1, <1>6, SMT DEF OpTable
  <2>2. Dec(op) = RowB[4] BY <1>6, SMT DEF Dec
  <2> QED BY <2>1, <2>2, SMT DEF Listed, Is, RowB
<1>7. CASE op % 16 = 5 /\ Column(op) = 5
  <2>1. OpPtr(op) = "cjne_a_mem_offset" BY <1>1, <1>7, SMT DEF OpTable
  <2>2. Dec(op) = RowB[5] BY <1>7, SMT DEF Dec
  <2> QED BY <2>1, <2>2, SMT DEF Listed, Is, RowB
<1>8. CASE op % 16 \in {6, 7} /\ Column(op) = 6
  <2>1. OpPtr(op) = "cjne_indir_rx_imm_offset" BY <1>1, <1>8, SMT DEF OpTable
  <2>2. Dec(op) = RowB[6] BY <1>8, SMT DEF Dec
  <2> QED BY <2>1, <2>2, SMT DEF Listed, Is, RowB
<1>9. CASE op % 16 > 7 /\ Column(op) = 7
  <2>1. OpPtr(op) = "cjne_rx_imm_offset" BY <1>1, <1>9, SMT DEF OpTable
  <2>2. Dec(op) = Registers[12] BY <1>9, SMT DEF Dec
  <2> QED BY <2>1, <2>2, SMT DEF Listed, Is, Registers
<1> QED BY Columns, <1>2, <1>3, <1>4, <1>5, <1>6, <1>7, <1>8, <1>9

\* Row C of the map, handler and line.
LEMMA RowCListed ==
  ASSUME NEW op \in Byte, op \div 16 = 12
  PROVE  Listed(OpPtr(op), Dec(op))
<1> DEFINE handler == OpTable[13]
<1>1. op % 16 # 1 => OpPtr(op) = handler[Column(op)]
  BY OpcodeDigits, SMT DEF OpPtr
<1>2. CASE op % 16 = 1
  <2>1. OpPtr(op) = "ajmp_offset" BY <1>2, OpcodeDigits, SMT DEF OpPtr
  <2>2. Dec(op) = AJMP BY <1>2, SMT DEF Dec
  <2> QED BY <2>1, <2>2, SMT DEF Listed, Is, AJMP
<1>3. CASE op % 16 = 0 /\ Column(op) = 1
  <2>1. OpPtr(op) = "push_mem" BY <1>1, <1>3, SMT DEF OpTable
  <2>2. Dec(op) = RowC[1] BY <1>3, SMT DEF Dec
  <2> QED BY <2>1, <2>2, SMT DEF Listed, Is, RowC
<1>4. CASE op % 16 = 2 /\ Column(op) = 2
  <2>1. OpPtr(op) = "clr_bitaddr" BY <1>1, <1>4, SMT DEF OpTable
  <2>2. Dec(op) = RowC[2] BY <1>4, SMT DEF Dec
  <2> QED BY <2>1, <2>2, SMT DEF Listed, Is, RowC
<1>5. CASE op % 16 = 3 /\ Column(op) = 3
  <2>1. OpPtr(op) = "clr_c" BY <1>1, <1>5, SMT DEF OpTable
  <2>2. Dec(op) = RowC[3] BY <1>5, SMT DEF Dec
  <2> QED BY <2>1, <2>2, SMT DEF Listed, Is, RowC
<1>6. CASE op % 16 = 4 /\ Column(op) = 4
  <2>1. OpPtr(op) = "swap_a" BY <1>1, <1>6, SMT DEF OpTable
  <2>2. Dec(op) = RowC[4] BY <1>6, SMT DEF Dec
  <2> QED BY <2>1, <2>2, SMT DEF Listed, Is, RowC
<1>7. CASE op % 16 = 5 /\ Column(op) = 5
  <2>1. OpPtr(op) = "xch_a_mem" BY <1>1, <1>7, SMT DEF OpTable
  <2>2. Dec(op) = RowC[5] BY <1>7, SMT DEF Dec
  <2> QED BY <2>1, <2>2, SMT DEF Listed, Is, RowC
<1>8. CASE op % 16 \in {6, 7} /\ Column(op) = 6
  <2>1. OpPtr(op) = "xch_a_indir_rx" BY <1>1, <1>8, SMT DEF OpTable
  <2>2. Dec(op) = RowC[6] BY <1>8, SMT DEF Dec
  <2> QED BY <2>1, <2>2, SMT DEF Listed, Is, RowC
<1>9. CASE op % 16 > 7 /\ Column(op) = 7
  <2>1. OpPtr(op) = "xch_a_rx" BY <1>1, <1>9, SMT DEF OpTable
  <2>2. Dec(op) = Registers[13] BY <1>9, SMT DEF Dec
  <2> QED BY <2>1, <2>2, SMT DEF Listed, Is, Registers
<1> QED BY Columns, <1>2, <1>3, <1>4, <1>5, <1>6, <1>7, <1>8, <1>9

\* Row D of the map, handler and line.
LEMMA RowDListed ==
  ASSUME NEW op \in Byte, op \div 16 = 13
  PROVE  Listed(OpPtr(op), Dec(op))
<1> DEFINE handler == OpTable[14]
<1>1. op % 16 # 1 => OpPtr(op) = handler[Column(op)]
  BY OpcodeDigits, SMT DEF OpPtr
<1>2. CASE op % 16 = 1
  <2>1. OpPtr(op) = "acall_offset" BY <1>2, OpcodeDigits, SMT DEF OpPtr
  <2>2. Dec(op) = ACALL BY <1>2, SMT DEF Dec
  <2> QED BY <2>1, <2>2, SMT DEF Listed, Is, ACALL
<1>3. CASE op % 16 = 0 /\ Column(op) = 1
  <2>1. OpPtr(op) = "pop_mem" BY <1>1, <1>3, SMT DEF OpTable
  <2>2. Dec(op) = RowD[1] BY <1>3, SMT DEF Dec
  <2> QED BY <2>1, <2>2, SMT DEF Listed, Is, RowD
<1>4. CASE op % 16 = 2 /\ Column(op) = 2
  <2>1. OpPtr(op) = "setb_bitaddr" BY <1>1, <1>4, SMT DEF OpTable
  <2>2. Dec(op) = RowD[2] BY <1>4, SMT DEF Dec
  <2> QED BY <2>1, <2>2, SMT DEF Listed, Is, RowD
<1>5. CASE op % 16 = 3 /\ Column(op) = 3
  <2>1. OpPtr(op) = "setb_c" BY <1>1, <1>5, SMT DEF OpTable
  <2>2. Dec(op) = RowD[3] BY <1>5, SMT DEF Dec
  <2> QED BY <2>1, <2>2, SMT DEF Listed, Is, RowD
<1>6. CASE op % 16 = 4 /\ Column(op) = 4
  <2>1. OpPtr(op) = "da_a" BY <1>1, <1>6, SMT DEF OpTable
  <2>2. Dec(op) = RowD[4] BY <1>6, SMT DEF Dec
  <2> QED BY <2>1, <2>2, SMT DEF Listed, Is, RowD
<1>7. CASE op % 16 = 5 /\ Column(op) = 5
  <2>1. OpPtr(op) = "djnz_mem_offset" BY <1>1, <1>7, SMT DEF OpTable
  <2>2. Dec(op) = RowD[5] BY <1>7, SMT DEF Dec
  <2> QED BY <2>1, <2>2, SMT DEF Listed, Is, RowD
<1>8. CASE op % 16 \in {6, 7} /\ Column(op) = 6
  <2>1. OpPtr(op) = "xchd_a_indir_rx" BY <1>1, <1>8, SMT DEF OpTable
  <2>2. Dec(op) = RowD[6] BY <1>8, SMT DEF Dec
  <2> QED BY <2>1, <2>2, SMT DEF Listed, Is, RowD
<1>9. CASE op % 16 > 7 /\ Column(op) = 7
  <2>1. OpPtr(op) = "djnz_rx_offset" BY <1>1, <1>9, SMT DEF OpTable
  <2>2. Dec(op) = Registers[14] BY <1>9, SMT DEF Dec
  <2> QED BY <2>1, <2>2, SMT DEF Listed, Is, Registers
<1> QED BY Columns, <1>2, <1>3, <1>4, <1>5, <1>6, <1>7, <1>8, <1>9

\* Row E of the map, handler and line.
LEMMA RowEListed ==
  ASSUME NEW op \in Byte, op \div 16 = 14
  PROVE  Listed(OpPtr(op), Dec(op))
<1> DEFINE handler == OpTable[15]
<1>1. op % 16 # 1 => OpPtr(op) = handler[Column(op)]
  BY OpcodeDigits, SMT DEF OpPtr
<1>2. CASE op % 16 = 1
  <2>1. OpPtr(op) = "ajmp_offset" BY <1>2, OpcodeDigits, SMT DEF OpPtr
  <2>2. Dec(op) = AJMP BY <1>2, SMT DEF Dec
  <2> QED BY <2>1, <2>2, SMT DEF Listed, Is, AJMP
<1>3. CASE op % 16 = 0 /\ Column(op) = 1
  <2>1. OpPtr(op) = "movx_a_indir_dptr" BY <1>1, <1>3, SMT DEF OpTable
  <2>2. Dec(op) = RowE[1] BY <1>3, SMT DEF Dec
  <2> QED BY <2>1, <2>2, SMT DEF Listed, Is, RowE
<1>4. CASE op % 16 = 2 /\ Column(op) = 2
  <2>1. OpPtr(op) = "movx_a_indir_rx" BY <1>1, <1>4, SMT DEF OpTable
  <2>2. Dec(op) = RowE[2] BY <1>4, SMT DEF Dec
  <2> QED BY <2>1, <2>2, SMT DEF Listed, Is, RowE
<1>5. CASE op % 16 = 3 /\ Column(op) = 3
  <2>1. OpPtr(op) = "movx_a_indir_rx" BY <1>1, <1>5, SMT DEF OpTable
  <2>2. Dec(op) = RowE[3] BY <1>5, SMT DEF Dec
  <2> QED BY <2>1, <2>2, SMT DEF Listed, Is, RowE
<1>6. CASE op % 16 = 4 /\ Column(op) = 4
  <2>1. OpPtr(op) = "clr_a" BY <1>1, <1>6, SMT DEF OpTable
  <2>2. Dec(op) = RowE[4] BY <1>6, SMT DEF Dec
  <2> QED BY <2>1, <2>2, SMT DEF Listed, Is, RowE
<1>7. CASE op % 16 = 5 /\ Column(op) = 5
  <2>1. OpPtr(op) = "mov_a_mem" BY <1>1, <1>7, SMT DEF OpTable
  <2>2. Dec(op) = RowE[5] BY <1>7, SMT DEF Dec
  <2> QED BY <2>1, <2>2, SMT DEF Listed, Is, RowE
<1>8. CASE op % 16 \in {6, 7} /\ Column(op) = 6
  <2>1. OpPtr(op) = "mov_a_indir_rx" BY <1>1, <1>8, SMT DEF OpTable
  <2>2. Dec(op) = RowE[6] BY <1>8, SMT DEF Dec
  <2> QED BY <2>1, <2>2, SMT DEF Listed, Is, RowE
<1>9. CASE op % 16 > 7 /\ Column(op) = 7
  <2>1. OpPtr(op) = "mov_a_rx" BY <1>1, <1>9, SMT DEF OpTable
  <2>2. Dec(op) = Registers[15] BY <1>9, SMT DEF Dec
  <2> QED BY <2>1, <2>2, SMT DEF Listed, Is, Registers
<1> QED BY Columns, <1>2, <1>3, <1>4, <1>5, <1>6, <1>7, <1>8, <1>9

\* Row F of the map, handler and line.
LEMMA RowFListed ==
  ASSUME NEW op \in Byte, op \div 16 = 15
  PROVE  Listed(OpPtr(op), Dec(op))
<1> DEFINE handler == OpTable[16]
<1>1. op % 16 # 1 => OpPtr(op) = handler[Column(op)]
  BY OpcodeDigits, SMT DEF OpPtr
<1>2. CASE op % 16 = 1
  <2>1. OpPtr(op) = "acall_offset" BY <1>2, OpcodeDigits, SMT DEF OpPtr
  <2>2. Dec(op) = ACALL BY <1>2, SMT DEF Dec
  <2> QED BY <2>1, <2>2, SMT DEF Listed, Is, ACALL
<1>3. CASE op % 16 = 0 /\ Column(op) = 1
  <2>1. OpPtr(op) = "movx_indir_dptr_a" BY <1>1, <1>3, SMT DEF OpTable
  <2>2. Dec(op) = RowF[1] BY <1>3, SMT DEF Dec
  <2> QED BY <2>1, <2>2, SMT DEF Listed, Is, RowF
<1>4. CASE op % 16 = 2 /\ Column(op) = 2
  <2>1. OpPtr(op) = "movx_indir_rx_a" BY <1>1, <1>4, SMT DEF OpTable
  <2>2. Dec(op) = RowF[2] BY <1>4, SMT DEF Dec
  <2> QED BY <2>1, <2>2, SMT DEF Listed, Is, RowF
<1>5. CASE op % 16 = 3 /\ Column(op) = 3
  <2>1. OpPtr(op) = "movx_indir_rx_a" BY <1>1, <1>5, SMT DEF OpTable
  <2>2. Dec(op) = RowF[3] BY <1>5, SMT DEF Dec
  <2> QED BY <2>1, <2>2, SMT DEF Listed, Is, RowF
<1>6. CASE op % 16 = 4 /\ Column(op) = 4
  <2>1. OpPtr(op) = "cpl_a" BY <1>1, <1>6, SMT DEF OpTable
  <2>2. Dec(op) = RowF[4] BY <1>6, SMT DEF Dec
  <2> QED BY <2>1, <2>2, SMT DEF Listed, Is, RowF
<1>7. CASE op % 16 = 5 /\ Column(op) = 5
  <2>1. OpPtr(op) = "mov_mem_a" BY <1>1, <1>7, SMT DEF OpTable
  <2>2. Dec(op) = RowF[5] BY <1>7, SMT DEF Dec
  <2> QED BY <2>1, <2>2, SMT DEF Listed, Is, RowF
<1>8. CASE op % 16 \in {6, 7} /\ Column(op) = 6
  <2>1. OpPtr(op) = "mov_indir_rx_a" BY <1>1, <1>8, SMT DEF OpTable
  <2>2. Dec(op) = RowF[6] BY <1>8, SMT DEF Dec
  <2> QED BY <2>1, <2>2, SMT DEF Listed, Is, RowF
<1>9. CASE op % 16 > 7 /\ Column(op) = 7
  <2>1. OpPtr(op) = "mov_rx_a" BY <1>1, <1>9, SMT DEF OpTable
  <2>2. Dec(op) = Registers[16] BY <1>9, SMT DEF Dec
  <2> QED BY <2>1, <2>2, SMT DEF Listed, Is, Registers
<1> QED BY Columns, <1>2, <1>3, <1>4, <1>5, <1>6, <1>7, <1>8, <1>9

\* Every opcode is listed.
LEMMA AllListed == ASSUME NEW op \in Byte PROVE Listed(OpPtr(op), Dec(op))
<1>1. op \div 16 \in 0 .. 15 BY SMT DEF Byte
<1>2. op \div 16 = 0 \/ op \div 16 = 1 \/ op \div 16 = 2 \/ op \div 16 = 3 \/ op \div 16 = 4
      \/ op \div 16 = 5 \/ op \div 16 = 6 \/ op \div 16 = 7
      \/ op \div 16 = 8 \/ op \div 16 = 9 \/ op \div 16 = 10 \/ op \div 16 = 11
      \/ op \div 16 = 12 \/ op \div 16 = 13 \/ op \div 16 = 14 \/ op \div 16 = 15
  BY <1>1, SMT
<1> QED BY <1>2, Row0Listed, Row1Listed, Row2Listed, Row3Listed, Row4Listed, Row5Listed, Row6Listed,
     Row7Listed,
          Row8Listed, Row9Listed, RowAListed, RowBListed, RowCListed, RowDListed, RowEListed, RowFListed
-----------------------------------------------------------------------------
(* The end of a handler: the program counter and the parity.               *)

\* n is c with another program counter and the parity bit brought up to date.
After(n, c, target) ==
  /\ Good(n) /\ n.pc = target /\ n.low = c.low /\ n.up = c.up
  /\ \A x : x # PSW => Sfr(n, x) = Sfr(c, x)
  /\ \A k \in Place : k # 0 => Bit(Sfr(n, PSW), k) = Bit(Sfr(c, PSW), k)

\* The parity of a byte is a digit.
LEMMA ParityDigit == ASSUME NEW v \in Byte PROVE ParityOf(v) \in Digit
<1>1. \A k \in Place : Bit(v, k) \in Digit BY Wraps, BitDigit, Zenon
<1>2. \A x \in Digit : x \in Int BY SMT DEF Digit
<1> DEFINE b == [k \in Place |-> Bit(v, k)]
<1>3. b \in [Place -> Int] BY <1>1, <1>2, Zenon
<1>4. ParityOf(v) = (b[0] + b[1] + b[2] + b[3] + b[4] + b[5] + b[6] + b[7]) % 2
  BY SMT DEF ParityOf, Place
<1> HIDE DEF b
<1>5. b[0] + b[1] + b[2] + b[3] + b[4] + b[5] + b[6] + b[7] \in Int BY <1>3, SMT DEF Place
<1> QED BY <1>4, <1>5, SMT DEF Digit

\* A handler's end changes the program counter and the parity only.
LEMMA EndKeeps ==
  ASSUME NEW c, Good(c), NEW target \in Word
  PROVE  After(Parity([c EXCEPT !.pc = target]), c, target)
<1> DEFINE s == [c EXCEPT !.pc = target]
           w == SetBit(Sfr(s, PSW), 0, ParityOf(A(s)))
           n == SetSfr(s, PSW, w)
<1>1. c \in Typed BY DEF Good
<1>2. /\ s \in Typed /\ s.pc = target /\ s.low = c.low /\ s.up = c.up /\ s.sfr = c.sfr
      /\ s.shadow = c.shadow /\ s.board = c.board
  BY <1>1, SMT DEF Typed
<1> HIDE DEF s
<1>3. Good(s) /\ \A x : Sfr(s, x) = Sfr(c, x) BY <1>2, GoodAlike
<1>4. Sfr(s, PSW) \in Byte /\ A(s) \in Byte BY <1>2, SfrByte DEF A
<1>5. ParityOf(A(s)) \in Digit BY <1>4, ParityDigit
<1>6. w \in Byte BY <1>4, <1>5, SetBitByte, FlagPlaces
<1>7. \A k \in Place : Bit(w, k) = IF k = 0 THEN ParityOf(A(s)) ELSE Bit(Sfr(s, PSW), k)
  BY <1>4, <1>5, SetBitBits, FlagPlaces
<1>8. PSW \in Core BY InCore
<1> HIDE DEF w
<1>9. /\ Keeps(n, s, Direct(PSW), {}) /\ \A x : Sfr(n, x) = IF x = PSW THEN w ELSE Sfr(s, x)
      /\ n.low = s.low /\ n.up = s.up
  BY <1>3, <1>6, <1>8, SetCore
<1>10. Parity(s) = n BY Zenon DEF Parity, w
<1> HIDE DEF n
<1>11. Good(n) /\ n.pc = s.pc BY <1>9 DEF Keeps
<1>12. \A x : x # PSW => Sfr(n, x) = Sfr(c, x) BY <1>3, <1>9, Zenon
<1>13. Sfr(n, PSW) = w /\ Sfr(s, PSW) = Sfr(c, PSW) BY <1>3, <1>9, Zenon
<1>14. \A k \in Place : k # 0 => Bit(Sfr(n, PSW), k) = Bit(Sfr(c, PSW), k) BY <1>7, <1>13, Zenon
<1>15. n.low = c.low /\ n.up = c.up /\ n.pc = target BY <1>2, <1>9, <1>11, Zenon
<1>16. After(n, c, target) BY <1>11, <1>12, <1>14, <1>15, Zenon DEF After
<1> QED BY <1>10, <1>16, Zenon DEF s

\* The footprint of a handler is that of its stores, and the parity.
LEMMA AfterTouches ==
  ASSUME NEW n, NEW c, NEW q, NEW target, NEW S, NEW F, Keeps(c, q, S, F), After(n, c, target)
  PROVE  Touches(n, q, S, F \cup {0})
<1>1. Touches(c, q, S, F) BY DEF Keeps
<1>2. n.low = c.low /\ n.up = c.up BY DEF After
<1>3. \A x : x # PSW => Sfr(n, x) = Sfr(c, x) BY Zenon DEF After
<1>4. \A k \in Place : k # 0 => Bit(Sfr(n, PSW), k) = Bit(Sfr(c, PSW), k) BY Zenon DEF After
<1>5. /\ \A a : At(n.low, a) = At(q.low, a) \/ <<"low", a>> \in S
      /\ \A a : At(n.up, a) = At(q.up, a) \/ <<"up", a>> \in S
  BY <1>1, <1>2, Zenon DEF Touches
<1>6. \A a : a = PSW \/ Sfr(n, a) = Sfr(q, a) \/ <<"sfr", a>> \in S BY <1>1, <1>3, Zenon DEF Touches
<1>7. \/ <<"sfr", PSW>> \in S
      \/ \A k \in Place : k \in F \cup {0} \/ Bit(Sfr(n, PSW), k) = Bit(Sfr(q, PSW), k)
  <2>1. CASE <<"sfr", PSW>> \notin S
    <3>1. \A k \in Place : k \in F \/ Bit(Sfr(c, PSW), k) = Bit(Sfr(q, PSW), k)
      BY <1>1, <2>1, Zenon DEF Touches
    <3> QED BY <1>4, <3>1, Zenon
  <2> QED BY <2>1
<1> QED BY <1>5, <1>6, <1>7, Zenon DEF Touches

-----------------------------------------------------------------------------
(* What an instruction i printed as t does, from the machine c to n.       *)

Returns == {"RET", "RETI"}
Calls == {"ACALL", "LCALL"}
Sums == {"ADD", "ADDC", "SUBB", "MUL", "DIV"}
Jumps == {"SJMP", "JMP"}
Targets == {"r1", "r2", "a11", "a16"}

Final(t) == IF t.operands = <<>> THEN "" ELSE t.operands[Len(t.operands)]
Following(t) == W16(m.pc + t.length)

\* The clauses of GoesWhereItSays.
Control(n, t, i) ==
  CASE t.mnemonic \in {"RET", "RETI"} -> TRUE
    [] t.mnemonic = "SJMP"  -> n.pc = W16(Following(t) + Signed(i.o1))
    [] Final(t) = "r1" /\ t.mnemonic # "SJMP" -> n.pc \in {Following(t), W16(Following(t) + Signed(i.o1))}
    [] Final(t) = "r2"      -> n.pc \in {Following(t), W16(Following(t) + Signed(i.o2))}
    [] Final(t) = "a11"     -> n.pc = Address11(m.pc, i.op, i.o1)
    [] Final(t) = "a16"     -> n.pc = Address16(i.o1, i.o2)
    [] t.mnemonic = "JMP"   -> n.pc = W16(DPTR(m) + A(m))
    [] OTHER                -> n.pc = Following(t)

\* Those of ArithmeticExact.
Result(acc, k, reg, ov, t, i) ==
  LET c == IF t.mnemonic = "ADD" THEN 0 ELSE Carry(m)
      v == Operand(t.operands[2], i)
      overflow == ov = 1
      a == A(m)
      b == Sfr(m, B)
  IN  /\ t.mnemonic \in {"ADD", "ADDC"} =>
           /\ acc + 256 * k = a + v + c
           /\ overflow <=> Signed(a) + Signed(v) + c \notin -128 .. 127
      /\ t.mnemonic = "SUBB" =>
           /\ acc - 256 * k = a - v - c
           /\ overflow <=> Signed(a) - Signed(v) - c \notin -128 .. 127
      /\ t.mnemonic = "MUL" => /\ acc + 256 * reg = a * b
                               /\ overflow <=> a * b > 255
      /\ t.mnemonic = "DIV" => /\ overflow <=> b = 0
                               /\ b # 0 => a = acc * b + reg /\ reg < b

Exact(n, t, i) == Result(A(n), Carry(n), Sfr(n, B), Bit(Sfr(n, PSW), 2), t, i)

\* A return takes its target from the stack, a call leaves its own there.
Linked(n, t) ==
  /\ t.mnemonic \in Returns => n.pc = ReturnAddress(m)
  /\ t.mnemonic \in Calls /\ Exists(StackByte(1) \cup StackByte(2)) =>
       /\ ReadIndir(n, B8(Sfr(m, SP) + 1)) = Following(t) % 256
       /\ ReadIndir(n, B8(Sfr(m, SP) + 2)) = Following(t) \div 256
       /\ Following(t) \in Word

\* A bit instruction on a port leaves the latch's other bits.
Latched(n, t, i) ==
  (t.operands # <<>> /\ t.operands[1] = "b1") =>
     \A p \in Port : BitByte(i.o1) = PortAt[p] =>
        \A k \in Place : k # i.o1 % 8 => Bit(Sfr(n, PortAt[p]), k) = Bit(Sfr(m, PortAt[p]), k)

Fits(n, t, i) ==
  /\ Good(n)
  /\ Touches(n, m, Destinations(t, i), FlagsOf(t.mnemonic) \cup {0})
  /\ Control(n, t, i)
  /\ Exact(n, t, i)
  /\ Linked(n, t)
  /\ Latched(n, t, i)

\* What the text of an instruction that is none of these implies.
Common(t) ==
  /\ t.mnemonic \notin Returns \cup Calls \cup Sums
  /\ t.operands = <<>> \/ t.operands[1] # "b1"

Straight(t) == t.mnemonic \notin Returns \cup Jumps /\ Final(t) \notin Targets

-----------------------------------------------------------------------------
(* What the text of an instruction implies.                                *)

Special == Tests \cup Returns \cup Calls \cup Sums \cup {"PUSH", "POP", "XCH", "XCHD"}

\* Instructions that store where their first operand says.
Ordinary(t, first, flags, length) ==
  /\ t.mnemonic \notin Special
  /\ FlagsOf(t.mnemonic) = flags
  /\ t.operands # <<>> /\ t.operands[1] = first
  /\ t.length = length

\* Where that is.
LEMMA OrdinaryStores ==
  ASSUME NEW t, NEW i, NEW first, NEW flags, NEW length, Ordinary(t, first, flags, length)
  PROVE  Destinations(t, i) = Named(first, i, t.mnemonic = "MOVX")
<1>1. /\ t.mnemonic \notin Tests /\ t.mnemonic # "PUSH" /\ t.mnemonic \notin {"ACALL", "LCALL"}
      /\ t.mnemonic \notin {"RET", "RETI"} /\ t.mnemonic # "POP" /\ t.mnemonic \notin {"XCH", "XCHD"}
  BY Zenon DEF Ordinary, Special, Calls, Returns
<1>2. t.operands[1] = first BY Zenon DEF Ordinary
<1>3. Destinations(t, i) = Named(t.operands[1], i, t.mnemonic = "MOVX")
  BY <1>1, Zenon DEF Destinations
<1> QED BY <1>2, <1>3, Zenon

\* The bytes of the operands.
LEMMA NamedBytes ==
  ASSUME NEW i, NEW x
  PROVE  /\ Named("A", i, x) = Direct(ACC) /\ Named("C", i, x) = Direct(PSW)
         /\ Named("AB", i, x) = Direct(ACC) \cup Direct(B)
         /\ Named("DPTR", i, x) = Direct(DPL) \cup Direct(DPH)
         /\ Named("R", i, x) = Direct(RxAddress(m, i))
         /\ Named("m1", i, x) = Direct(i.o1) /\ Named("m2", i, x) = Direct(i.o2)
         /\ Named("b1", i, x) = Direct(IF i.o1 > 127 THEN BitByte(i.o1) ELSE BitByte(i.o1) + 32)
         /\ ~x => Named("@R", i, x) = Indirect(IndirAddress(m, i))
         /\ x => Named("@R", i, x) = {}
         /\ Named("@DPTR", i, x) = {}
<1>1. Named("A", i, x) = Direct(ACC) BY SMT DEF Named
<1>2. Named("C", i, x) = Direct(PSW) BY SMT DEF Named
<1>3. Named("AB", i, x) = Direct(ACC) \cup Direct(B) BY SMT DEF Named
<1>4. Named("DPTR", i, x) = Direct(DPL) \cup Direct(DPH) BY SMT DEF Named
<1>5. Named("R", i, x) = Direct(RxAddress(m, i)) BY SMT DEF Named
<1>6. Named("m1", i, x) = Direct(i.o1) /\ Named("m2", i, x) = Direct(i.o2) BY SMT DEF Named
<1>7. Named("b1", i, x) = Direct(IF i.o1 > 127 THEN BitByte(i.o1) ELSE BitByte(i.o1) + 32)
  BY SMT DEF Named
<1>8. ~x => Named("@R", i, x) = Indirect(IndirAddress(m, i)) BY SMT DEF Named
<1>9. x => Named("@R", i, x) = {} BY SMT DEF Named
<1>10. Named("@DPTR", i, x) = {} BY SMT DEF Named
<1> QED BY <1>1, <1>2, <1>3, <1>4, <1>5, <1>6, <1>7, <1>8, <1>9, <1>10

\* An instruction of no special kind need only keep to its bytes and its target.
LEMMA CommonFits ==
  ASSUME NEW n, NEW c, NEW target, NEW t, NEW i, Common(t),
         Keeps(c, m, Destinations(t, i), FlagsOf(t.mnemonic)), After(n, c, target),
         Control(n, t, i)
  PROVE  Fits(n, t, i)
<1>1. Good(n) BY DEF After
<1>2. Touches(n, m, Destinations(t, i), FlagsOf(t.mnemonic) \cup {0}) BY AfterTouches
<1>3. Exact(n, t, i) BY Zenon DEF Exact, Result, Common, Sums
<1>4. Linked(n, t) BY Zenon DEF Linked, Common
<1>5. Latched(n, t, i) BY Zenon DEF Latched, Common
<1> QED BY <1>1, <1>2, <1>3, <1>4, <1>5 DEF Fits

\* One that is not a jump goes to the next.
LEMMA StraightControl ==
  ASSUME NEW n, NEW t, NEW i, Straight(t), n.pc = Following(t)
  PROVE  Control(n, t, i)
<1>1. /\ t.mnemonic \notin {"RET", "RETI"} /\ t.mnemonic # "SJMP" /\ t.mnemonic # "JMP"
      /\ Final(t) # "r1" /\ Final(t) # "r2" /\ Final(t) # "a11" /\ Final(t) # "a16"
  BY Zenon DEF Straight, Returns, Jumps, Targets
<1> QED BY <1>1, Zenon DEF Control

Done(t, i) == Fits(m', t, i) /\ cycles' \in {0, 2, 4}

\* How handlers end.
LEMMA GoesAfter ==
  ASSUME NEW c, Good(c), NEW target \in Word, NEW returned \in {0, 2, 4}, Goes(c, target, returned)
  PROVE  After(m', c, target) /\ cycles' \in {0, 2, 4}
<1>1. m' = Parity([c EXCEPT !.pc = target]) /\ cycles' = returned BY DEF Goes
<1>2. After(Parity([c EXCEPT !.pc = target]), c, target) BY EndKeeps
<1> QED BY <1>1, <1>2, Zenon

\* The same of one that ends by its length.
LEMMA EndsAfter ==
  ASSUME Good(m), NEW c, Good(c), NEW length \in Nat, NEW returned \in {0, 2, 4}, Ends(c, length, returned)
  PROVE  After(m', c, W16(m.pc + length)) /\ cycles' \in {0, 2, 4}
<1>1. m.pc \in Word BY DEF Good, Typed
<1>2. m.pc + length \in Int
  <2>1. m.pc \in Nat BY <1>1, Wraps, Zenon
  <2> QED BY <2>1, SMT
<1>3. W16(m.pc + length) \in Word BY <1>2, Wraps, Zenon
<1> QED BY <1>3, GoesAfter, Zenon DEF Ends

\* The same of a branch.
LEMMA BranchesAfter ==
  ASSUME Good(m), NEW c, Good(c), NEW taken, NEW offset \in Byte, NEW length \in Nat,
         Branches(c, taken, offset, length)
  PROVE  /\ \E target \in {W16(m.pc + length), W16(W16(m.pc + length) + Signed(offset))} :
              After(m', c, target)
         /\ taken = TRUE => After(m', c, W16(W16(m.pc + length) + Signed(offset)))
         /\ cycles' \in {0, 2, 4}
<1> DEFINE target == W16(m.pc + length + IF taken THEN Signed(offset) ELSE 0)
<1>1. m.pc \in Nat /\ Signed(offset) \in Int
  <2>1. m.pc \in Word BY DEF Good, Typed
  <2> QED BY <2>1, Wraps, Zenon
<1>2. /\ taken => target = W16(m.pc + length + Signed(offset))
      /\ ~taken => target = W16(m.pc + length)
  BY <1>1, SMT DEF W16
<1>3. W16(m.pc + length + Signed(offset)) = W16(W16(m.pc + length) + Signed(offset))
  BY <1>1, SMT DEF W16
<1>4. m.pc + length \in Int /\ m.pc + length + Signed(offset) \in Int BY <1>1, SMT
<1>5. W16(m.pc + length) \in Word /\ W16(m.pc + length + Signed(offset)) \in Word
  BY <1>4, Wraps, Zenon
<1>6. Goes(c, target, 2) BY DEF Branches
<1> HIDE DEF target
<1>7. target \in Word BY <1>2, <1>5, Zenon
<1>8. After(m', c, target) /\ cycles' \in {0, 2, 4}
  <2>1. 2 \in {0, 2, 4} OBVIOUS
  <2> QED BY <1>6, <1>7, <2>1, GoesAfter
<1> QED BY <1>2, <1>3, <1>8, Zenon

\* An ordinary instruction that ends by its length.
LEMMA OrdinaryFits ==
  ASSUME Good(m), NEW c, NEW t, NEW i, NEW first, NEW flags, NEW length \in Nat, NEW returned \in {0, 2, 4},
         Ordinary(t, first, flags, length), first # "b1", Straight(t),
         Keeps(c, m, Named(first, i, t.mnemonic = "MOVX"), flags), Ends(c, length, returned)
  PROVE  Done(t, i)
<1>1. Good(c) BY GoodTyped
<1>2. After(m', c, W16(m.pc + length)) /\ cycles' \in {0, 2, 4} BY <1>1, EndsAfter
<1>3. W16(m.pc + length) = Following(t) BY Zenon DEF Following, Ordinary
<1>4. m'.pc = Following(t) BY <1>2, <1>3, Zenon DEF After
<1>5. Control(m', t, i) BY <1>4, StraightControl
<1>6. Common(t) BY Zenon DEF Common, Ordinary, Special
<1>7. Destinations(t, i) = Named(first, i, t.mnemonic = "MOVX") BY OrdinaryStores
<1>8. Keeps(c, m, Destinations(t, i), FlagsOf(t.mnemonic)) BY <1>7, Zenon DEF Ordinary
<1>9. Fits(m', t, i) BY <1>2, <1>5, <1>6, <1>8, CommonFits
<1> QED BY <1>2, <1>9 DEF Done

\* A jump that stores nothing but the carry of a comparison.
LEMMA TestFits ==
  ASSUME NEW n, NEW c, NEW t, NEW i, NEW target, t.mnemonic \in Tests,
         Keeps(c, m, {}, FlagsOf(t.mnemonic)), After(n, c, target), Control(n, t, i)
  PROVE  Fits(n, t, i)
<1>1. Destinations(t, i) = {}
  <2>1. /\ t.mnemonic # "PUSH" /\ t.mnemonic \notin {"ACALL", "LCALL"} /\ t.mnemonic \notin {"RET", "RETI"}
        /\ t.mnemonic # "POP" /\ t.mnemonic \notin {"XCH", "XCHD"}
    BY SMT DEF Tests
  <2> QED BY <2>1, Zenon DEF Destinations
<1>2. t.mnemonic \notin Returns \cup Calls \cup Sums BY SMT DEF Tests, Returns, Calls, Sums
<1>3. Touches(n, m, {}, FlagsOf(t.mnemonic) \cup {0}) BY AfterTouches
<1>4. Exact(n, t, i) BY <1>2, Zenon DEF Exact, Result, Sums
<1>5. Linked(n, t) BY <1>2, Zenon DEF Linked
<1>6. Latched(n, t, i)
  <2>1. \A p \in Port : PortAt[p] # PSW
    <3>1. \A p \in Port : p = 1 \/ p = 2 \/ p = 3 \/ p = 4 \/ p = 5 \/ p = 6 BY SMT DEF Port
    <3> QED BY <3>1, SMT DEF PortAt, PSW
  <2>2. \A p \in Port : Sfr(n, PortAt[p]) = Sfr(m, PortAt[p]) BY <1>3, <2>1, Zenon DEF Touches
  <2> QED BY <2>2, Zenon DEF Latched
<1>7. Good(n) BY DEF After
<1> QED BY <1>1, <1>3, <1>4, <1>5, <1>6, <1>7, Zenon DEF Fits

\* Where a branch may go.
LEMMA BranchControl ==
  ASSUME NEW n, NEW t, NEW i, t.mnemonic \notin Returns \cup Jumps,
         \/ Final(t) = "r1" /\ n.pc \in {Following(t), W16(Following(t) + Signed(i.o1))}
         \/ Final(t) = "r2" /\ n.pc \in {Following(t), W16(Following(t) + Signed(i.o2))}
  PROVE  Control(n, t, i)
<1>1. t.mnemonic \notin {"RET", "RETI"} /\ t.mnemonic # "SJMP" /\ t.mnemonic # "JMP"
  BY Zenon DEF Returns, Jumps
<1>2. CASE Final(t) = "r1" /\ n.pc \in {Following(t), W16(Following(t) + Signed(i.o1))}
  <2>1. Final(t) # "r2" /\ Final(t) # "a11" /\ Final(t) # "a16" BY <1>2, SMT
  <2> QED BY <1>1, <1>2, <2>1, Zenon DEF Control
<1>3. CASE Final(t) = "r2" /\ n.pc \in {Following(t), W16(Following(t) + Signed(i.o2))}
  <2>1. Final(t) # "r1" /\ Final(t) # "a11" /\ Final(t) # "a16" BY <1>3, SMT
  <2> QED BY <1>1, <1>3, <2>1, Zenon DEF Control
<1> QED BY <1>2, <1>3

\* A branch that stores nothing but that carry.
LEMMA TestBranchFits ==
  ASSUME Good(m), NEW c, NEW t, NEW i, NEW taken, NEW offset \in Byte, NEW length \in Nat,
         t.mnemonic \in Tests \ Jumps, t.length = length,
         (Final(t) = "r1" /\ offset = i.o1) \/ (Final(t) = "r2" /\ offset = i.o2),
         Keeps(c, m, {}, FlagsOf(t.mnemonic)), Branches(c, taken, offset, length)
  PROVE  Done(t, i)
<1>1. Good(c) BY GoodTyped
<1>2. PICK target \in {W16(m.pc + length), W16(W16(m.pc + length) + Signed(offset))} : After(m', c, target)
  BY <1>1, BranchesAfter
<1>3. cycles' \in {0, 2, 4} BY <1>1, BranchesAfter
<1>4. m'.pc \in {Following(t), W16(Following(t) + Signed(offset))} BY <1>2, Zenon DEF After, Following
<1>5. t.mnemonic \notin Returns \cup Jumps BY SMT DEF Tests, Returns, Jumps
<1>6. Control(m', t, i) BY <1>4, <1>5, BranchControl, Zenon
<1>7. Fits(m', t, i) BY <1>2, <1>6, TestFits
<1> QED BY <1>3, <1>7 DEF Done

-----------------------------------------------------------------------------
(* The handlers, by row.                                                   *)

Instruction == [op : Byte, o1 : Byte, o2 : Byte]

\* The operands a handler takes.
LEMMA Operands ==
  ASSUME Good(m), NEW i \in Instruction
  PROVE  /\ i.op \in Byte /\ i.o1 \in Byte /\ i.o2 \in Byte
         /\ A(m) \in Byte /\ \A a : ReadMem(m, a) \in Byte /\ Latch(m, a) \in Byte
         /\ IndirAddress(m, i) \in Byte /\ ReadIndir(m, IndirAddress(m, i)) \in Byte
         /\ Rx(m, i) \in Byte /\ RxAddress(m, i) \in Lows /\ RxAddress(m, i) \in Byte
         /\ Carry(m) \in Digit
         /\ ReadBit(m, i.o1) \in Digit /\ LatchBit(m, i.o1) \in Digit
<1>1. m \in Typed BY DEF Good
<1>2. i.op \in Byte /\ i.o1 \in Byte /\ i.o2 \in Byte BY DEF Instruction
<1>3. RxAddress(m, i) \in Byte
  <2>1. RxAddress(m, i) \in Lows BY <1>1, <1>2, RxByte
  <2> QED BY <2>1, SMT DEF Lows, Byte
<1>4. A(m) \in Byte BY <1>1, <1>2, PointerWord
<1>5. IndirAddress(m, i) \in Byte /\ Rx(m, i) \in Byte /\ RxAddress(m, i) \in Lows BY <1>1, <1>2, RxByte
<1>6. ReadIndir(m, IndirAddress(m, i)) \in Byte BY <1>1, <1>5, ReadIndirByte
<1>7. \A a : ReadMem(m, a) \in Byte /\ Latch(m, a) \in Byte BY <1>1, ReadMemByte, LatchByte
<1>8. Carry(m) \in Digit BY <1>1, CarryDigit
<1>9. ReadBit(m, i.o1) \in Digit /\ LatchBit(m, i.o1) \in Digit BY <1>1, <1>2, ReadBitDigit
<1> QED BY <1>2, <1>3, <1>4, <1>5, <1>6, <1>7, <1>8, <1>9

\* The values handlers compute.
LEMMA Values ==
  /\ \A x \in Byte, k \in Digit :
       /\ B8(x + 1) \in Byte /\ B8(x - 1) \in Byte /\ 255 - x \in Byte
       /\ x \div 2 + (x % 2) * 128 \in Byte /\ x \div 2 + k * 128 \in Byte /\ x % 2 \in Digit
       /\ B8(x * 2) + x \div 128 \in Byte /\ B8(x * 2) + k \in Byte /\ x \div 128 \in Digit
       /\ B8(x * 16) + x \div 16 \in Byte
       /\ 1 - k \in Digit
  /\ \A x, y \in Byte : /\ x - (x % 16) + (y % 16) \in Byte
                         /\ And8(x, y) \in Byte /\ Or8(x, y) \in Byte /\ Xor8(x, y) \in Byte
  /\ 0 \in Byte /\ 0 \in Digit /\ 1 \in Digit
<1>1. ASSUME NEW x \in Byte, NEW k \in Digit
      PROVE  /\ B8(x + 1) \in Byte /\ B8(x - 1) \in Byte /\ 255 - x \in Byte
             /\ x \div 2 + (x % 2) * 128 \in Byte /\ x \div 2 + k * 128 \in Byte /\ x % 2 \in Digit
             /\ B8(x * 2) + x \div 128 \in Byte /\ B8(x * 2) + k \in Byte /\ x \div 128 \in Digit
             /\ B8(x * 16) + x \div 16 \in Byte
             /\ 1 - k \in Digit
  <2>1. B8(x + 1) \in Byte /\ B8(x - 1) \in Byte /\ 255 - x \in Byte BY SMT DEF B8, Byte
  <2>2. x \div 2 + (x % 2) * 128 \in Byte /\ x \div 2 + k * 128 \in Byte /\ x % 2 \in Digit
    BY SMT DEF Byte, Digit
  <2>3. B8(x * 2) + x \div 128 \in Byte BY SMT DEF B8, Byte, Digit
  <2>4. B8(x * 2) + k \in Byte BY SMT DEF B8, Byte, Digit
  <2>5. x \div 128 \in Digit BY SMT DEF Byte, Digit
  <2>6. B8(x * 16) + x \div 16 \in Byte BY SMT DEF B8, Byte
  <2>7. 1 - k \in Digit BY SMT DEF Digit
  <2> QED BY <2>1, <2>2, <2>3, <2>4, <2>5, <2>6, <2>7
<1>2. \A x, y \in Byte : x - (x % 16) + (y % 16) \in Byte BY SMT DEF Byte
<1>3. \A x, y \in Byte : And8(x, y) \in Byte /\ Or8(x, y) \in Byte /\ Xor8(x, y) \in Byte
  BY LogicByte
<1>4. 0 \in Byte /\ 0 \in Digit /\ 1 \in Digit BY SMT DEF Byte, Digit
<1> QED BY <1>1, <1>2, <1>3, <1>4

\* Handlers that store a byte in the accumulator.
LEMMA StoresA ==
  ASSUME Good(m), NEW t, NEW i, NEW length \in Nat, NEW returned \in {0, 2, 4}, NEW v \in Byte,
         Ordinary(t, "A", {}, length), Straight(t), Ends(SetA(m, v), length, returned)
  PROVE  Done(t, i)
<1>1. Keeps(SetA(m, v), m, Direct(ACC), {}) BY SetAKeeps
<1>2. Named("A", i, t.mnemonic = "MOVX") = Direct(ACC) BY NamedBytes
<1>3. Keeps(SetA(m, v), m, Named("A", i, t.mnemonic = "MOVX"), {}) BY <1>1, <1>2, Zenon
<1> DEFINE c == SetA(m, v)
           first == "A"
<1>4. first # "b1" BY SMT
<1> HIDE DEF c, first
<1>5. /\ Ordinary(t, first, {}, length) /\ Keeps(c, m, Named(first, i, t.mnemonic = "MOVX"), {})
      /\ Ends(c, length, returned)
  BY <1>3, Zenon DEF c, first
<1> QED BY <1>4, <1>5, OrdinaryFits

\* At a direct address.
LEMMA StoresMem ==
  ASSUME Good(m), NEW t, NEW i \in Instruction, NEW length \in Nat, NEW returned \in {0, 2, 4}, NEW v \in Byte,
         Ordinary(t, "m1", {}, length), Straight(t), Ends(WriteMem(m, i.o1, v), length, returned)
  PROVE  Done(t, i)
<1>1. Keeps(WriteMem(m, i.o1, v), m, Direct(i.o1), {}) BY Operands, WriteMemKeeps
<1>2. Named("m1", i, t.mnemonic = "MOVX") = Direct(i.o1) BY NamedBytes
<1> DEFINE c == WriteMem(m, i.o1, v)
           first == "m1"
<1>3. first # "b1" BY SMT
<1> HIDE DEF c, first
<1>4. /\ Ordinary(t, first, {}, length) /\ Keeps(c, m, Named(first, i, t.mnemonic = "MOVX"), {})
      /\ Ends(c, length, returned)
  BY <1>1, <1>2, Zenon DEF c, first
<1> QED BY <1>3, <1>4, OrdinaryFits

\* Through R0 or R1.
LEMMA StoresIndir ==
  ASSUME Good(m), NEW t, NEW i \in Instruction, NEW length \in Nat, NEW returned \in {0, 2, 4}, NEW v \in Byte,
         Ordinary(t, "@R", {}, length), Straight(t), t.mnemonic # "MOVX",
         Ends(WriteIndir(m, IndirAddress(m, i), v), length, returned)
  PROVE  Done(t, i)
<1> DEFINE a == IndirAddress(m, i)
           c == WriteIndir(m, a, v)
           first == "@R"
<1>1. Keeps(c, m, Indirect(a), {}) BY Operands, WriteIndirKeeps
<1>2. Named("@R", i, t.mnemonic = "MOVX") = Indirect(a) BY NamedBytes
<1>3. first # "b1" BY SMT
<1> HIDE DEF c, first
<1>4. /\ Ordinary(t, first, {}, length) /\ Keeps(c, m, Named(first, i, t.mnemonic = "MOVX"), {})
      /\ Ends(c, length, returned)
  BY <1>1, <1>2, Zenon DEF c, first
<1> QED BY <1>3, <1>4, OrdinaryFits

\* In R0 to R7.
LEMMA StoresRx ==
  ASSUME Good(m), NEW t, NEW i \in Instruction, NEW length \in Nat, NEW returned \in {0, 2, 4}, NEW v \in Byte,
         Ordinary(t, "R", {}, length), Straight(t), Ends(SetRx(m, i, v), length, returned)
  PROVE  Done(t, i)
<1> DEFINE c == SetRx(m, i, v)
           first == "R"
<1>1. Keeps(c, m, Direct(RxAddress(m, i)), {}) BY Operands, SetRxKeeps
<1>2. Named("R", i, t.mnemonic = "MOVX") = Direct(RxAddress(m, i)) BY NamedBytes
<1>3. first # "b1" BY SMT
<1> HIDE DEF c, first
<1>4. /\ Ordinary(t, first, {}, length) /\ Keeps(c, m, Named(first, i, t.mnemonic = "MOVX"), {})
      /\ Ends(c, length, returned)
  BY <1>1, <1>2, Zenon DEF c, first
<1> QED BY <1>3, <1>4, OrdinaryFits

\* In the carry.
LEMMA StoresCarry ==
  ASSUME Good(m), NEW t, NEW i, NEW length \in Nat, NEW returned \in {0, 2, 4}, NEW x \in Digit,
         Ordinary(t, "C", {}, length), Straight(t), Ends(SetCarry(m, x), length, returned)
  PROVE  Done(t, i)
<1> DEFINE c == SetCarry(m, x)
           first == "C"
<1>1. Keeps(c, m, {}, {7}) BY SetCarryKeeps
<1> HIDE DEF c
<1>2. Direct(PSW) = {<<"sfr", PSW>>} BY DirectCore, InCore, Zenon
<1>3. Touches(c, m, {}, {7}) BY <1>1 DEF Keeps
<1>4. Touches(c, m, Direct(PSW), {}) BY <1>2, <1>3, Zenon DEF Touches
<1>5. Keeps(c, m, Direct(PSW), {}) BY <1>1, <1>4, Zenon DEF Keeps
<1>6. Named("C", i, t.mnemonic = "MOVX") = Direct(PSW) BY NamedBytes
<1>7. first # "b1" BY SMT
<1> HIDE DEF first
<1>8. /\ Ordinary(t, first, {}, length) /\ Keeps(c, m, Named(first, i, t.mnemonic = "MOVX"), {})
      /\ Ends(c, length, returned)
  BY <1>5, <1>6, Zenon DEF c, first
<1> QED BY <1>7, <1>8, OrdinaryFits

\* The home of a bit is the byte printed for it.
LEMMA BitHomes ==
  ASSUME NEW b \in Byte
  PROVE  /\ BitHome(b) = IF b > 127 THEN BitByte(b) ELSE BitByte(b) + 32
         /\ \A p \in Port : BitByte(b) = PortAt[p] => BitHome(b) = PortAt[p] /\ ~(BitHome(b) < 128)
<1>1. BitHome(b) = IF b > 127 THEN BitByte(b) ELSE BitByte(b) + 32 BY SMT DEF BitHome, BitByte
<1>2. \A p \in Port : PortAt[p] > 127
  <2>1. \A p \in Port : PortAt[p] \in Sfrs BY OnePort
  <2> QED BY <2>1, SMT DEF Sfrs
<1>3. b > 127 \/ BitByte(b) < 128 BY SMT DEF BitByte, Byte
<1>4. ASSUME NEW p \in Port, BitByte(b) = PortAt[p] PROVE BitHome(b) = PortAt[p] /\ ~(BitHome(b) < 128)
  <2>1. PortAt[p] \in Int /\ PortAt[p] > 127
    <3>1. PortAt[p] \in Sfrs BY OnePort
    <3> QED BY <3>1, SMT DEF Sfrs
  <2>2. b > 127 BY <1>3, <1>4, <2>1, SMT
  <2>3. BitHome(b) = PortAt[p] BY <1>1, <1>4, <2>2, Zenon
  <2> QED BY <2>1, <2>3, SMT
<1> QED BY <1>1, <1>4

\* What a bit instruction does to the other bits of a port's latch.
LEMMA PutBitLatched ==
  ASSUME Good(m), NEW i \in Instruction, NEW x \in Digit, NEW p \in Port, BitByte(i.o1) = PortAt[p]
  PROVE  \A k \in Place : k # i.o1 % 8 =>
            Bit(Sfr(PutBit(m, i.o1, x), PortAt[p]), k) = Bit(Sfr(m, PortAt[p]), k)
<1> DEFINE a == BitHome(i.o1)
           old == Latch(m, a)
           new == SetBit(old, i.o1 % 8, x)
<1>1. i.o1 \in Byte BY Operands
<1>2. a \in Byte /\ i.o1 % 8 \in Place BY <1>1, BitPlace
<1>3. a = PortAt[p] /\ ~(a < 128) BY <1>1, BitHomes
<1>4. old \in Byte BY Operands
<1>5. old = Sfr(m, PortAt[p]) BY <1>3, Zenon DEF Latch
<1>6. PutBit(m, i.o1, x) = WriteMem(m, a, new) BY Zenon DEF PutBit
<1> HIDE DEF a, old
<1>7. new \in Byte BY <1>2, <1>4, SetBitByte
<1>8. \A k \in Place : Bit(new, k) = IF k = i.o1 % 8 THEN x ELSE Bit(old, k) BY <1>2, <1>4, SetBitBits
<1> HIDE DEF new
<1>9. Sfr(WriteMem(m, a, new), a) = new BY <1>2, <1>3, <1>7, WriteMemLatch
<1> QED BY <1>3, <1>5, <1>6, <1>8, <1>9, Zenon

\* Handlers that store a bit.
LEMMA BitFits ==
  ASSUME Good(m), NEW t, NEW i \in Instruction, NEW x \in Digit, NEW length, NEW target,
         Ordinary(t, "b1", {}, length), After(m', PutBit(m, i.o1, x), target), Control(m', t, i)
  PROVE  Fits(m', t, i)
<1> DEFINE c == PutBit(m, i.o1, x)
           first == "b1"
<1>1. i.o1 \in Byte BY Operands
<1>2. Keeps(c, m, Direct(BitHome(i.o1)), {}) BY <1>1, PutBitKeeps
<1>3. \A p \in Port : BitByte(i.o1) = PortAt[p] =>
        \A k \in Place : k # i.o1 % 8 => Bit(Sfr(c, PortAt[p]), k) = Bit(Sfr(m, PortAt[p]), k)
  BY PutBitLatched
<1>4. Named("b1", i, t.mnemonic = "MOVX") = Direct(BitHome(i.o1))
  <2> DEFINE home == IF i.o1 > 127 THEN BitByte(i.o1) ELSE BitByte(i.o1) + 32
  <2>1. Named("b1", i, t.mnemonic = "MOVX") = Direct(home) BY NamedBytes
  <2>2. BitHome(i.o1) = home BY <1>1, BitHomes
  <2> HIDE DEF home
  <2> QED BY <2>1, <2>2, Zenon
<1> HIDE DEF c, first
<1>5. Ordinary(t, first, {}, length) /\ After(m', c, target) BY Zenon DEF c, first
<1>6. Destinations(t, i) = Direct(BitHome(i.o1)) BY <1>4, <1>5, OrdinaryStores, Zenon DEF first
<1>7. Keeps(c, m, Destinations(t, i), FlagsOf(t.mnemonic)) BY <1>2, <1>5, <1>6, Zenon DEF Ordinary
<1>8. Touches(m', m, Destinations(t, i), FlagsOf(t.mnemonic) \cup {0}) BY <1>5, <1>7, AfterTouches
<1>9. t.mnemonic \notin Returns \cup Calls \cup Sums BY Zenon DEF Ordinary, Special
<1>10. Exact(m', t, i) BY <1>9, Zenon DEF Exact, Result, Sums
<1>11. Linked(m', t) BY <1>9, Zenon DEF Linked
<1>12. \A p \in Port : PortAt[p] # PSW
  <2>1. \A p \in Port : p = 1 \/ p = 2 \/ p = 3 \/ p = 4 \/ p = 5 \/ p = 6 BY SMT DEF Port
  <2> QED BY <2>1, SMT DEF PortAt, PSW
<1>13. \A p \in Port : Sfr(m', PortAt[p]) = Sfr(c, PortAt[p]) BY <1>5, <1>12, Zenon DEF After
<1>14. Latched(m', t, i) BY <1>3, <1>13, Zenon DEF Latched
<1>15. Good(m') BY DEF After
<1> QED BY <1>8, <1>10, <1>11, <1>14, <1>15 DEF Fits

\* That end by their length.
LEMMA StoresBit ==
  ASSUME Good(m), NEW t, NEW i \in Instruction, NEW length \in Nat, NEW returned \in {0, 2, 4}, NEW x \in Digit,
         Ordinary(t, "b1", {}, length), Straight(t), Ends(PutBit(m, i.o1, x), length, returned)
  PROVE  Done(t, i)
<1>1. Good(PutBit(m, i.o1, x))
  <2>1. Keeps(PutBit(m, i.o1, x), m, Direct(BitHome(i.o1)), {}) BY Operands, PutBitKeeps
  <2> QED BY <2>1, GoodTyped
<1>2. After(m', PutBit(m, i.o1, x), W16(m.pc + length)) /\ cycles' \in {0, 2, 4} BY <1>1, EndsAfter
<1>3. W16(m.pc + length) = Following(t) BY Zenon DEF Following, Ordinary
<1>4. m'.pc = Following(t) BY <1>2, <1>3, Zenon DEF After
<1>5. Control(m', t, i) BY <1>4, StraightControl
<1>6. Fits(m', t, i) BY <1>2, <1>5, BitFits
<1> QED BY <1>2, <1>6 DEF Done

\* Handlers that store, and branch.
LEMMA OrdinaryBranchFits ==
  ASSUME Good(m), NEW c, NEW t, NEW i, NEW first, NEW taken, NEW offset \in Byte, NEW length \in Nat,
         Ordinary(t, first, {}, length), first # "b1",
         (Final(t) = "r1" /\ offset = i.o1) \/ (Final(t) = "r2" /\ offset = i.o2),
         Keeps(c, m, Named(first, i, t.mnemonic = "MOVX"), {}), Branches(c, taken, offset, length)
  PROVE  Done(t, i)
<1>1. Good(c) BY GoodTyped
<1>2. PICK target \in {W16(m.pc + length), W16(W16(m.pc + length) + Signed(offset))} : After(m', c, target)
  BY <1>1, BranchesAfter
<1>3. cycles' \in {0, 2, 4} BY <1>1, BranchesAfter
<1>4. t.length = length /\ FlagsOf(t.mnemonic) = {} BY DEF Ordinary
<1>5. m'.pc \in {Following(t), W16(Following(t) + Signed(offset))}
  BY <1>2, <1>4, Zenon DEF After, Following
<1>6. t.mnemonic \notin Returns \cup Jumps
  <2>1. t.mnemonic \notin Special BY DEF Ordinary
  <2> QED BY <2>1, SMT DEF Special, Tests, Returns, Jumps
<1>7. Control(m', t, i) BY <1>5, <1>6, BranchControl, Zenon
<1>8. Common(t) BY Zenon DEF Common, Ordinary, Special
<1>9. Destinations(t, i) = Named(first, i, t.mnemonic = "MOVX") BY OrdinaryStores
<1>10. Keeps(c, m, Destinations(t, i), FlagsOf(t.mnemonic)) BY <1>4, <1>9, Zenon
<1>11. Fits(m', t, i) BY <1>2, <1>7, <1>8, <1>10, CommonFits
<1> QED BY <1>3, <1>11 DEF Done

-----------------------------------------------------------------------------
(* Arithmetic.                                                             *)

\* The registers and flags a result is in survive the handler's end.
LEMMA ResultKept ==
  ASSUME NEW n, NEW c, NEW target, After(n, c, target)
  PROVE  A(n) = A(c) /\ Carry(n) = Carry(c) /\ Sfr(n, B) = Sfr(c, B) /\ Bit(Sfr(n, PSW), 2) = Bit(Sfr(c, PSW), 2)
<1>1. ACC # PSW /\ B # PSW BY SMT DEF ACC, B, PSW
<1>2. 7 # 0 /\ 2 # 0 /\ 7 \in Place /\ 2 \in Place BY FlagPlaces
<1>3. Sfr(n, ACC) = Sfr(c, ACC) /\ Sfr(n, B) = Sfr(c, B) BY <1>1, Zenon DEF After
<1>4. Bit(Sfr(n, PSW), 7) = Bit(Sfr(c, PSW), 7) /\ Bit(Sfr(n, PSW), 2) = Bit(Sfr(c, PSW), 2)
  BY <1>2, Zenon DEF After
<1> QED BY <1>3, <1>4, Zenon DEF A, Carry

Sum(t, mnemonic, first, flags, length) ==
  /\ t.mnemonic = mnemonic /\ mnemonic \in Sums /\ FlagsOf(mnemonic) = flags
  /\ t.operands # <<>> /\ t.operands[1] = first /\ first # "b1"
  /\ t.length = length /\ Straight(t)

\* An arithmetic instruction fits when its result is exact.
LEMMA SumFits ==
  ASSUME Good(m), NEW c, NEW t, NEW i, NEW mnemonic, NEW first, NEW flags, NEW length \in Nat,
         NEW returned \in {0, 2, 4},
         Sum(t, mnemonic, first, flags, length), Keeps(c, m, Named(first, i, FALSE), flags),
         Ends(c, length, returned), Exact(c, t, i)
  PROVE  Done(t, i)
<1>1. Good(c) BY GoodTyped
<1>2. After(m', c, W16(m.pc + length)) /\ cycles' \in {0, 2, 4} BY <1>1, EndsAfter
<1>3. W16(m.pc + length) = Following(t) BY Zenon DEF Following, Sum
<1>4. m'.pc = Following(t) BY <1>2, <1>3, Zenon DEF After
<1>5. Straight(t) BY DEF Sum
<1>6. Control(m', t, i) BY <1>4, <1>5, StraightControl
<1>7. t.mnemonic \in Sums BY DEF Sum
<1>8. /\ t.mnemonic \notin Tests /\ t.mnemonic # "PUSH" /\ t.mnemonic \notin {"ACALL", "LCALL"}
      /\ t.mnemonic \notin {"RET", "RETI"} /\ t.mnemonic # "POP" /\ t.mnemonic \notin {"XCH", "XCHD"}
      /\ t.mnemonic # "MOVX"
  BY <1>7, SMT DEF Sums, Tests
<1>9. t.operands[1] = first BY DEF Sum
<1>10. Destinations(t, i) = Named(first, i, FALSE) BY <1>8, <1>9, Zenon DEF Destinations
<1>11. FlagsOf(t.mnemonic) = flags BY Zenon DEF Sum
<1>12. Touches(m', m, Destinations(t, i), FlagsOf(t.mnemonic) \cup {0})
  <2>1. Keeps(c, m, Destinations(t, i), FlagsOf(t.mnemonic)) BY <1>10, <1>11, Zenon
  <2> QED BY <1>2, <2>1, AfterTouches
<1>13. Exact(m', t, i)
  <2>1. /\ A(m') = A(c) /\ Carry(m') = Carry(c) /\ Sfr(m', B) = Sfr(c, B)
        /\ Bit(Sfr(m', PSW), 2) = Bit(Sfr(c, PSW), 2)
    BY <1>2, ResultKept
  <2> QED BY <2>1, Zenon DEF Exact
<1>14. Linked(m', t) BY <1>8, Zenon DEF Linked, Returns, Calls
<1>15. Latched(m', t, i) BY <1>9, Zenon DEF Latched, Sum
<1>16. Good(m') BY <1>2 DEF After
<1>17. Fits(m', t, i) BY <1>6, <1>12, <1>13, <1>14, <1>15, <1>16 DEF Fits
<1> QED BY <1>2, <1>17 DEF Done

\* ADD and ADDC.
LEMMA AddFits ==
  ASSUME Good(m), NEW t, NEW i, NEW mnemonic \in {"ADD", "ADDC"}, NEW length \in Nat, NEW returned \in {0, 2, 4},
         NEW v \in Byte, NEW k \in Digit, Sum(t, mnemonic, "A", {7, 6, 2}, length),
         Operand(t.operands[2], i) = v, k = IF mnemonic = "ADD" THEN 0 ELSE Carry(m),
         Ends(Add(m, v, k), length, returned)
  PROVE  Done(t, i)
<1> DEFINE c == Add(m, v, k)
           first == "A"
           flags == {7, 6, 2}
<1>1. /\ Keeps(c, m, Direct(ACC), {7, 6, 2}) /\ A(c) + 256 * Carry(c) = A(m) + v + k
      /\ Bit(Sfr(c, PSW), 2) = 1 <=> ~(Signed(A(m)) + Signed(v) + k \in -128 .. 127)
  BY AddKeeps
<1> HIDE DEF c
<1>2. t.mnemonic = mnemonic BY DEF Sum
<1>3. t.mnemonic \in {"ADD", "ADDC"} /\ t.mnemonic # "SUBB" /\ t.mnemonic # "MUL" /\ t.mnemonic # "DIV"
  BY <1>2, SMT
<1>4. Exact(c, t, i) BY <1>1, <1>2, <1>3, Zenon DEF Exact, Result
<1>5. Named(first, i, FALSE) = Direct(ACC) BY NamedBytes
<1> HIDE DEF first, flags
<1>6. Sum(t, mnemonic, first, flags, length) /\ Keeps(c, m, Named(first, i, FALSE), flags) /\ Ends(c, length, returned)
  BY <1>1, <1>5, Zenon DEF first, flags, c
<1> QED BY <1>4, <1>6, SumFits

\* SUBB.
LEMMA SubbFits ==
  ASSUME Good(m), NEW t, NEW i, NEW length \in Nat, NEW returned \in {0, 2, 4},
         NEW v \in Byte, Sum(t, "SUBB", "A", {7, 6, 2}, length),
         Operand(t.operands[2], i) = v, Ends(Subb(m, v), length, returned)
  PROVE  Done(t, i)
<1> DEFINE c == Subb(m, v)
           first == "A"
           flags == {7, 6, 2}
           mnemonic == "SUBB"
<1>1. /\ Keeps(c, m, Direct(ACC), {7, 6, 2}) /\ A(c) - 256 * Carry(c) = A(m) - v - Carry(m)
      /\ Bit(Sfr(c, PSW), 2) = 1 <=> ~(Signed(A(m)) - Signed(v) - Carry(m) \in -128 .. 127)
  BY SubbKeeps
<1> HIDE DEF c
<1>2. t.mnemonic = "SUBB" BY DEF Sum
<1>3. t.mnemonic \notin {"ADD", "ADDC"} /\ t.mnemonic # "ADD" /\ t.mnemonic # "MUL" /\ t.mnemonic # "DIV"
  BY <1>2, SMT
<1>4. Exact(c, t, i) BY <1>1, <1>2, <1>3, Zenon DEF Exact, Result
<1>5. Named(first, i, FALSE) = Direct(ACC) BY NamedBytes
<1> HIDE DEF first, flags, mnemonic
<1>6. Sum(t, mnemonic, first, flags, length) /\ Keeps(c, m, Named(first, i, FALSE), flags) /\ Ends(c, length, returned)
  BY <1>1, <1>5, Zenon DEF first, flags, mnemonic, c
<1> QED BY <1>4, <1>6, SumFits

\* MUL and DIV.
LEMMA ProductFits ==
  ASSUME Good(m), NEW t, NEW i, NEW c, NEW mnemonic, NEW length \in Nat, NEW returned \in {0, 2, 4},
         (mnemonic = "MUL" /\ c = MulAB(m)) \/ (mnemonic = "DIV" /\ c = DivAB(m)),
         Sum(t, mnemonic, "AB", {7, 2}, length), Ends(c, length, returned)
  PROVE  Done(t, i)
<1> DEFINE first == "AB"
           flags == {7, 2}
           S == Direct(ACC) \cup Direct(B)
<1>1. t.mnemonic = mnemonic BY DEF Sum
<1>2. t.mnemonic \notin {"ADD", "ADDC"} /\ t.mnemonic # "SUBB" BY <1>1, SMT
<1>3. Keeps(c, m, S, flags) /\ Exact(c, t, i)
  <2>1. CASE mnemonic = "MUL" /\ c = MulAB(m)
    <3>1. /\ Keeps(c, m, S, flags) /\ A(c) + 256 * Sfr(c, B) = A(m) * Sfr(m, B)
          /\ Bit(Sfr(c, PSW), 2) = 1 <=> A(m) * Sfr(m, B) > 255
      BY <2>1, MulKeeps
    <3>2. t.mnemonic # "DIV" BY <1>1, <2>1, SMT
    <3> HIDE DEF S, flags
    <3> QED BY <1>2, <3>1, <3>2, Zenon DEF Exact, Result
  <2>2. CASE mnemonic = "DIV" /\ c = DivAB(m)
    <3>1. /\ Keeps(c, m, S, flags)
          /\ Bit(Sfr(c, PSW), 2) = 1 <=> Sfr(m, B) = 0
          /\ Sfr(m, B) # 0 => A(m) = A(c) * Sfr(m, B) + Sfr(c, B) /\ Sfr(c, B) < Sfr(m, B)
      BY <2>2, DivKeeps
    <3>2. t.mnemonic # "MUL" BY <1>1, <2>2, SMT
    <3> HIDE DEF S, flags
    <3> QED BY <1>2, <3>1, <3>2, Zenon DEF Exact, Result
  <2> QED BY <2>1, <2>2
<1>4. Named(first, i, FALSE) = S BY NamedBytes
<1> HIDE DEF first, flags, S
<1>5. Sum(t, mnemonic, first, flags, length) /\ Keeps(c, m, Named(first, i, FALSE), flags)
  BY <1>3, <1>4, Zenon DEF first, flags
<1> QED BY <1>3, <1>5, SumFits

-----------------------------------------------------------------------------
(* Jumps, the stack and exchanges.                                         *)

\* An instruction that only passes.
LEMMA TestEnds ==
  ASSUME Good(m), NEW c, NEW t, NEW i, NEW length \in Nat, NEW returned \in {0, 2, 4},
         t.mnemonic \in Tests, Straight(t), t.length = length,
         Keeps(c, m, {}, FlagsOf(t.mnemonic)), Ends(c, length, returned)
  PROVE  Done(t, i)
<1>1. Good(c) BY GoodTyped
<1>2. After(m', c, W16(m.pc + length)) /\ cycles' \in {0, 2, 4} BY <1>1, EndsAfter
<1>3. m'.pc = Following(t) BY <1>2, Zenon DEF After, Following
<1>4. Control(m', t, i) BY <1>3, StraightControl
<1>5. Fits(m', t, i) BY <1>2, <1>4, TestFits
<1> QED BY <1>2, <1>5 DEF Done

\* The page of a jump is that of the instruction after it, and the target a word.
LEMMA PageTarget ==
  ASSUME Good(m), NEW i \in Instruction
  PROVE  /\ Page(i) \in Word /\ Page(i) = Address11(m.pc, i.op, i.o1)
         /\ i.o1 * 256 + i.o2 \in Word
<1>1. i.op \in Byte /\ i.o1 \in Byte /\ i.o2 \in Byte BY Operands
<1>2. m.pc \in Nat
  <2>1. m.pc \in Word BY DEF Good, Typed
  <2> QED BY <2>1, Wraps, Zenon
<1>3. Page(i) = Address11(m.pc, i.op, i.o1) BY SMT DEF Page, Address11, W16
<1> DEFINE next == W16(m.pc + 2)
<1>4. next \in Int /\ 0 <= next /\ next < 32 * 2048 BY <1>2, SMT DEF W16
<1>5. Page(i) = (next \div 2048) * 2048 + (i.op \div 32) * 256 + i.o1 BY Zenon DEF Page
<1> HIDE DEF next
<1>6. next \div 2048 \in 0 .. 31 BY <1>4, SMT
<1>7. i.op \div 32 \in 0 .. 7 BY <1>1, SMT DEF Byte
<1>8. \A q \in 0 .. 31, r \in 0 .. 7, o \in Byte : q * 2048 + r * 256 + o \in Word
  BY WordIs, SMT DEF Byte
<1>9. Page(i) \in Word
  <2> DEFINE q == next \div 2048
             r == i.op \div 32
  <2>1. Page(i) = q * 2048 + r * 256 + i.o1 /\ q \in 0 .. 31 /\ r \in 0 .. 7 BY <1>5, <1>6, <1>7
  <2> HIDE DEF q, r
  <2> QED BY <1>1, <1>8, <2>1
<1> QED BY <1>1, <1>3, <1>9, Wraps, Zenon

\* A jump to its printed target.
LEMMA JumpFits ==
  ASSUME Good(m), NEW t, NEW i, NEW target \in Word,
         t.mnemonic \in Tests, FlagsOf(t.mnemonic) = {},
         \/ Final(t) = "a11" /\ target = Address11(m.pc, i.op, i.o1) /\ t.mnemonic \notin Jumps
         \/ Final(t) = "a16" /\ target = Address16(i.o1, i.o2) /\ t.mnemonic \notin Jumps
         \/ t.mnemonic = "JMP" /\ target = W16(DPTR(m) + A(m)) /\ Final(t) \notin Targets,
         Goes(m, target, 2)
  PROVE  Done(t, i)
<1>1. 2 \in {0, 2, 4} OBVIOUS
<1>2. After(m', m, target) /\ cycles' \in {0, 2, 4} BY <1>1, GoesAfter
<1>3. m'.pc = target BY <1>2 DEF After
<1>4. t.mnemonic \notin {"RET", "RETI"} BY SMT DEF Tests
<1>5. Control(m', t, i)
  <2>1. CASE Final(t) = "a11" /\ target = Address11(m.pc, i.op, i.o1) /\ t.mnemonic \notin Jumps
    <3>1. Final(t) # "r1" /\ Final(t) # "r2" /\ Final(t) # "a16" BY <2>1, SMT
    <3> QED BY <1>3, <1>4, <2>1, <3>1, Zenon DEF Control, Jumps
  <2>2. CASE Final(t) = "a16" /\ target = Address16(i.o1, i.o2) /\ t.mnemonic \notin Jumps
    <3>1. Final(t) # "r1" /\ Final(t) # "r2" /\ Final(t) # "a11" BY <2>2, SMT
    <3> QED BY <1>3, <1>4, <2>2, <3>1, Zenon DEF Control, Jumps
  <2>3. CASE t.mnemonic = "JMP" /\ target = W16(DPTR(m) + A(m)) /\ Final(t) \notin Targets
    <3>1. t.mnemonic # "SJMP" BY <2>3, SMT
    <3> QED BY <1>3, <1>4, <2>3, <3>1, Zenon DEF Control, Targets
  <2> QED BY <2>1, <2>2, <2>3
<1>6. Keeps(m, m, {}, FlagsOf(t.mnemonic)) BY KeepsSelf
<1>7. Fits(m', t, i) BY <1>2, <1>5, <1>6, TestFits
<1> QED BY <1>2, <1>7 DEF Done

\* A short jump.
LEMMA ShortJumpFits ==
  ASSUME Good(m), NEW t, NEW i \in Instruction, t.mnemonic = "SJMP", t.length = 2, Final(t) = "r1",
         Branches(m, TRUE, i.o1, 2)
  PROVE  Done(t, i)
<1> DEFINE target == W16(W16(m.pc + 2) + Signed(i.o1))
<1>1. i.o1 \in Byte /\ 2 \in Nat BY Operands, Zenon
<1>2. After(m', m, target) /\ cycles' \in {0, 2, 4}
  <2> DEFINE taken == TRUE
             length == 2
  <2>1. taken = TRUE /\ length \in Nat /\ Branches(m, taken, i.o1, length) OBVIOUS
  <2>2. target = W16(W16(m.pc + length) + Signed(i.o1)) OBVIOUS
  <2> HIDE DEF taken, length, target
  <2> QED BY <1>1, <2>1, <2>2, BranchesAfter
<1>3. m'.pc = W16(Following(t) + Signed(i.o1)) BY <1>2, Zenon DEF After, Following
<1>4. t.mnemonic \notin {"RET", "RETI"} /\ t.mnemonic # "JMP" /\ t.mnemonic \in Tests
  BY SMT DEF Tests
<1>5. Final(t) # "r2" /\ Final(t) # "a11" /\ Final(t) # "a16" BY SMT
<1>6. Control(m', t, i) BY <1>3, <1>4, <1>5, Zenon DEF Control
<1>7. Keeps(m, m, {}, FlagsOf(t.mnemonic)) BY KeepsSelf
<1>8. Fits(m', t, i) BY <1>2, <1>4, <1>6, <1>7, TestFits
<1> QED BY <1>2, <1>8 DEF Done

\* A call.
LEMMA CallFits ==
  ASSUME Good(m), NEW t, NEW i, NEW length \in Nat, NEW target \in Word, NEW returned \in {0, 2, 4},
         t.mnemonic \in Calls, t.length = length, FlagsOf(t.mnemonic) = {},
         t.operands = <<>> \/ t.operands[1] # "b1",
         \/ Final(t) = "a11" /\ target = Address11(m.pc, i.op, i.o1)
         \/ Final(t) = "a16" /\ target = Address16(i.o1, i.o2),
         Goes(PushPC(m, length), target, returned)
  PROVE  Done(t, i)
<1> DEFINE s == Sfr(m, SP)
           n == PushPC(m, length)
           back == W16(m.pc + length)
<1>1. /\ Keeps(n, m, Direct(SP) \cup Indirect(B8(s + 1)) \cup Indirect(B8(s + 2)), {})
      /\ (B8(s + 1) < 128 \/ HasUpper) /\ (B8(s + 2) < 128 \/ HasUpper) =>
           ReadIndir(n, B8(s + 1)) = back % 256 /\ ReadIndir(n, B8(s + 2)) = back \div 256
  BY PushPCKeeps
<1> HIDE DEF n
<1>2. Good(n) BY <1>1, GoodTyped
<1>3. After(m', n, target) /\ cycles' \in {0, 2, 4} BY <1>2, GoesAfter, Zenon DEF n
<1>4. back = Following(t) BY Zenon DEF Following
<1>5. m'.pc = target BY <1>3 DEF After
<1>6. /\ t.mnemonic \notin Returns \cup Sums \cup Tests \cup Jumps /\ t.mnemonic # "PUSH"
      /\ t.mnemonic # "POP" /\ t.mnemonic \notin {"XCH", "XCHD"}
  BY SMT DEF Returns, Calls, Sums, Tests, Jumps
<1>7. Control(m', t, i)
  <2>1. CASE Final(t) = "a11" /\ target = Address11(m.pc, i.op, i.o1)
    <3>1. Final(t) # "r1" /\ Final(t) # "r2" /\ Final(t) # "a16" BY <2>1, SMT
    <3> QED BY <1>5, <1>6, <2>1, <3>1, Zenon DEF Control, Jumps, Returns
  <2>2. CASE Final(t) = "a16" /\ target = Address16(i.o1, i.o2)
    <3>1. Final(t) # "r1" /\ Final(t) # "r2" /\ Final(t) # "a11" BY <2>2, SMT
    <3> QED BY <1>5, <1>6, <2>2, <3>1, Zenon DEF Control, Jumps, Returns
  <2> QED BY <2>1, <2>2
<1>8. Destinations(t, i) = Direct(SP) \cup StackByte(1) \cup StackByte(2)
  BY <1>6, Zenon DEF Destinations, Calls, Returns
<1>9. Keeps(n, m, Destinations(t, i), FlagsOf(t.mnemonic)) BY <1>1, <1>8, Zenon DEF StackByte
<1>10. Touches(m', m, Destinations(t, i), FlagsOf(t.mnemonic) \cup {0}) BY <1>3, <1>9, AfterTouches
<1>11. Exact(m', t, i) BY <1>6, Zenon DEF Exact, Result, Sums
<1>12. Latched(m', t, i) BY Zenon DEF Latched
<1>13. Linked(m', t)
  <2>1. m'.low = n.low /\ m'.up = n.up BY <1>3 DEF After
  <2>2. \A a : ReadIndir(m', a) = ReadIndir(n, a) BY <2>1, Zenon DEF ReadIndir
  <2>3. Exists(StackByte(1) \cup StackByte(2)) =>
          (B8(s + 1) < 128 \/ HasUpper) /\ (B8(s + 2) < 128 \/ HasUpper)
    <3> DEFINE x == B8(s + 1)
               y == B8(s + 2)
    <3> HIDE DEF x, y
    <3>1. Exists(Indirect(x) \cup Indirect(y)) => (x < 128 \/ HasUpper) /\ (y < 128 \/ HasUpper)
      BY SMT DEF Exists, Indirect
    <3>2. StackByte(1) = Indirect(x) /\ StackByte(2) = Indirect(y) BY Zenon DEF StackByte, x, y
    <3> QED BY <3>1, <3>2, Zenon DEF x, y
  <2>4. back \in Word
    <3>1. m.pc \in Word BY DEF Good, Typed
    <3>2. m.pc \in Nat BY <3>1, Wraps, Zenon
    <3>3. m.pc + length \in Int BY <3>2, SMT
    <3> QED BY <3>3, Wraps, Zenon
  <2> HIDE DEF back
  <2> QED BY <1>1, <1>4, <1>6, <2>2, <2>3, <2>4, Zenon DEF Linked
<1>14. Good(m') BY <1>3 DEF After
<1>15. Fits(m', t, i) BY <1>7, <1>10, <1>11, <1>12, <1>13, <1>14 DEF Fits
<1> QED BY <1>3, <1>15 DEF Done

\* A return.
LEMMA ReturnFits ==
  ASSUME Good(m), NEW t, NEW i, t.mnemonic \in Returns, t.operands = <<>>, FlagsOf(t.mnemonic) = {},
         Goes(Pop(Pop(m)), ReturnAddress(m), 2)
  PROVE  Done(t, i)
<1> DEFINE c == Pop(Pop(m))
           target == ReturnAddress(m)
<1>1. Keeps(Pop(m), m, Direct(SP), {}) BY PopKeeps
<1>2. Good(Pop(m)) BY <1>1, GoodTyped
<1>3. Keeps(c, Pop(m), Direct(SP), {}) BY <1>2, PopKeeps
<1>4. Keeps(c, m, Direct(SP), {}) BY <1>1, <1>3, KeepsThen
<1>5. target \in Word BY ReturnWord
<1> HIDE DEF c, target
<1>6. 2 \in {0, 2, 4} /\ Goes(c, target, 2) BY Zenon DEF c, target
<1>7. Good(c) BY <1>4, GoodTyped
<1>8. After(m', c, target) /\ cycles' \in {0, 2, 4} BY <1>5, <1>6, <1>7, GoesAfter
<1>9. /\ t.mnemonic \notin Calls \cup Sums \cup Tests /\ t.mnemonic # "PUSH"
      /\ t.mnemonic # "POP" /\ t.mnemonic \notin {"XCH", "XCHD"} /\ t.mnemonic \notin Jumps
  BY SMT DEF Returns, Calls, Sums, Tests, Jumps
<1>10. Final(t) = "" /\ Final(t) # "r1" /\ Final(t) # "r2" /\ Final(t) # "a11" /\ Final(t) # "a16"
  BY SMT DEF Final
<1>11. Control(m', t, i) BY <1>9, <1>10, Zenon DEF Control, Returns, Jumps
<1>12. Destinations(t, i) = Direct(SP) BY <1>9, Zenon DEF Destinations, Returns, Calls
<1>13. Keeps(c, m, Destinations(t, i), FlagsOf(t.mnemonic)) BY <1>4, <1>12, Zenon
<1>14. Touches(m', m, Destinations(t, i), FlagsOf(t.mnemonic) \cup {0}) BY <1>8, <1>13, AfterTouches
<1>15. Exact(m', t, i) BY <1>9, Zenon DEF Exact, Result, Sums
<1>16. Latched(m', t, i) BY Zenon DEF Latched
<1>17. Linked(m', t) BY <1>8, <1>9, Zenon DEF Linked, After, target
<1>18. Good(m') BY <1>8 DEF After
<1>19. Fits(m', t, i) BY <1>11, <1>14, <1>15, <1>16, <1>17, <1>18 DEF Fits
<1> QED BY <1>8, <1>19 DEF Done

\* An instruction of none of these kinds with two destinations, or with the stack's.
LEMMA MovesFits ==
  ASSUME Good(m), NEW c, NEW t, NEW i, NEW length \in Nat, NEW returned \in {0, 2, 4},
         t.mnemonic \in {"PUSH", "POP", "XCH", "XCHD"}, t.length = length, Straight(t),
         FlagsOf(t.mnemonic) = {}, t.operands = <<>> \/ t.operands[1] # "b1",
         Keeps(c, m, Destinations(t, i), {}), Ends(c, length, returned)
  PROVE  Done(t, i)
<1>1. Good(c) BY GoodTyped
<1>2. After(m', c, W16(m.pc + length)) /\ cycles' \in {0, 2, 4} BY <1>1, EndsAfter
<1>3. m'.pc = Following(t) BY <1>2, Zenon DEF After, Following
<1>4. Control(m', t, i) BY <1>3, StraightControl
<1>5. t.mnemonic \notin Returns \cup Calls \cup Sums BY SMT DEF Returns, Calls, Sums
<1>6. Common(t) BY <1>5, Zenon DEF Common
<1>7. Keeps(c, m, Destinations(t, i), FlagsOf(t.mnemonic)) BY Zenon
<1>8. Fits(m', t, i) BY <1>2, <1>4, <1>6, <1>7, CommonFits
<1> QED BY <1>2, <1>8 DEF Done

-----------------------------------------------------------------------------
(* What a line of the listing implies.                                     *)

Usual == {"RR", "RL", "INC", "DEC", "ORL", "ANL", "XRL", "MOV", "MOVC", "MOVX", "CLR", "SETB", "CPL",
          "SWAP", "JBC", "DJNZ"}
Rotates == {"RRC", "RLC", "DA"}

\* The first and the last operand.
LEMMA Finals ==
  ASSUME NEW t, NEW x, NEW y, NEW z
  PROVE  /\ t.operands = <<>> => Final(t) = ""
         /\ t.operands = <<x>> => Final(t) = x /\ t.operands # <<>> /\ t.operands[1] = x
         /\ t.operands = <<x, y>> =>
              Final(t) = y /\ t.operands # <<>> /\ t.operands[1] = x /\ t.operands[2] = y
         /\ t.operands = <<x, y, z>> => Final(t) = z /\ t.operands # <<>> /\ t.operands[1] = x
<1>1. t.operands = <<>> => Final(t) = "" BY DEF Final
<1>2. t.operands = <<x>> => Final(t) = x /\ t.operands # <<>> /\ t.operands[1] = x BY SMT DEF Final
<1>3. t.operands = <<x, y>> =>
        Final(t) = y /\ t.operands # <<>> /\ t.operands[1] = x /\ t.operands[2] = y
  BY SMT DEF Final
<1>4. t.operands = <<x, y, z>> => Final(t) = z /\ t.operands # <<>> /\ t.operands[1] = x BY SMT DEF Final
<1> QED BY <1>1, <1>2, <1>3, <1>4

\* The flags of a mnemonic that stores where its first operand says.
LEMMA UsualFlags ==
  /\ \A n \in Usual : n \notin Special /\ FlagsOf(n) = {} /\ n \notin Returns \cup Jumps
  /\ \A n \in Rotates : n \notin Special /\ FlagsOf(n) = {7} /\ n \notin Returns \cup Jumps
<1>1. ASSUME NEW n \in Usual PROVE n \notin Special /\ FlagsOf(n) = {} /\ n \notin Returns \cup Jumps
  <2>1. n \notin Special BY SMT DEF Special, Usual, Returns, Jumps, Calls, Sums, Tests
  <2>2. FlagsOf(n) = {} BY SMT DEF FlagsOf, Usual
  <2>3. n \notin Returns \cup Jumps BY SMT DEF Usual, Returns, Jumps
  <2> QED BY <2>1, <2>2, <2>3
<1>2. ASSUME NEW n \in Rotates PROVE n \notin Special /\ FlagsOf(n) = {7} /\ n \notin Returns \cup Jumps
  <2>1. n \notin Special BY SMT DEF Special, Rotates, Returns, Jumps, Calls, Sums, Tests
  <2>2. FlagsOf(n) = {7} BY SMT DEF FlagsOf, Rotates
  <2>3. n \notin Returns \cup Jumps BY SMT DEF Rotates, Returns, Jumps
  <2> QED BY <2>1, <2>2, <2>3
<1> QED BY <1>1, <1>2

\* The last operand where there is none.
LEMMA FinalOfNone == ASSUME NEW t, t.operands = <<>> PROVE Final(t) = ""
<1> QED BY Zenon DEF Final
\* With two.
LEMMA FinalOfTwo ==
  ASSUME NEW t, NEW x, NEW y, t.operands = <<x, y>>
  PROVE  Final(t) = y /\ t.operands # <<>> /\ t.operands[1] = x /\ t.operands[2] = y
<1> QED BY SMT DEF Final
\* With three.
LEMMA FinalOfThree ==
  ASSUME NEW t, NEW x, NEW y, NEW z, t.operands = <<x, y, z>>
  PROVE  Final(t) = z /\ t.operands # <<>> /\ t.operands[1] = x
<1> QED BY SMT DEF Final

Swaps == {"XCH", "XCHD"}

\* The bytes an exchange names.
LEMMA SwappedBytes ==
  ASSUME NEW t, NEW i, t.mnemonic \in Swaps
  PROVE  /\ t.operands = <<"A", "m1">> => Destinations(t, i) = Direct(ACC) \cup Direct(i.o1)
         /\ t.operands = <<"A", "@R">> => Destinations(t, i) = Direct(ACC) \cup Indirect(IndirAddress(m, i))
         /\ t.operands = <<"A", "R">> => Destinations(t, i) = Direct(ACC) \cup Direct(RxAddress(m, i))
<1> DEFINE x == t.mnemonic = "MOVX"
<1>1. ~x BY SMT DEF Swaps
<1>2. /\ t.mnemonic \notin Tests /\ t.mnemonic # "PUSH" /\ t.mnemonic \notin {"ACALL", "LCALL"}
      /\ t.mnemonic \notin {"RET", "RETI"} /\ t.mnemonic # "POP"
  BY SMT DEF Tests, Swaps
<1>7. t.mnemonic \in {"XCH", "XCHD"} BY DEF Swaps
<1>3. Destinations(t, i) = Named(t.operands[1], i, x) \cup Named(t.operands[2], i, x)
  BY <1>2, <1>7, Zenon DEF Destinations
<1>4. \A y : t.operands = <<"A", y>> => t.operands[1] = "A" /\ t.operands[2] = y BY FinalOfTwo
<1> HIDE DEF x
<1>5. /\ Named("A", i, x) = Direct(ACC) /\ Named("m1", i, x) = Direct(i.o1)
      /\ Named("@R", i, x) = Indirect(IndirAddress(m, i)) /\ Named("R", i, x) = Direct(RxAddress(m, i))
  BY <1>1, NamedBytes
<1>6. \A y : t.operands = <<"A", y>> => Destinations(t, i) = Direct(ACC) \cup Named(y, i, x)
  BY <1>3, <1>4, <1>5, Zenon
<1> QED BY <1>5, <1>6, Zenon
\* The bytes a POP names.
LEMMA PoppedBytes ==
  ASSUME NEW t, NEW i, t.mnemonic = "POP", t.operands = <<"m1">>
  PROVE  Destinations(t, i) = Direct(SP) \cup Direct(i.o1)
<1> DEFINE x == t.mnemonic = "MOVX"
<1>1. t.operands[1] = "m1" BY SMT
<1>2. /\ t.mnemonic \notin Tests /\ t.mnemonic # "PUSH" /\ t.mnemonic \notin {"ACALL", "LCALL"}
      /\ t.mnemonic \notin {"RET", "RETI"}
  BY SMT DEF Tests
<1>3. Destinations(t, i) = Direct(SP) \cup Named(t.operands[1], i, x) BY <1>2, Zenon DEF Destinations
<1> HIDE DEF x
<1>4. Named("m1", i, x) = Direct(i.o1) BY NamedBytes
<1> QED BY <1>1, <1>3, <1>4, Zenon

\* The mnemonics of instructions that test, go somewhere or move bytes in pairs.
Unflagged == (Tests \cup Calls \cup Returns \cup {"PUSH", "POP", "XCH", "XCHD"}) \ {"CJNE"}

\* They set no flag.
LEMMA UnflaggedFlags == \A n \in Unflagged : FlagsOf(n) = {}
<1>1. ASSUME NEW n \in Unflagged PROVE FlagsOf(n) = {}
  BY SMT DEF FlagsOf, Unflagged, Tests, Calls, Returns
<1> QED BY <1>1

\* Such an instruction.
LEMMA UsualText ==
  ASSUME NEW t, NEW mnemonic \in Usual, NEW x, NEW length, Is(t, mnemonic, <<x>>, length)
  PROVE  Ordinary(t, x, {}, length) /\ (x \notin Targets => Straight(t))
<1>1. mnemonic \notin Special /\ FlagsOf(mnemonic) = {} /\ mnemonic \notin Returns \cup Jumps
  BY UsualFlags
<1>2. t.operands # <<>> /\ t.operands[1] = x /\ Final(t) = x BY Finals DEF Is
<1> QED BY <1>1, <1>2, Zenon DEF Is, Ordinary, Straight
\* With a second operand.
LEMMA UsualPair ==
  ASSUME NEW t, NEW mnemonic \in Usual, NEW x, NEW y, NEW length, Is(t, mnemonic, <<x, y>>, length)
  PROVE  Ordinary(t, x, {}, length) /\ Final(t) = y /\ (y \notin Targets => Straight(t))
<1>1. mnemonic \notin Special /\ FlagsOf(mnemonic) = {} /\ mnemonic \notin Returns \cup Jumps
  BY UsualFlags
<1>2. t.operands # <<>> /\ t.operands[1] = x /\ Final(t) = y BY Finals DEF Is
<1> QED BY <1>1, <1>2, Zenon DEF Is, Ordinary, Straight

\* Rotations through the carry, and DA.
LEMMA RotateText ==
  ASSUME NEW t, NEW mnemonic \in Rotates, NEW x, x \notin Targets, NEW length, Is(t, mnemonic, <<x>>, length)
  PROVE  Ordinary(t, x, {7}, length) /\ Straight(t)
<1>1. mnemonic \notin Special /\ FlagsOf(mnemonic) = {7} /\ mnemonic \notin Returns \cup Jumps
  BY UsualFlags
<1>2. t.operands # <<>> /\ t.operands[1] = x /\ Final(t) = x BY Finals DEF Is
<1> QED BY <1>1, <1>2, Zenon DEF Is, Ordinary, Straight

\* Arithmetic.
LEMMA SumText ==
  ASSUME NEW t, NEW mnemonic \in {"ADD", "ADDC", "SUBB"}, NEW x, x \notin Targets, NEW length,
         Is(t, mnemonic, <<"A", x>>, length)
  PROVE  Sum(t, mnemonic, "A", {7, 6, 2}, length) /\ t.operands[2] = x
<1>1. "A" # "b1" BY SMT
<1>2. mnemonic \in Sums /\ mnemonic \notin Returns \cup Jumps BY SMT DEF Sums, Returns, Jumps
<1>3. FlagsOf(mnemonic) = {7, 6, 2} BY SMT DEF FlagsOf
<1>4. t.operands = <<"A", x>> /\ t.mnemonic = mnemonic /\ t.length = length BY Zenon DEF Is
<1>5. t.operands # <<>> /\ t.operands[1] = "A" /\ t.operands[2] = x /\ Final(t) = x BY <1>4, FinalOfTwo
<1> QED BY <1>1, <1>2, <1>3, <1>4, <1>5, Zenon DEF Sum, Straight
\* Products and quotients.
LEMMA ProductText ==
  ASSUME NEW t, NEW mnemonic \in {"MUL", "DIV"}, NEW length, Is(t, mnemonic, <<"AB">>, length)
  PROVE  Sum(t, mnemonic, "AB", {7, 2}, length)
<1>1. "AB" # "b1" /\ "AB" \notin Targets BY SMT DEF Targets
<1>2. mnemonic \in Sums /\ mnemonic \notin Returns \cup Jumps BY SMT DEF Sums, Returns, Jumps
<1>3. FlagsOf(mnemonic) = {7, 2} BY SMT DEF FlagsOf
<1>4. t.operands = <<"AB">> /\ t.mnemonic = mnemonic /\ t.length = length BY Zenon DEF Is
<1>5. t.operands # <<>> /\ t.operands[1] = "AB" /\ Final(t) = "AB" BY <1>4, Finals
<1> QED BY <1>1, <1>2, <1>3, <1>4, <1>5, Zenon DEF Sum, Straight


-----------------------------------------------------------------------------
(* The handlers.                                                           *)

\* Two stores, into one of two sets of bytes each.
LEMMA InTwo ==
  ASSUME NEW n, NEW c, NEW q, NEW S, NEW T, NEW F, NEW G, Keeps(n, c, S, F), Keeps(q, n, T, G)
  PROVE  Keeps(q, c, S \cup T, F \cup G)
<1> DEFINE U == S \cup T
           E == F \cup G
<1>1. S \subseteq U /\ T \subseteq U /\ F \subseteq E /\ G \subseteq E OBVIOUS
<1> HIDE DEF U, E
<1>2. Keeps(n, c, U, E) /\ Keeps(q, n, U, E) BY <1>1, KeepsMore
<1>3. Keeps(q, c, U, E) BY <1>2, KeepsThen
<1> QED BY <1>3 DEF U, E

\* The target of JMP @A+DPTR.
LEMMA PointerTarget == ASSUME Good(m) PROVE W16(DPTR(m) + A(m)) \in Word
<1>1. \A a : Sfr(m, a) \in Byte BY SfrByte DEF Good
<1>2. DPTR(m) \in Word /\ A(m) \in Byte BY <1>1, Wraps, Zenon DEF DPTR, A
<1>3. DPTR(m) \in Nat /\ A(m) \in Nat BY <1>2, Wraps, Zenon
<1>4. DPTR(m) + A(m) \in Int BY <1>3, SMT
<1> QED BY <1>4, Wraps, Zenon

\* MOVX by either pointer.
LEMMA ExternalKeeps ==
  ASSUME Good(m), NEW i \in Instruction
  PROVE  /\ Keeps(XRead(m, DPTR(m)), m, Direct(ACC), {}) /\ Keeps(XRead(m, XAddress(m, i)), m, Direct(ACC), {})
         /\ Keeps(XWrite(m, DPTR(m), A(m)), m, {}, {}) /\ Keeps(XWrite(m, XAddress(m, i), A(m)), m, {}, {})
<1>1. m \in Typed BY DEF Good
<1>2. A(m) \in Byte /\ i.op \in Byte BY Operands
<1>3. DPTR(m) \in Word /\ XAddress(m, i) \in Word BY <1>1, <1>2, PointerWord
<1> QED BY <1>2, <1>3, XKeeps

\* JBC.
LEMMA ClearBranchFits ==
  ASSUME Good(m), NEW t, NEW i \in Instruction, Ordinary(t, "b1", {}, 3), Final(t) = "r2",
         IF LatchBit(m, i.o1) = 1 THEN Branches(PutBit(m, i.o1, 0), TRUE, i.o2, 3)
                                  ELSE Branches(m, FALSE, i.o2, 3)
  PROVE  Done(t, i)
<1> DEFINE length == 3
<1>1. i.o1 \in Byte /\ i.o2 \in Byte /\ length \in Nat BY Operands
<1>2. t.length = length BY DEF Ordinary
<1>3. t.mnemonic \notin Returns \cup Jumps
  <2>1. t.mnemonic \notin Special BY DEF Ordinary
  <2> QED BY <2>1, SMT DEF Special, Tests, Returns, Jumps
<1>4. ASSUME NEW c, NEW taken, Good(c), Branches(c, taken, i.o2, length)
      PROVE  \E target : After(m', c, target) /\ cycles' \in {0, 2, 4} /\ Control(m', t, i)
  <2> HIDE DEF length
  <2>1. PICK target \in {W16(m.pc + length), W16(W16(m.pc + length) + Signed(i.o2))} : After(m', c, target)
    BY <1>1, <1>4, BranchesAfter
  <2>2. cycles' \in {0, 2, 4} BY <1>1, <1>4, BranchesAfter
  <2>3. m'.pc \in {Following(t), W16(Following(t) + Signed(i.o2))}
    BY <1>2, <2>1, Zenon DEF After, Following
  <2>4. Control(m', t, i) BY <1>3, <2>3, BranchControl, Zenon
  <2> QED BY <2>1, <2>2, <2>4
<1>5. CASE LatchBit(m, i.o1) = 1
  <2> DEFINE x == 0
             c == PutBit(m, i.o1, x)
  <2>1. x \in Digit BY DEF Digit
  <2>2. Branches(c, TRUE, i.o2, length) BY <1>5
  <2> HIDE DEF x, length
  <2>3. Keeps(c, m, Direct(BitHome(i.o1)), {}) BY <1>1, <2>1, PutBitKeeps
  <2>4. Good(c) BY <2>3, GoodTyped
  <2>5. PICK target : After(m', c, target) /\ cycles' \in {0, 2, 4} /\ Control(m', t, i)
    BY <1>4, <2>2, <2>4
  <2>6. Ordinary(t, "b1", {}, length) BY DEF length
  <2>7. Fits(m', t, i) BY <2>1, <2>5, <2>6, BitFits
  <2> QED BY <2>5, <2>7 DEF Done
<1>6. CASE LatchBit(m, i.o1) # 1
  <2> DEFINE x == LatchBit(m, i.o1)
             first == "b1"
             flags == {}
  <2>1. Branches(m, FALSE, i.o2, length) BY <1>6
  <2> HIDE DEF length
  <2>2. PICK target : After(m', m, target) /\ cycles' \in {0, 2, 4} /\ Control(m', t, i) BY <1>4, <2>1
  <2>3. Keeps(m, m, Destinations(t, i), FlagsOf(t.mnemonic)) BY KeepsSelf
  <2>4. Touches(m', m, Destinations(t, i), FlagsOf(t.mnemonic) \cup {0}) BY <2>2, <2>3, AfterTouches
  <2>5. t.mnemonic \notin Returns \cup Calls \cup Sums BY Zenon DEF Ordinary, Special
  <2>6. Exact(m', t, i) BY <2>5, Zenon DEF Exact, Result, Sums
  <2>7. Linked(m', t) BY <2>5, Zenon DEF Linked
  <2>8. Latched(m', t, i)
    <3>1. \A p \in Port : PortAt[p] # PSW
      <4>1. \A p \in Port : p = 1 \/ p = 2 \/ p = 3 \/ p = 4 \/ p = 5 \/ p = 6 BY SMT DEF Port
      <4> QED BY <4>1, SMT DEF PortAt, PSW
    <3>2. \A p \in Port : Sfr(m', PortAt[p]) = Sfr(m, PortAt[p]) BY <2>2, <3>1, Zenon DEF After
    <3> QED BY <3>2, Zenon DEF Latched
  <2>9. Good(m') BY <2>2 DEF After
  <2>10. Fits(m', t, i) BY <2>2, <2>4, <2>6, <2>7, <2>8, <2>9 DEF Fits
  <2> QED BY <2>2, <2>10 DEF Done
<1> QED BY <1>5, <1>6

\* Row 0.
LEMMA Ops0Fits ==
  ASSUME Good(m), NEW h, NEW t, NEW i \in Instruction, Listed(h, t), Ops0(h, i)
  PROVE  Done(t, i)
<1>1. ASSUME h = "ajmp_offset", Goes(m, Page(i), 2)
      PROVE  Done(t, i)
  <2>1. Is(t, "AJMP", <<"a11">>, 2) BY <1>1, Zenon DEF Listed
  <2>2. t.mnemonic \in Tests /\ FlagsOf(t.mnemonic) = {} /\ Final(t) = "a11" /\ t.mnemonic \notin Jumps
    <3>1. t.mnemonic = "AJMP" /\ t.operands = <<"a11">> /\ t.length = 2 BY <2>1, Zenon DEF Is
    <3>2. "AJMP" \in Tests /\ "AJMP" \notin Jumps /\ "AJMP" \in Unflagged
      BY SMT DEF Calls, Jumps, Returns, Tests, Unflagged
    <3>3. FlagsOf("AJMP") = {} BY <3>2, UnflaggedFlags
    <3>4. Final(t) = "a11" /\ t.operands[1] = "a11" BY <3>1, Finals
    <3> QED BY <3>1, <3>2, <3>3, <3>4, Zenon
  <2>3. Page(i) \in Word /\ Page(i) = Address11(m.pc, i.op, i.o1) BY PageTarget
  <2> QED BY <2>2, <1>1, <2>3, JumpFits
<1>2. ASSUME h = "ljmp_address", Goes(m, i.o1 * 256 + i.o2, 2)
      PROVE  Done(t, i)
  <2>1. Is(t, "LJMP", <<"a16">>, 3) BY <1>2, Zenon DEF Listed
  <2>2. t.mnemonic \in Tests /\ FlagsOf(t.mnemonic) = {} /\ Final(t) = "a16" /\ t.mnemonic \notin Jumps
    <3>1. t.mnemonic = "LJMP" /\ t.operands = <<"a16">> /\ t.length = 3 BY <2>1, Zenon DEF Is
    <3>2. "LJMP" \in Tests /\ "LJMP" \notin Jumps /\ "LJMP" \in Unflagged
      BY SMT DEF Calls, Jumps, Returns, Tests, Unflagged
    <3>3. FlagsOf("LJMP") = {} BY <3>2, UnflaggedFlags
    <3>4. Final(t) = "a16" /\ t.operands[1] = "a16" BY <3>1, Finals
    <3> QED BY <3>1, <3>2, <3>3, <3>4, Zenon
  <2>3. i.o1 * 256 + i.o2 \in Word /\ i.o1 * 256 + i.o2 = Address16(i.o1, i.o2)
    BY PageTarget DEF Address16
  <2> QED BY <2>2, <1>2, <2>3, JumpFits
<1>3. ASSUME h = "rr_a", Ends(SetA(m, A(m) \div 2 + (A(m) % 2) * 128), 1, 0)
      PROVE  Done(t, i)
  <2>1. Is(t, "RR", <<"A">>, 1) BY <1>3, Zenon DEF Listed
  <2>2. Ordinary(t, "A", {}, 1) /\ Straight(t)
    BY <2>1, UsualText, SMT DEF Usual, Targets
  <2>3. A(m) \div 2 + (A(m) % 2) * 128 \in Byte BY Operands, Values, Zenon
  <2> QED BY <2>2, <1>3, <2>3, StoresA
<1>4. ASSUME h = "inc_a", Ends(SetA(m, B8(A(m) + 1)), 1, 0)
      PROVE  Done(t, i)
  <2>1. Is(t, "INC", <<"A">>, 1) BY <1>4, Zenon DEF Listed
  <2>2. Ordinary(t, "A", {}, 1) /\ Straight(t)
    BY <2>1, UsualText, SMT DEF Usual, Targets
  <2>3. B8(A(m) + 1) \in Byte BY Operands, Values, Zenon
  <2> QED BY <2>2, <1>4, <2>3, StoresA
<1>5. ASSUME h = "inc_mem", Ends(WriteMem(m, i.o1, B8(ReadMem(m, i.o1) + 1)), 2, 2)
      PROVE  Done(t, i)
  <2>1. Is(t, "INC", <<"m1">>, 2) BY <1>5, Zenon DEF Listed
  <2>2. Ordinary(t, "m1", {}, 2) /\ Straight(t)
    BY <2>1, UsualText, SMT DEF Usual, Targets
  <2>3. B8(ReadMem(m, i.o1) + 1) \in Byte BY Operands, Values, Zenon
  <2> QED BY <2>2, <1>5, <2>3, Operands, StoresMem
<1>6. ASSUME h = "inc_indir_rx",
             Ends(WriteIndir(m, IndirAddress(m, i), B8(ReadIndir(m, IndirAddress(m, i)) + 1)), 1, 0)
      PROVE  Done(t, i)
  <2>1. Is(t, "INC", <<"@R">>, 1) BY <1>6, Zenon DEF Listed
  <2>2. Ordinary(t, "@R", {}, 1) /\ Straight(t) /\ t.mnemonic # "MOVX"
    BY <2>1, UsualText, SMT DEF Usual, Targets, Is
  <2>3. B8(ReadIndir(m, IndirAddress(m, i)) + 1) \in Byte BY Operands, Values, Zenon
  <2> QED BY <2>2, <1>6, <2>3, Operands, StoresIndir
<1> QED BY <1>1, <1>2, <1>3, <1>4, <1>5, <1>6, Zenon DEF Ops0

\* Row 1.
LEMMA Ops1Fits ==
  ASSUME Good(m), NEW h, NEW t, NEW i \in Instruction, Listed(h, t), Ops1(h, i)
  PROVE  Done(t, i)
<1>1. ASSUME h = "jbc_bitaddr_offset",
             IF LatchBit(m, i.o1) = 1 THEN Branches(PutBit(m, i.o1, 0), TRUE, i.o2, 3)
                                 ELSE Branches(m, FALSE, i.o2, 3)
      PROVE  Done(t, i)
  <2>1. Is(t, "JBC", <<"b1", "r2">>, 3) BY <1>1, Zenon DEF Listed
  <2>2. Ordinary(t, "b1", {}, 3) /\ Final(t) = "r2"
    BY <2>1, UsualPair, SMT DEF Usual, Targets
  <2> QED BY <2>2, <1>1, ClearBranchFits
<1>2. ASSUME h = "acall_offset", Goes(PushPC(m, 2), Page(i), 2)
      PROVE  Done(t, i)
  <2>1. Is(t, "ACALL", <<"a11">>, 2) BY <1>2, Zenon DEF Listed
  <2>2. t.mnemonic \in Calls /\ t.length = 2 /\ FlagsOf(t.mnemonic) = {} /\ Final(t) = "a11"
        /\ t.operands[1] # "b1"
    <3>1. t.mnemonic = "ACALL" /\ t.operands = <<"a11">> /\ t.length = 2 BY <2>1, Zenon DEF Is
    <3>2. "ACALL" \in Calls /\ "ACALL" \in Unflagged BY SMT DEF Calls, Returns, Tests, Unflagged
    <3>3. FlagsOf("ACALL") = {} BY <3>2, UnflaggedFlags
    <3>4. Final(t) = "a11" /\ t.operands[1] = "a11" BY <3>1, Finals
    <3>6. "a11" # "b1" BY SMT
    <3> QED BY <3>1, <3>2, <3>3, <3>4, <3>6, Zenon
  <2>3. Page(i) \in Word /\ Page(i) = Address11(m.pc, i.op, i.o1) BY PageTarget
  <2> QED BY <2>2, <1>2, <2>3, CallFits
<1>3. ASSUME h = "lcall_address", Goes(PushPC(m, 3), i.o1 * 256 + i.o2, 2)
      PROVE  Done(t, i)
  <2>1. Is(t, "LCALL", <<"a16">>, 3) BY <1>3, Zenon DEF Listed
  <2>2. t.mnemonic \in Calls /\ t.length = 3 /\ FlagsOf(t.mnemonic) = {} /\ Final(t) = "a16"
        /\ t.operands[1] # "b1"
    <3>1. t.mnemonic = "LCALL" /\ t.operands = <<"a16">> /\ t.length = 3 BY <2>1, Zenon DEF Is
    <3>2. "LCALL" \in Calls /\ "LCALL" \in Unflagged BY SMT DEF Calls, Returns, Tests, Unflagged
    <3>3. FlagsOf("LCALL") = {} BY <3>2, UnflaggedFlags
    <3>4. Final(t) = "a16" /\ t.operands[1] = "a16" BY <3>1, Finals
    <3>6. "a16" # "b1" BY SMT
    <3> QED BY <3>1, <3>2, <3>3, <3>4, <3>6, Zenon
  <2>3. i.o1 * 256 + i.o2 \in Word /\ i.o1 * 256 + i.o2 = Address16(i.o1, i.o2)
    BY PageTarget DEF Address16
  <2> QED BY <2>2, <1>3, <2>3, CallFits
<1>4. ASSUME h = "rrc_a", Ends(SetCarry(SetA(m, A(m) \div 2 + Carry(m) * 128), A(m) % 2), 1, 0)
      PROVE  Done(t, i)
  <2>1. Is(t, "RRC", <<"A">>, 1) BY <1>4, Zenon DEF Listed
  <2>2. Ordinary(t, "A", {7}, 1) /\ Straight(t)
    BY <2>1, RotateText, SMT DEF Rotates, Targets
  <2>3. A(m) \div 2 + Carry(m) * 128 \in Byte /\ A(m) % 2 \in Digit BY Operands, Values, Zenon
  <2>4. Keeps(SetA(m, A(m) \div 2 + Carry(m) * 128), m, Direct(ACC), {}) BY <2>3, SetAKeeps
  <2>5. Keeps(SetCarry(SetA(m, A(m) \div 2 + Carry(m) * 128), A(m) % 2), SetA(m, A(m) \div 2 + Carry(m) * 128), {}, {7})
    BY <2>3, <2>4, GoodTyped, SetCarryKeeps
  <2>6. Keeps(SetCarry(SetA(m, A(m) \div 2 + Carry(m) * 128), A(m) % 2), m, Direct(ACC), {7})
    BY <2>4, <2>5, InTwo
  <2>7. Named("A", i, t.mnemonic = "MOVX") = Direct(ACC) BY <2>2, <1>4, NamedBytes
  <2>8. Keeps(SetCarry(SetA(m, A(m) \div 2 + Carry(m) * 128), A(m) % 2), m, Named("A", i, t.mnemonic = "MOVX"), {7})
    BY <2>6, <2>7
  <2> QED BY <2>2, <1>4, <2>8, OrdinaryFits
<1>5. ASSUME h = "dec_a", Ends(SetA(m, B8(A(m) - 1)), 1, 0)
      PROVE  Done(t, i)
  <2>1. Is(t, "DEC", <<"A">>, 1) BY <1>5, Zenon DEF Listed
  <2>2. Ordinary(t, "A", {}, 1) /\ Straight(t)
    BY <2>1, UsualText, SMT DEF Usual, Targets
  <2>3. B8(A(m) - 1) \in Byte BY Operands, Values, Zenon
  <2> QED BY <2>2, <1>5, <2>3, StoresA
<1>6. ASSUME h = "dec_mem", Ends(WriteMem(m, i.o1, B8(ReadMem(m, i.o1) - 1)), 2, 2)
      PROVE  Done(t, i)
  <2>1. Is(t, "DEC", <<"m1">>, 2) BY <1>6, Zenon DEF Listed
  <2>2. Ordinary(t, "m1", {}, 2) /\ Straight(t)
    BY <2>1, UsualText, SMT DEF Usual, Targets
  <2>3. B8(ReadMem(m, i.o1) - 1) \in Byte BY Operands, Values, Zenon
  <2> QED BY <2>2, <1>6, <2>3, Operands, StoresMem
<1>7. ASSUME h = "dec_indir_rx",
             Ends(WriteIndir(m, IndirAddress(m, i), B8(ReadIndir(m, IndirAddress(m, i)) - 1)), 1, 0)
      PROVE  Done(t, i)
  <2>1. Is(t, "DEC", <<"@R">>, 1) BY <1>7, Zenon DEF Listed
  <2>2. Ordinary(t, "@R", {}, 1) /\ Straight(t) /\ t.mnemonic # "MOVX"
    BY <2>1, UsualText, SMT DEF Usual, Targets, Is
  <2>3. B8(ReadIndir(m, IndirAddress(m, i)) - 1) \in Byte BY Operands, Values, Zenon
  <2> QED BY <2>2, <1>7, <2>3, Operands, StoresIndir
<1> QED BY <1>1, <1>2, <1>3, <1>4, <1>5, <1>6, <1>7, Zenon DEF Ops1

\* Row 2.
LEMMA Ops2Fits ==
  ASSUME Good(m), NEW h, NEW t, NEW i \in Instruction, Listed(h, t), Ops2(h, i)
  PROVE  Done(t, i)
<1>1. ASSUME h = "jb_bitaddr_offset", Branches(m, ReadBit(m, i.o1) = 1, i.o2, 3)
      PROVE  Done(t, i)
  <2>1. Is(t, "JB", <<"b1", "r2">>, 3) BY <1>1, Zenon DEF Listed
  <2>2. t.mnemonic \in Tests \ Jumps /\ t.length = 3 /\ Final(t) = "r2" /\ FlagsOf(t.mnemonic) = {}
    <3>1. t.mnemonic = "JB" /\ t.operands = <<"b1", "r2">> /\ t.length = 3 BY <2>1, Zenon DEF Is
    <3>2. "JB" \in Tests /\ "JB" \notin Jumps /\ "JB" \in Unflagged
      BY SMT DEF Calls, Jumps, Returns, Tests, Unflagged
    <3>3. FlagsOf("JB") = {} BY <3>2, UnflaggedFlags
    <3>4. Final(t) = "r2" /\ t.operands[1] = "b1" BY <3>1, FinalOfTwo
    <3> QED BY <3>1, <3>2, <3>3, <3>4, Zenon
  <2>3. Keeps(m, m, {}, {}) BY KeepsSelf
  <2> QED BY <2>2, <1>1, <2>3, Operands, TestBranchFits
<1>2. ASSUME h = "ret", Goes(Pop(Pop(m)), ReturnAddress(m), 2)
      PROVE  Done(t, i)
  <2>1. Is(t, "RET", <<>>, 1) BY <1>2, Zenon DEF Listed
  <2>2. t.mnemonic \in Returns /\ t.operands = <<>> /\ FlagsOf(t.mnemonic) = {}
    <3>1. t.mnemonic = "RET" /\ t.operands = <<>> /\ t.length = 1 BY <2>1, Zenon DEF Is
    <3>2. "RET" \in Returns /\ "RET" \in Unflagged BY SMT DEF Calls, Returns, Tests, Unflagged
    <3>3. FlagsOf("RET") = {} BY <3>2, UnflaggedFlags
    <3> QED BY <3>1, <3>2, <3>3, Zenon
  <2> QED BY <2>2, <1>2, ReturnFits
<1>3. ASSUME h = "rl_a", Ends(SetA(m, B8(A(m) * 2) + A(m) \div 128), 1, 0)
      PROVE  Done(t, i)
  <2>1. Is(t, "RL", <<"A">>, 1) BY <1>3, Zenon DEF Listed
  <2>2. Ordinary(t, "A", {}, 1) /\ Straight(t)
    BY <2>1, UsualText, SMT DEF Usual, Targets
  <2>3. B8(A(m) * 2) + A(m) \div 128 \in Byte BY Operands, Values, Zenon
  <2> QED BY <2>2, <1>3, <2>3, StoresA
<1>4. ASSUME h = "add_a_imm", Ends(Add(m, i.o1, 0), 2, 0)
      PROVE  Done(t, i)
  <2>1. Is(t, "ADD", <<"A", "#1">>, 2) BY <1>4, Zenon DEF Listed
  <2>2. Sum(t, "ADD", "A", {7, 6, 2}, 2) /\ t.operands[2] = "#1"
    BY <2>1, SumText, SMT DEF Targets
  <2>3. Operand(t.operands[2], i) = i.o1 BY <2>2, <1>4, SMT DEF Operand
  <2>4. i.o1 \in Byte /\ 0 \in Digit BY Operands, Values, Zenon
  <2> QED BY <2>2, <1>4, <2>3, <2>4, AddFits
<1>5. ASSUME h = "add_a_mem", Ends(Add(m, ReadMem(m, i.o1), 0), 2, 2)
      PROVE  Done(t, i)
  <2>1. Is(t, "ADD", <<"A", "m1">>, 2) BY <1>5, Zenon DEF Listed
  <2>2. Sum(t, "ADD", "A", {7, 6, 2}, 2) /\ t.operands[2] = "m1"
    BY <2>1, SumText, SMT DEF Targets
  <2>3. Operand(t.operands[2], i) = ReadMem(m, i.o1) BY <2>2, <1>5, SMT DEF Operand
  <2>4. ReadMem(m, i.o1) \in Byte /\ 0 \in Digit BY Operands, Values, Zenon
  <2> QED BY <2>2, <1>5, <2>3, <2>4, AddFits
<1>6. ASSUME h = "add_a_indir_rx", Ends(Add(m, ReadIndir(m, IndirAddress(m, i)), 0), 1, 0)
      PROVE  Done(t, i)
  <2>1. Is(t, "ADD", <<"A", "@R">>, 1) BY <1>6, Zenon DEF Listed
  <2>2. Sum(t, "ADD", "A", {7, 6, 2}, 1) /\ t.operands[2] = "@R"
    BY <2>1, SumText, SMT DEF Targets
  <2>3. Operand(t.operands[2], i) = ReadIndir(m, IndirAddress(m, i)) BY <2>2, <1>6, SMT DEF Operand
  <2>4. ReadIndir(m, IndirAddress(m, i)) \in Byte /\ 0 \in Digit BY Operands, Values, Zenon
  <2> QED BY <2>2, <1>6, <2>3, <2>4, AddFits
<1> QED BY <1>1, <1>2, <1>3, <1>4, <1>5, <1>6, Zenon DEF Ops2

\* Row 3.
LEMMA Ops3Fits ==
  ASSUME Good(m), NEW h, NEW t, NEW i \in Instruction, Listed(h, t), Ops3(h, i)
  PROVE  Done(t, i)
<1>1. ASSUME h = "jnb_bitaddr_offset", Branches(m, ReadBit(m, i.o1) = 0, i.o2, 3)
      PROVE  Done(t, i)
  <2>1. Is(t, "JNB", <<"b1", "r2">>, 3) BY <1>1, Zenon DEF Listed
  <2>2. t.mnemonic \in Tests \ Jumps /\ t.length = 3 /\ Final(t) = "r2" /\ FlagsOf(t.mnemonic) = {}
    <3>1. t.mnemonic = "JNB" /\ t.operands = <<"b1", "r2">> /\ t.length = 3 BY <2>1, Zenon DEF Is
    <3>2. "JNB" \in Tests /\ "JNB" \notin Jumps /\ "JNB" \in Unflagged
      BY SMT DEF Calls, Jumps, Returns, Tests, Unflagged
    <3>3. FlagsOf("JNB") = {} BY <3>2, UnflaggedFlags
    <3>4. Final(t) = "r2" /\ t.operands[1] = "b1" BY <3>1, FinalOfTwo
    <3> QED BY <3>1, <3>2, <3>3, <3>4, Zenon
  <2>3. Keeps(m, m, {}, {}) BY KeepsSelf
  <2> QED BY <2>2, <1>1, <2>3, Operands, TestBranchFits
<1>2. ASSUME h = "reti", Goes(Pop(Pop(m)), ReturnAddress(m), 2)
      PROVE  Done(t, i)
  <2>1. Is(t, "RETI", <<>>, 1) BY <1>2, Zenon DEF Listed
  <2>2. t.mnemonic \in Returns /\ t.operands = <<>> /\ FlagsOf(t.mnemonic) = {}
    <3>1. t.mnemonic = "RETI" /\ t.operands = <<>> /\ t.length = 1 BY <2>1, Zenon DEF Is
    <3>2. "RETI" \in Returns /\ "RETI" \in Unflagged BY SMT DEF Calls, Returns, Tests, Unflagged
    <3>3. FlagsOf("RETI") = {} BY <3>2, UnflaggedFlags
    <3> QED BY <3>1, <3>2, <3>3, Zenon
  <2> QED BY <2>2, <1>2, ReturnFits
<1>3. ASSUME h = "rlc_a", Ends(SetCarry(SetA(m, B8(A(m) * 2) + Carry(m)), A(m) \div 128), 1, 0)
      PROVE  Done(t, i)
  <2>1. Is(t, "RLC", <<"A">>, 1) BY <1>3, Zenon DEF Listed
  <2>2. Ordinary(t, "A", {7}, 1) /\ Straight(t)
    BY <2>1, RotateText, SMT DEF Rotates, Targets
  <2>3. B8(A(m) * 2) + Carry(m) \in Byte /\ A(m) \div 128 \in Digit BY Operands, Values, Zenon
  <2>4. Keeps(SetA(m, B8(A(m) * 2) + Carry(m)), m, Direct(ACC), {}) BY <2>3, SetAKeeps
  <2>5. Keeps(SetCarry(SetA(m, B8(A(m) * 2) + Carry(m)), A(m) \div 128), SetA(m, B8(A(m) * 2) + Carry(m)), {}, {7})
    BY <2>3, <2>4, GoodTyped, SetCarryKeeps
  <2>6. Keeps(SetCarry(SetA(m, B8(A(m) * 2) + Carry(m)), A(m) \div 128), m, Direct(ACC), {7})
    BY <2>4, <2>5, InTwo
  <2>7. Named("A", i, t.mnemonic = "MOVX") = Direct(ACC) BY <2>2, <1>3, NamedBytes
  <2>8. Keeps(SetCarry(SetA(m, B8(A(m) * 2) + Carry(m)), A(m) \div 128), m, Named("A", i, t.mnemonic = "MOVX"), {7})
    BY <2>6, <2>7
  <2> QED BY <2>2, <1>3, <2>8, OrdinaryFits
<1>4. ASSUME h = "addc_a_imm", Ends(Add(m, i.o1, Carry(m)), 2, 0)
      PROVE  Done(t, i)
  <2>1. Is(t, "ADDC", <<"A", "#1">>, 2) BY <1>4, Zenon DEF Listed
  <2>2. Sum(t, "ADDC", "A", {7, 6, 2}, 2) /\ t.operands[2] = "#1"
    BY <2>1, SumText, SMT DEF Targets
  <2>3. Operand(t.operands[2], i) = i.o1 BY <2>2, <1>4, SMT DEF Operand
  <2>4. i.o1 \in Byte /\ Carry(m) \in Digit BY Operands, Values, Zenon
  <2> QED BY <2>2, <1>4, <2>3, <2>4, AddFits
<1>5. ASSUME h = "addc_a_mem", Ends(Add(m, ReadMem(m, i.o1), Carry(m)), 2, 2)
      PROVE  Done(t, i)
  <2>1. Is(t, "ADDC", <<"A", "m1">>, 2) BY <1>5, Zenon DEF Listed
  <2>2. Sum(t, "ADDC", "A", {7, 6, 2}, 2) /\ t.operands[2] = "m1"
    BY <2>1, SumText, SMT DEF Targets
  <2>3. Operand(t.operands[2], i) = ReadMem(m, i.o1) BY <2>2, <1>5, SMT DEF Operand
  <2>4. ReadMem(m, i.o1) \in Byte /\ Carry(m) \in Digit BY Operands, Values, Zenon
  <2> QED BY <2>2, <1>5, <2>3, <2>4, AddFits
<1>6. ASSUME h = "addc_a_indir_rx", Ends(Add(m, ReadIndir(m, IndirAddress(m, i)), Carry(m)), 1, 0)
      PROVE  Done(t, i)
  <2>1. Is(t, "ADDC", <<"A", "@R">>, 1) BY <1>6, Zenon DEF Listed
  <2>2. Sum(t, "ADDC", "A", {7, 6, 2}, 1) /\ t.operands[2] = "@R"
    BY <2>1, SumText, SMT DEF Targets
  <2>3. Operand(t.operands[2], i) = ReadIndir(m, IndirAddress(m, i)) BY <2>2, <1>6, SMT DEF Operand
  <2>4. ReadIndir(m, IndirAddress(m, i)) \in Byte /\ Carry(m) \in Digit BY Operands, Values, Zenon
  <2> QED BY <2>2, <1>6, <2>3, <2>4, AddFits
<1> QED BY <1>1, <1>2, <1>3, <1>4, <1>5, <1>6, Zenon DEF Ops3

\* Row 4.
LEMMA Ops4Fits ==
  ASSUME Good(m), NEW h, NEW t, NEW i \in Instruction, Listed(h, t), Ops4(h, i)
  PROVE  Done(t, i)
<1>1. ASSUME h = "jc_offset", Branches(m, Carry(m) = 1, i.o1, 2)
      PROVE  Done(t, i)
  <2>1. Is(t, "JC", <<"r1">>, 2) BY <1>1, Zenon DEF Listed
  <2>2. t.mnemonic \in Tests \ Jumps /\ t.length = 2 /\ Final(t) = "r1" /\ FlagsOf(t.mnemonic) = {}
    <3>1. t.mnemonic = "JC" /\ t.operands = <<"r1">> /\ t.length = 2 BY <2>1, Zenon DEF Is
    <3>2. "JC" \in Tests /\ "JC" \notin Jumps /\ "JC" \in Unflagged
      BY SMT DEF Calls, Jumps, Returns, Tests, Unflagged
    <3>3. FlagsOf("JC") = {} BY <3>2, UnflaggedFlags
    <3>4. Final(t) = "r1" /\ t.operands[1] = "r1" BY <3>1, Finals
    <3> QED BY <3>1, <3>2, <3>3, <3>4, Zenon
  <2>3. Keeps(m, m, {}, {}) BY KeepsSelf
  <2> QED BY <2>2, <1>1, <2>3, Operands, TestBranchFits
<1>2. ASSUME h = "orl_mem_a", Ends(WriteMem(m, i.o1, Or8(ReadMem(m, i.o1), A(m))), 2, 2)
      PROVE  Done(t, i)
  <2>1. Is(t, "ORL", <<"m1", "A">>, 2) BY <1>2, Zenon DEF Listed
  <2>2. Ordinary(t, "m1", {}, 2) /\ Straight(t)
    BY <2>1, UsualPair, SMT DEF Usual, Targets
  <2>3. Or8(ReadMem(m, i.o1), A(m)) \in Byte BY Operands, Values, Zenon
  <2> QED BY <2>2, <1>2, <2>3, Operands, StoresMem
<1>3. ASSUME h = "orl_mem_imm", Ends(WriteMem(m, i.o1, Or8(ReadMem(m, i.o1), i.o2)), 3, 2)
      PROVE  Done(t, i)
  <2>1. Is(t, "ORL", <<"m1", "#2">>, 3) BY <1>3, Zenon DEF Listed
  <2>2. Ordinary(t, "m1", {}, 3) /\ Straight(t)
    BY <2>1, UsualPair, SMT DEF Usual, Targets
  <2>3. Or8(ReadMem(m, i.o1), i.o2) \in Byte BY Operands, Values, Zenon
  <2> QED BY <2>2, <1>3, <2>3, Operands, StoresMem
<1>4. ASSUME h = "orl_a_imm", Ends(SetA(m, Or8(A(m), i.o1)), 2, 0)
      PROVE  Done(t, i)
  <2>1. Is(t, "ORL", <<"A", "#1">>, 2) BY <1>4, Zenon DEF Listed
  <2>2. Ordinary(t, "A", {}, 2) /\ Straight(t)
    BY <2>1, UsualPair, SMT DEF Usual, Targets
  <2>3. Or8(A(m), i.o1) \in Byte BY Operands, Values, Zenon
  <2> QED BY <2>2, <1>4, <2>3, StoresA
<1>5. ASSUME h = "orl_a_mem", Ends(SetA(m, Or8(A(m), ReadMem(m, i.o1))), 2, 2)
      PROVE  Done(t, i)
  <2>1. Is(t, "ORL", <<"A", "m1">>, 2) BY <1>5, Zenon DEF Listed
  <2>2. Ordinary(t, "A", {}, 2) /\ Straight(t)
    BY <2>1, UsualPair, SMT DEF Usual, Targets
  <2>3. Or8(A(m), ReadMem(m, i.o1)) \in Byte BY Operands, Values, Zenon
  <2> QED BY <2>2, <1>5, <2>3, StoresA
<1>6. ASSUME h = "orl_a_indir_rx", Ends(SetA(m, Or8(A(m), ReadIndir(m, IndirAddress(m, i)))), 1, 0)
      PROVE  Done(t, i)
  <2>1. Is(t, "ORL", <<"A", "@R">>, 1) BY <1>6, Zenon DEF Listed
  <2>2. Ordinary(t, "A", {}, 1) /\ Straight(t)
    BY <2>1, UsualPair, SMT DEF Usual, Targets
  <2>3. Or8(A(m), ReadIndir(m, IndirAddress(m, i))) \in Byte BY Operands, Values, Zenon
  <2> QED BY <2>2, <1>6, <2>3, StoresA
<1> QED BY <1>1, <1>2, <1>3, <1>4, <1>5, <1>6, Zenon DEF Ops4

\* Row 5.
LEMMA Ops5Fits ==
  ASSUME Good(m), NEW h, NEW t, NEW i \in Instruction, Listed(h, t), Ops5(h, i)
  PROVE  Done(t, i)
<1>1. ASSUME h = "jnc_offset", Branches(m, Carry(m) = 0, i.o1, 2)
      PROVE  Done(t, i)
  <2>1. Is(t, "JNC", <<"r1">>, 2) BY <1>1, Zenon DEF Listed
  <2>2. t.mnemonic \in Tests \ Jumps /\ t.length = 2 /\ Final(t) = "r1" /\ FlagsOf(t.mnemonic) = {}
    <3>1. t.mnemonic = "JNC" /\ t.operands = <<"r1">> /\ t.length = 2 BY <2>1, Zenon DEF Is
    <3>2. "JNC" \in Tests /\ "JNC" \notin Jumps /\ "JNC" \in Unflagged
      BY SMT DEF Calls, Jumps, Returns, Tests, Unflagged
    <3>3. FlagsOf("JNC") = {} BY <3>2, UnflaggedFlags
    <3>4. Final(t) = "r1" /\ t.operands[1] = "r1" BY <3>1, Finals
    <3> QED BY <3>1, <3>2, <3>3, <3>4, Zenon
  <2>3. Keeps(m, m, {}, {}) BY KeepsSelf
  <2> QED BY <2>2, <1>1, <2>3, Operands, TestBranchFits
<1>2. ASSUME h = "anl_mem_a", Ends(WriteMem(m, i.o1, And8(Latch(m, i.o1), A(m))), 2, 2)
      PROVE  Done(t, i)
  <2>1. Is(t, "ANL", <<"m1", "A">>, 2) BY <1>2, Zenon DEF Listed
  <2>2. Ordinary(t, "m1", {}, 2) /\ Straight(t)
    BY <2>1, UsualPair, SMT DEF Usual, Targets
  <2>3. And8(Latch(m, i.o1), A(m)) \in Byte BY Operands, Values, Zenon
  <2> QED BY <2>2, <1>2, <2>3, Operands, StoresMem
<1>3. ASSUME h = "anl_mem_imm", Ends(WriteMem(m, i.o1, And8(ReadMem(m, i.o1), i.o2)), 3, 2)
      PROVE  Done(t, i)
  <2>1. Is(t, "ANL", <<"m1", "#2">>, 3) BY <1>3, Zenon DEF Listed
  <2>2. Ordinary(t, "m1", {}, 3) /\ Straight(t)
    BY <2>1, UsualPair, SMT DEF Usual, Targets
  <2>3. And8(ReadMem(m, i.o1), i.o2) \in Byte BY Operands, Values, Zenon
  <2> QED BY <2>2, <1>3, <2>3, Operands, StoresMem
<1>4. ASSUME h = "anl_a_imm", Ends(SetA(m, And8(A(m), i.o1)), 2, 0)
      PROVE  Done(t, i)
  <2>1. Is(t, "ANL", <<"A", "#1">>, 2) BY <1>4, Zenon DEF Listed
  <2>2. Ordinary(t, "A", {}, 2) /\ Straight(t)
    BY <2>1, UsualPair, SMT DEF Usual, Targets
  <2>3. And8(A(m), i.o1) \in Byte BY Operands, Values, Zenon
  <2> QED BY <2>2, <1>4, <2>3, StoresA
<1>5. ASSUME h = "anl_a_mem", Ends(SetA(m, And8(A(m), ReadMem(m, i.o1))), 2, 2)
      PROVE  Done(t, i)
  <2>1. Is(t, "ANL", <<"A", "m1">>, 2) BY <1>5, Zenon DEF Listed
  <2>2. Ordinary(t, "A", {}, 2) /\ Straight(t)
    BY <2>1, UsualPair, SMT DEF Usual, Targets
  <2>3. And8(A(m), ReadMem(m, i.o1)) \in Byte BY Operands, Values, Zenon
  <2> QED BY <2>2, <1>5, <2>3, StoresA
<1>6. ASSUME h = "anl_a_indir_rx", Ends(SetA(m, And8(A(m), ReadIndir(m, IndirAddress(m, i)))), 1, 0)
      PROVE  Done(t, i)
  <2>1. Is(t, "ANL", <<"A", "@R">>, 1) BY <1>6, Zenon DEF Listed
  <2>2. Ordinary(t, "A", {}, 1) /\ Straight(t)
    BY <2>1, UsualPair, SMT DEF Usual, Targets
  <2>3. And8(A(m), ReadIndir(m, IndirAddress(m, i))) \in Byte BY Operands, Values, Zenon
  <2> QED BY <2>2, <1>6, <2>3, StoresA
<1> QED BY <1>1, <1>2, <1>3, <1>4, <1>5, <1>6, Zenon DEF Ops5

\* Row 6.
LEMMA Ops6Fits ==
  ASSUME Good(m), NEW h, NEW t, NEW i \in Instruction, Listed(h, t), Ops6(h, i)
  PROVE  Done(t, i)
<1>1. ASSUME h = "jz_offset", Branches(m, A(m) = 0, i.o1, 2)
      PROVE  Done(t, i)
  <2>1. Is(t, "JZ", <<"r1">>, 2) BY <1>1, Zenon DEF Listed
  <2>2. t.mnemonic \in Tests \ Jumps /\ t.length = 2 /\ Final(t) = "r1" /\ FlagsOf(t.mnemonic) = {}
    <3>1. t.mnemonic = "JZ" /\ t.operands = <<"r1">> /\ t.length = 2 BY <2>1, Zenon DEF Is
    <3>2. "JZ" \in Tests /\ "JZ" \notin Jumps /\ "JZ" \in Unflagged
      BY SMT DEF Calls, Jumps, Returns, Tests, Unflagged
    <3>3. FlagsOf("JZ") = {} BY <3>2, UnflaggedFlags
    <3>4. Final(t) = "r1" /\ t.operands[1] = "r1" BY <3>1, Finals
    <3> QED BY <3>1, <3>2, <3>3, <3>4, Zenon
  <2>3. Keeps(m, m, {}, {}) BY KeepsSelf
  <2> QED BY <2>2, <1>1, <2>3, Operands, TestBranchFits
<1>2. ASSUME h = "xrl_mem_a", Ends(WriteMem(m, i.o1, Xor8(Latch(m, i.o1), A(m))), 2, 2)
      PROVE  Done(t, i)
  <2>1. Is(t, "XRL", <<"m1", "A">>, 2) BY <1>2, Zenon DEF Listed
  <2>2. Ordinary(t, "m1", {}, 2) /\ Straight(t)
    BY <2>1, UsualPair, SMT DEF Usual, Targets
  <2>3. Xor8(Latch(m, i.o1), A(m)) \in Byte BY Operands, Values, Zenon
  <2> QED BY <2>2, <1>2, <2>3, Operands, StoresMem
<1>3. ASSUME h = "xrl_mem_imm", Ends(WriteMem(m, i.o1, Xor8(ReadMem(m, i.o1), i.o2)), 3, 2)
      PROVE  Done(t, i)
  <2>1. Is(t, "XRL", <<"m1", "#2">>, 3) BY <1>3, Zenon DEF Listed
  <2>2. Ordinary(t, "m1", {}, 3) /\ Straight(t)
    BY <2>1, UsualPair, SMT DEF Usual, Targets
  <2>3. Xor8(ReadMem(m, i.o1), i.o2) \in Byte BY Operands, Values, Zenon
  <2> QED BY <2>2, <1>3, <2>3, Operands, StoresMem
<1>4. ASSUME h = "xrl_a_imm", Ends(SetA(m, Xor8(A(m), i.o1)), 2, 0)
      PROVE  Done(t, i)
  <2>1. Is(t, "XRL", <<"A", "#1">>, 2) BY <1>4, Zenon DEF Listed
  <2>2. Ordinary(t, "A", {}, 2) /\ Straight(t)
    BY <2>1, UsualPair, SMT DEF Usual, Targets
  <2>3. Xor8(A(m), i.o1) \in Byte BY Operands, Values, Zenon
  <2> QED BY <2>2, <1>4, <2>3, StoresA
<1>5. ASSUME h = "xrl_a_mem", Ends(SetA(m, Xor8(A(m), ReadMem(m, i.o1))), 2, 2)
      PROVE  Done(t, i)
  <2>1. Is(t, "XRL", <<"A", "m1">>, 2) BY <1>5, Zenon DEF Listed
  <2>2. Ordinary(t, "A", {}, 2) /\ Straight(t)
    BY <2>1, UsualPair, SMT DEF Usual, Targets
  <2>3. Xor8(A(m), ReadMem(m, i.o1)) \in Byte BY Operands, Values, Zenon
  <2> QED BY <2>2, <1>5, <2>3, StoresA
<1>6. ASSUME h = "xrl_a_indir_rx", Ends(SetA(m, Xor8(A(m), ReadIndir(m, IndirAddress(m, i)))), 1, 0)
      PROVE  Done(t, i)
  <2>1. Is(t, "XRL", <<"A", "@R">>, 1) BY <1>6, Zenon DEF Listed
  <2>2. Ordinary(t, "A", {}, 1) /\ Straight(t)
    BY <2>1, UsualPair, SMT DEF Usual, Targets
  <2>3. Xor8(A(m), ReadIndir(m, IndirAddress(m, i))) \in Byte BY Operands, Values, Zenon
  <2> QED BY <2>2, <1>6, <2>3, StoresA
<1> QED BY <1>1, <1>2, <1>3, <1>4, <1>5, <1>6, Zenon DEF Ops6

\* Row 7.
LEMMA Ops7Fits ==
  ASSUME Good(m), NEW h, NEW t, NEW i \in Instruction, Listed(h, t), Ops7(h, i)
  PROVE  Done(t, i)
<1>1. ASSUME h = "jnz_offset", Branches(m, A(m) # 0, i.o1, 2)
      PROVE  Done(t, i)
  <2>1. Is(t, "JNZ", <<"r1">>, 2) BY <1>1, Zenon DEF Listed
  <2>2. t.mnemonic \in Tests \ Jumps /\ t.length = 2 /\ Final(t) = "r1" /\ FlagsOf(t.mnemonic) = {}
    <3>1. t.mnemonic = "JNZ" /\ t.operands = <<"r1">> /\ t.length = 2 BY <2>1, Zenon DEF Is
    <3>2. "JNZ" \in Tests /\ "JNZ" \notin Jumps /\ "JNZ" \in Unflagged
      BY SMT DEF Calls, Jumps, Returns, Tests, Unflagged
    <3>3. FlagsOf("JNZ") = {} BY <3>2, UnflaggedFlags
    <3>4. Final(t) = "r1" /\ t.operands[1] = "r1" BY <3>1, Finals
    <3> QED BY <3>1, <3>2, <3>3, <3>4, Zenon
  <2>3. Keeps(m, m, {}, {}) BY KeepsSelf
  <2> QED BY <2>2, <1>1, <2>3, Operands, TestBranchFits
<1>2. ASSUME h = "orl_c_bitaddr",
             Ends(SetCarry(m, (IF ReadBit(m, i.o1) = 1 THEN 1 ELSE Carry(m))), 2, 2)
      PROVE  Done(t, i)
  <2>1. Is(t, "ORL", <<"C", "b1">>, 2) BY <1>2, Zenon DEF Listed
  <2>2. Ordinary(t, "C", {}, 2) /\ Straight(t)
    BY <2>1, UsualPair, SMT DEF Usual, Targets
  <2>3. (IF ReadBit(m, i.o1) = 1 THEN 1 ELSE Carry(m)) \in Digit BY Operands, Values, Zenon
  <2> QED BY <2>2, <1>2, <2>3, StoresCarry
<1>3. ASSUME h = "jmp_indir_a_dptr", Goes(m, W16(DPTR(m) + A(m)), 2)
      PROVE  Done(t, i)
  <2>1. Is(t, "JMP", <<"@A+DPTR">>, 1) BY <1>3, Zenon DEF Listed
  <2>2. t.mnemonic \in Tests /\ FlagsOf(t.mnemonic) = {} /\ t.mnemonic = "JMP" /\ Final(t) \notin Targets
    <3>1. t.mnemonic = "JMP" /\ t.operands = <<"@A+DPTR">> /\ t.length = 1 BY <2>1, Zenon DEF Is
    <3>2. "JMP" \in Tests /\ "JMP" \in Unflagged BY SMT DEF Calls, Returns, Tests, Unflagged
    <3>3. FlagsOf("JMP") = {} BY <3>2, UnflaggedFlags
    <3>4. Final(t) = "@A+DPTR" /\ t.operands[1] = "@A+DPTR" BY <3>1, Finals
    <3>5. "@A+DPTR" \notin Targets BY SMT DEF Targets
    <3> QED BY <3>1, <3>2, <3>3, <3>4, <3>5, Zenon
  <2>3. W16(DPTR(m) + A(m)) \in Word BY PointerTarget
  <2> QED BY <2>2, <1>3, <2>3, JumpFits
<1>4. ASSUME h = "mov_a_imm", Ends(SetA(m, i.o1), 2, 0)
      PROVE  Done(t, i)
  <2>1. Is(t, "MOV", <<"A", "#1">>, 2) BY <1>4, Zenon DEF Listed
  <2>2. Ordinary(t, "A", {}, 2) /\ Straight(t)
    BY <2>1, UsualPair, SMT DEF Usual, Targets
  <2>3. i.o1 \in Byte BY Operands, Values, Zenon
  <2> QED BY <2>2, <1>4, <2>3, StoresA
<1>5. ASSUME h = "mov_mem_imm", Ends(WriteMem(m, i.o1, i.o2), 3, 2)
      PROVE  Done(t, i)
  <2>1. Is(t, "MOV", <<"m1", "#2">>, 3) BY <1>5, Zenon DEF Listed
  <2>2. Ordinary(t, "m1", {}, 3) /\ Straight(t)
    BY <2>1, UsualPair, SMT DEF Usual, Targets
  <2>3. i.o2 \in Byte BY Operands, Values, Zenon
  <2> QED BY <2>2, <1>5, <2>3, Operands, StoresMem
<1>6. ASSUME h = "mov_indir_rx_imm", Ends(WriteIndir(m, IndirAddress(m, i), i.o1), 2, 0)
      PROVE  Done(t, i)
  <2>1. Is(t, "MOV", <<"@R", "#1">>, 2) BY <1>6, Zenon DEF Listed
  <2>2. Ordinary(t, "@R", {}, 2) /\ Straight(t) /\ t.mnemonic # "MOVX"
    BY <2>1, UsualPair, SMT DEF Usual, Targets, Is
  <2>3. i.o1 \in Byte BY Operands, Values, Zenon
  <2> QED BY <2>2, <1>6, <2>3, Operands, StoresIndir
<1> QED BY <1>1, <1>2, <1>3, <1>4, <1>5, <1>6, Zenon DEF Ops7

\* Row 8.
LEMMA Ops8Fits ==
  ASSUME Good(m), NEW h, NEW t, NEW i \in Instruction, Listed(h, t), Ops8(h, i)
  PROVE  Done(t, i)
<1>1. ASSUME h = "sjmp_offset", Branches(m, TRUE, i.o1, 2)
      PROVE  Done(t, i)
  <2>1. Is(t, "SJMP", <<"r1">>, 2) BY <1>1, Zenon DEF Listed
  <2>2. t.mnemonic = "SJMP" /\ t.length = 2 /\ Final(t) = "r1"
    <3>1. t.mnemonic = "SJMP" /\ t.operands = <<"r1">> /\ t.length = 2 BY <2>1, Zenon DEF Is
    <3>2. "SJMP" \in Unflagged BY SMT DEF Calls, Returns, Tests, Unflagged
    <3>4. Final(t) = "r1" /\ t.operands[1] = "r1" BY <3>1, Finals
    <3> QED BY <3>1, <3>2, <3>4, Zenon
  <2> QED BY <2>2, <1>1, ShortJumpFits
<1>2. ASSUME h = "anl_c_bitaddr",
             Ends(SetCarry(m, (IF ReadBit(m, i.o1) = 1 THEN Carry(m) ELSE 0)), 2, 2)
      PROVE  Done(t, i)
  <2>1. Is(t, "ANL", <<"C", "b1">>, 2) BY <1>2, Zenon DEF Listed
  <2>2. Ordinary(t, "C", {}, 2) /\ Straight(t)
    BY <2>1, UsualPair, SMT DEF Usual, Targets
  <2>3. (IF ReadBit(m, i.o1) = 1 THEN Carry(m) ELSE 0) \in Digit BY Operands, Values, Zenon
  <2> QED BY <2>2, <1>2, <2>3, StoresCarry
<1>3. ASSUME h = "movc_a_indir_a_pc", \E v \in Constants : Ends(SetA(m, v), 1, 2)
      PROVE  Done(t, i)
  <2>1. Is(t, "MOVC", <<"A", "@A+PC">>, 1) BY <1>3, Zenon DEF Listed
  <2>2. Ordinary(t, "A", {}, 1) /\ Straight(t)
    BY <2>1, UsualPair, SMT DEF Usual, Targets
  <2>3. PICK v \in Constants : Ends(SetA(m, v), 1, 2) BY <1>3
  <2>4. v \in Byte BY <2>3, PartAssumption, Zenon
  <2> QED BY <2>2, <1>3, <2>3, <2>4, StoresA
<1>4. ASSUME h = "div_ab", Ends(DivAB(m), 1, 4)
      PROVE  Done(t, i)
  <2>1. Is(t, "DIV", <<"AB">>, 1) BY <1>4, Zenon DEF Listed
  <2>2. Sum(t, "DIV", "AB", {7, 2}, 1)
    BY <2>1, ProductText, SMT
  <2> QED BY <2>2, <1>4, ProductFits
<1>5. ASSUME h = "mov_mem_mem", Ends(WriteMem(m, i.o2, ReadMem(m, i.o1)), 3, 2)
      PROVE  Done(t, i)
  <2>1. Is(t, "MOV", <<"m2", "m1">>, 3) BY <1>5, Zenon DEF Listed
  <2>2. Ordinary(t, "m2", {}, 3) /\ Straight(t)
    BY <2>1, UsualPair, SMT DEF Usual, Targets
  <2>3. Keeps(WriteMem(m, i.o2, ReadMem(m, i.o1)), m, Direct(i.o2), {}) BY Operands, WriteMemKeeps
  <2>4. Named("m2", i, t.mnemonic = "MOVX") = Direct(i.o2) BY <2>2, <1>5, NamedBytes
  <2>5. Keeps(WriteMem(m, i.o2, ReadMem(m, i.o1)), m, Named("m2", i, t.mnemonic = "MOVX"), {})
    BY <2>3, <2>4
  <2> QED BY <2>2, <1>5, <2>5, OrdinaryFits
<1>6. ASSUME h = "mov_mem_indir_rx", Ends(WriteMem(m, i.o1, ReadIndir(m, IndirAddress(m, i))), 2, 2)
      PROVE  Done(t, i)
  <2>1. Is(t, "MOV", <<"m1", "@R">>, 2) BY <1>6, Zenon DEF Listed
  <2>2. Ordinary(t, "m1", {}, 2) /\ Straight(t)
    BY <2>1, UsualPair, SMT DEF Usual, Targets
  <2>3. ReadIndir(m, IndirAddress(m, i)) \in Byte BY Operands, Values, Zenon
  <2> QED BY <2>2, <1>6, <2>3, Operands, StoresMem
<1> QED BY <1>1, <1>2, <1>3, <1>4, <1>5, <1>6, Zenon DEF Ops8

\* Row 9.
LEMMA Ops9Fits ==
  ASSUME Good(m), NEW h, NEW t, NEW i \in Instruction, Listed(h, t), Ops9(h, i)
  PROVE  Done(t, i)
<1>1. ASSUME h = "mov_dptr_imm", Ends(SetSfr(SetSfr(m, DPH, i.o1), DPL, i.o2), 3, 2)
      PROVE  Done(t, i)
  <2>1. Is(t, "MOV", <<"DPTR", "#16">>, 3) BY <1>1, Zenon DEF Listed
  <2>2. Ordinary(t, "DPTR", {}, 3) /\ Straight(t)
    BY <2>1, UsualPair, SMT DEF Usual, Targets
  <2>3. i.o1 \in Byte /\ i.o2 \in Byte /\ DPH \in Core /\ DPL \in Core BY Operands, InCore
  <2>4. Keeps(SetSfr(m, DPH, i.o1), m, Direct(DPH), {}) BY <2>3, SetCore
  <2>5. Keeps(SetSfr(SetSfr(m, DPH, i.o1), DPL, i.o2), SetSfr(m, DPH, i.o1), Direct(DPL), {})
    BY <2>3, <2>4, GoodTyped, SetCore
  <2>6. Keeps(SetSfr(SetSfr(m, DPH, i.o1), DPL, i.o2), m, Direct(DPL) \cup Direct(DPH), {})
    BY <2>4, <2>5, InTwo
  <2>7. Named("DPTR", i, t.mnemonic = "MOVX") = Direct(DPL) \cup Direct(DPH) BY <2>2, <1>1, NamedBytes
  <2>8. Keeps(SetSfr(SetSfr(m, DPH, i.o1), DPL, i.o2), m, Named("DPTR", i, t.mnemonic = "MOVX"), {})
    BY <2>6, <2>7
  <2> QED BY <2>2, <1>1, <2>8, OrdinaryFits
<1>2. ASSUME h = "mov_bitaddr_c", Ends(PutBit(m, i.o1, Carry(m)), 2, 2)
      PROVE  Done(t, i)
  <2>1. Is(t, "MOV", <<"b1", "C">>, 2) BY <1>2, Zenon DEF Listed
  <2>2. Ordinary(t, "b1", {}, 2) /\ Straight(t)
    BY <2>1, UsualPair, SMT DEF Usual, Targets
  <2>3. Carry(m) \in Digit BY Operands, Values, Zenon
  <2> QED BY <2>2, <1>2, <2>3, Operands, StoresBit
<1>3. ASSUME h = "movc_a_indir_a_dptr", \E v \in Constants : Ends(SetA(m, v), 1, 2)
      PROVE  Done(t, i)
  <2>1. Is(t, "MOVC", <<"A", "@A+DPTR">>, 1) BY <1>3, Zenon DEF Listed
  <2>2. Ordinary(t, "A", {}, 1) /\ Straight(t)
    BY <2>1, UsualPair, SMT DEF Usual, Targets
  <2>3. PICK v \in Constants : Ends(SetA(m, v), 1, 2) BY <1>3
  <2>4. v \in Byte BY <2>3, PartAssumption, Zenon
  <2> QED BY <2>2, <1>3, <2>3, <2>4, StoresA
<1>4. ASSUME h = "subb_a_imm", Ends(Subb(m, i.o1), 2, 0)
      PROVE  Done(t, i)
  <2>1. Is(t, "SUBB", <<"A", "#1">>, 2) BY <1>4, Zenon DEF Listed
  <2>2. Sum(t, "SUBB", "A", {7, 6, 2}, 2) /\ t.operands[2] = "#1"
    BY <2>1, SumText, SMT DEF Targets
  <2>3. Operand(t.operands[2], i) = i.o1 BY <2>2, <1>4, SMT DEF Operand
  <2>4. i.o1 \in Byte BY Operands, Zenon
  <2> QED BY <2>2, <1>4, <2>3, <2>4, SubbFits
<1>5. ASSUME h = "subb_a_mem", Ends(Subb(m, ReadMem(m, i.o1)), 2, 2)
      PROVE  Done(t, i)
  <2>1. Is(t, "SUBB", <<"A", "m1">>, 2) BY <1>5, Zenon DEF Listed
  <2>2. Sum(t, "SUBB", "A", {7, 6, 2}, 2) /\ t.operands[2] = "m1"
    BY <2>1, SumText, SMT DEF Targets
  <2>3. Operand(t.operands[2], i) = ReadMem(m, i.o1) BY <2>2, <1>5, SMT DEF Operand
  <2>4. ReadMem(m, i.o1) \in Byte BY Operands, Zenon
  <2> QED BY <2>2, <1>5, <2>3, <2>4, SubbFits
<1>6. ASSUME h = "subb_a_indir_rx", Ends(Subb(m, ReadIndir(m, IndirAddress(m, i))), 1, 0)
      PROVE  Done(t, i)
  <2>1. Is(t, "SUBB", <<"A", "@R">>, 1) BY <1>6, Zenon DEF Listed
  <2>2. Sum(t, "SUBB", "A", {7, 6, 2}, 1) /\ t.operands[2] = "@R"
    BY <2>1, SumText, SMT DEF Targets
  <2>3. Operand(t.operands[2], i) = ReadIndir(m, IndirAddress(m, i)) BY <2>2, <1>6, SMT DEF Operand
  <2>4. ReadIndir(m, IndirAddress(m, i)) \in Byte BY Operands, Zenon
  <2> QED BY <2>2, <1>6, <2>3, <2>4, SubbFits
<1> QED BY <1>1, <1>2, <1>3, <1>4, <1>5, <1>6, Zenon DEF Ops9

\* Row A.
LEMMA OpsAFits ==
  ASSUME Good(m), NEW h, NEW t, NEW i \in Instruction, Listed(h, t), OpsA(h, i)
  PROVE  Done(t, i)
<1>1. ASSUME h = "orl_c_compl_bitaddr",
             Ends(SetCarry(m, (IF ReadBit(m, i.o1) = 1 THEN Carry(m) ELSE 1)), 2, 2)
      PROVE  Done(t, i)
  <2>1. Is(t, "ORL", <<"C", "/b1">>, 2) BY <1>1, Zenon DEF Listed
  <2>2. Ordinary(t, "C", {}, 2) /\ Straight(t)
    BY <2>1, UsualPair, SMT DEF Usual, Targets
  <2>3. (IF ReadBit(m, i.o1) = 1 THEN Carry(m) ELSE 1) \in Digit BY Operands, Values, Zenon
  <2> QED BY <2>2, <1>1, <2>3, StoresCarry
<1>2. ASSUME h = "mov_c_bitaddr", Ends(SetCarry(m, ReadBit(m, i.o1)), 2, 0)
      PROVE  Done(t, i)
  <2>1. Is(t, "MOV", <<"C", "b1">>, 2) BY <1>2, Zenon DEF Listed
  <2>2. Ordinary(t, "C", {}, 2) /\ Straight(t)
    BY <2>1, UsualPair, SMT DEF Usual, Targets
  <2>3. ReadBit(m, i.o1) \in Digit BY Operands, Values, Zenon
  <2> QED BY <2>2, <1>2, <2>3, StoresCarry
<1>3. ASSUME h = "inc_dptr", Ends(IncDptr(m), 1, 2)
      PROVE  Done(t, i)
  <2>1. Is(t, "INC", <<"DPTR">>, 1) BY <1>3, Zenon DEF Listed
  <2>2. Ordinary(t, "DPTR", {}, 1) /\ Straight(t)
    BY <2>1, UsualText, SMT DEF Usual, Targets
  <2>3. Keeps(IncDptr(m), m, Direct(DPL) \cup Direct(DPH), {}) BY IncDptrKeeps
  <2>4. Named("DPTR", i, t.mnemonic = "MOVX") = Direct(DPL) \cup Direct(DPH) BY <2>2, <1>3, NamedBytes
  <2>5. Keeps(IncDptr(m), m, Named("DPTR", i, t.mnemonic = "MOVX"), {}) BY <2>3, <2>4
  <2> QED BY <2>2, <1>3, <2>5, OrdinaryFits
<1>4. ASSUME h = "mul_ab", Ends(MulAB(m), 1, 4)
      PROVE  Done(t, i)
  <2>1. Is(t, "MUL", <<"AB">>, 1) BY <1>4, Zenon DEF Listed
  <2>2. Sum(t, "MUL", "AB", {7, 2}, 1)
    BY <2>1, ProductText, SMT
  <2> QED BY <2>2, <1>4, ProductFits
<1>5. ASSUME h = "mov_indir_rx_mem", Ends(WriteIndir(m, IndirAddress(m, i), ReadMem(m, i.o1)), 2, 2)
      PROVE  Done(t, i)
  <2>1. Is(t, "MOV", <<"@R", "m1">>, 2) BY <1>5, Zenon DEF Listed
  <2>2. Ordinary(t, "@R", {}, 2) /\ Straight(t) /\ t.mnemonic # "MOVX"
    BY <2>1, UsualPair, SMT DEF Usual, Targets, Is
  <2>3. ReadMem(m, i.o1) \in Byte BY Operands, Values, Zenon
  <2> QED BY <2>2, <1>5, <2>3, Operands, StoresIndir
<1> QED BY <1>1, <1>2, <1>3, <1>4, <1>5, Zenon DEF OpsA

\* Row B.
LEMMA OpsBFits ==
  ASSUME Good(m), NEW h, NEW t, NEW i \in Instruction, Listed(h, t), OpsB(h, i)
  PROVE  Done(t, i)
<1>1. ASSUME h = "anl_c_compl_bitaddr",
             Ends(SetCarry(m, (IF ReadBit(m, i.o1) = 1 THEN 0 ELSE Carry(m))), 2, 2)
      PROVE  Done(t, i)
  <2>1. Is(t, "ANL", <<"C", "/b1">>, 2) BY <1>1, Zenon DEF Listed
  <2>2. Ordinary(t, "C", {}, 2) /\ Straight(t)
    BY <2>1, UsualPair, SMT DEF Usual, Targets
  <2>3. (IF ReadBit(m, i.o1) = 1 THEN 0 ELSE Carry(m)) \in Digit BY Operands, Values, Zenon
  <2> QED BY <2>2, <1>1, <2>3, StoresCarry
<1>2. ASSUME h = "cpl_bitaddr", Ends(PutBit(m, i.o1, 1 - LatchBit(m, i.o1)), 2, 0)
      PROVE  Done(t, i)
  <2>1. Is(t, "CPL", <<"b1">>, 2) BY <1>2, Zenon DEF Listed
  <2>2. Ordinary(t, "b1", {}, 2) /\ Straight(t)
    BY <2>1, UsualText, SMT DEF Usual, Targets
  <2>3. 1 - LatchBit(m, i.o1) \in Digit BY Operands, Values, Zenon
  <2> QED BY <2>2, <1>2, <2>3, Operands, StoresBit
<1>3. ASSUME h = "cpl_c", Ends(SetCarry(m, 1 - Carry(m)), 1, 0)
      PROVE  Done(t, i)
  <2>1. Is(t, "CPL", <<"C">>, 1) BY <1>3, Zenon DEF Listed
  <2>2. Ordinary(t, "C", {}, 1) /\ Straight(t)
    BY <2>1, UsualText, SMT DEF Usual, Targets
  <2>3. 1 - Carry(m) \in Digit BY Operands, Values, Zenon
  <2> QED BY <2>2, <1>3, <2>3, StoresCarry
<1>4. ASSUME h = "cjne_a_imm_offset", Branches(Compared(m, A(m), i.o1), A(m) # i.o1, i.o2, 3)
      PROVE  Done(t, i)
  <2>1. Is(t, "CJNE", <<"A", "#1", "r2">>, 3) BY <1>4, Zenon DEF Listed
  <2>2. t.mnemonic \in Tests \ Jumps /\ t.length = 3 /\ Final(t) = "r2" /\ FlagsOf(t.mnemonic) = {7}
    <3>1. t.mnemonic = "CJNE" /\ t.operands = <<"A", "#1", "r2">> /\ t.length = 3 BY <2>1, Zenon DEF Is
    <3>2. "CJNE" \in Tests /\ "CJNE" \notin Jumps BY SMT DEF Jumps, Tests
    <3>3. FlagsOf("CJNE") = {7} BY SMT DEF FlagsOf
    <3>4. Final(t) = "r2" /\ t.operands[1] = "A" BY <3>1, FinalOfThree
    <3> QED BY <3>1, <3>2, <3>3, <3>4, Zenon
  <2>3. Keeps(Compared(m, A(m), i.o1), m, {}, {7}) BY ComparedKeeps
  <2> QED BY <2>2, <1>4, <2>3, Operands, TestBranchFits
<1>5. ASSUME h = "cjne_a_mem_offset",
             Branches(Compared(m, A(m), ReadMem(m, i.o1)), A(m) # ReadMem(m, i.o1), i.o2, 3)
      PROVE  Done(t, i)
  <2>1. Is(t, "CJNE", <<"A", "m1", "r2">>, 3) BY <1>5, Zenon DEF Listed
  <2>2. t.mnemonic \in Tests \ Jumps /\ t.length = 3 /\ Final(t) = "r2" /\ FlagsOf(t.mnemonic) = {7}
    <3>1. t.mnemonic = "CJNE" /\ t.operands = <<"A", "m1", "r2">> /\ t.length = 3 BY <2>1, Zenon DEF Is
    <3>2. "CJNE" \in Tests /\ "CJNE" \notin Jumps BY SMT DEF Jumps, Tests
    <3>3. FlagsOf("CJNE") = {7} BY SMT DEF FlagsOf
    <3>4. Final(t) = "r2" /\ t.operands[1] = "A" BY <3>1, FinalOfThree
    <3> QED BY <3>1, <3>2, <3>3, <3>4, Zenon
  <2>3. Keeps(Compared(m, A(m), ReadMem(m, i.o1)), m, {}, {7}) BY ComparedKeeps
  <2> QED BY <2>2, <1>5, <2>3, Operands, TestBranchFits
<1>6. ASSUME h = "cjne_indir_rx_imm_offset",
             Branches(Compared(m, ReadIndir(m, IndirAddress(m, i)), i.o1), ReadIndir(m, IndirAddress(m, i)) # i.o1, i.o2, 3)
      PROVE  Done(t, i)
  <2>1. Is(t, "CJNE", <<"@R", "#1", "r2">>, 3) BY <1>6, Zenon DEF Listed
  <2>2. t.mnemonic \in Tests \ Jumps /\ t.length = 3 /\ Final(t) = "r2" /\ FlagsOf(t.mnemonic) = {7}
    <3>1. t.mnemonic = "CJNE" /\ t.operands = <<"@R", "#1", "r2">> /\ t.length = 3 BY <2>1, Zenon DEF Is
    <3>2. "CJNE" \in Tests /\ "CJNE" \notin Jumps BY SMT DEF Jumps, Tests
    <3>3. FlagsOf("CJNE") = {7} BY SMT DEF FlagsOf
    <3>4. Final(t) = "r2" /\ t.operands[1] = "@R" BY <3>1, FinalOfThree
    <3> QED BY <3>1, <3>2, <3>3, <3>4, Zenon
  <2>3. Keeps(Compared(m, ReadIndir(m, IndirAddress(m, i)), i.o1), m, {}, {7}) BY ComparedKeeps
  <2> QED BY <2>2, <1>6, <2>3, Operands, TestBranchFits
<1> QED BY <1>1, <1>2, <1>3, <1>4, <1>5, <1>6, Zenon DEF OpsB

\* Row C.
LEMMA OpsCFits ==
  ASSUME Good(m), NEW h, NEW t, NEW i \in Instruction, Listed(h, t), OpsC(h, i)
  PROVE  Done(t, i)
<1>1. ASSUME h = "push_mem", Ends(Push(m, ReadMem(m, i.o1)), 2, 2)
      PROVE  Done(t, i)
  <2>1. Is(t, "PUSH", <<"m1">>, 2) BY <1>1, Zenon DEF Listed
  <2>2. t.mnemonic = "PUSH" /\ t.length = 2 /\ Straight(t)
        /\ FlagsOf(t.mnemonic) = {} /\ t.operands[1] # "b1"
    <3>1. t.mnemonic = "PUSH" /\ t.operands = <<"m1">> /\ t.length = 2 BY <2>1, Zenon DEF Is
    <3>2. "PUSH" \notin Returns \cup Jumps /\ "PUSH" \in Unflagged
      BY SMT DEF Calls, Jumps, Returns, Tests, Unflagged
    <3>3. FlagsOf("PUSH") = {} BY <3>2, UnflaggedFlags
    <3>4. Final(t) = "m1" /\ t.operands[1] = "m1" BY <3>1, Finals
    <3>5. "m1" \notin Targets BY SMT DEF Targets
    <3>6. "m1" # "b1" BY SMT
    <3> QED BY <3>1, <3>2, <3>3, <3>4, <3>5, <3>6, Zenon DEF Straight
  <2>3. Keeps(Push(m, ReadMem(m, i.o1)), m, Direct(SP) \cup StackByte(1), {})
    BY Operands, PushKeeps DEF StackByte
  <2>4. Destinations(t, i) = Direct(SP) \cup StackByte(1) BY <2>2, SMT DEF Destinations, Tests
  <2>5. Keeps(Push(m, ReadMem(m, i.o1)), m, Destinations(t, i), {}) BY <2>3, <2>4
  <2> QED BY <2>2, <1>1, <2>5, MovesFits
<1>2. ASSUME h = "clr_bitaddr", Ends(PutBit(m, i.o1, 0), 2, 0)
      PROVE  Done(t, i)
  <2>1. Is(t, "CLR", <<"b1">>, 2) BY <1>2, Zenon DEF Listed
  <2>2. Ordinary(t, "b1", {}, 2) /\ Straight(t)
    BY <2>1, UsualText, SMT DEF Usual, Targets
  <2>3. 0 \in Digit BY Operands, Values, Zenon
  <2> QED BY <2>2, <1>2, <2>3, Operands, StoresBit
<1>3. ASSUME h = "clr_c", Ends(SetCarry(m, 0), 1, 0)
      PROVE  Done(t, i)
  <2>1. Is(t, "CLR", <<"C">>, 1) BY <1>3, Zenon DEF Listed
  <2>2. Ordinary(t, "C", {}, 1) /\ Straight(t)
    BY <2>1, UsualText, SMT DEF Usual, Targets
  <2>3. 0 \in Digit BY Operands, Values, Zenon
  <2> QED BY <2>2, <1>3, <2>3, StoresCarry
<1>4. ASSUME h = "swap_a", Ends(SetA(m, B8(A(m) * 16) + A(m) \div 16), 1, 0)
      PROVE  Done(t, i)
  <2>1. Is(t, "SWAP", <<"A">>, 1) BY <1>4, Zenon DEF Listed
  <2>2. Ordinary(t, "A", {}, 1) /\ Straight(t)
    BY <2>1, UsualText, SMT DEF Usual, Targets
  <2>3. B8(A(m) * 16) + A(m) \div 16 \in Byte BY Operands, Values, Zenon
  <2> QED BY <2>2, <1>4, <2>3, StoresA
<1>5. ASSUME h = "xch_a_mem", Ends(SetA(WriteMem(m, i.o1, A(m)), ReadMem(m, i.o1)), 2, 2)
      PROVE  Done(t, i)
  <2>1. Is(t, "XCH", <<"A", "m1">>, 2) BY <1>5, Zenon DEF Listed
  <2>2. t.mnemonic = "XCH" /\ t.length = 2 /\ Straight(t)
        /\ FlagsOf(t.mnemonic) = {} /\ t.operands[1] # "b1"
    <3>1. t.mnemonic = "XCH" /\ t.operands = <<"A", "m1">> /\ t.length = 2 BY <2>1, Zenon DEF Is
    <3>2. "XCH" \notin Returns \cup Jumps /\ "XCH" \in Unflagged
      BY SMT DEF Calls, Jumps, Returns, Tests, Unflagged
    <3>3. FlagsOf("XCH") = {} BY <3>2, UnflaggedFlags
    <3>4. Final(t) = "m1" /\ t.operands[1] = "A" BY <3>1, FinalOfTwo
    <3>5. "m1" \notin Targets BY SMT DEF Targets
    <3>6. "A" # "b1" BY SMT
    <3> QED BY <3>1, <3>2, <3>3, <3>4, <3>5, <3>6, Zenon DEF Straight
  <2>3. Keeps(WriteMem(m, i.o1, A(m)), m, Direct(i.o1), {}) BY Operands, WriteMemKeeps
  <2>4. Keeps(SetA(WriteMem(m, i.o1, A(m)), ReadMem(m, i.o1)), WriteMem(m, i.o1, A(m)), Direct(ACC), {})
    BY <2>3, Operands, GoodTyped, SetAKeeps
  <2>5. Keeps(SetA(WriteMem(m, i.o1, A(m)), ReadMem(m, i.o1)), m, Direct(ACC) \cup Direct(i.o1), {})
    BY <2>3, <2>4, InTwo
  <2>6. t.mnemonic \in Swaps /\ t.operands = <<"A", "m1">> BY <2>1, Zenon DEF Is, Swaps
  <2>7. Destinations(t, i) = Direct(ACC) \cup Direct(i.o1) BY <2>6, SwappedBytes, Zenon
  <2>8. Keeps(SetA(WriteMem(m, i.o1, A(m)), ReadMem(m, i.o1)), m, Destinations(t, i), {}) BY <2>5, <2>7
  <2> QED BY <2>2, <1>5, <2>8, MovesFits
<1>6. ASSUME h = "xch_a_indir_rx",
             Ends(SetA(WriteIndir(m, IndirAddress(m, i), A(m)), ReadIndir(m, IndirAddress(m, i))), 1, 0)
      PROVE  Done(t, i)
  <2>1. Is(t, "XCH", <<"A", "@R">>, 1) BY <1>6, Zenon DEF Listed
  <2>2. t.mnemonic = "XCH" /\ t.length = 1 /\ Straight(t)
        /\ FlagsOf(t.mnemonic) = {} /\ t.operands[1] # "b1"
    <3>1. t.mnemonic = "XCH" /\ t.operands = <<"A", "@R">> /\ t.length = 1 BY <2>1, Zenon DEF Is
    <3>2. "XCH" \notin Returns \cup Jumps /\ "XCH" \in Unflagged
      BY SMT DEF Calls, Jumps, Returns, Tests, Unflagged
    <3>3. FlagsOf("XCH") = {} BY <3>2, UnflaggedFlags
    <3>4. Final(t) = "@R" /\ t.operands[1] = "A" BY <3>1, FinalOfTwo
    <3>5. "@R" \notin Targets BY SMT DEF Targets
    <3>6. "A" # "b1" BY SMT
    <3> QED BY <3>1, <3>2, <3>3, <3>4, <3>5, <3>6, Zenon DEF Straight
  <2>3. Keeps(WriteIndir(m, IndirAddress(m, i), A(m)), m, Indirect(IndirAddress(m, i)), {})
    BY Operands, WriteIndirKeeps
  <2>4. Keeps(SetA(WriteIndir(m, IndirAddress(m, i), A(m)), ReadIndir(m, IndirAddress(m, i))),
              WriteIndir(m, IndirAddress(m, i), A(m)), Direct(ACC), {})
    BY <2>3, Operands, GoodTyped, SetAKeeps
  <2>5. Keeps(SetA(WriteIndir(m, IndirAddress(m, i), A(m)), ReadIndir(m, IndirAddress(m, i))), m,
              Direct(ACC) \cup Indirect(IndirAddress(m, i)), {})
    BY <2>3, <2>4, InTwo
  <2>6. t.mnemonic \in Swaps /\ t.operands = <<"A", "@R">> BY <2>1, Zenon DEF Is, Swaps
  <2>7. Destinations(t, i) = Direct(ACC) \cup Indirect(IndirAddress(m, i)) BY <2>6, SwappedBytes, Zenon
  <2>8. Keeps(SetA(WriteIndir(m, IndirAddress(m, i), A(m)), ReadIndir(m, IndirAddress(m, i))), m, Destinations(t, i), {})
    BY <2>5, <2>7
  <2> QED BY <2>2, <1>6, <2>8, MovesFits
<1> QED BY <1>1, <1>2, <1>3, <1>4, <1>5, <1>6, Zenon DEF OpsC

\* Row D.
LEMMA OpsDFits ==
  ASSUME Good(m), NEW h, NEW t, NEW i \in Instruction, Listed(h, t), OpsD(h, i)
  PROVE  Done(t, i)
<1>1. ASSUME h = "pop_mem", Ends(WriteMem(Pop(m), i.o1, Top(m)), 2, 2)
      PROVE  Done(t, i)
  <2>1. Is(t, "POP", <<"m1">>, 2) BY <1>1, Zenon DEF Listed
  <2>2. t.mnemonic = "POP" /\ t.length = 2 /\ Straight(t)
        /\ FlagsOf(t.mnemonic) = {} /\ t.operands[1] # "b1"
    <3>1. t.mnemonic = "POP" /\ t.operands = <<"m1">> /\ t.length = 2 BY <2>1, Zenon DEF Is
    <3>2. "POP" \notin Returns \cup Jumps /\ "POP" \in Unflagged
      BY SMT DEF Calls, Jumps, Returns, Tests, Unflagged
    <3>3. FlagsOf("POP") = {} BY <3>2, UnflaggedFlags
    <3>4. Final(t) = "m1" /\ t.operands[1] = "m1" BY <3>1, Finals
    <3>5. "m1" \notin Targets BY SMT DEF Targets
    <3>6. "m1" # "b1" BY SMT
    <3> QED BY <3>1, <3>2, <3>3, <3>4, <3>5, <3>6, Zenon DEF Straight
  <2>3. Keeps(Pop(m), m, Direct(SP), {}) BY PopKeeps
  <2>4. Top(m) \in Byte BY SfrByte, ReadIndirByte DEF Good, Top
  <2>5. Keeps(WriteMem(Pop(m), i.o1, Top(m)), Pop(m), Direct(i.o1), {})
    BY <2>3, <2>4, Operands, GoodTyped, WriteMemKeeps
  <2>6. Keeps(WriteMem(Pop(m), i.o1, Top(m)), m, Direct(SP) \cup Direct(i.o1), {}) BY <2>3, <2>5, InTwo
  <2>7. t.mnemonic = "POP" /\ t.operands = <<"m1">> BY <2>1, Zenon DEF Is
  <2>8. Destinations(t, i) = Direct(SP) \cup Direct(i.o1) BY <2>7, PoppedBytes
  <2>9. Keeps(WriteMem(Pop(m), i.o1, Top(m)), m, Destinations(t, i), {}) BY <2>6, <2>8
  <2> QED BY <2>2, <1>1, <2>9, MovesFits
<1>2. ASSUME h = "setb_bitaddr", Ends(PutBit(m, i.o1, 1), 2, 0)
      PROVE  Done(t, i)
  <2>1. Is(t, "SETB", <<"b1">>, 2) BY <1>2, Zenon DEF Listed
  <2>2. Ordinary(t, "b1", {}, 2) /\ Straight(t)
    BY <2>1, UsualText, SMT DEF Usual, Targets
  <2>3. 1 \in Digit BY Operands, Values, Zenon
  <2> QED BY <2>2, <1>2, <2>3, Operands, StoresBit
<1>3. ASSUME h = "setb_c", Ends(SetCarry(m, 1), 1, 0)
      PROVE  Done(t, i)
  <2>1. Is(t, "SETB", <<"C">>, 1) BY <1>3, Zenon DEF Listed
  <2>2. Ordinary(t, "C", {}, 1) /\ Straight(t)
    BY <2>1, UsualText, SMT DEF Usual, Targets
  <2>3. 1 \in Digit BY Operands, Values, Zenon
  <2> QED BY <2>2, <1>3, <2>3, StoresCarry
<1>4. ASSUME h = "da_a", Ends(DaA(m), 1, 0)
      PROVE  Done(t, i)
  <2>1. Is(t, "DA", <<"A">>, 1) BY <1>4, Zenon DEF Listed
  <2>2. Ordinary(t, "A", {7}, 1) /\ Straight(t)
    BY <2>1, RotateText, SMT DEF Rotates, Targets
  <2>3. Keeps(DaA(m), m, Direct(ACC), {7}) BY DaKeeps
  <2>4. Named("A", i, t.mnemonic = "MOVX") = Direct(ACC) BY <2>2, <1>4, NamedBytes
  <2>5. Keeps(DaA(m), m, Named("A", i, t.mnemonic = "MOVX"), {7}) BY <2>3, <2>4
  <2> QED BY <2>2, <1>4, <2>5, OrdinaryFits
<1>5. ASSUME h = "djnz_mem_offset",
             Branches(WriteMem(m, i.o1, B8(ReadMem(m, i.o1) - 1)), B8(ReadMem(m, i.o1) - 1) # 0, i.o2, 3)
      PROVE  Done(t, i)
  <2>1. Is(t, "DJNZ", <<"m1", "r2">>, 3) BY <1>5, Zenon DEF Listed
  <2>2. Ordinary(t, "m1", {}, 3) /\ Final(t) = "r2"
    BY <2>1, UsualPair, SMT DEF Usual, Targets
  <2>3. B8(ReadMem(m, i.o1) - 1) \in Byte BY Operands, Values, Zenon
  <2>4. Keeps(WriteMem(m, i.o1, B8(ReadMem(m, i.o1) - 1)), m, Direct(i.o1), {})
    BY <2>3, Operands, WriteMemKeeps
  <2>5. Named("m1", i, t.mnemonic = "MOVX") = Direct(i.o1) BY <2>2, <1>5, NamedBytes
  <2>6. Keeps(WriteMem(m, i.o1, B8(ReadMem(m, i.o1) - 1)), m, Named("m1", i, t.mnemonic = "MOVX"), {})
    BY <2>4, <2>5
  <2> QED BY <2>2, <1>5, <2>6, Operands, OrdinaryBranchFits
<1>6. ASSUME h = "xchd_a_indir_rx",
             Ends(WriteIndir(SetA(m, A(m) - (A(m) % 16) + (ReadIndir(m, IndirAddress(m, i)) % 16)),
                             IndirAddress(m, i),
                             ReadIndir(m, IndirAddress(m, i)) - (ReadIndir(m, IndirAddress(m, i)) % 16) + (A(m) % 16)), 1, 0)
      PROVE  Done(t, i)
  <2>1. Is(t, "XCHD", <<"A", "@R">>, 1) BY <1>6, Zenon DEF Listed
  <2>2. t.mnemonic = "XCHD" /\ t.length = 1 /\ Straight(t)
        /\ FlagsOf(t.mnemonic) = {} /\ t.operands[1] # "b1"
    <3>1. t.mnemonic = "XCHD" /\ t.operands = <<"A", "@R">> /\ t.length = 1 BY <2>1, Zenon DEF Is
    <3>2. "XCHD" \notin Returns \cup Jumps /\ "XCHD" \in Unflagged
      BY SMT DEF Calls, Jumps, Returns, Tests, Unflagged
    <3>3. FlagsOf("XCHD") = {} BY <3>2, UnflaggedFlags
    <3>4. Final(t) = "@R" /\ t.operands[1] = "A" BY <3>1, FinalOfTwo
    <3>5. "@R" \notin Targets BY SMT DEF Targets
    <3>6. "A" # "b1" BY SMT
    <3> QED BY <3>1, <3>2, <3>3, <3>4, <3>5, <3>6, Zenon DEF Straight
  <2> DEFINE x == A(m) - (A(m) % 16) + (ReadIndir(m, IndirAddress(m, i)) % 16)
             y == ReadIndir(m, IndirAddress(m, i)) - (ReadIndir(m, IndirAddress(m, i)) % 16) + (A(m) % 16)
             c == SetA(m, x)
  <2>3. x \in Byte /\ y \in Byte BY Operands, Values, Zenon
  <2> HIDE DEF x, y
  <2>4. Keeps(c, m, Direct(ACC), {}) BY <2>3, SetAKeeps
  <2>5. Keeps(WriteIndir(c, IndirAddress(m, i), y), c, Indirect(IndirAddress(m, i)), {})
    BY <2>3, <2>4, Operands, GoodTyped, WriteIndirKeeps
  <2>6. Keeps(WriteIndir(c, IndirAddress(m, i), y), m, Direct(ACC) \cup Indirect(IndirAddress(m, i)), {})
    BY <2>4, <2>5, InTwo
  <2>7. Keeps(WriteIndir(SetA(m, A(m) - (A(m) % 16) + (ReadIndir(m, IndirAddress(m, i)) % 16)), IndirAddress(m, i),
                         ReadIndir(m, IndirAddress(m, i)) - (ReadIndir(m, IndirAddress(m, i)) % 16) + (A(m) % 16)), m,
              Direct(ACC) \cup Indirect(IndirAddress(m, i)), {})
    BY <2>6, Zenon DEF x, y
  <2>8. t.mnemonic \in Swaps /\ t.operands = <<"A", "@R">> BY <2>1, Zenon DEF Is, Swaps
  <2>9. Destinations(t, i) = Direct(ACC) \cup Indirect(IndirAddress(m, i)) BY <2>8, SwappedBytes, Zenon
  <2>10. Keeps(WriteIndir(SetA(m, A(m) - (A(m) % 16) + (ReadIndir(m, IndirAddress(m, i)) % 16)),
       IndirAddress(m, i), ReadIndir(m, IndirAddress(m, i)) - (ReadIndir(m, IndirAddress(m,
            i)) % 16) + (A(m) % 16)), m, Destinations(t, i), {}) BY <2>7, <2>9
  <2> QED BY <2>2, <1>6, <2>10, MovesFits
<1> QED BY <1>1, <1>2, <1>3, <1>4, <1>5, <1>6, Zenon DEF OpsD

\* Row E.
LEMMA OpsEFits ==
  ASSUME Good(m), NEW h, NEW t, NEW i \in Instruction, Listed(h, t), OpsE(h, i)
  PROVE  Done(t, i)
<1>1. ASSUME h = "movx_a_indir_dptr", Ends(XRead(m, DPTR(m)), 1, 2)
      PROVE  Done(t, i)
  <2>1. Is(t, "MOVX", <<"A", "@DPTR">>, 1) BY <1>1, Zenon DEF Listed
  <2>2. Ordinary(t, "A", {}, 1) /\ Straight(t)
    BY <2>1, UsualPair, SMT DEF Usual, Targets
  <2>3. Keeps(XRead(m, DPTR(m)), m, Direct(ACC), {}) BY ExternalKeeps
  <2>4. Named("A", i, t.mnemonic = "MOVX") = Direct(ACC) BY <2>2, <1>1, NamedBytes
  <2>5. Keeps(XRead(m, DPTR(m)), m, Named("A", i, t.mnemonic = "MOVX"), {}) BY <2>3, <2>4
  <2> QED BY <2>2, <1>1, <2>5, OrdinaryFits
<1>2. ASSUME h = "movx_a_indir_rx", Ends(XRead(m, XAddress(m, i)), 1, 2)
      PROVE  Done(t, i)
  <2>1. Is(t, "MOVX", <<"A", "@R">>, 1) BY <1>2, Zenon DEF Listed
  <2>2. Ordinary(t, "A", {}, 1) /\ Straight(t)
    BY <2>1, UsualPair, SMT DEF Usual, Targets
  <2>3. Keeps(XRead(m, XAddress(m, i)), m, Direct(ACC), {}) BY ExternalKeeps
  <2>4. Named("A", i, t.mnemonic = "MOVX") = Direct(ACC) BY <2>2, <1>2, NamedBytes
  <2>5. Keeps(XRead(m, XAddress(m, i)), m, Named("A", i, t.mnemonic = "MOVX"), {}) BY <2>3, <2>4
  <2> QED BY <2>2, <1>2, <2>5, OrdinaryFits
<1>3. ASSUME h = "clr_a", Ends(SetA(m, 0), 1, 0)
      PROVE  Done(t, i)
  <2>1. Is(t, "CLR", <<"A">>, 1) BY <1>3, Zenon DEF Listed
  <2>2. Ordinary(t, "A", {}, 1) /\ Straight(t)
    BY <2>1, UsualText, SMT DEF Usual, Targets
  <2>3. 0 \in Byte BY Operands, Values, Zenon
  <2> QED BY <2>2, <1>3, <2>3, StoresA
<1>4. ASSUME h = "mov_a_mem",
             Ends(IF i.o1 = ACC THEN Raise(SetA(m, ReadMem(m, i.o1)), "ACC_TO_A") ELSE SetA(m, ReadMem(m, i.o1)), 2, 0)
      PROVE  Done(t, i)
  <2>1. Is(t, "MOV", <<"A", "m1">>, 2) BY <1>4, Zenon DEF Listed
  <2>2. Ordinary(t, "A", {}, 2) /\ Straight(t)
    BY <2>1, UsualPair, SMT DEF Usual, Targets
  <2>3. Keeps(SetA(m, ReadMem(m, i.o1)), m, Direct(ACC), {}) BY Operands, SetAKeeps
  <2>4. Keeps(Raise(SetA(m, ReadMem(m, i.o1)), "ACC_TO_A"), SetA(m, ReadMem(m, i.o1)), {}, {})
    BY <2>3, GoodTyped, RaiseKeeps DEF Exception
  <2>5. Keeps(Raise(SetA(m, ReadMem(m, i.o1)), "ACC_TO_A"), m, Direct(ACC), {}) BY <2>3, <2>4, InTwo
  <2>6. Keeps(IF i.o1 = ACC THEN Raise(SetA(m, ReadMem(m, i.o1)), "ACC_TO_A") ELSE SetA(m, ReadMem(m, i.o1)), m, Direct(ACC), {})
    BY <2>3, <2>5, Zenon
  <2>7. Named("A", i, t.mnemonic = "MOVX") = Direct(ACC) BY <2>2, <1>4, NamedBytes
  <2>8. Keeps(IF i.o1 = ACC THEN Raise(SetA(m, ReadMem(m, i.o1)), "ACC_TO_A") ELSE SetA(m, ReadMem(m,
       i.o1)), m, Named("A", i, t.mnemonic = "MOVX"), {}) BY <2>6, <2>7
  <2> QED BY <2>2, <1>4, <2>8, OrdinaryFits
<1>5. ASSUME h = "mov_a_indir_rx", Ends(SetA(m, ReadIndir(m, IndirAddress(m, i))), 1, 0)
      PROVE  Done(t, i)
  <2>1. Is(t, "MOV", <<"A", "@R">>, 1) BY <1>5, Zenon DEF Listed
  <2>2. Ordinary(t, "A", {}, 1) /\ Straight(t)
    BY <2>1, UsualPair, SMT DEF Usual, Targets
  <2>3. ReadIndir(m, IndirAddress(m, i)) \in Byte BY Operands, Values, Zenon
  <2> QED BY <2>2, <1>5, <2>3, StoresA
<1> QED BY <1>1, <1>2, <1>3, <1>4, <1>5, Zenon DEF OpsE

\* Row F.
LEMMA OpsFFits ==
  ASSUME Good(m), NEW h, NEW t, NEW i \in Instruction, Listed(h, t), OpsF(h, i)
  PROVE  Done(t, i)
<1>1. ASSUME h = "movx_indir_dptr_a", Ends(XWrite(m, DPTR(m), A(m)), 1, 2)
      PROVE  Done(t, i)
  <2>1. Is(t, "MOVX", <<"@DPTR", "A">>, 1) BY <1>1, Zenon DEF Listed
  <2>2. Ordinary(t, "@DPTR", {}, 1) /\ Straight(t)
    BY <2>1, UsualPair, SMT DEF Usual, Targets
  <2>3. Keeps(XWrite(m, DPTR(m), A(m)), m, {}, {}) BY ExternalKeeps
  <2>4. Named("@DPTR", i, t.mnemonic = "MOVX") = {} BY <2>2, <1>1, NamedBytes
  <2>5. Keeps(XWrite(m, DPTR(m), A(m)), m, Named("@DPTR", i, t.mnemonic = "MOVX"), {}) BY <2>3, <2>4
  <2> QED BY <2>2, <1>1, <2>5, OrdinaryFits
<1>2. ASSUME h = "movx_indir_rx_a", Ends(XWrite(m, XAddress(m, i), A(m)), 1, 2)
      PROVE  Done(t, i)
  <2>1. Is(t, "MOVX", <<"@R", "A">>, 1) BY <1>2, Zenon DEF Listed
  <2>2. Ordinary(t, "@R", {}, 1) /\ Straight(t) /\ t.mnemonic = "MOVX"
    BY <2>1, UsualPair, SMT DEF Usual, Targets, Is
  <2>3. Keeps(XWrite(m, XAddress(m, i), A(m)), m, {}, {}) BY ExternalKeeps
  <2>4. Named("@R", i, t.mnemonic = "MOVX") = {} BY <2>2, <1>2, NamedBytes
  <2>5. Keeps(XWrite(m, XAddress(m, i), A(m)), m, Named("@R", i, t.mnemonic = "MOVX"), {}) BY <2>3, <2>4
  <2> QED BY <2>2, <1>2, <2>5, OrdinaryFits
<1>3. ASSUME h = "cpl_a", Ends(SetA(m, 255 - A(m)), 1, 0)
      PROVE  Done(t, i)
  <2>1. Is(t, "CPL", <<"A">>, 1) BY <1>3, Zenon DEF Listed
  <2>2. Ordinary(t, "A", {}, 1) /\ Straight(t)
    BY <2>1, UsualText, SMT DEF Usual, Targets
  <2>3. 255 - A(m) \in Byte BY Operands, Values, Zenon
  <2> QED BY <2>2, <1>3, <2>3, StoresA
<1>4. ASSUME h = "mov_mem_a", Ends(WriteMem(m, i.o1, A(m)), 2, 0)
      PROVE  Done(t, i)
  <2>1. Is(t, "MOV", <<"m1", "A">>, 2) BY <1>4, Zenon DEF Listed
  <2>2. Ordinary(t, "m1", {}, 2) /\ Straight(t)
    BY <2>1, UsualPair, SMT DEF Usual, Targets
  <2>3. A(m) \in Byte BY Operands, Values, Zenon
  <2> QED BY <2>2, <1>4, <2>3, Operands, StoresMem
<1>5. ASSUME h = "mov_indir_rx_a", Ends(WriteIndir(m, IndirAddress(m, i), A(m)), 1, 0)
      PROVE  Done(t, i)
  <2>1. Is(t, "MOV", <<"@R", "A">>, 1) BY <1>5, Zenon DEF Listed
  <2>2. Ordinary(t, "@R", {}, 1) /\ Straight(t) /\ t.mnemonic # "MOVX"
    BY <2>1, UsualPair, SMT DEF Usual, Targets, Is
  <2>3. A(m) \in Byte BY Operands, Values, Zenon
  <2> QED BY <2>2, <1>5, <2>3, Operands, StoresIndir
<1>6. ASSUME h = "nop", Ends(IF i.op # 0 THEN Raise(m, "ILLEGAL_OPCODE") ELSE m, 1, 0)
      PROVE  Done(t, i)
  <2>1. Is(t, "NOP", <<>>, 1) \/ Is(t, "??UNKNOWN", <<>>, 1) BY <1>6, Zenon DEF Listed
  <2>2. t.mnemonic \in Tests /\ Straight(t) /\ t.length = 1 /\ FlagsOf(t.mnemonic) = {}
    <3>1. t.mnemonic \in {"NOP", "??UNKNOWN"} /\ t.operands = <<>> /\ t.length = 1 BY <2>1 DEF Is
    <3>2. t.mnemonic \in Unflagged /\ t.mnemonic \in Tests /\ t.mnemonic \notin Returns \cup Jumps
      BY <3>1, SMT DEF Unflagged, Tests, Calls, Returns, Jumps
    <3>3. FlagsOf(t.mnemonic) = {} BY <3>2, UnflaggedFlags
    <3>4. Final(t) = "" BY <3>1, FinalOfNone
    <3>5. "" \notin Targets BY SMT DEF Targets
    <3> QED BY <3>1, <3>2, <3>3, <3>4, <3>5, Zenon DEF Straight
  <2>3. Keeps(Raise(m, "ILLEGAL_OPCODE"), m, {}, {}) BY RaiseKeeps DEF Exception
  <2>4. Keeps(m, m, {}, {}) BY KeepsSelf
  <2>5. Keeps(IF i.op # 0 THEN Raise(m, "ILLEGAL_OPCODE") ELSE m, m, {}, {}) BY <2>3, <2>4, Zenon
  <2> QED BY <2>2, <1>6, <2>5, TestEnds
<1> QED BY <1>1, <1>2, <1>3, <1>4, <1>5, <1>6, Zenon DEF OpsF

\* The handlers of R0 to R7.
LEMMA OpsRxFits ==
  ASSUME Good(m), NEW h, NEW t, NEW i \in Instruction, Listed(h, t), OpsRx(h, i)
  PROVE  Done(t, i)
<1>1. ASSUME h = "inc_rx", Ends(SetRx(m, i, B8(Rx(m, i) + 1)), 1, 0)
      PROVE  Done(t, i)
  <2>1. Is(t, "INC", <<"R">>, 1) BY <1>1, Zenon DEF Listed
  <2>2. Ordinary(t, "R", {}, 1) /\ Straight(t)
    BY <2>1, UsualText, SMT DEF Usual, Targets
  <2>3. B8(Rx(m, i) + 1) \in Byte BY Operands, Values, Zenon
  <2> QED BY <2>2, <1>1, <2>3, Operands, StoresRx
<1>2. ASSUME h = "dec_rx", Ends(SetRx(m, i, B8(Rx(m, i) - 1)), 1, 0)
      PROVE  Done(t, i)
  <2>1. Is(t, "DEC", <<"R">>, 1) BY <1>2, Zenon DEF Listed
  <2>2. Ordinary(t, "R", {}, 1) /\ Straight(t)
    BY <2>1, UsualText, SMT DEF Usual, Targets
  <2>3. B8(Rx(m, i) - 1) \in Byte BY Operands, Values, Zenon
  <2> QED BY <2>2, <1>2, <2>3, Operands, StoresRx
<1>3. ASSUME h = "add_a_rx", Ends(Add(m, Rx(m, i), 0), 1, 0)
      PROVE  Done(t, i)
  <2>1. Is(t, "ADD", <<"A", "R">>, 1) BY <1>3, Zenon DEF Listed
  <2>2. Sum(t, "ADD", "A", {7, 6, 2}, 1) /\ t.operands[2] = "R"
    BY <2>1, SumText, SMT DEF Targets
  <2>3. Operand(t.operands[2], i) = Rx(m, i) BY <2>2, <1>3, SMT DEF Operand
  <2>4. Rx(m, i) \in Byte /\ 0 \in Digit BY Operands, Values, Zenon
  <2> QED BY <2>2, <1>3, <2>3, <2>4, AddFits
<1>4. ASSUME h = "addc_a_rx", Ends(Add(m, Rx(m, i), Carry(m)), 1, 0)
      PROVE  Done(t, i)
  <2>1. Is(t, "ADDC", <<"A", "R">>, 1) BY <1>4, Zenon DEF Listed
  <2>2. Sum(t, "ADDC", "A", {7, 6, 2}, 1) /\ t.operands[2] = "R"
    BY <2>1, SumText, SMT DEF Targets
  <2>3. Operand(t.operands[2], i) = Rx(m, i) BY <2>2, <1>4, SMT DEF Operand
  <2>4. Rx(m, i) \in Byte /\ Carry(m) \in Digit BY Operands, Values, Zenon
  <2> QED BY <2>2, <1>4, <2>3, <2>4, AddFits
<1>5. ASSUME h = "orl_a_rx", Ends(SetA(m, Or8(A(m), Rx(m, i))), 1, 0)
      PROVE  Done(t, i)
  <2>1. Is(t, "ORL", <<"A", "R">>, 1) BY <1>5, Zenon DEF Listed
  <2>2. Ordinary(t, "A", {}, 1) /\ Straight(t)
    BY <2>1, UsualPair, SMT DEF Usual, Targets
  <2>3. Or8(A(m), Rx(m, i)) \in Byte BY Operands, Values, Zenon
  <2> QED BY <2>2, <1>5, <2>3, StoresA
<1>6. ASSUME h = "anl_a_rx", Ends(SetA(m, And8(A(m), Rx(m, i))), 1, 0)
      PROVE  Done(t, i)
  <2>1. Is(t, "ANL", <<"A", "R">>, 1) BY <1>6, Zenon DEF Listed
  <2>2. Ordinary(t, "A", {}, 1) /\ Straight(t)
    BY <2>1, UsualPair, SMT DEF Usual, Targets
  <2>3. And8(A(m), Rx(m, i)) \in Byte BY Operands, Values, Zenon
  <2> QED BY <2>2, <1>6, <2>3, StoresA
<1>7. ASSUME h = "xrl_a_rx", Ends(SetA(m, Xor8(A(m), Rx(m, i))), 1, 0)
      PROVE  Done(t, i)
  <2>1. Is(t, "XRL", <<"A", "R">>, 1) BY <1>7, Zenon DEF Listed
  <2>2. Ordinary(t, "A", {}, 1) /\ Straight(t)
    BY <2>1, UsualPair, SMT DEF Usual, Targets
  <2>3. Xor8(A(m), Rx(m, i)) \in Byte BY Operands, Values, Zenon
  <2> QED BY <2>2, <1>7, <2>3, StoresA
<1>8. ASSUME h = "mov_rx_imm", Ends(SetRx(m, i, i.o1), 2, 0)
      PROVE  Done(t, i)
  <2>1. Is(t, "MOV", <<"R", "#1">>, 2) BY <1>8, Zenon DEF Listed
  <2>2. Ordinary(t, "R", {}, 2) /\ Straight(t)
    BY <2>1, UsualPair, SMT DEF Usual, Targets
  <2>3. i.o1 \in Byte BY Operands, Values, Zenon
  <2> QED BY <2>2, <1>8, <2>3, Operands, StoresRx
<1>9. ASSUME h = "mov_mem_rx", Ends(WriteMem(m, i.o1, Rx(m, i)), 2, 2)
      PROVE  Done(t, i)
  <2>1. Is(t, "MOV", <<"m1", "R">>, 2) BY <1>9, Zenon DEF Listed
  <2>2. Ordinary(t, "m1", {}, 2) /\ Straight(t)
    BY <2>1, UsualPair, SMT DEF Usual, Targets
  <2>3. Rx(m, i) \in Byte BY Operands, Values, Zenon
  <2> QED BY <2>2, <1>9, <2>3, Operands, StoresMem
<1>10. ASSUME h = "subb_a_rx", Ends(Subb(m, Rx(m, i)), 1, 0)
      PROVE  Done(t, i)
  <2>1. Is(t, "SUBB", <<"A", "R">>, 1) BY <1>10, Zenon DEF Listed
  <2>2. Sum(t, "SUBB", "A", {7, 6, 2}, 1) /\ t.operands[2] = "R"
    BY <2>1, SumText, SMT DEF Targets
  <2>3. Operand(t.operands[2], i) = Rx(m, i) BY <2>2, <1>10, SMT DEF Operand
  <2>4. Rx(m, i) \in Byte BY Operands, Zenon
  <2> QED BY <2>2, <1>10, <2>3, <2>4, SubbFits
<1>11. ASSUME h = "mov_rx_mem", Ends(SetRx(m, i, ReadMem(m, i.o1)), 2, 2)
      PROVE  Done(t, i)
  <2>1. Is(t, "MOV", <<"R", "m1">>, 2) BY <1>11, Zenon DEF Listed
  <2>2. Ordinary(t, "R", {}, 2) /\ Straight(t)
    BY <2>1, UsualPair, SMT DEF Usual, Targets
  <2>3. ReadMem(m, i.o1) \in Byte BY Operands, Values, Zenon
  <2> QED BY <2>2, <1>11, <2>3, Operands, StoresRx
<1>12. ASSUME h = "cjne_rx_imm_offset", Branches(Compared(m, Rx(m, i), i.o1), Rx(m, i) # i.o1, i.o2, 3)
      PROVE  Done(t, i)
  <2>1. Is(t, "CJNE", <<"R", "#1", "r2">>, 3) BY <1>12, Zenon DEF Listed
  <2>2. t.mnemonic \in Tests \ Jumps /\ t.length = 3 /\ Final(t) = "r2" /\ FlagsOf(t.mnemonic) = {7}
    <3>1. t.mnemonic = "CJNE" /\ t.operands = <<"R", "#1", "r2">> /\ t.length = 3 BY <2>1, Zenon DEF Is
    <3>2. "CJNE" \in Tests /\ "CJNE" \notin Jumps BY SMT DEF Jumps, Tests
    <3>3. FlagsOf("CJNE") = {7} BY SMT DEF FlagsOf
    <3>4. Final(t) = "r2" /\ t.operands[1] = "R" BY <3>1, FinalOfThree
    <3> QED BY <3>1, <3>2, <3>3, <3>4, Zenon
  <2>3. Keeps(Compared(m, Rx(m, i), i.o1), m, {}, {7}) BY ComparedKeeps
  <2> QED BY <2>2, <1>12, <2>3, Operands, TestBranchFits
<1>13. ASSUME h = "xch_a_rx", Ends(SetRx(SetA(m, Rx(m, i)), i, A(m)), 1, 0)
      PROVE  Done(t, i)
  <2>1. Is(t, "XCH", <<"A", "R">>, 1) BY <1>13, Zenon DEF Listed
  <2>2. t.mnemonic = "XCH" /\ t.length = 1 /\ Straight(t)
        /\ FlagsOf(t.mnemonic) = {} /\ t.operands[1] # "b1"
    <3>1. t.mnemonic = "XCH" /\ t.operands = <<"A", "R">> /\ t.length = 1 BY <2>1, Zenon DEF Is
    <3>2. "XCH" \notin Returns \cup Jumps /\ "XCH" \in Unflagged
      BY SMT DEF Calls, Jumps, Returns, Tests, Unflagged
    <3>3. FlagsOf("XCH") = {} BY <3>2, UnflaggedFlags
    <3>4. Final(t) = "R" /\ t.operands[1] = "A" BY <3>1, FinalOfTwo
    <3>5. "R" \notin Targets BY SMT DEF Targets
    <3>6. "A" # "b1" BY SMT
    <3> QED BY <3>1, <3>2, <3>3, <3>4, <3>5, <3>6, Zenon DEF Straight
  <2> DEFINE c == SetA(m, Rx(m, i))
  <2>3. Keeps(c, m, Direct(ACC), {}) /\ \A x : x # ACC => Sfr(c, x) = Sfr(m, x) BY Operands, SetAKeeps
  <2> HIDE DEF c
  <2>4. Keeps(SetRx(c, i, A(m)), c, Direct(RxAddress(c, i)), {}) BY <2>3, Operands, GoodTyped, SetRxKeeps
  <2>5. PSW # ACC BY SMT DEF PSW, ACC
  <2>6. RxAddress(c, i) = RxAddress(m, i) BY <2>3, <2>5, Zenon DEF RxAddress, Bank
  <2>7. Keeps(SetRx(c, i, A(m)), m, Direct(ACC) \cup Direct(RxAddress(m, i)), {})
    BY <2>3, <2>4, <2>6, InTwo
  <2>8. Keeps(SetRx(SetA(m, Rx(m, i)), i, A(m)), m, Direct(ACC) \cup Direct(RxAddress(m, i)), {})
    BY <2>7, Zenon DEF c
  <2>9. t.mnemonic \in Swaps /\ t.operands = <<"A", "R">> BY <2>1, Zenon DEF Is, Swaps
  <2>10. Destinations(t, i) = Direct(ACC) \cup Direct(RxAddress(m, i)) BY <2>9, SwappedBytes, Zenon
  <2>11. Keeps(SetRx(SetA(m, Rx(m, i)), i, A(m)), m, Destinations(t, i), {}) BY <2>8, <2>10
  <2> QED BY <2>2, <1>13, <2>11, MovesFits
<1>14. ASSUME h = "djnz_rx_offset",
             Branches(SetRx(m, i, B8(Rx(m, i) - 1)), B8(Rx(m, i) - 1) # 0, i.o1, 2)
      PROVE  Done(t, i)
  <2>1. Is(t, "DJNZ", <<"R", "r1">>, 2) BY <1>14, Zenon DEF Listed
  <2>2. Ordinary(t, "R", {}, 2) /\ Final(t) = "r1"
    BY <2>1, UsualPair, SMT DEF Usual, Targets
  <2>3. B8(Rx(m, i) - 1) \in Byte BY Operands, Values, Zenon
  <2>4. Keeps(SetRx(m, i, B8(Rx(m, i) - 1)), m, Direct(RxAddress(m, i)), {})
    BY <2>3, Operands, SetRxKeeps
  <2>5. Named("R", i, t.mnemonic = "MOVX") = Direct(RxAddress(m, i)) BY <2>2, <1>14, NamedBytes
  <2>6. Keeps(SetRx(m, i, B8(Rx(m, i) - 1)), m, Named("R", i, t.mnemonic = "MOVX"), {}) BY <2>4, <2>5
  <2> QED BY <2>2, <1>14, <2>6, Operands, OrdinaryBranchFits
<1>15. ASSUME h = "mov_a_rx", Ends(SetA(m, Rx(m, i)), 1, 0)
      PROVE  Done(t, i)
  <2>1. Is(t, "MOV", <<"A", "R">>, 1) BY <1>15, Zenon DEF Listed
  <2>2. Ordinary(t, "A", {}, 1) /\ Straight(t)
    BY <2>1, UsualPair, SMT DEF Usual, Targets
  <2>3. Rx(m, i) \in Byte BY Operands, Values, Zenon
  <2> QED BY <2>2, <1>15, <2>3, StoresA
<1>16. ASSUME h = "mov_rx_a", Ends(SetRx(m, i, A(m)), 1, 0)
      PROVE  Done(t, i)
  <2>1. Is(t, "MOV", <<"R", "A">>, 1) BY <1>16, Zenon DEF Listed
  <2>2. Ordinary(t, "R", {}, 1) /\ Straight(t)
    BY <2>1, UsualPair, SMT DEF Usual, Targets
  <2>3. A(m) \in Byte BY Operands, Values, Zenon
  <2> QED BY <2>2, <1>16, <2>3, Operands, StoresRx
<1> QED BY <1>1, <1>2, <1>3, <1>4, <1>5, <1>6, <1>7, <1>8, <1>9, <1>10, <1>11, <1>12, <1>13, <1>14,
     <1>15, <1>16, Zenon DEF OpsRx

\* Whatever handler the dispatcher picks does what the disassembler prints.
LEMMA HandleFits ==
  ASSUME Good(m), NEW h, NEW t, NEW i \in Instruction, Listed(h, t), Handle(h, i)
  PROVE  Done(t, i)
<1>1. \/ Ops0(h, i) \/ Ops1(h, i) \/ Ops2(h, i) \/ Ops3(h, i) \/ Ops4(h, i) \/ Ops5(h, i)
      \/ Ops6(h, i) \/ Ops7(h, i) \/ Ops8(h, i) \/ Ops9(h, i) \/ OpsA(h, i) \/ OpsB(h, i)
      \/ OpsC(h, i) \/ OpsD(h, i) \/ OpsE(h, i) \/ OpsF(h, i) \/ OpsRx(h, i)
  BY Zenon DEF Handle
<1> QED BY <1>1, Ops0Fits, Ops1Fits, Ops2Fits, Ops3Fits, Ops4Fits, Ops5Fits, Ops6Fits, Ops7Fits,
     Ops8Fits,
          Ops9Fits, OpsAFits, OpsBFits, OpsCFits, OpsDFits, OpsEFits, OpsFFits, OpsRxFits

-----------------------------------------------------------------------------
(* The invariant: the machine is Good, and the stack still holds the       *)
(* return address of every frame that nothing disturbed.                   *)

Framed(c, f) ==
  /\ f.at \in Byte /\ f.return \in Word
  /\ ReadIndir(c, f.at) = f.return % 256
  /\ ReadIndir(c, B8(f.at + 1)) = f.return \div 256

Inv ==
  /\ Good(m)
  /\ cycles \in {0, 2, 4} /\ step \in 0 .. Len(Menu)
  /\ \A f \in frames : Framed(m, f)

\* The registers of the ports lie apart, and apart from the core's.
LEMMA PortsApart ==
  \A p, q \in Port : PortAt[p] # Mode1At[q] /\ PortAt[p] # Mode0At[q] /\ PortAt[p] \in Byte
<1>1. \A p \in Port : p = 1 \/ p = 2 \/ p = 3 \/ p = 4 \/ p = 5 \/ p = 6 BY SMT DEF Port
<1>2. /\ PortAt[1] = 128 /\ PortAt[2] = 144 /\ PortAt[3] = 160 /\ PortAt[4] = 176 /\ PortAt[5] = 192 /\ PortAt[6] = 200
      /\ Mode1At[1] = 147 /\ Mode1At[2] = 145 /\ Mode1At[3] = 149 /\ Mode1At[4] = 177 /\ Mode1At[5] = 179 /\ Mode1At[6] = 201
      /\ Mode0At[1] = 148 /\ Mode0At[2] = 146 /\ Mode0At[3] = 150 /\ Mode0At[4] = 178 /\ Mode0At[5] = 180 /\ Mode0At[6] = 202
  BY SMT DEF PortAt, Mode1At, Mode0At
<1> QED BY <1>1, <1>2, SMT DEF Byte

\* What reset leaves, whatever Start puts into the core's registers.
LEMMA InitInv == Init => Inv
<1> SUFFICES ASSUME Init PROVE Inv OBVIOUS
<1> DEFINE ports == [p \in Port |-> [drive |-> 255, m1 |-> 0, m0 |-> 0]]
           high == [a \in {PortAt[p] : p \in Port} |-> 255]
           regs(s) == Put(Put(Put(Put(high, ACC, s.acc), B, s.b), PSW, s.psw), SP, s.sp)
<1>1. PICK s \in Start, level \in Pins :
        m = [pc |-> s.pc, low |-> <<>>, up |-> <<>>, sfr |-> regs(s), xdata |-> <<>>,
             ext |-> level, shadow |-> ports, board |-> ports, raised |-> {}]
  BY Zenon DEF Init
<1>2. s.acc \in Byte /\ s.b \in Byte /\ s.psw \in Byte /\ s.sp \in Byte /\ s.pc \in Word
  BY <1>1, MenuAssumption
<1>3. \A p \in Port : PortAt[p] \in Sfrs BY OnePort
<1>4. 255 \in Byte /\ 0 \in Byte BY SMT DEF Byte
<1>5. high \in Mem(Sfrs)
  <2>1. {PortAt[p] : p \in Port} \in SUBSET Sfrs BY <1>3
  <2>2. high \in [{PortAt[p] : p \in Port} -> Byte] BY <1>4
  <2> QED BY <2>1, <2>2 DEF Mem
<1>6. \A p \in Port : At(high, PortAt[p]) = 255 BY Zenon DEF At
<1>7. \A p \in Port : At(high, Mode1At[p]) = 0 /\ At(high, Mode0At[p]) = 0
  <2>1. \A p \in Port : Mode1At[p] \notin DOMAIN high /\ Mode0At[p] \notin DOMAIN high BY PortsApart
  <2> QED BY <2>1, Zenon DEF At
<1> HIDE DEF high
<1>8. /\ regs(s) \in Mem(Sfrs)
      /\ \A x : x \notin {ACC, B, PSW, SP} => At(regs(s), x) = At(high, x)
  <2> DEFINE r1 == Put(high, ACC, s.acc)
             r2 == Put(r1, B, s.b)
             r3 == Put(r2, PSW, s.psw)
             r4 == Put(r3, SP, s.sp)
  <2>1. ACC \in Sfrs /\ B \in Sfrs /\ PSW \in Sfrs /\ SP \in Sfrs BY CorePlain DEF Plain
  <2>2. r1 \in Mem(Sfrs) /\ \A x : x # ACC => At(r1, x) = At(high, x) BY <1>2, <1>5, <2>1, PutAt
  <2> HIDE DEF r1
  <2>3. r2 \in Mem(Sfrs) /\ \A x : x # B => At(r2, x) = At(r1, x) BY <1>2, <2>1, <2>2, PutAt
  <2> HIDE DEF r2
  <2>4. r3 \in Mem(Sfrs) /\ \A x : x # PSW => At(r3, x) = At(r2, x) BY <1>2, <2>1, <2>3, PutAt
  <2> HIDE DEF r3
  <2>5. r4 \in Mem(Sfrs) /\ \A x : x # SP => At(r4, x) = At(r3, x) BY <1>2, <2>1, <2>4, PutAt
  <2> HIDE DEF r4
  <2>6. regs(s) = r4 BY Zenon DEF r1, r2, r3, r4
  <2> HIDE DEF regs
  <2> QED BY <2>2, <2>3, <2>4, <2>5, <2>6, Zenon
<1>9. \A p \in Port : /\ PortAt[p] \notin {ACC, B, PSW, SP} /\ Mode1At[p] \notin {ACC, B, PSW, SP}
                      /\ Mode0At[p] \notin {ACC, B, PSW, SP}
  BY CorePlain, Zenon DEF Plain, PortsOf
<1> HIDE DEF regs
<1> DEFINE r == regs(s)
<1>10. \A p \in Port : At(r, PortAt[p]) = 255 /\ At(r, Mode1At[p]) = 0 /\ At(r, Mode0At[p]) = 0
  <2> DEFINE core == {ACC, B, PSW, SP}
  <2>1. \A x : x \notin core => At(r, x) = At(high, x) BY <1>8
  <2>2. \A p \in Port : PortAt[p] \notin core /\ Mode1At[p] \notin core /\ Mode0At[p] \notin core BY <1>9
  <2> HIDE DEF core, r
  <2>3. \A p \in Port : /\ At(r, PortAt[p]) = At(high, PortAt[p]) /\ At(r, Mode1At[p]) = At(high, Mode1At[p])
                         /\ At(r, Mode0At[p]) = At(high, Mode0At[p])
    BY <2>1, <2>2, Zenon
  <2> QED BY <1>6, <1>7, <2>3
<1>11. r \in Mem(Sfrs) BY <1>8
<1> HIDE DEF r
<1>12. m = [pc |-> s.pc, low |-> <<>>, up |-> <<>>, sfr |-> r, xdata |-> <<>>,
            ext |-> level, shadow |-> ports, board |-> ports, raised |-> {}]
  BY <1>1, Zenon DEF r
<1>13. \A p \in Port : Wires(m, p) = [drive |-> 255, m1 |-> 0, m0 |-> 0]
  <2>1. m.sfr = r BY <1>12
  <2> QED BY <1>10, <2>1, Zenon DEF Wires, Sfr
<1>14. ports \in [Port -> Levels] BY <1>4 DEF Levels
<1> DEFINE wires == [drive |-> 255, m1 |-> 0, m0 |-> 0]
<1>15. \A p \in Port : ports[p] = wires OBVIOUS
<1>16. \A p \in Port : Wires(m, p) = wires BY <1>13
<1> HIDE DEF ports, wires
<1>17. m.shadow = ports /\ m.board = ports BY <1>12
<1>18. Told(m) BY <1>15, <1>17, <1>16, Zenon DEF Told
<1>19. m \in Typed
  <2>1. <<>> \in Mem(Lows) /\ <<>> \in Mem(Sfrs) /\ <<>> \in Mem(Word) BY Wiped
  <2> DEFINE none == <<>>
  <2>2. none \in Mem(Lows) /\ none \in Mem(Sfrs) /\ none \in Mem(Word) BY <2>1
  <2>3. m = [pc |-> s.pc, low |-> none, up |-> none, sfr |-> r, xdata |-> none,
             ext |-> level, shadow |-> ports, board |-> ports, raised |-> {}]
    BY <1>12
  <2> HIDE DEF none
  <2> QED BY <1>1, <1>2, <1>11, <1>14, <2>2, <2>3, SMT DEF Typed
<1>20. cycles = 0 /\ step = 0 /\ frames = {} BY DEF Init
<1>21. step \in 0 .. Len(Menu)
  <2>1. Len(Menu) \in Nat BY MenuAssumption
  <2> QED BY <1>20, <2>1, SMT
<1> QED BY <1>18, <1>19, <1>20, <1>21, Zenon DEF Inv, Good

\* A step executes one instruction of the menu, which does what its text says.
LEMMA StepFits ==
  ASSUME Inv, Next
  PROVE  /\ last' \in Instruction /\ Done(Text, last')
         /\ frames' = {f \in frames : /\ FrameBytes(f) \cap Destinations(Text, last') = {}
                                      /\ ~Returning(f, Text)}
                      \cup NewFrames(Text, last')
         /\ step' \in 0 .. Len(Menu)
<1>1. PICK i \in Menu[step + 1] : \E h \in {OpPtr(i.op), DoOp(i.op)} : Execute(h, i) BY DEF Next
<1>2. step \in 0 .. Len(Menu) /\ step < Len(Menu) /\ Len(Menu) \in Nat BY MenuAssumption DEF Inv, Next
<1>3. step + 1 \in 1 .. Len(Menu) /\ step + 1 \in 0 .. Len(Menu) BY <1>2, SMT
<1>4. Menu[step + 1] \in SUBSET Instruction BY <1>3, MenuAssumption DEF Instruction
<1>5. i \in Instruction BY <1>1, <1>4
<1>6. i.op \in Byte BY <1>5 DEF Instruction
<1>7. Execute(OpPtr(i.op), i) BY <1>1, <1>6, DispatchersAgree, Zenon
<1>8. Listed(OpPtr(i.op), Dec(i.op)) BY <1>6, AllListed
<1>9. last' = i /\ step' = step + 1 /\ Handle(OpPtr(i.op), i) BY <1>7, Zenon DEF Execute
<1>10. Text = Dec(i.op) BY <1>9, Zenon DEF Text
<1>11. Done(Dec(i.op), i) BY <1>5, <1>8, <1>9, HandleFits, Zenon DEF Inv
<1>12. frames' = {f \in frames : /\ FrameBytes(f) \cap Destinations(Dec(i.op), i) = {}
                                 /\ ~Returning(f, Dec(i.op))}
                 \cup NewFrames(Dec(i.op), i)
  BY <1>7, Zenon DEF Execute
<1> QED BY <1>3, <1>5, <1>9, <1>10, <1>11, <1>12, Zenon

\* The frame of a call just made.
LEMMA NewFramed ==
  ASSUME Good(m), NEW n, NEW t, NEW i, Fits(n, t, i), NEW f \in NewFrames(t, i)
  PROVE  Framed(n, f)
<1>1. t.mnemonic \in Calls /\ Exists(StackByte(1) \cup StackByte(2)) BY Zenon DEF NewFrames, Calls
<1>2. f = [at |-> B8(Sfr(m, SP) + 1), return |-> Following(t)]
  BY <1>1, Zenon DEF NewFrames, Calls, Following
<1>3. f.at = B8(Sfr(m, SP) + 1) /\ f.return = Following(t) BY <1>2
<1>4. /\ ReadIndir(n, B8(Sfr(m, SP) + 1)) = Following(t) % 256
      /\ ReadIndir(n, B8(Sfr(m, SP) + 2)) = Following(t) \div 256
  BY <1>1, Zenon DEF Fits, Linked
<1>5. Sfr(m, SP) \in Byte BY SfrByte DEF Good
<1>6. B8(Sfr(m, SP) + 1) \in Byte /\ B8(B8(Sfr(m, SP) + 1) + 1) = B8(Sfr(m, SP) + 2)
  BY <1>5, StackSteps
<1>7. Following(t) \in Word BY <1>1, Zenon DEF Fits, Linked
<1> QED BY <1>3, <1>4, <1>6, <1>7, Zenon DEF Framed

\* A frame nothing stored into.
LEMMA KeptFramed ==
  ASSUME NEW n, NEW S, NEW F, Touches(n, m, S, F), NEW f, Framed(m, f), FrameBytes(f) \cap S = {}
  PROVE  Framed(n, f)
<1>1. f.at \in Byte /\ B8(f.at + 1) \in Byte BY StackSteps DEF Framed
<1>2. Indirect(f.at) \cap S = {} /\ Indirect(B8(f.at + 1)) \cap S = {} BY DEF FrameBytes
<1>3. ReadIndir(n, f.at) = ReadIndir(m, f.at) BY <1>1, <1>2, ReadIndirKept
<1>4. ReadIndir(n, B8(f.at + 1)) = ReadIndir(m, B8(f.at + 1)) BY <1>1, <1>2, ReadIndirKept
<1> QED BY <1>3, <1>4, Zenon DEF Framed

\* Every step keeps the invariant.
LEMMA InvStep == Inv /\ [Next]_vars => Inv'
<1> SUFFICES ASSUME Inv, [Next]_vars PROVE Inv' OBVIOUS
<1>1. CASE Next
  <2> DEFINE t == Text
             i == last'
  <2>1. /\ i \in Instruction /\ Done(t, i) /\ step' \in 0 .. Len(Menu)
        /\ frames' = {f \in frames : FrameBytes(f) \cap Destinations(t, i) = {} /\ ~Returning(f, t)}
                     \cup NewFrames(t, i)
    BY <1>1, StepFits
  <2> HIDE DEF t, i
  <2>2. Fits(m', t, i) /\ cycles' \in {0, 2, 4} BY <2>1 DEF Done
  <2>3. Good(m') /\ Touches(m', m, Destinations(t, i), FlagsOf(t.mnemonic) \cup {0}) BY <2>2 DEF Fits
  <2>4. ASSUME NEW f \in frames' PROVE Framed(m', f)
    <3>1. CASE f \in NewFrames(t, i)
      BY <2>2, <3>1, NewFramed DEF Inv
    <3>2. CASE f \in frames /\ FrameBytes(f) \cap Destinations(t, i) = {}
      <4>1. Framed(m, f) BY <3>2 DEF Inv
      <4> QED BY <2>3, <3>2, <4>1, KeptFramed
    <3> QED BY <2>1, <3>1, <3>2
  <2>5. Good(m)' <=> Good(m') BY DEF Good, Told, Typed, Wires, Sfr
  <2> QED BY <2>1, <2>2, <2>3, <2>4, <2>5, Zenon DEF Inv
<1>2. CASE UNCHANGED vars
  BY <1>2, Zenon DEF Inv, vars
<1> QED BY <1>1, <1>2

\* The invariant holds of every reachable state.
LEMMA Invariance == Spec => []Inv
  BY InitInv, InvStep, PTL DEF Spec

-----------------------------------------------------------------------------
(* The theorems.                                                           *)

\* A memory of bytes, as the type invariant states it.
LEMMA MemoryOf == ASSUME NEW s, NEW f \in Mem(s) PROVE Memory(f, s)
<1>1. PICK d \in SUBSET s : f \in [d -> Byte] BY DEF Mem
<1> QED BY <1>1, Zenon DEF Memory

\* Registers and memory hold bytes at addresses that exist, the program counter and every
\* return address 16 bits: no handler of opcodes.c forgets a cast.
THEOREM TypeCorrect == Spec => []TypeOK
<1>1. ASSUME Inv PROVE TypeOK
  <2>1. m \in Typed BY <1>1 DEF Inv, Good
  <2>2. /\ m.pc \in Word /\ m.ext \in Pins /\ m.low \in Mem(Lows) /\ m.up \in Mem(Sfrs) /\ m.sfr \in Mem(Sfrs)
        /\ m.xdata \in Mem(Word) /\ m.shadow \in [Port -> Levels] /\ m.raised \subseteq Exception
    BY <2>1 DEF Typed
  <2>3. /\ Memory(m.low, Lows) /\ Memory(m.up, Sfrs) /\ Memory(m.sfr, Sfrs) /\ Memory(m.xdata, Word)
    BY <2>2, MemoryOf
  <2>4. \A p \in Port : m.shadow[p] \in Levels BY <2>2
  <2>5. cycles \in {0, 2, 4} /\ step \in 0 .. Len(Menu) BY <1>1 DEF Inv
  <2>6. \A f \in frames : f.at \in Byte /\ f.return \in Word BY <1>1, Zenon DEF Inv, Framed
  <2> QED BY <2>2, <2>3, <2>4, <2>5, <2>6, Zenon DEF TypeOK, Lows, Sfrs, Levels, Exception
<1> QED BY <1>1, Invariance, PTL

\* After every instruction the board has been told the drive and the mode of each pin:
\* no handler of opcodes.c stores into a port behind its callback.
THEOREM BoardSeesPinsTheorem == Spec => []BoardSeesPins
<1>1. ASSUME Inv PROVE BoardSeesPins BY <1>1, Zenon DEF Inv, Good, Told, BoardSeesPins
<1> QED BY <1>1, Invariance, PTL

\* An instruction stores only into the bytes its disassembly names or implies, and
\* changes only the flags it is defined to set, and the parity.
THEOREM WritesTheorem == Spec => WritesWhatItNames
<1> DEFINE Only ==
      LET named == Destinations(Text, last')
          psw == <<"sfr", PSW>>
      IN  /\ Changed \subseteq named \cup {psw}
          /\ psw \notin named =>
               \A k \in 0 .. 7 : Bit(Sfr(m, PSW), k) # Bit(Sfr(m', PSW), k)
                                 => k \in FlagsOf(Text.mnemonic) \cup {0}
<1>1. ASSUME Inv, [Next]_vars PROVE [Only]_vars
  <2>1. CASE Next
    <3> DEFINE t == Text
               i == last'
               S == Destinations(t, i)
               F == FlagsOf(t.mnemonic) \cup {0}
    <3>1. Touches(m', m, S, F) BY <1>1, <2>1, StepFits DEF Done, Fits
    <3> HIDE DEF S, F
    <3>2. \A a : At(m'.low, a) = At(m.low, a) \/ <<"low", a>> \in S BY <3>1, Zenon DEF Touches
    <3>3. \A a : At(m'.up, a) = At(m.up, a) \/ <<"up", a>> \in S BY <3>1, Zenon DEF Touches
    <3>4. \A a : a = PSW \/ At(m'.sfr, a) = At(m.sfr, a) \/ <<"sfr", a>> \in S
      BY <3>1, Zenon DEF Touches, Sfr
    <3>5. \/ <<"sfr", PSW>> \in S
          \/ \A k \in Place : k \in F \/ Bit(Sfr(m', PSW), k) = Bit(Sfr(m, PSW), k)
      BY <3>1, Zenon DEF Touches
    <3>6. Changed \subseteq S \cup {<<"sfr", PSW>>}
      <4>1. \A x \in Changed : \E a : \/ x = <<"low", a>> /\ At(m'.low, a) # At(m.low, a)
                                      \/ x = <<"up", a>> /\ At(m'.up, a) # At(m.up, a)
                                      \/ x = <<"sfr", a>> /\ At(m'.sfr, a) # At(m.sfr, a)
        BY Zenon DEF Changed
      <4> QED BY <3>2, <3>3, <3>4, <4>1, Zenon
    <3>7. <<"sfr", PSW>> \notin S =>
            \A k \in 0 .. 7 : Bit(Sfr(m, PSW), k) # Bit(Sfr(m', PSW), k) => k \in F
      BY <3>5, Zenon DEF Place
    <3> QED BY <3>6, <3>7, Zenon DEF S, F
  <2>2. CASE UNCHANGED vars BY <2>2
  <2> QED BY <1>1, <2>1, <2>2
<1> QED BY <1>1, Invariance, PTL DEF Spec, WritesWhatItNames

\* Control goes where the disassembly says: to the next instruction by the length disasm.c
\* gives, or to the target it prints.
THEOREM GoesTheorem == Spec => GoesWhereItSays
<1> DEFINE Says ==
      LET t == Text
          i == last'
          next == W16(m.pc + t.length)
          final == IF t.operands = <<>> THEN "" ELSE t.operands[Len(t.operands)]
      IN  CASE t.mnemonic \in {"RET", "RETI"} -> TRUE
            [] t.mnemonic = "SJMP"   -> m'.pc = W16(next + Signed(i.o1))
            [] final = "r1" /\ t.mnemonic # "SJMP" -> m'.pc \in {next, W16(next + Signed(i.o1))}
            [] final = "r2"          -> m'.pc \in {next, W16(next + Signed(i.o2))}
            [] final = "a11"         -> m'.pc = Address11(m.pc, i.op, i.o1)
            [] final = "a16"         -> m'.pc = Address16(i.o1, i.o2)
            [] t.mnemonic = "JMP"    -> m'.pc = W16(DPTR(m) + A(m))
            [] OTHER                 -> m'.pc = next
<1>1. ASSUME Inv, [Next]_vars PROVE [Says]_vars
  <2>1. CASE Next
    <3>1. Control(m', Text, last') BY <1>1, <2>1, StepFits DEF Done, Fits
    <3>2. Says BY <3>1 DEF Control, Final, Following
    <3> QED BY <3>2
  <2>2. CASE UNCHANGED vars BY <2>2
  <2> QED BY <1>1, <2>1, <2>2
<1> QED BY <1>1, Invariance, PTL DEF Spec, GoesWhereItSays

\* Carry, overflow and result make the integer result, for every operand.
THEOREM ArithmeticTheorem == Spec => ArithmeticExact
<1> DEFINE Right ==
      LET t == Text
          mn == t.mnemonic
          a == A(m)
          b == Sfr(m, B)
          c == IF mn = "ADD" THEN 0 ELSE Carry(m)
          overflow == Bit(Sfr(m', PSW), 2) = 1
      IN  /\ mn \in {"ADD", "ADDC"} =>
               LET v == Operand(t.operands[2], last') IN
               /\ A(m') + 256 * Carry(m') = a + v + c
               /\ overflow <=> Signed(a) + Signed(v) + c \notin -128 .. 127
          /\ mn = "SUBB" =>
               LET v == Operand(t.operands[2], last') IN
               /\ A(m') - 256 * Carry(m') = a - v - c
               /\ overflow <=> Signed(a) - Signed(v) - c \notin -128 .. 127
          /\ mn = "MUL" => /\ A(m') + 256 * Sfr(m', B) = a * b
                           /\ overflow <=> a * b > 255
          /\ mn = "DIV" => /\ overflow <=> b = 0
                           /\ b # 0 => a = A(m') * b + Sfr(m', B) /\ Sfr(m', B) < b
<1>1. ASSUME Inv, [Next]_vars PROVE [Right]_vars
  <2>1. CASE Next
    <3>1. Exact(m', Text, last') BY <1>1, <2>1, StepFits DEF Done, Fits
    <3>2. Right BY <3>1, Zenon DEF Exact, Result
    <3> QED BY <3>2
  <2>2. CASE UNCHANGED vars BY <2>2
  <2> QED BY <1>1, <2>1, <2>2
<1> QED BY <1>1, Invariance, PTL DEF Spec, ArithmeticExact

\* A bit instruction on a port changes one bit of the latch, whatever the pins show.
THEOREM BitOpsTheorem == Spec => BitOpsKeepLatch
<1> DEFINE Kept ==
      \A p \in Port :
        (/\ Text.operands # <<>> /\ Text.operands[1] = "b1"
         /\ BitByte(last'.o1) = PortAt[p])
        => \A k \in 0 .. 7 \ {last'.o1 % 8} :
             Bit(Sfr(m', PortAt[p]), k) = Bit(Sfr(m, PortAt[p]), k)
<1>1. ASSUME Inv, [Next]_vars PROVE [Kept]_vars
  <2>1. CASE Next
    <3>1. Latched(m', Text, last') BY <1>1, <2>1, StepFits DEF Done, Fits
    <3>2. Kept BY <3>1, Zenon DEF Latched, Place
    <3> QED BY <3>2
  <2>2. CASE UNCHANGED vars BY <2>2
  <2> QED BY <1>1, <2>1, <2>2
<1> QED BY <1>1, Invariance, PTL DEF Spec, BitOpsKeepLatch

\* A RET or RETI on a frame nothing stored into goes to the instruction after its CALL.
THEOREM ReturnsTheorem == Spec => ReturnsHome
<1>1. ASSUME Inv, [Next]_vars PROVE [\A f \in frames : Returning(f, Text) => m'.pc = f.return]_vars
  <2>1. CASE Next
    <3> SUFFICES ASSUME NEW f \in frames, Returning(f, Text) PROVE m'.pc = f.return OBVIOUS
    <3> DEFINE s == Sfr(m, SP)
    <3>1. Text.mnemonic \in Returns /\ f.at = B8(s - 1) BY Zenon DEF Returning, Returns
    <3>2. Linked(m', Text) BY <1>1, <2>1, StepFits DEF Done, Fits
    <3>3. m'.pc = Top(m) * 256 + Top(Pop(m)) BY <3>1, <3>2, Zenon DEF Linked, ReturnAddress
    <3>4. Good(m) /\ Framed(m, f) BY <1>1 DEF Inv
    <3>5. s \in Byte BY <3>4, SfrByte DEF Good
    <3>6. B8(f.at + 1) = s BY <3>1, <3>5, StackSteps
    <3>7. Top(m) = f.return \div 256 BY <3>4, <3>6, Zenon DEF Top, Framed
    <3>8. Sfr(Pop(m), SP) = B8(s - 1) /\ Pop(m).low = m.low /\ Pop(m).up = m.up BY <3>4, PopKeeps
    <3>9. Top(Pop(m)) = ReadIndir(m, B8(s - 1)) BY <3>8, Zenon DEF Top, ReadIndir
    <3>10. Top(Pop(m)) = f.return % 256 BY <3>1, <3>4, <3>9, Zenon DEF Framed
    <3>11. f.return \in Nat
      <4>1. f.return \in Word BY <3>4 DEF Framed
      <4> QED BY <4>1, Wraps, Zenon
    <3>12. (f.return \div 256) * 256 + (f.return % 256) = f.return BY <3>11, SMT
    <3> QED BY <3>3, <3>7, <3>10, <3>12, Zenon
  <2>2. CASE UNCHANGED vars BY <2>2
  <2> QED BY <1>1, <2>1, <2>2
<1> QED BY <1>1, Invariance, PTL DEF Spec, ReturnsHome
=============================================================================

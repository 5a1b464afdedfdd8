--------------------------- MODULE PipelineProofs ---------------------------
(* Proofs about Pipeline, for every program, every size of a byte and of the *)
(* register file, and all latencies of the caches.                           *)
EXTENDS PipelineInvariant, FiniteSetTheorems, WellFoundedInduction, TLAPS

-----------------------------------------------------------------------------
(* The arithmetic of Alu stays within words and bytes, for every size of a   *)
(* byte.  Bit patterns are built one bit after the other, so the argument    *)
(* needs an induction: SetInduction, from the least-number principle.        *)

LEMMA LeastNumber ==
    ASSUME NEW T, T \subseteq Nat, T # {}
    PROVE  \E x \in T : \A y \in T : x <= y
<1> DEFINE R == OpToRel(<, Nat)
<1>1. IsWellFoundedOn(R, Nat)
    BY NatLessThanWellFounded
<1>2. \A x, y \in Nat : <<y, x>> \in R <=> y < x
    BY DEF OpToRel
<1> HIDE DEF R
<1>3. PICK x \in T : \A y \in T : ~(<<y, x>> \in R)
    BY <1>1, WFMin
<1>4. ASSUME NEW y \in T
      PROVE  x <= y
    <2>1. x \in Nat /\ y \in Nat /\ ~(<<y, x>> \in R)
        BY <1>3
    <2> QED
        BY <2>1, <1>2
<1> QED
    BY <1>4

LEMMA SetInduction ==
    ASSUME NEW N \in Nat, NEW S, 0 \in S,
           \A n \in 0 .. (N - 1) : n \in S => n + 1 \in S
    PROVE  0 .. N \subseteq S
<1> SUFFICES ASSUME ~(0 .. N \subseteq S)
             PROVE  FALSE
    OBVIOUS
<1> DEFINE T == {n \in 0 .. N : n \notin S}
<1>1. PICK x \in T : \A y \in T : x <= y
    <2>1. T \subseteq Nat /\ T # {}
        OBVIOUS
    <2> HIDE DEF T
    <2> QED
        BY <2>1, LeastNumber
<1>2. x - 1 \in 0 .. (N - 1) /\ x - 1 \notin T
    BY <1>1
<1>3. x - 1 \in S
    BY <1>2
<1> QED
    BY <1>2, <1>3, <1>1

-----------------------------------------------------------------------------
(* Products, quotients and remainders. *)

LEMMA ProductMonotone ==
    ASSUME NEW a \in Nat, NEW b \in Nat, NEW c \in Nat, a <= b
    PROVE  a * c <= b * c
OBVIOUS

LEMMA Digits ==
    ASSUME NEW b \in Nat \ {0}, NEW c \in Nat \ {0},
           NEW x \in 0 .. (b - 1), NEW y \in 0 .. (c - 1)
    PROVE  x + y * b \in 0 .. (b * c - 1)
<1>1. y * b \in Nat /\ y * b <= (c - 1) * b
    BY ProductMonotone
<1>2. (c - 1) * b = b * c - b
    OBVIOUS
<1> QED
    BY <1>1, <1>2

LEMMA QuotientBound ==
    ASSUME NEW a \in Nat, NEW b \in Nat \ {0}
    PROVE  a \div b \in 0 .. a
OBVIOUS

LEMMA QuotientUnique ==
    ASSUME NEW a \in Int, NEW b \in Nat \ {0}, NEW q \in Int, NEW r \in 0 .. (b - 1),
           a = b * q + r
    PROVE  a \div b = q
OBVIOUS

LEMMA QuotientShift ==
    ASSUME NEW x \in Nat, NEW b \in Nat \ {0}, NEW m \in Nat
    PROVE  (x + b * m) \div b = x \div b + m
<1> DEFINE q == x \div b
           r == x % b
<1>1. q \in Nat /\ r \in 0 .. (b - 1) /\ x = b * q + r
    OBVIOUS
<1> HIDE DEF q, r
<1>2. x + b * m \in Int /\ q + m \in Int /\ b * (q + m) = b * q + b * m
    BY <1>1
<1>3. x + b * m = b * (q + m) + r
    BY <1>1, <1>2
<1>4. (x + b * m) \div b = q + m
    BY <1>1, <1>2, <1>3, QuotientUnique
<1> QED
    BY <1>4 DEF q

-----------------------------------------------------------------------------
(* Powers of two, up to a word. *)

LEMMA WordBitsType == WordBits \in Nat /\ ByteBits \in Nat /\ ByteBits >= 1
BY InstructionAssumption DEF WordBits

LEMMA PowerType == ASSUME NEW n \in 0 .. WordBits PROVE 2 ^ n \in Nat \ {0}
BY PowerAssumption

LEMMA PowerSum ==
    ASSUME NEW m \in Nat, NEW n \in Nat, m + n <= WordBits
    PROVE  2 ^ (m + n) = 2 ^ m * 2 ^ n
BY PowerAssumption, WordBitsType

LEMMA PowerOne == 2 ^ 1 = 2
OBVIOUS

LEMMA PowerNext ==
    ASSUME NEW n \in 0 .. (WordBits - 1)
    PROVE  2 ^ (n + 1) = 2 * 2 ^ n
<1>1. n \in Nat /\ 1 \in Nat /\ n + 1 <= WordBits /\ n \in 0 .. WordBits
    BY WordBitsType
<1>2. 2 ^ (n + 1) = 2 ^ n * 2 ^ 1
    BY <1>1, PowerSum
<1>3. 2 ^ n \in Nat
    BY <1>1, PowerType
<1> QED
    BY <1>2, <1>3, PowerOne

(* Every pattern of bits is a number, built from its lowest bit on. *)
LEMMA BitsExist ==
    ASSUME NEW ks, ks \subseteq BitIndices
    PROVE  \E x \in Word : \A k \in BitIndices : Bit(x, k) = 1 <=> k \in ks
<1> DEFINE Pattern(n, js, x) == \A k \in 0 .. (n - 1) : Bit(x, k) = 1 <=> k \in js
           S == {n \in 0 .. WordBits :
                    \A js \in SUBSET (0 .. (n - 1)) : \E x \in 0 .. (2 ^ n - 1) : Pattern(n, js, x)}
<1> USE WordBitsType
<1>1. 0 \in S
    <2>1. 2 ^ 0 = 1
        OBVIOUS
    <2>2. 0 \in 0 .. (2 ^ 0 - 1)
        BY <2>1
    <2>3. \A js : Pattern(0, js, 0)
        OBVIOUS
    <2> QED
        BY <2>2, <2>3
<1>2. ASSUME NEW n \in 0 .. (WordBits - 1), n \in S
      PROVE  n + 1 \in S
    <2> SUFFICES ASSUME NEW js \in SUBSET (0 .. n)
                 PROVE  \E x \in 0 .. (2 ^ (n + 1) - 1) : Pattern(n + 1, js, x)
        OBVIOUS
    <2>1. PICK x \in 0 .. (2 ^ n - 1) : Pattern(n, js \ {n}, x)
        <3>1. js \ {n} \in SUBSET (0 .. (n - 1))
            OBVIOUS
        <3> QED
            BY <3>1, <1>2
    <2>2. /\ 2 ^ n \in Nat \ {0}
          /\ 2 ^ (n + 1) = 2 * 2 ^ n
        BY PowerType, PowerNext
    <2> DEFINE y == IF n \in js THEN x + 2 ^ n ELSE x
    <2>3. y \in 0 .. (2 ^ (n + 1) - 1)
        BY <2>2
    <2>4. Bit(y, n) = 1 <=> n \in js
        <3>1. x \div 2 ^ n = 0
            BY <2>2, QuotientUnique
        <3>2. (x + 2 ^ n * 1) \div 2 ^ n = 0 + 1
            BY <2>2, <3>1, QuotientShift
        <3>3. x + 2 ^ n * 1 = x + 2 ^ n
            BY <2>2
        <3> QED
            BY <3>1, <3>2, <3>3 DEF Bit
    <2>5. ASSUME NEW k \in 0 .. (n - 1)
          PROVE  Bit(y, k) = 1 <=> k \in js
        <3> DEFINE m == 2 ^ (n - k - 1)
        <3>1. /\ 2 ^ k \in Nat \ {0}
              /\ m \in Nat \ {0}
              /\ 2 ^ (n - k) = 2 * m
            <4>1. n - k - 1 \in 0 .. (WordBits - 1) /\ (n - k - 1) + 1 = n - k
                OBVIOUS
            <4> QED
                BY <4>1, PowerType, PowerNext
        <3>2. 2 ^ n = 2 ^ k * (2 * m)
            <4>1. k \in Nat /\ n - k \in Nat /\ k + (n - k) = n
                OBVIOUS
            <4>2. 2 ^ (k + (n - k)) = 2 ^ k * 2 ^ (n - k)
                BY <4>1, PowerSum
            <4> QED
                BY <3>1, <4>1, <4>2
        <3> HIDE DEF m
        <3>3. (x + 2 ^ n) \div 2 ^ k = x \div 2 ^ k + 2 * m
            <4>1. x \in Nat /\ 2 * m \in Nat
                BY <2>2, <3>1
            <4>2. (x + 2 ^ k * (2 * m)) \div 2 ^ k = x \div 2 ^ k + 2 * m
                BY <3>1, <4>1, QuotientShift
            <4> QED
                BY <3>2, <4>2
        <3>4. x \div 2 ^ k \in Nat
            BY <3>1, QuotientBound
        <3>5. Bit(x + 2 ^ n, k) = Bit(x, k)
            BY <3>1, <3>3, <3>4 DEF Bit
        <3>6. Bit(x, k) = 1 <=> k \in js \ {n}
            BY <2>1
        <3> QED
            BY <3>5, <3>6
    <2>6. Pattern(n + 1, js, y)
        BY <2>4, <2>5
    <2> QED
        BY <2>3, <2>6
<1>3. WordBits \in S
    <2> HIDE DEF S
    <2> QED
        BY <1>1, <1>2, SetInduction
<1> QED
    BY <1>3 DEF BitIndices, Word

LEMMA FromBitsType ==
    ASSUME NEW ks, ks \subseteq BitIndices
    PROVE  FromBits(ks) \in Word
BY BitsExist DEF FromBits

-----------------------------------------------------------------------------
LEMMA WordFacts ==
    /\ 2 ^ WordBits \in Nat \ {0}
    /\ 2 ^ WordBits = 2 * 2 ^ (WordBits - 1)
    /\ 2 ^ (WordBits - 1) \in Nat \ {0}
    /\ 0 \in Word /\ 1 \in Word /\ AllOnes \in Word
    /\ Word \subseteq Nat
<1>1. 2 ^ WordBits \in Nat \ {0} /\ 2 ^ (WordBits - 1) \in Nat \ {0}
    BY PowerType, WordBitsType, InstructionAssumption DEF WordBits
<1>2. 2 ^ WordBits = 2 * 2 ^ (WordBits - 1)
    <2>1. WordBits - 1 \in 0 .. (WordBits - 1) /\ (WordBits - 1) + 1 = WordBits
        BY WordBitsType DEF WordBits
    <2> QED
        BY <2>1, PowerNext
<1>3. 2 ^ WordBits >= 2
    BY <1>1, <1>2
<1> QED
    BY <1>1, <1>2, <1>3 DEF Word, AllOnes

LEMMA ToWordType == ASSUME NEW n \in Int PROVE ToWord(n) \in Word
BY WordFacts DEF ToWord, Word

LEMMA SignedType ==
    ASSUME NEW x \in Word
    PROVE  Signed(x) \in Int /\ (x # 0 => Signed(x) # 0)
BY WordFacts DEF Signed, Word

LEMMA ShiftType ==
    ASSUME NEW x \in Word
    PROVE  Shift(x) \in 0 .. (WordBits - 1) /\ 2 ^ Shift(x) \in Nat \ {0}
<1>1. Shift(x) \in 0 .. (WordBits - 1)
    BY WordFacts, WordBitsType DEF Shift, WordBits
<1> QED
    BY <1>1, PowerType, WordBitsType

LEMMA SignedQuotient ==
    ASSUME NEW m \in Int, NEW n \in Int, n # 0
    PROVE  Quot(m, n) \in Int /\ RemOf(m, n) \in Int
<1>1. Abs(m) \in Nat /\ Abs(n) \in Nat \ {0}
    BY DEF Abs
<1>2. Abs(m) \div Abs(n) \in Int /\ Abs(m) % Abs(n) \in Int
    BY <1>1
<1> QED
    BY <1>2 DEF Quot, RemOf

(* What EXE computes of two words is a word, whatever the operation, its     *)
(* signs and its shift: no addition, shift, product or quotient leaves the   *)
(* 32 bits of the register it is written to.                                 *)
THEOREM AluResultIsWord ==
    ASSUME NEW type \in OpInsts, NEW op1 \in Word, NEW op2 \in Word
    PROVE  AluResult(type, op1, op2) \in Word
<1> DEFINE s1 == Signed(op1)
           s2 == Signed(op2)
           p == 2 ^ Shift(op2)
           w == 2 ^ WordBits
<1>1. op1 \in Nat /\ op2 \in Nat /\ s1 \in Int /\ s2 \in Int /\ (op2 # 0 => s2 # 0)
    BY WordFacts, SignedType
<1>2. p \in Nat \ {0} /\ w \in Nat \ {0}
    BY WordFacts, ShiftType
<1>3. FromBits({k \in BitIndices : Bit(op1, k) # Bit(op2, k)}) \in Word
    BY FromBitsType
<1>4. FromBits({k \in BitIndices : Bit(op1, k) = 1 \/ Bit(op2, k) = 1}) \in Word
    BY FromBitsType
<1>5. FromBits({k \in BitIndices : Bit(op1, k) = 1 /\ Bit(op2, k) = 1}) \in Word
    BY FromBitsType
<1>6. /\ ToWord(op1 + op2) \in Word /\ ToWord(op1 - op2) \in Word
      /\ ToWord(op1 * p) \in Word /\ ToWord(s1 * s2) \in Word
    <2>1. op1 + op2 \in Int /\ op1 - op2 \in Int /\ op1 * p \in Int /\ s1 * s2 \in Int
        BY <1>1, <1>2
    <2> QED
        BY <2>1, ToWordType
<1>7. op1 \div p \in Word
    BY <1>1, <1>2, QuotientBound, WordFacts DEF Word
<1>8. /\ ToWord(s1 \div p) \in Word
      /\ ToWord((s1 * s2) \div w) \in Word
      /\ ToWord((op1 * op2) \div w) \in Word
      /\ ToWord((s1 * op2) \div w) \in Word
    <2>1. s1 * s2 \in Int /\ op1 * op2 \in Int /\ s1 * op2 \in Int
        BY <1>1
    <2>2. /\ s1 \div p \in Int /\ (s1 * s2) \div w \in Int
          /\ (op1 * op2) \div w \in Int /\ (s1 * op2) \div w \in Int
        BY <1>1, <1>2, <2>1
    <2> QED
        BY <2>2, ToWordType
<1>9. op2 # 0 => ToWord(Quot(s1, s2)) \in Word /\ ToWord(RemOf(s1, s2)) \in Word
    BY <1>1, SignedQuotient, ToWordType
<1>10. op2 # 0 => op1 \div op2 \in Word /\ op1 % op2 \in Word
    <2> SUFFICES ASSUME op2 # 0
                 PROVE  op1 \div op2 \in Word /\ op1 % op2 \in Word
        OBVIOUS
    <2>1. op1 \div op2 \in 0 .. op1
        BY <1>1, QuotientBound
    <2>2. op1 % op2 \in 0 .. (op2 - 1)
        BY <1>1
    <2> QED
        BY <1>1, <2>1, <2>2, WordFacts DEF Word
<1>11. 0 \in Word /\ 1 \in Word /\ AllOnes \in Word
    BY WordFacts
<1> QED
    BY <1>3, <1>4, <1>5, <1>6, <1>7, <1>8, <1>9, <1>10, <1>11 DEF AluResult, OpInsts

-----------------------------------------------------------------------------
(* Bytes in memory.  b is the number of bytes, 2 ^ ByteBits. *)

LEMMA BytePowers ==
    LET b == 2 ^ ByteBits
        h == 2 ^ (ByteBits * 2)
    IN  /\ b \in Nat \ {0} /\ h \in Nat \ {0}
        /\ ByteBits * 0 = 0 /\ 2 ^ (ByteBits * 0) = 1
        /\ ByteBits * 1 = ByteBits /\ 2 ^ (ByteBits * 1) = b
        /\ h = b * b
        /\ 2 ^ (ByteBits * 3) = h * b
        /\ 2 ^ (ByteBits * 4) = h * h
        /\ ByteBits * 4 = WordBits
<1> DEFINE B == ByteBits
<1>1. /\ B \in Nat /\ WordBits \in Nat
      /\ B * 0 = 0 /\ B * 1 = B /\ B * 2 = B + B /\ B * 3 = B * 2 + B /\ B * 4 = B * 2 + B * 2
      /\ B * 4 = WordBits
      /\ B * 2 \in Nat
      /\ B + B <= WordBits /\ B * 2 + B <= WordBits /\ B * 2 + B * 2 <= WordBits
      /\ B \in 0 .. WordBits /\ B * 2 \in 0 .. WordBits
    BY WordBitsType DEF WordBits
<1>2. 2 ^ (B + B) = 2 ^ B * 2 ^ B
    BY <1>1, PowerSum
<1>3. 2 ^ (B * 2 + B) = 2 ^ (B * 2) * 2 ^ B
    BY <1>1, PowerSum
<1>4. 2 ^ (B * 2 + B * 2) = 2 ^ (B * 2) * 2 ^ (B * 2)
    BY <1>1, PowerSum
<1>5. 2 ^ B \in Nat \ {0} /\ 2 ^ (B * 2) \in Nat \ {0}
    BY <1>1, PowerType
<1>6. 2 ^ 0 = 1
    OBVIOUS
<1> QED
    BY <1>1, <1>2, <1>3, <1>4, <1>5, <1>6

LEMMA LittleEndian ==
    ASSUME NEW b \in Nat \ {0}, NEW x1 \in 0 .. (b - 1), NEW x2 \in 0 .. (b - 1),
           NEW x3 \in 0 .. (b - 1), NEW x4 \in 0 .. (b - 1)
    PROVE  /\ x1 + x2 * b \in 0 .. (b * b - 1)
           /\ x1 + x2 * b + x3 * (b * b) + x4 * ((b * b) * b) \in 0 .. ((b * b) * (b * b) - 1)
<1> DEFINE h == b * b
<1>1. h \in Nat \ {0}
    OBVIOUS
<1>2. x1 + x2 * b \in 0 .. (h - 1) /\ x3 + x4 * b \in 0 .. (h - 1)
    BY Digits
<1>3. (x3 + x4 * b) * h = x3 * h + x4 * (h * b)
    OBVIOUS
<1> HIDE DEF h
<1>4. (x1 + x2 * b) + (x3 + x4 * b) * h \in 0 .. (h * h - 1)
    BY <1>1, <1>2, Digits
<1>5. x1 + x2 * b \in Int /\ x3 * h \in Int /\ x4 * (h * b) \in Int
    BY <1>1
<1>6. x1 + x2 * b + x3 * h + x4 * (h * b) \in 0 .. (h * h - 1)
    BY <1>3, <1>4, <1>5
<1> QED
    BY <1>2, <1>6 DEF h

ByteStrings(i) == [1 .. AccessLen(i) -> Byte]

LEMMA LoadedParts ==
    ASSUME NEW i \in Instructions, i.op \in LoadInsts, NEW bytes \in ByteStrings(i)
    PROVE  /\ AccessLen(i) \in {1, 2, 4} /\ Len(bytes) = AccessLen(i)
           /\ \A k \in 1 .. AccessLen(i) : bytes[k] \in Byte
<1>1. AccessLen(i) \in {1, 2, 4}
    BY DEF AccessLen, LoadInsts
<1>2. bytes \in Seq(Byte) /\ Len(bytes) = AccessLen(i)
    BY <1>1 DEF ByteStrings
<1> QED
    BY <1>1, <1>2 DEF ByteStrings

(* The sum of a load's bytes is below the power of two of its bits. *)
LEMMA LoadedSum ==
    ASSUME NEW i \in Instructions, i.op \in LoadInsts, NEW bytes \in ByteStrings(i)
    PROVE  LET len == AccessLen(i)
               part(k) == IF k <= len THEN bytes[k] * 2 ^ (ByteBits * (k - 1)) ELSE 0
               value == part(1) + part(2) + part(3) + part(4)
               bits == ByteBits * len
           IN  /\ 2 ^ bits \in Nat /\ 2 ^ bits <= 2 ^ WordBits
               /\ value \in 0 .. (2 ^ bits - 1)
<1> DEFINE b == 2 ^ ByteBits
           h == 2 ^ (ByteBits * 2)
           w == 2 ^ WordBits
           len == AccessLen(i)
           part(k) == IF k <= len THEN bytes[k] * 2 ^ (ByteBits * (k - 1)) ELSE 0
           value == part(1) + part(2) + part(3) + part(4)
           bits == ByteBits * len
<1>1. /\ b \in Nat \ {0} /\ h \in Nat \ {0} /\ w \in Nat \ {0}
      /\ h = b * b /\ w = h * h /\ b <= h /\ h <= w
    <2>1. b \in Nat \ {0} /\ h \in Nat \ {0} /\ h = b * b /\ w = h * h
        BY BytePowers
    <2> HIDE DEF b, h, w
    <2>2. b <= b * b /\ h <= h * h
        BY <2>1
    <2> QED
        BY <2>1, <2>2
<1>2. len \in {1, 2, 4} /\ Len(bytes) = len /\ \A k \in 1 .. len : bytes[k] \in 0 .. (b - 1)
    BY LoadedParts DEF Byte
<1>3. /\ 2 ^ bits \in Nat /\ 2 ^ bits <= w
      /\ value \in 0 .. (2 ^ bits - 1)
    <2>1. CASE len = 1
        <3>1. value = bytes[1] /\ 2 ^ bits = b
            <4>1. bytes[1] \in Int
                BY <1>2, <1>1, <2>1
            <4>2. part(1) = bytes[1] /\ part(2) = 0 /\ part(3) = 0 /\ part(4) = 0
                BY <2>1, <4>1, BytePowers
            <4> QED
                BY <2>1, <4>1, <4>2, BytePowers
        <3> HIDE DEF b, h, w, value, bits
        <3> QED
            BY <3>1, <2>1, <1>1, <1>2
    <2>2. CASE len = 2
        <3>0. bytes[1] \in 0 .. (b - 1) /\ bytes[2] \in 0 .. (b - 1)
            BY <1>2, <2>2
        <3>1. value = bytes[1] + bytes[2] * b /\ 2 ^ bits = b * b
            <4>1. bytes[1] \in Int /\ bytes[2] * b \in Int
                BY <1>1, <3>0
            <4>2. part(1) = bytes[1] /\ part(2) = bytes[2] * b /\ part(3) = 0 /\ part(4) = 0
                BY <2>2, <4>1, BytePowers
            <4>3. value = bytes[1] + bytes[2] * b
                BY <4>1, <4>2
            <4> QED
                BY <2>2, <4>3, BytePowers
        <3>2. bytes[1] + bytes[2] * b \in 0 .. (b * b - 1)
            BY <3>0, <1>1, Digits
        <3> HIDE DEF b, h, w, value, bits
        <3> QED
            BY <3>1, <3>2, <1>1
    <2>3. CASE len = 4
        <3>0. \A k \in 1 .. 4 : bytes[k] \in 0 .. (b - 1)
            BY <1>2, <2>3
        <3>1. /\ value = bytes[1] + bytes[2] * b + bytes[3] * (b * b) + bytes[4] * ((b * b) * b)
              /\ 2 ^ bits = (b * b) * (b * b)
            <4>1. \A k \in 1 .. 4 : bytes[k] \in Int
                BY <1>1, <3>0
            <4>2. /\ part(1) = bytes[1] /\ part(2) = bytes[2] * b
                  /\ part(3) = bytes[3] * (b * b) /\ part(4) = bytes[4] * ((b * b) * b)
                BY <2>3, <4>1, BytePowers
            <4>3. value = bytes[1] + bytes[2] * b + bytes[3] * (b * b) + bytes[4] * ((b * b) * b)
                BY <4>2
            <4> QED
                BY <2>3, <4>3, BytePowers
        <3>2. bytes[1] + bytes[2] * b + bytes[3] * (b * b) + bytes[4] * ((b * b) * b)
                \in 0 .. ((b * b) * (b * b) - 1)
            <4>1. /\ bytes[1] \in 0 .. (b - 1) /\ bytes[2] \in 0 .. (b - 1)
                  /\ bytes[3] \in 0 .. (b - 1) /\ bytes[4] \in 0 .. (b - 1)
                BY <3>0
            <4> HIDE DEF b
            <4> QED
                BY <4>1, <1>1, LittleEndian
        <3> HIDE DEF b, h, w, value, bits
        <3> QED
            BY <3>1, <3>2, <1>1
    <2> QED
        BY <1>2, <2>1, <2>2, <2>3
<1> QED
    BY <1>3

(* A loaded value is a word, sign extension included. *)
LEMMA LoadedValueIsWord ==
    ASSUME NEW i \in Instructions, i.op \in LoadInsts, NEW bytes \in ByteStrings(i)
    PROVE  LoadedValue(i, bytes) \in Word
<1> DEFINE w == 2 ^ WordBits
           len == AccessLen(i)
           part(k) == IF k <= len THEN bytes[k] * 2 ^ (ByteBits * (k - 1)) ELSE 0
           value == part(1) + part(2) + part(3) + part(4)
           bits == ByteBits * len
<1>1. w \in Nat \ {0}
    BY WordFacts
<1>2. Len(bytes) = len
    BY LoadedParts
<1>3. 2 ^ bits \in Nat /\ 2 ^ bits <= w /\ value \in 0 .. (2 ^ bits - 1)
    BY LoadedSum
<1>4. LoadedValue(i, bytes) = IF i.op \in {"Lb", "Lh"} /\ value >= 2 ^ (bits - 1)
                              THEN value + w - 2 ^ bits ELSE value
    BY <1>2 DEF LoadedValue
<1> HIDE DEF value, bits, w
<1> QED
    BY <1>1, <1>3, <1>4 DEF Word, w

(* The bytes of a store are bytes, whatever the value. *)
LEMMA StoreBytesType ==
    ASSUME NEW i, NEW value \in Int, AccessLen(i) \in 0 .. 4
    PROVE  StoreBytes(i, value) \in ByteStrings(i)
<1> SUFFICES ASSUME NEW k \in 1 .. AccessLen(i)
             PROVE  (value \div 2 ^ (ByteBits * (k - 1))) % 2 ^ ByteBits \in Byte
    BY DEF StoreBytes, ByteStrings
<1>1. ByteBits * (k - 1) \in 0 .. WordBits
    BY WordBitsType DEF WordBits
<1>2. 2 ^ (ByteBits * (k - 1)) \in Nat \ {0} /\ 2 ^ ByteBits \in Nat \ {0}
    BY <1>1, PowerType, BytePowers
<1>3. value \div 2 ^ (ByteBits * (k - 1)) \in Int
    BY <1>2
<1> QED
    BY <1>2, <1>3 DEF Byte

(* An aligned access ends within the address space. *)
LEMMA AlignedFits ==
    ASSUME NEW i, NEW addr \in Word, AccessLen(i) \in {1, 2, 4}, Aligned(i, addr)
    PROVE  \A k \in 1 .. AccessLen(i) : addr + k - 1 \in Word
<1> DEFINE m == 2 ^ (WordBits - 2)
<1>1. m \in Nat /\ 2 ^ WordBits = 4 * m
    <2>1. /\ WordBits - 2 \in 0 .. (WordBits - 1) /\ WordBits - 1 \in 0 .. (WordBits - 1)
          /\ (WordBits - 2) + 1 = WordBits - 1 /\ (WordBits - 1) + 1 = WordBits
        BY WordBitsType DEF WordBits
    <2>2. m \in Nat
        BY <2>1, PowerType, WordBitsType
    <2>3. 2 ^ WordBits = 2 * 2 ^ (WordBits - 1) /\ 2 ^ (WordBits - 1) = 2 * m
        BY <2>1, PowerNext
    <2> QED
        BY <2>2, <2>3
<1>2. addr \in Nat /\ addr < 4 * m
    BY <1>1 DEF Word
<1>3. addr % AccessLen(i) = 0
    BY DEF Aligned
<1> HIDE DEF m
<1>4. addr + AccessLen(i) <= 4 * m
    BY <1>1, <1>2, <1>3
<1> QED
    BY <1>1, <1>2, <1>4 DEF Word

LEMMA ByteDigits ==
    ASSUME NEW b \in Nat \ {0}, NEW v \in Nat, v < (b * b) * (b * b)
    PROVE  v = (v % b) + ((v \div b) % b) * b + ((v \div (b * b)) % b) * (b * b)
                 + ((v \div ((b * b) * b)) % b) * ((b * b) * b)
<1> DEFINE h == b * b
           q1 == v \div b
           q2 == q1 \div b
           q3 == q2 \div b
           r1 == v % b
           r2 == q1 % b
           r3 == q2 % b
<1>1. /\ q1 \in Nat /\ r1 \in 0 .. (b - 1) /\ v = b * q1 + r1
      /\ h \in Nat \ {0}
    OBVIOUS
<1>2. q2 \in Nat /\ r2 \in 0 .. (b - 1) /\ q1 = b * q2 + r2
    <2> HIDE DEF q1
    <2> QED BY <1>1
<1>3. q3 \in Nat /\ r3 \in 0 .. (b - 1) /\ q2 = b * q3 + r3
    <2> HIDE DEF q2
    <2> QED BY <1>2
<1> HIDE DEF q1, q2, q3, r1, r2, r3
<1>4. v \div h = q2
    <2>1. b * q1 = h * q2 + r2 * b
        BY <1>2
    <2>2. r1 + r2 * b \in 0 .. (h - 1)
        BY <1>1, <1>2, Digits
    <2>3. v = h * q2 + (r1 + r2 * b)
        BY <2>1, <1>1, <1>2
    <2> HIDE DEF h
    <2> QED
        BY <1>1, <1>2, <2>2, <2>3, QuotientUnique
<1>5. v \div (h * b) = q3
    <2>1. h * q2 = (h * b) * q3 + r3 * h
        BY <1>2, <1>3
    <2>2. r1 + r2 * b \in 0 .. (h - 1)
        BY <1>1, <1>2, Digits
    <2>3. (r1 + r2 * b) + r3 * h \in 0 .. (h * b - 1)
        <3> HIDE DEF h
        <3> QED BY <1>1, <1>3, <2>2, Digits
    <2>4. b * q1 = h * q2 + r2 * b
        BY <1>2
    <2>5. v = (h * b) * q3 + ((r1 + r2 * b) + r3 * h)
        <3>1. h * q2 \in Int /\ (h * b) * q3 \in Int /\ r3 * h \in Int /\ r2 * b \in Int
            BY <1>1, <1>2, <1>3
        <3> HIDE DEF h
        <3> QED BY <2>1, <2>4, <1>1, <3>1
    <2>6. h * b \in Nat \ {0}
        BY <1>1
    <2> DEFINE d == h * b
               r == (r1 + r2 * b) + r3 * h
    <2>7. d \in Nat \ {0} /\ r \in 0 .. (d - 1) /\ v = d * q3 + r /\ q3 \in Int
        BY <1>3, <2>3, <2>5, <2>6
    <2> HIDE DEF d, r
    <2>8. v \div d = q3
        BY <2>7, QuotientUnique
    <2> QED
        BY <2>8 DEF d
<1>6. q3 < b
    <2> SUFFICES ASSUME q3 >= b
                 PROVE  FALSE
        BY <1>3
    <2>1. b * h <= q3 * h
        BY <1>1, <1>3, ProductMonotone
    <2>2. /\ v = h * q2 + r2 * b + r1
          /\ h * q2 = b * (q3 * h) + r3 * h
        BY <1>1, <1>2, <1>3
    <2>3. b * (b * h) <= b * (q3 * h)
        <3> DEFINE x == b * h
                   y == q3 * h
        <3>1. x \in Nat /\ y \in Nat /\ x <= y
            BY <1>1, <1>3, <2>1
        <3> HIDE DEF x, y
        <3>2. x * b <= y * b
            BY <3>1, ProductMonotone
        <3> QED
            BY <3>1, <3>2 DEF x, y
    <2>4. b * (b * h) = h * h
        BY <1>1
    <2>5. r3 * h \in Nat /\ r2 * b \in Nat /\ b * (q3 * h) \in Nat /\ h * h \in Nat
        BY <1>1, <1>2, <1>3
    <2> HIDE DEF h
    <2>6. v >= h * h
        BY <2>2, <2>3, <2>4, <2>5, <1>1, <1>2, <1>3
    <2> QED
        BY <2>6, <1>1 DEF h
<1>7. q3 % b = q3
    BY <1>3, <1>6
<1>8. v = r1 + r2 * b + r3 * h + q3 * (h * b)
    <2>1. b * q1 = r2 * b + h * q2 /\ h * q2 = r3 * h + q3 * (h * b)
        BY <1>1, <1>2, <1>3
    <2> HIDE DEF h
    <2> QED
        BY <2>1, <1>1, <1>2, <1>3
<1> QED
    BY <1>4, <1>5, <1>7, <1>8 DEF q1, r1, r2, r3, h

(* A word that is stored and loaded again is the same word: to_le_bytes and  *)
(* loaded_value are inverses.                                                *)
THEOREM StoredWordIsLoaded ==
    ASSUME NEW st \in Instructions, st.op = "Sw",
           NEW ld \in Instructions, ld.op = "Lw", NEW v \in Word
    PROVE  LoadedValue(ld, StoreBytes(st, v)) = v
<1> DEFINE b == 2 ^ ByteBits
           bytes == StoreBytes(st, v)
<1>1. AccessLen(st) = 4 /\ AccessLen(ld) = 4
    BY DEF AccessLen
<1>2. /\ bytes[1] = v % b
      /\ bytes[2] = (v \div b) % b
      /\ bytes[3] = (v \div (b * b)) % b
      /\ bytes[4] = (v \div ((b * b) * b)) % b
    <2>1. v \div 1 = v
        BY WordFacts
    <2> QED
        BY <1>1, <2>1, BytePowers DEF StoreBytes
<1>3. bytes \in ByteStrings(ld) /\ Len(bytes) = 4
    <2>1. v \in Int
        BY WordFacts
    <2>2. bytes \in ByteStrings(st)
        BY <1>1, <2>1, StoreBytesType
    <2>3. bytes \in ByteStrings(ld)
        BY <1>1, <2>2 DEF ByteStrings
    <2> QED
        BY <1>1, <2>3, LoadedParts DEF LoadInsts
<1>4. \A k \in 1 .. 4 : bytes[k] \in Int
    <2> HIDE DEF bytes
    <2>1. \A k \in 1 .. AccessLen(ld) : bytes[k] \in Byte
        BY <1>3, LoadedParts DEF LoadInsts
    <2>2. Byte \subseteq Int
        BY BytePowers DEF Byte
    <2> QED
        BY <1>1, <2>1, <2>2
<1>5. LoadedValue(ld, bytes) = bytes[1] + bytes[2] * b + bytes[3] * (b * b)
                                 + bytes[4] * ((b * b) * b)
    <2> HIDE DEF bytes
    <2> QED
        BY <1>1, <1>3, <1>4, BytePowers DEF LoadedValue
<1>6. v \in Nat /\ v < (b * b) * (b * b) /\ b \in Nat \ {0}
    BY BytePowers, WordFacts DEF Word
<1> HIDE DEF b, bytes
<1>7. LoadedValue(ld, bytes) = v
    BY <1>2, <1>5, <1>6, ByteDigits
<1> QED
    BY <1>7 DEF bytes

-----------------------------------------------------------------------------
(* What the operations compute, bit by bit and as numbers. *)

LEMMA Division ==
    ASSUME NEW n \in Int, NEW w \in Nat \ {0}
    PROVE  /\ n \div w \in Int /\ n % w \in 0 .. (w - 1)
           /\ n = w * (n \div w) + (n % w)
<1>1. n \div w \in Int
    OBVIOUS
<1>2. n % w \in 0 .. (w - 1)
    OBVIOUS
<1>3. n = w * (n \div w) + (n % w)
    OBVIOUS
<1> QED
    BY <1>1, <1>2, <1>3

LEMMA MultipleDivides ==
    ASSUME NEW w \in Nat \ {0}, NEW q \in Int
    PROVE  (w * q) % w = 0 /\ (w * q) \div w = q
<1> DEFINE n == w * q
<1>1. n \in Int
    OBVIOUS
<1>2. n \div w = q
    <2>1. n = w * q + 0 /\ 0 \in 0 .. (w - 1)
        OBVIOUS
    <2> HIDE DEF n
    <2> QED
        BY <1>1, <2>1, QuotientUnique
<1>3. n = w * (n \div w) + (n % w) /\ n % w \in Int
    <2> HIDE DEF n
    <2> QED
        BY <1>1, Division
<1>4. n % w = n - w * q
    <2> DEFINE r == n % w
               y == w * q
    <2>1. y \in Int /\ r \in Int /\ n = y + r
        BY <1>2, <1>3
    <2> HIDE DEF n, r, y
    <2>2. r = n - y
        BY <1>1, <2>1
    <2> QED
        BY <2>2 DEF r, y
<1> QED
    BY <1>2, <1>4, <1>1

LEMMA RemainderDiffers ==
    ASSUME NEW n \in Int, NEW w \in Nat \ {0}
    PROVE  ((n % w) - n) % w = 0
<1> DEFINE q == n \div w
           r == n % w
<1>1. q \in Int /\ r \in Int /\ n = w * q + r
    BY Division
<1> HIDE DEF q, r
<1>2. r - n = w * (-q)
    BY <1>1
<1>3. (w * (-q)) % w = 0
    BY <1>1, MultipleDivides
<1>4. (r - n) % w = 0
    BY <1>2, <1>3
<1> QED
    BY <1>4 DEF r

LEMMA QuotientMoves ==
    ASSUME NEW x \in Int, NEW b \in Nat \ {0}, NEW m \in Int
    PROVE  (x + b * m) \div b = x \div b + m
<1> DEFINE q == x \div b
           r == x % b
<1>1. q \in Int /\ r \in 0 .. (b - 1) /\ x = b * q + r
    BY Division
<1> HIDE DEF q, r
<1>2. x + b * m \in Int /\ q + m \in Int /\ b * (q + m) = b * q + b * m
    BY <1>1
<1>3. x + b * m = b * (q + m) + r
    BY <1>1, <1>2
<1>4. (x + b * m) \div b = q + m
    BY <1>1, <1>2, <1>3, QuotientUnique
<1> QED
    BY <1>4 DEF q

LEMMA QuotientTwice ==
    ASSUME NEW x \in Int, NEW a \in Nat \ {0}, NEW b \in Nat \ {0}
    PROVE  (x \div a) \div b = x \div (a * b)
<1> DEFINE q1 == x \div a
           r1 == x % a
           q2 == q1 \div b
           r2 == q1 % b
           d == a * b
           r == r1 + r2 * a
<1>1. q1 \in Int /\ r1 \in 0 .. (a - 1) /\ x = a * q1 + r1
    BY Division
<1>2. q2 \in Int /\ r2 \in 0 .. (b - 1) /\ q1 = b * q2 + r2
    <2> HIDE DEF q1
    <2> QED
        BY <1>1, Division
<1> HIDE DEF q1, r1, q2, r2
<1>3. r \in 0 .. (d - 1) /\ d \in Nat \ {0}
    BY <1>1, <1>2, Digits
<1>4. x = d * q2 + r
    <2>1. a * q1 = d * q2 + r2 * a
        BY <1>1, <1>2
    <2>2. d * q2 \in Int /\ r2 * a \in Int /\ a * q1 \in Int
        BY <1>1, <1>2
    <2> HIDE DEF d
    <2> QED
        BY <2>1, <2>2, <1>1
<1> HIDE DEF d, r
<1>5. x \div d = q2
    BY <1>2, <1>3, <1>4, QuotientUnique
<1> QED
    BY <1>5 DEF d, q2, q1

LEMMA QuotientRange ==
    ASSUME NEW x \in Int, NEW a \in Nat \ {0}, NEW b \in Nat \ {0}
    PROVE  /\ x \in 0 .. (a * b - 1) => x \div a \in 0 .. (b - 1)
           /\ x \in -(a * b) .. -1 => x \div a \in (-b) .. -1
<1> DEFINE q == x \div a
           r == x % a
<1>1. q \in Int /\ r \in 0 .. (a - 1) /\ x = a * q + r
    BY Division
<1> HIDE DEF q, r
<1>2. ASSUME x \in 0 .. (a * b - 1)
      PROVE  q \in 0 .. (b - 1)
    <2>1. q >= 0
        <3> SUFFICES ASSUME -q - 1 \in Nat
                     PROVE  FALSE
            BY <1>1
        <3>1. a * (-q - 1) \in Nat
            OBVIOUS
        <3>2. a * q = -(a * (-q - 1)) - a
            BY <1>1
        <3> QED
            BY <1>1, <1>2, <3>1, <3>2
    <2>2. q < b
        <3> SUFFICES ASSUME q - b \in Nat
                     PROVE  FALSE
            BY <1>1
        <3>1. a * (q - b) \in Nat
            OBVIOUS
        <3>2. a * q = a * (q - b) + a * b
            BY <1>1
        <3>3. a * b \in Nat
            OBVIOUS
        <3> QED
            BY <1>1, <1>2, <3>1, <3>2, <3>3
    <2> QED
        BY <1>1, <2>1, <2>2
<1>3. ASSUME x \in -(a * b) .. -1
      PROVE  q \in (-b) .. -1
    <2>1. q < 0
        <3> SUFFICES ASSUME q \in Nat
                     PROVE  FALSE
            BY <1>1
        <3>1. a * q \in Nat
            OBVIOUS
        <3> QED
            BY <1>1, <1>3, <3>1
    <2>2. q >= -b
        <3> SUFFICES ASSUME -b - q - 1 \in Nat
                     PROVE  FALSE
            BY <1>1
        <3>1. a * (-b - q - 1) \in Nat
            OBVIOUS
        <3>2. a * q = -(a * (-b - q - 1)) - a * b - a
            BY <1>1
        <3>3. a * b \in Nat
            OBVIOUS
        <3> QED
            BY <1>1, <1>3, <3>1, <3>2, <3>3
    <2> QED
        BY <1>1, <2>1, <2>2
<1> QED
    BY <1>2, <1>3 DEF q

-----------------------------------------------------------------------------
LEMMA BitType ==
    ASSUME NEW x \in Int, NEW k \in 0 .. WordBits
    PROVE  Bit(x, k) \in {0, 1}
<1>1. 2 ^ k \in Nat \ {0}
    BY PowerType
<1>2. x \div 2 ^ k \in Int
    BY <1>1, Division
<1> QED
    BY <1>2 DEF Bit

LEMMA EvenAdded ==
    ASSUME NEW x \in Int, NEW m \in Int
    PROVE  (x + 2 * m) % 2 = x % 2
OBVIOUS

(* 2 ^ n holds 2 ^ k an even number of times, for k < n. *)
LEMMA PowerSplits ==
    ASSUME NEW n \in 0 .. WordBits, NEW k \in 0 .. (n - 1)
    PROVE  /\ 2 ^ k \in Nat \ {0} /\ 2 ^ (n - k - 1) \in Nat \ {0}
           /\ 2 ^ n = 2 ^ k * (2 * 2 ^ (n - k - 1))
<1>1. /\ n - k - 1 \in 0 .. (WordBits - 1) /\ (n - k - 1) + 1 = n - k
      /\ n - k - 1 \in 0 .. WordBits /\ k \in 0 .. WordBits
      /\ k \in Nat /\ n - k \in Nat /\ k + (n - k) = n
    BY WordBitsType
<1>2. 2 ^ (n - k) = 2 * 2 ^ (n - k - 1)
    BY <1>1, PowerNext
<1>3. 2 ^ (k + (n - k)) = 2 ^ k * 2 ^ (n - k)
    BY <1>1, PowerSum
<1> QED
    BY <1>1, <1>2, <1>3, PowerType

(* What is added above bit k leaves bit k alone. *)
LEMMA BitKept ==
    ASSUME NEW x \in Int, NEW m \in Int, NEW n \in 0 .. WordBits, NEW k \in 0 .. (n - 1)
    PROVE  Bit(x + 2 ^ n * m, k) = Bit(x, k)
<1> DEFINE p == 2 ^ k
           h == 2 ^ (n - k - 1)
<1>1. p \in Nat \ {0} /\ h \in Nat \ {0} /\ 2 ^ n = p * (2 * h)
    BY PowerSplits
<1> HIDE DEF p, h
<1>2. 2 ^ n * m = p * (2 * (h * m)) /\ h * m \in Int /\ 2 * (h * m) \in Int
    BY <1>1
<1>3. (x + p * (2 * (h * m))) \div p = x \div p + 2 * (h * m)
    BY <1>1, <1>2, QuotientMoves
<1>4. x \div p \in Int
    BY <1>1, Division
<1> HIDE DEF p, h
<1>5. ((x + 2 ^ n * m) \div p) % 2 = (x \div p) % 2
    BY <1>2, <1>3, <1>4, EvenAdded
<1> QED
    BY <1>5 DEF Bit, p

LEMMA BitOfToWord ==
    ASSUME NEW x \in Int, NEW k \in BitIndices
    PROVE  Bit(ToWord(x), k) = Bit(x, k)
<1> DEFINE w == 2 ^ WordBits
           q == x \div w
           r == x % w
<1>1. q \in Int /\ r \in Int /\ x = r + w * q
    <2>1. w \in Nat \ {0}
        BY WordFacts
    <2> HIDE DEF w
    <2>2. q \in Int /\ r \in 0 .. (w - 1) /\ x = w * q + r
        BY <2>1, Division
    <2> HIDE DEF q, r
    <2> QED
        BY <2>1, <2>2
<1>2. WordBits \in 0 .. WordBits /\ k \in 0 .. (WordBits - 1)
    BY WordBitsType DEF BitIndices
<1> HIDE DEF q, r
<1>3. Bit(r + w * q, k) = Bit(r, k)
    BY <1>1, <1>2, BitKept
<1> QED
    BY <1>1, <1>3 DEF r, ToWord

(* A shift to the left by s moves bit k - s to bit k. *)
LEMMA BitShiftedLeft ==
    ASSUME NEW x \in Int, NEW s \in BitIndices, NEW k \in BitIndices
    PROVE  Bit(x * 2 ^ s, k) = IF k >= s THEN Bit(x, k - s) ELSE 0
<1>0. s \in 0 .. WordBits /\ k \in 0 .. WordBits /\ s \in Nat /\ k \in Nat
    BY WordBitsType DEF BitIndices
<1>1. CASE k >= s
    <2> DEFINE a == 2 ^ s
               b == 2 ^ (k - s)
    <2>1. k - s \in 0 .. WordBits /\ k - s \in Nat /\ s + (k - s) = k /\ s + (k - s) <= WordBits
        BY <1>0, <1>1, WordBitsType
    <2>2. a \in Nat \ {0} /\ b \in Nat \ {0} /\ 2 ^ k = a * b
        BY <1>0, <2>1, PowerType, PowerSum
    <2> HIDE DEF a, b
    <2>3. x * a = a * x /\ x * a \in Int
        BY <2>2
    <2>4. (a * x) \div a = x
        BY <2>2, MultipleDivides
    <2>5. ((x * a) \div a) \div b = (x * a) \div (a * b)
        BY <2>2, <2>3, QuotientTwice
    <2>6. (x * a) \div 2 ^ k = x \div b
        BY <2>2, <2>3, <2>4, <2>5
    <2> QED
        BY <2>6, <1>1 DEF Bit, a, b
<1>2. CASE k < s
    <2> DEFINE p == 2 ^ k
               h == 2 ^ (s - k - 1)
    <2>1. k \in 0 .. (s - 1)
        BY <1>0, <1>2
    <2>2. p \in Nat \ {0} /\ h \in Nat \ {0} /\ 2 ^ s = p * (2 * h)
        BY <1>0, <2>1, PowerSplits
    <2> HIDE DEF p, h
    <2>3. x * 2 ^ s = p * (2 * (h * x)) /\ h * x \in Int /\ 2 * (h * x) \in Int
        BY <2>2
    <2>4. (x * 2 ^ s) \div p = 2 * (h * x)
        BY <2>2, <2>3, MultipleDivides
    <2>5. (2 * (h * x)) % 2 = 0
        BY <2>3, MultipleDivides
    <2>6. Bit(x * 2 ^ s, k) = 0
        BY <2>4, <2>5 DEF Bit, p
    <2> QED
        BY <2>6, <1>2, <1>0
<1> QED
    BY <1>0, <1>1, <1>2

(* A shift to the right by s moves bit k + s to bit k; above the word stands *)
(* the sign.                                                                 *)
LEMMA BitShiftedRight ==
    ASSUME NEW x \in Int, x \in -(2 ^ WordBits) .. (2 ^ WordBits - 1),
           NEW s \in BitIndices, NEW k \in BitIndices
    PROVE  Bit(x \div 2 ^ s, k) = IF k + s \in BitIndices THEN Bit(x, k + s)
                                  ELSE IF x < 0 THEN 1 ELSE 0
<1>0. s \in 0 .. WordBits /\ k \in 0 .. WordBits /\ s \in Nat /\ k \in Nat /\ WordBits \in Nat
    BY WordBitsType DEF BitIndices
<1>1. 2 ^ s \in Nat \ {0} /\ 2 ^ k \in Nat \ {0}
    BY <1>0, PowerType
<1>2. CASE k + s \in BitIndices
    <2>1. s + k <= WordBits /\ s + k = k + s
        BY <1>0, <1>2 DEF BitIndices
    <2>2. 2 ^ (k + s) = 2 ^ s * 2 ^ k
        BY <1>0, <2>1, PowerSum
    <2>3. (x \div 2 ^ s) \div 2 ^ k = x \div (2 ^ s * 2 ^ k)
        BY <1>1, QuotientTwice
    <2> QED
        BY <1>2, <2>2, <2>3 DEF Bit
<1>3. CASE k + s \notin BitIndices
    <2> DEFINE c == 2 ^ (WordBits - k)
               p == 2 ^ k
               d == 2 ^ (s + k - WordBits)
               y == x \div c
               z == y \div d
    <2>1. /\ WordBits - k \in 0 .. WordBits /\ WordBits - k \in Nat
          /\ s + k - WordBits \in 0 .. WordBits /\ s + k - WordBits \in Nat
          /\ (WordBits - k) + k = WordBits /\ (WordBits - k) + (s + k - WordBits) = s
        BY <1>0, <1>3 DEF BitIndices
    <2>2. c \in Nat \ {0} /\ d \in Nat \ {0} /\ p \in Nat \ {0}
        BY <1>0, <2>1, PowerType
    <2>3. 2 ^ WordBits = c * p /\ 2 ^ s = c * d
        <3>1. 2 ^ ((WordBits - k) + k) = c * p
            BY <1>0, <2>1, PowerSum
        <3>2. 2 ^ ((WordBits - k) + (s + k - WordBits)) = c * d
            BY <1>0, <2>1, PowerSum
        <3> QED
            BY <2>1, <3>1, <3>2
    <2>4. x \div 2 ^ s = z
        <3> HIDE DEF c, d
        <3>1. (x \div c) \div d = x \div (c * d)
            BY <2>2, QuotientTwice
        <3> QED
            BY <2>3, <3>1
    <2> HIDE DEF c, d, p
    <2>5. CASE x >= 0
        <3>1. y \in 0 .. (p - 1)
            <4>1. x \in 0 .. (c * p - 1)
                BY <2>3, <2>5
            <4> QED
                BY <4>1, <2>2, QuotientRange
        <3> HIDE DEF y
        <3>2. z \in 0 .. y
            BY <3>1, <2>2, QuotientBound
        <3>3. z \in 0 .. (p - 1)
            BY <3>1, <3>2, <2>2
        <3> HIDE DEF z
        <3>4. z \div p = 0
            <4>1. z = p * 0 + z
                BY <3>3, <2>2
            <4> QED
                BY <3>3, <4>1, <2>2, QuotientUnique
        <3> QED
            BY <2>4, <3>4, <1>3, <2>5 DEF Bit, p
    <2>6. CASE x < 0
        <3>1. y \in (-p) .. -1
            <4>1. x \in -(c * p) .. -1
                BY <2>3, <2>6
            <4> QED
                BY <4>1, <2>2, QuotientRange
        <3> HIDE DEF y
        <3>2. z \in (-p) .. -1
            <4>1. y \in Int /\ y \in -(d * p) .. -1
                <5>1. p <= d * p
                    BY <2>2
                <5>2. d * p \in Nat
                    BY <2>2
                <5> QED
                    BY <3>1, <2>2, <5>1, <5>2
            <4> QED
                BY <4>1, <2>2, QuotientRange
        <3> HIDE DEF z
        <3> DEFINE e == -1
        <3>3. z \div p = e /\ e = -1
            <4>1. z = p * (-1) + (z + p) /\ z + p \in 0 .. (p - 1) /\ z \in Int
                BY <3>2, <2>2
            <4> QED
                BY <4>1, <2>2, QuotientUnique
        <3> HIDE DEF e
        <3>4. e % 2 = 1
            <4>1. e = 2 * e + 1 /\ e \in Int
                BY <3>3
            <4>2. e \div 2 = e
                BY <4>1, QuotientUnique
            <4>3. e = 2 * (e \div 2) + (e % 2) /\ e % 2 \in Int
                BY <4>1, Division
            <4> QED
                BY <4>1, <4>2, <4>3
        <3> QED
            BY <2>4, <3>3, <3>4, <1>3, <2>6 DEF Bit, p
    <2> QED
        BY <2>5, <2>6
<1> QED
    BY <1>2, <1>3

-----------------------------------------------------------------------------
(* Half the number of words: the least signed word is its negation. *)
Half == 2 ^ (WordBits - 1)

LEMMA HalfFacts == Half \in Nat \ {0} /\ Half >= 2 /\ 2 ^ WordBits = 2 * Half
<1>1. Half \in Nat \ {0} /\ 2 ^ WordBits = 2 * Half
    BY WordFacts DEF Half
<1>2. /\ WordBits - 2 \in 0 .. (WordBits - 1) /\ WordBits - 2 \in 0 .. WordBits
      /\ (WordBits - 2) + 1 = WordBits - 1
    BY WordBitsType DEF WordBits
<1>3. 2 ^ (WordBits - 1) = 2 * 2 ^ (WordBits - 2) /\ 2 ^ (WordBits - 2) \in Nat \ {0}
    BY <1>2, PowerNext, PowerType
<1> QED
    BY <1>1, <1>3 DEF Half

LEMMA SignedFacts ==
    ASSUME NEW a \in Word
    PROVE  /\ Signed(a) \in (-Half) .. (Half - 1)
           /\ Signed(a) = IF a >= Half THEN a - 2 * Half ELSE a
           /\ a = ToWord(Signed(a))
<1> DEFINE w == 2 ^ WordBits
<1>1. a \in 0 .. (2 * Half - 1) /\ w = 2 * Half /\ Half \in Nat \ {0}
    BY HalfFacts DEF Word
<1>2. Signed(a) = IF a >= Half THEN a - 2 * Half ELSE a
    BY <1>1 DEF Signed, Half
<1>3. Signed(a) \in (-Half) .. (Half - 1)
    BY <1>1, <1>2
<1>4. Signed(a) % (2 * Half) = a
    <2> DEFINE d == 2 * Half
               n == Signed(a)
               q == IF a >= Half THEN -1 ELSE 0
    <2>1. d \in Nat \ {0} /\ n \in Int /\ q \in Int /\ a \in 0 .. (d - 1) /\ n = d * q + a
        BY <1>1, <1>2, <1>3
    <2> HIDE DEF d, n, q
    <2>2. n \div d = q
        BY <2>1, QuotientUnique
    <2>3. n = d * (n \div d) + (n % d) /\ n % d \in Int /\ d * q \in Int
        BY <2>1, Division
    <2>4. n % d = a
        BY <2>1, <2>2, <2>3
    <2> QED
        BY <2>4 DEF n, d
<1> QED
    BY <1>1, <1>2, <1>3, <1>4 DEF ToWord

LEMMA SignedOfToWord ==
    ASSUME NEW q \in Int, q \in (-Half) .. (Half - 1)
    PROVE  Signed(ToWord(q)) = q
<1> DEFINE r == ToWord(q)
<1>1. r \in Word /\ Half \in Nat \ {0}
    BY ToWordType, HalfFacts
<1>2. r = IF q < 0 THEN q + 2 * Half ELSE q
    <2> DEFINE d == 2 * Half
               m == IF q < 0 THEN -1 ELSE 0
               x == IF q < 0 THEN q + 2 * Half ELSE q
    <2>1. d \in Nat \ {0} /\ m \in Int /\ x \in 0 .. (d - 1) /\ q = d * m + x
        BY <1>1
    <2> HIDE DEF d, m, x
    <2>2. q \div d = m
        BY <2>1, QuotientUnique
    <2>3. q = d * (q \div d) + (q % d) /\ q % d \in Int /\ d * m \in Int
        BY <2>1, Division
    <2>4. q % d = x
        BY <2>1, <2>2, <2>3
    <2>5. 2 ^ WordBits = d
        BY HalfFacts DEF d
    <2>6. r = x
        BY <2>4, <2>5 DEF ToWord
    <2> QED
        BY <2>6 DEF x
<1> HIDE DEF r
<1>3. Signed(r) = IF r >= Half THEN r - 2 * Half ELSE r
    BY <1>1, SignedFacts
<1>4. Signed(r) = q
    BY <1>1, <1>2, <1>3
<1> QED
    BY <1>4 DEF r

(* The top bit is the sign. *)
LEMMA TopBit ==
    ASSUME NEW a \in Word
    PROVE  Bit(a, WordBits - 1) = IF Signed(a) < 0 THEN 1 ELSE 0
<1>1. a \in 0 .. (2 * Half - 1) /\ Half \in Nat \ {0}
    BY HalfFacts DEF Word
<1>2. Signed(a) = IF a >= Half THEN a - 2 * Half ELSE a
    BY SignedFacts
<1>3. CASE a >= Half
    <2>1. a = Half * 1 + (a - Half) /\ a - Half \in 0 .. (Half - 1) /\ a \in Int
        BY <1>1, <1>3
    <2>2. a \div Half = 1
        BY <1>1, <2>1, QuotientUnique
    <2>3. 1 % 2 = 1
        OBVIOUS
    <2> QED
        BY <1>1, <1>2, <1>3, <2>2, <2>3 DEF Bit, Half
<1>4. CASE a < Half
    <2>1. a = Half * 0 + a /\ a \in 0 .. (Half - 1) /\ a \in Int
        BY <1>1, <1>4
    <2>2. a \div Half = 0
        BY <1>1, <2>1, QuotientUnique
    <2>3. 0 % 2 = 0
        OBVIOUS
    <2> QED
        BY <1>1, <1>2, <1>4, <2>2, <2>3 DEF Bit, Half
<1> QED
    BY <1>1, <1>3, <1>4

(* The upper word of a signed product. *)
LEMMA UpperWord ==
    ASSUME NEW p \in Int, p \in -(Half * (2 * Half)) .. (Half * (2 * Half) - 1)
    PROVE  LET r == ToWord(p \div 2 ^ WordBits)
           IN  p - Signed(r) * 2 ^ WordBits \in Word
<1> DEFINE w == 2 ^ WordBits
           q == p \div w
<1>1. Half \in Nat \ {0} /\ w = 2 * Half /\ w \in Nat \ {0} /\ w * Half = Half * (2 * Half)
    BY HalfFacts
<1>2. q \in (-Half) .. (Half - 1) /\ q \in Int
    <2> HIDE DEF w
    <2>1. p \in 0 .. (w * Half - 1) \/ p \in -(w * Half) .. -1
        BY <1>1
    <2>2. q \in 0 .. (Half - 1) \/ q \in (-Half) .. -1
        BY <2>1, <1>1, QuotientRange
    <2> QED
        BY <2>2, <1>1
<1>3. Signed(ToWord(q)) = q
    BY <1>2, SignedOfToWord
<1>4. p = w * q + (p % w) /\ p % w \in 0 .. (w - 1)
    <2> HIDE DEF w
    <2> QED
        BY <1>1, Division
<1>5. p - q * w = p % w
    <2> DEFINE r == p % w
               y == q * w
    <2>1. y \in Int /\ r \in Int /\ p = y + r
        <3> HIDE DEF w, q
        <3> QED
            BY <1>1, <1>2, <1>4
    <2> HIDE DEF r, y
    <2>2. p - y = r
        BY <2>1
    <2> QED
        BY <2>2 DEF r, y
<1> QED
    BY <1>3, <1>4, <1>5 DEF Word

LEMMA ProductBounds ==
    ASSUME NEW h \in Nat \ {0}, NEW x \in (-h) .. (h - 1),
           NEW y \in Int, y \in (-h) .. (2 * h - 1), h >= 2
    PROVE  x * y \in Int /\ x * y \in -(h * (2 * h)) .. (h * (2 * h) - 1)
<1>1. x * y \in Int /\ h * (2 * h) \in Nat
    OBVIOUS
<1>2. CASE x >= 0 /\ y >= 0
    <2>1. x * y <= (h - 1) * (2 * h - 1)
        BY <1>2
    <2>2. x * y >= 0
        BY <1>2
    <2>3. (h - 1) * (2 * h - 1) <= h * (2 * h) - 1
        OBVIOUS
    <2> QED
        BY <1>1, <2>1, <2>2, <2>3
<1>3. CASE x >= 0 /\ y < 0
    <2>1. x * y = -(x * (-y)) /\ x * (-y) \in Int
        OBVIOUS
    <2>2. x * (-y) >= 0 /\ x * (-y) <= (h - 1) * h
        BY <1>3
    <2>3. (h - 1) * h <= h * (2 * h) /\ h * (2 * h) >= 1
        OBVIOUS
    <2> QED
        BY <1>1, <2>1, <2>2, <2>3
<1>4. CASE x < 0 /\ y >= 0
    <2>1. x * y = -((-x) * y) /\ (-x) * y \in Int
        OBVIOUS
    <2>2. (-x) * y >= 0 /\ (-x) * y <= h * (2 * h - 1)
        BY <1>4
    <2>3. h * (2 * h - 1) <= h * (2 * h) /\ h * (2 * h) >= 1
        OBVIOUS
    <2> QED
        BY <1>1, <2>1, <2>2, <2>3
<1>5. CASE x < 0 /\ y < 0
    <2>1. x * y = (-x) * (-y) /\ (-x) * (-y) \in Int
        OBVIOUS
    <2>2. (-x) * (-y) >= 0 /\ (-x) * (-y) <= h * h
        BY <1>5
    <2>3. h * h <= h * (2 * h) - 1
        OBVIOUS
    <2> QED
        BY <1>1, <2>1, <2>2, <2>3
<1> QED
    BY <1>2, <1>3, <1>4, <1>5

(* Rust's signed division: the quotient is cut towards zero, the remainder   *)
(* has the sign of the dividend, and only the least number by -1 has a       *)
(* quotient out of range.                                                    *)
LEMMA SignedDivision ==
    ASSUME NEW h \in Nat \ {0}, NEW m \in (-h) .. (h - 1), NEW n \in (-h) .. (h - 1), n # 0
    PROVE  LET q == Quot(m, n)
               r == RemOf(m, n)
           IN  /\ q \in (-h) .. h /\ r \in (-h) .. (h - 1)
               /\ m = q * n + r
               /\ Abs(r) < Abs(n)
               /\ r = 0 \/ (r < 0 <=> m < 0)
               /\ q = h => m = -h /\ n = -1
<1> DEFINE a == Abs(m)
           b == Abs(n)
           x == a \div b
           y == a % b
           q == Quot(m, n)
           r == RemOf(m, n)
<1>1. /\ a \in 0 .. h /\ b \in 1 .. h
      /\ a = IF m < 0 THEN -m ELSE m
      /\ b = IF n < 0 THEN -n ELSE n
    BY DEF Abs
<1>2. x \in Int /\ y \in 0 .. (b - 1) /\ a = b * x + y /\ x \in 0 .. a
    <2>1. a \in Nat /\ a \in Int /\ b \in Nat \ {0}
        BY <1>1
    <2> HIDE DEF a, b
    <2>2. x \in 0 .. a
        BY <2>1, QuotientBound
    <2>3. x \in Int /\ y \in 0 .. (b - 1) /\ a = b * x + y
        BY <2>1, Division
    <2> QED
        BY <2>2, <2>3
<1>3. (m < 0) = (n < 0) <=> (m < 0 <=> n < 0)
    OBVIOUS
<1>4. /\ (m < 0 <=> n < 0) => q = x
      /\ ~(m < 0 <=> n < 0) => q = -x
      /\ r = IF m < 0 THEN -y ELSE y
    BY <1>3 DEF Quot, RemOf
<1> HIDE DEF a, b, x, y, q, r
<1>5. q \in (-h) .. h /\ r \in (-h) .. (h - 1)
    BY <1>1, <1>2, <1>4
<1>6. m = q * n + r
    <2>1. CASE m < 0 /\ n < 0
        <3>1. q * n = -(b * x)
            BY <2>1, <1>1, <1>2, <1>4
        <3> QED
            BY <3>1, <2>1, <1>1, <1>2, <1>4
    <2>2. CASE m < 0 /\ n >= 0
        <3>1. q * n = -(b * x)
            BY <2>2, <1>1, <1>2, <1>4
        <3> QED
            BY <3>1, <2>2, <1>1, <1>2, <1>4
    <2>3. CASE m >= 0 /\ n < 0
        <3>1. q * n = b * x
            BY <2>3, <1>1, <1>2, <1>4
        <3>2. a = m /\ r = y /\ b * x \in Int /\ y \in Int
            BY <2>3, <1>1, <1>2, <1>4
        <3> QED
            BY <3>1, <3>2, <1>2
    <2>4. CASE m >= 0 /\ n >= 0
        <3>1. q * n = b * x
            BY <2>4, <1>1, <1>2, <1>4
        <3> QED
            BY <3>1, <2>4, <1>1, <1>2, <1>4
    <2> QED
        BY <2>1, <2>2, <2>3, <2>4
<1>7. Abs(r) < Abs(n)
    <2>1. Abs(r) = y /\ Abs(n) = b
        BY <1>2, <1>4 DEF Abs, b
    <2> QED
        BY <2>1, <1>1, <1>2
<1>8. r = 0 \/ (r < 0 <=> m < 0)
    BY <1>2, <1>4
<1>9. ASSUME q = h
      PROVE  m = -h /\ n = -1
    <2>1. x = h /\ a = h
        BY <1>9, <1>1, <1>2, <1>4
    <2>2. b = 1
        <3> SUFFICES ASSUME b >= 2
                     PROVE  FALSE
            BY <1>1
        <3>1. b * x >= 2 * x /\ b * x \in Int
            BY <1>1, <1>2
        <3>2. b * x + y >= 2 * h
            BY <3>1, <2>1, <1>2
        <3> QED
            BY <3>2, <2>1, <1>2
    <2>3. m = -h
        BY <2>1, <1>1
    <2>4. q = x
        BY <2>1, <1>9
    <2>5. n < 0
        BY <2>1, <2>3, <1>9, <1>4, <1>1
    <2> QED
        BY <2>2, <2>3, <2>5, <1>1
<1> QED
    BY <1>5, <1>6, <1>7, <1>8, <1>9 DEF q, r

-----------------------------------------------------------------------------
(* A loaded value, bit by bit. *)

(* x below bit n, y from there on. *)
LEMMA BitsJoined ==
    ASSUME NEW n \in 0 .. WordBits, NEW x \in 0 .. (2 ^ n - 1), NEW y \in Int,
           NEW k \in 0 .. WordBits
    PROVE  Bit(x + 2 ^ n * y, k) = IF k < n THEN Bit(x, k) ELSE Bit(y, k - n)
<1> DEFINE a == 2 ^ n
<1>1. a \in Nat \ {0} /\ x \in Int /\ n \in Nat /\ k \in Nat /\ WordBits \in Nat
    BY PowerType, WordBitsType
<1>2. CASE k < n
    <2>1. k \in 0 .. (n - 1)
        BY <1>1, <1>2
    <2> QED
        BY <1>1, <1>2, <2>1, BitKept
<1>3. CASE ~(k < n)
    <2> DEFINE b == 2 ^ (k - n)
               z == x + a * y
    <2>1. k - n \in 0 .. WordBits /\ k - n \in Nat /\ n + (k - n) = k /\ n + (k - n) <= WordBits
        BY <1>1, <1>3
    <2>2. b \in Nat \ {0} /\ 2 ^ k = a * b
        BY <1>1, <2>1, PowerType, PowerSum
    <2> HIDE DEF a, b
    <2>3. z \in Int
        BY <1>1
    <2>4. z \div a = y
        <3>1. z = a * y + x
            BY <1>1
        <3>2. x \in 0 .. (a - 1)
            BY DEF a
        <3> HIDE DEF z
        <3> QED
            BY <1>1, <2>3, <3>1, <3>2, QuotientUnique
    <2>5. (z \div a) \div b = z \div (a * b)
        <3> HIDE DEF z
        <3> QED
            BY <1>1, <2>2, <2>3, QuotientTwice
    <2>6. z \div 2 ^ k = y \div b
        BY <2>2, <2>4, <2>5
    <2> QED
        BY <1>3, <2>6 DEF Bit, z, a, b
<1> QED
    BY <1>2, <1>3

LEMMA ZeroBits == ASSUME NEW k \in 0 .. WordBits PROVE Bit(0, k) = 0
<1>1. 2 ^ k \in Nat \ {0}
    BY PowerType
<1>2. 0 = 2 ^ k * 0 + 0
    BY <1>1
<1>3. 0 \div 2 ^ k = 0
    BY <1>1, <1>2, QuotientUnique
<1>4. 0 % 2 = 0
    OBVIOUS
<1> QED
    BY <1>3, <1>4 DEF Bit

LEMMA OneBits ==
    ASSUME NEW n \in 0 .. WordBits, NEW k \in 0 .. (n - 1)
    PROVE  Bit(2 ^ n - 1, k) = 1
<1> DEFINE p == 2 ^ k
           h == 2 ^ (n - k - 1)
           q == 2 * h - 1
           z == 2 ^ n - 1
<1>1. p \in Nat \ {0} /\ h \in Nat \ {0} /\ 2 ^ n = p * (2 * h)
    BY PowerSplits
<1> HIDE DEF p, h
<1>2. z = p * q + (p - 1) /\ p - 1 \in 0 .. (p - 1) /\ z \in Int /\ q \in Int
    BY <1>1
<1>3. q % 2 = 1
    BY <1>1
<1> HIDE DEF q, z
<1>4. z \div p = q
    BY <1>1, <1>2, QuotientUnique
<1> QED
    BY <1>3, <1>4 DEF Bit, z, p

(* The highest bit of n + 1 tells whether the upper half is reached. *)
LEMMA HighBit ==
    ASSUME NEW n \in 0 .. (WordBits - 1), NEW x \in 0 .. (2 ^ (n + 1) - 1)
    PROVE  Bit(x, n) = IF x >= 2 ^ n THEN 1 ELSE 0
<1> DEFINE h == 2 ^ n
<1>1. h \in Nat \ {0} /\ x \in 0 .. (2 * h - 1)
    BY PowerType, PowerNext, WordBitsType
<1> HIDE DEF h
<1>2. CASE x >= h
    <2>1. x = h * 1 + (x - h) /\ x - h \in 0 .. (h - 1) /\ x \in Int
        BY <1>1, <1>2
    <2>2. x \div h = 1
        BY <1>1, <2>1, QuotientUnique
    <2>3. 1 % 2 = 1
        OBVIOUS
    <2> QED
        BY <1>2, <2>2, <2>3 DEF Bit, h
<1>3. CASE ~(x >= h)
    <2>1. x = h * 0 + x /\ x \in 0 .. (h - 1) /\ x \in Int
        BY <1>1, <1>3
    <2>2. x \div h = 0
        BY <1>1, <2>1, QuotientUnique
    <2>3. 0 % 2 = 0
        OBVIOUS
    <2> QED
        BY <1>3, <2>2, <2>3 DEF Bit, h
<1> QED
    BY <1>2, <1>3

(* Bit k of a little-endian word is in byte k div ByteBits. *)
LEMMA BitInByte ==
    ASSUME NEW c \in [1 .. 4 -> Byte], NEW k \in BitIndices
    PROVE  LET b == 2 ^ ByteBits
               v == c[1] + b * (c[2] + b * (c[3] + b * c[4]))
           IN  /\ k \div ByteBits \in 0 .. 3 /\ k % ByteBits \in 0 .. (ByteBits - 1)
               /\ Bit(v, k) = Bit(c[k \div ByteBits + 1], k % ByteBits)
<1> DEFINE B == ByteBits
           b == 2 ^ B
           j == k \div B
           m == k % B
           v4 == c[4]
           v3 == c[3] + b * v4
           v2 == c[2] + b * v3
           v1 == c[1] + b * v2
<1>1. /\ B \in Nat \ {0} /\ k \in 0 .. (4 * B - 1) /\ B \in 0 .. WordBits
      /\ k \in Nat /\ WordBits = 4 * B
    BY WordBitsType DEF BitIndices, WordBits
<1>2. j \in Int /\ m \in 0 .. (B - 1) /\ k = B * j + m
    <2>1. k \in Int /\ B \in Nat \ {0}
        BY <1>1
    <2> HIDE DEF B
    <2> QED
        BY <2>1, Division
<1> HIDE DEF B, j, m
<1>3. j \in 0 .. 3
    <2>1. j >= 0
        BY <1>1, <1>2
    <2>2. j < 4
        BY <1>1, <1>2
    <2> QED
        BY <1>2, <2>1, <2>2
<1>4. b \in Nat \ {0} /\ \A i \in 1 .. 4 : c[i] \in 0 .. (b - 1)
    BY BytePowers DEF Byte, B
<1> HIDE DEF b
<1>5. v4 \in Int
    BY <1>4
<1>6. v3 \in Int
    BY <1>4, <1>5
<1>7. v2 \in Int
    <2> HIDE DEF v3
    <2> QED
        BY <1>4, <1>6
<1> HIDE DEF v1, v2, v3, v4
<1>8. ASSUME NEW i \in 1 .. 4, NEW y \in Int, NEW n \in 0 .. WordBits
      PROVE  Bit(c[i] + b * y, n) = IF n < B THEN Bit(c[i], n) ELSE Bit(y, n - B)
    <2>1. c[i] \in 0 .. (2 ^ B - 1)
        BY <1>4 DEF b
    <2> QED
        BY <1>1, <2>1, BitsJoined DEF b
<1>9. /\ m \in 0 .. WordBits /\ m < B
    BY <1>1, <1>2
<1>10. Bit(v1, k) = Bit(c[j + 1], m)
    <2>1. CASE j = 0
        <3>1. k = m
            BY <2>1, <1>1, <1>2
        <3>2. k \in 0 .. WordBits /\ k < B
            BY <3>1, <1>9
        <3> QED
            BY <2>1, <3>1, <3>2, <1>7, <1>8 DEF v1
    <2>2. CASE j = 1
        <3>1. k = B + m
            BY <2>2, <1>1, <1>2
        <3>2. k \in 0 .. WordBits /\ ~(k < B) /\ k - B = m
            BY <3>1, <1>1, <1>2
        <3>3. Bit(v1, k) = Bit(v2, m)
            BY <3>2, <1>7, <1>8 DEF v1
        <3> QED
            BY <2>2, <3>3, <1>9, <1>6, <1>8 DEF v2
    <2>3. CASE j = 2
        <3>1. k = B + (B + m)
            BY <2>3, <1>1, <1>2
        <3> DEFINE n == B + m
        <3>2. /\ k \in 0 .. WordBits /\ ~(k < B) /\ k - B = n
              /\ n \in 0 .. WordBits /\ ~(n < B) /\ n - B = m
            BY <3>1, <1>1, <1>2
        <3> HIDE DEF n
        <3>3. Bit(v1, k) = Bit(v2, n)
            BY <3>2, <1>7, <1>8 DEF v1
        <3>4. Bit(v2, n) = Bit(v3, m)
            BY <3>2, <1>6, <1>8 DEF v2
        <3> QED
            BY <2>3, <3>3, <3>4, <1>9, <1>5, <1>8 DEF v3
    <2>4. CASE j = 3
        <3>1. k = B + (B + (B + m))
            BY <2>4, <1>1, <1>2
        <3> DEFINE n == B + m
                   o == B + (B + m)
        <3>2. /\ k \in 0 .. WordBits /\ ~(k < B) /\ k - B = o
              /\ o \in 0 .. WordBits /\ ~(o < B) /\ o - B = n
              /\ n \in 0 .. WordBits /\ ~(n < B) /\ n - B = m
            BY <3>1, <1>1, <1>2
        <3> HIDE DEF n, o
        <3>3. Bit(v1, k) = Bit(v2, o)
            BY <3>2, <1>7, <1>8 DEF v1
        <3>4. Bit(v2, o) = Bit(v3, n)
            BY <3>2, <1>6, <1>8 DEF v2
        <3>5. Bit(v3, n) = Bit(v4, m)
            BY <3>2, <1>5, <1>8 DEF v3
        <3> QED
            BY <2>4, <3>3, <3>4, <3>5 DEF v4
    <2> QED
        BY <1>3, <2>1, <2>2, <2>3, <2>4
<1> QED
    BY <1>2, <1>3, <1>10 DEF v1, v2, v3, v4, b, j, m, B

(* loaded_value puts the bytes one above the other and, for lb and lh, the   *)
(* sign of the last one above them.                                          *)
LEMMA LoadedBits ==
    ASSUME NEW i \in Instructions, i.op \in LoadInsts, NEW bytes \in ByteStrings(i),
           NEW k \in BitIndices
    PROVE  LET top == ByteBits * AccessLen(i) - 1
               memBit(n) == Bit(bytes[n \div ByteBits + 1], n % ByteBits)
           IN  Bit(LoadedValue(i, bytes), k) =
                 IF k <= top THEN memBit(k)
                 ELSE IF i.op \in {"Lb", "Lh"} THEN memBit(top) ELSE 0
<1> DEFINE B == ByteBits
           b == 2 ^ B
           len == AccessLen(i)
           part(j) == IF j <= len THEN bytes[j] * 2 ^ (ByteBits * (j - 1)) ELSE 0
           value == part(1) + part(2) + part(3) + part(4)
           bits == B * len
           top == B * len - 1
           c == [j \in 1 .. 4 |-> IF j <= len THEN bytes[j] ELSE 0]
           v == c[1] + b * (c[2] + b * (c[3] + b * c[4]))
           memBit(n) == Bit(bytes[n \div B + 1], n % B)
<1>1. /\ B \in Nat \ {0} /\ len \in {1, 2, 4} /\ Len(bytes) = len
      /\ \A j \in 1 .. len : bytes[j] \in Byte
      /\ b \in Nat \ {0} /\ Byte = 0 .. (b - 1)
    BY WordBitsType, LoadedParts, BytePowers DEF Byte
<1>2. c \in [1 .. 4 -> Byte]
    <2> HIDE DEF b, len
    <2> QED
        BY <1>1
<1>3. value = v
    <2>1. \A j \in 1 .. 4 : c[j] \in Int
        <3> HIDE DEF b, c
        <3> QED
            BY <1>1, <1>2
    <2>2. /\ part(1) = c[1] /\ part(2) = c[2] * b
          /\ part(3) = c[3] * (b * b) /\ part(4) = c[4] * ((b * b) * b)
        <3>1. c[1] = bytes[1]
            BY <1>1
        <3>2. /\ part(1) = bytes[1] * 1
              /\ part(2) = IF 2 <= len THEN bytes[2] * b ELSE 0
              /\ part(3) = IF 3 <= len THEN bytes[3] * (b * b) ELSE 0
              /\ part(4) = IF 4 <= len THEN bytes[4] * ((b * b) * b) ELSE 0
            <4>1. /\ 1 - 1 = 0 /\ 2 - 1 = 1 /\ 3 - 1 = 2 /\ 4 - 1 = 3 /\ 1 <= len
                  /\ 2 ^ (ByteBits * 0) = 1 /\ 2 ^ (ByteBits * 1) = b
                  /\ 2 ^ (ByteBits * 2) = b * b /\ 2 ^ (ByteBits * 3) = (b * b) * b
                BY <1>1, BytePowers
            <4> HIDE DEF b, len
            <4> QED
                BY <4>1
        <3>3. \A j \in 1 .. 4 : c[j] = IF j <= len THEN bytes[j] ELSE 0
            OBVIOUS
        <3> HIDE DEF b, c, len, part
        <3>4. b * b \in Int /\ (b * b) * b \in Int
            BY <1>1
        <3>5. 0 * b = 0 /\ 0 * (b * b) = 0 /\ 0 * ((b * b) * b) = 0
            BY <1>1, <3>4
        <3> QED
            BY <1>1, <2>1, <3>1, <3>2, <3>3, <3>5
    <2> DEFINE x1 == c[1]
               x2 == c[2]
               x3 == c[3]
               x4 == c[4]
    <2>3. x1 \in Int /\ x2 \in Int /\ x3 \in Int /\ x4 \in Int
        BY <2>1
    <2> HIDE DEF b, c, x1, x2, x3, x4
    <2>4. x1 + x2 * b + x3 * (b * b) + x4 * ((b * b) * b) = x1 + b * (x2 + b * (x3 + b * x4))
        BY <1>1, <2>3
    <2> QED
        BY <2>2, <2>4 DEF x1, x2, x3, x4
<1>4. 2 ^ bits \in Nat /\ 2 ^ bits <= 2 ^ WordBits /\ value \in 0 .. (2 ^ bits - 1)
    BY LoadedSum
<1>5. /\ top \in BitIndices /\ bits \in 0 .. WordBits /\ bits \in Nat /\ top = bits - 1
      /\ WordBits - bits \in Nat /\ WordBits - bits \in 0 .. WordBits
      /\ bits + (WordBits - bits) = WordBits /\ WordBits \in Nat /\ k \in 0 .. (WordBits - 1)
    <2>1. bits \in {B, 2 * B, 4 * B} /\ WordBits = 4 * B /\ BitIndices = 0 .. (WordBits - 1)
        <3> HIDE DEF len
        <3> QED
            BY <1>1 DEF BitIndices, WordBits
    <2>2. top = bits - 1
        OBVIOUS
    <2> HIDE DEF bits, B, top
    <2>3. k \in 0 .. (WordBits - 1)
        BY <2>1
    <2> QED
        BY <1>1, <2>1, <2>2, <2>3
<1> HIDE DEF value, v, c
<1>6. ASSUME NEW n \in BitIndices
      PROVE  Bit(value, n) = IF n <= top THEN memBit(n) ELSE 0
    <2> DEFINE q == n \div B
               m == n % B
    <2>1. q \in 0 .. 3 /\ m \in 0 .. (B - 1) /\ Bit(v, n) = Bit(c[q + 1], m)
        BY <1>2, BitInByte DEF v
    <2>2. n = B * q + m /\ n \in Int
        <3>1. n \in Int
            BY DEF BitIndices
        <3> QED
            BY <1>1, <3>1, Division
    <2>3. c[q + 1] = IF q + 1 <= len THEN bytes[q + 1] ELSE 0
        BY <2>1 DEF c
    <2> HIDE DEF q, m, len
    <2>4. n <= top <=> q + 1 <= len
        BY <1>1, <2>1, <2>2
    <2>5. Bit(0, m) = 0
        BY <1>1, <2>1, ZeroBits, WordBitsType DEF WordBits
    <2> QED
        BY <1>3, <2>1, <2>3, <2>4, <2>5 DEF q, m
<1>7. Bit(value, top) = IF value >= 2 ^ top THEN 1 ELSE 0
    <2>1. top \in 0 .. (WordBits - 1) /\ top + 1 = bits
        BY <1>5 DEF BitIndices
    <2> HIDE DEF top, bits
    <2> QED
        BY <1>4, <2>1, HighBit
<1>8. LoadedValue(i, bytes) = IF i.op \in {"Lb", "Lh"} /\ value >= 2 ^ (bits - 1)
                              THEN value + 2 ^ WordBits - 2 ^ bits ELSE value
    BY <1>1 DEF LoadedValue, value
<1>9. CASE i.op \in {"Lb", "Lh"} /\ value >= 2 ^ (bits - 1)
    <2> DEFINE d == WordBits - bits
               y == 2 ^ d - 1
               p == 2 ^ bits
    <2>1. p \in Nat \ {0} /\ 2 ^ d \in Nat \ {0} /\ 2 ^ WordBits = p * 2 ^ d
        BY <1>5, PowerType, PowerSum
    <2>2. value + 2 ^ WordBits - p = value + p * y /\ y \in Int
        <3> HIDE DEF p, d, bits
        <3>1. p * y = p * 2 ^ d - p /\ p * 2 ^ d \in Int
            BY <2>1
        <3>2. value \in Int
            BY <1>4
        <3> QED
            BY <2>1, <3>1, <3>2
    <2>3. Bit(value + p * y, k) = IF k < bits THEN Bit(value, k) ELSE Bit(y, k - bits)
        <3>1. k \in 0 .. WordBits
            BY <1>5
        <3> HIDE DEF y, bits
        <3> QED
            BY <1>4, <1>5, <2>2, <3>1, BitsJoined
    <2>4. ~(k < bits) => Bit(y, k - bits) = 1
        <3> SUFFICES ASSUME ~(k < bits)
                     PROVE  Bit(y, k - bits) = 1
            OBVIOUS
        <3>1. k - bits \in 0 .. (d - 1) /\ d \in 0 .. WordBits
            BY <1>5
        <3> HIDE DEF d
        <3> QED
            BY <3>1, OneBits
    <2>5. memBit(top) = 1
        BY <1>5, <1>6, <1>7, <1>9
    <2>6. k < bits <=> k <= top
        BY <1>5
    <2>7. k <= top => Bit(value, k) = memBit(k)
        BY <1>6
    <2>8. Bit(LoadedValue(i, bytes), k) = IF k < bits THEN Bit(value, k) ELSE 1
        BY <1>8, <1>9, <2>2, <2>3, <2>4
    <2> HIDE DEF memBit, top, bits
    <2>9. Bit(LoadedValue(i, bytes), k) = IF k <= top THEN memBit(k) ELSE memBit(top)
        BY <2>5, <2>6, <2>7, <2>8
    <2> QED
        BY <1>9, <2>9 DEF memBit, top
<1>10. CASE i.op \in {"Lb", "Lh"} /\ ~(value >= 2 ^ (bits - 1))
    <2>1. memBit(top) = 0
        BY <1>5, <1>6, <1>7, <1>10
    <2>2. Bit(LoadedValue(i, bytes), k) = IF k <= top THEN memBit(k) ELSE 0
        BY <1>6, <1>8, <1>10
    <2> HIDE DEF memBit, top
    <2>3. Bit(LoadedValue(i, bytes), k) = IF k <= top THEN memBit(k) ELSE memBit(top)
        BY <2>1, <2>2
    <2> QED
        BY <1>10, <2>3 DEF memBit, top
<1>11. CASE i.op \notin {"Lb", "Lh"}
    <2>1. Bit(LoadedValue(i, bytes), k) = IF k <= top THEN memBit(k) ELSE 0
        BY <1>6, <1>8, <1>11
    <2> QED
        BY <1>11, <2>1
<1> QED
    BY <1>9, <1>10, <1>11

-----------------------------------------------------------------------------
(* The types of the values the actions build. *)

LEMMA RegsFacts == 0 \in Regs /\ A0 \in Regs /\ Regs \subseteq Nat
BY InstructionAssumption DEF Regs

LEMMA NoValueFacts == NoValue \notin Word /\ NoValue \in Int /\ Word \subseteq Int
BY WordFacts DEF NoValue

LEMMA OpIsNotNoOp == ASSUME NEW op \in MicroOps PROVE op # NoOp
<1>1. DOMAIN op = {"inst", "pc", "bp_result", "rs1", "rs2", "alu_result", "rd_write_value",
                   "placeholder"}
    BY DEF MicroOps
<1>2. DOMAIN NoOp = {"placeholder"}
    BY DEF NoOp
<1> QED
    BY <1>1, <1>2

LEMMA InstIsNotNoInst == ASSUME NEW i \in Instructions PROVE i # NoInst
<1>1. DOMAIN i = {"op", "rd", "rs1", "rs2", "imm"}
    BY DEF Instructions
<1>2. DOMAIN NoInst = {"op"}
    BY DEF NoInst
<1> QED
    BY <1>1, <1>2

LEMMA NopType == Nop \in Instructions
BY RegsFacts, WordFacts DEF Nop, Instructions, InstNames, OpImmInsts

LEMMA InstAtType ==
    ASSUME NEW prog \in Seq(Instructions), NEW pc \in Word
    PROVE  InstAt(prog, pc) \in Instructions
<1>1. pc \in Nat
    BY WordFacts
<1>2. CASE pc < Len(prog)
    <2>1. pc + 1 \in 1 .. Len(prog)
        BY <1>1, <1>2
    <2>2. prog[pc + 1] \in Instructions
        BY <2>1
    <2> QED
        BY <1>2, <2>2 DEF InstAt
<1>3. CASE ~(pc < Len(prog))
    BY <1>3, NopType DEF InstAt
<1> QED
    BY <1>2, <1>3

Predictions == [direction : BOOLEAN, addr : Word]

LEMMA PredictType ==
    ASSUME NEW p \in BP!Predictors, NEW pc \in Word
    PROVE  BP!BranchPredict(p, pc) \in Predictions /\ BP!NotTaken \in Predictions
BY WordFacts DEF BP!Predictors, BP!BranchPredict, BP!NotTaken, Predictions

LEMMA NextPcType == ASSUME NEW pc \in Int PROVE NextPc(pc) \in Word
BY ToWordType DEF NextPc

LEMMA LearnType ==
    ASSUME NEW p \in BP!Predictors, NEW direction \in BOOLEAN, NEW pc \in Word,
           NEW target \in Word
    PROVE  BP!MispredictRecovery(p, direction, pc, target) \in BP!Predictors
<1> DEFINE c == IF direction THEN BP!CounterIncrease(p.counter) ELSE BP!CounterDecrease(p.counter)
<1>1. c \in 0 .. 3
    BY DEF BP!Predictors, BP!CounterIncrease, BP!CounterDecrease
<1>2. [p EXCEPT !.counter = c, !.table[pc] = target] \in BP!Predictors
    BY <1>1 DEF BP!Predictors
<1> QED
    BY <1>2 DEF BP!MispredictRecovery

LEMMA FetchedType ==
    ASSUME NEW i \in Instructions, NEW pc \in Word, NEW bp \in Predictions
    PROVE  /\ Fetched(i, pc, bp) \in MicroOps
           /\ Fetched(i, pc, bp).pc = pc /\ ~Fetched(i, pc, bp).placeholder
           /\ Fetched(i, pc, bp).inst = i
BY WordFacts DEF Fetched, MicroOps, Predictions

LEMMA PlaceholderType ==
    /\ PlaceholderNop \in MicroOps
    /\ PlaceholderNop.inst = Nop /\ PlaceholderNop.placeholder
    /\ PlaceholderNop.rs1 = 0 /\ PlaceholderNop.rs2 = 0
BY WordFacts, NopType DEF PlaceholderNop, Fetched, MicroOps, BP!NotTaken

LEMMA ForwardedType ==
    ASSUME {mem_op, wb_op} \subseteq MicroOps \cup {NoOp},
           NEW r, NEW value \in Word \cup {NoValue}
    PROVE  /\ Forwarded(r, value) \in Word \cup {NoValue}
           /\ Forwarded(r, value) = NoValue <=> value = NoValue
<1>1. \A op \in {mem_op, wb_op} : Writeback(op) => op.rd_write_value \in Word
    BY DEF Writeback, MicroOps
<1> QED
    BY <1>1, NoValueFacts DEF Forwarded

LEMMA DecodedType ==
    ASSUME NEW op \in MicroOps, id_regs \in [Regs -> Word]
    PROVE  /\ Decoded(op) \in MicroOps
           /\ Decoded(op).inst = op.inst /\ Decoded(op).pc = op.pc
           /\ Decoded(op).placeholder = op.placeholder
           /\ OperandsRead(Decoded(op))
           /\ Decoded(op).rs1 = IF ReadsRs1(op.inst) THEN id_regs[op.inst.rs1] ELSE NoValue
           /\ Decoded(op).rs2 = IF ReadsRs2(op.inst) THEN id_regs[op.inst.rs2] ELSE NoValue
<1>1. /\ op.inst \in Instructions /\ op.pc \in Int
      /\ op.inst.rs1 \in Regs /\ op.inst.rs2 \in Regs
    BY NoValueFacts DEF MicroOps, Instructions
<1>2. NextPc(op.pc) \in Word
    BY <1>1, NextPcType
<1>3. id_regs[op.inst.rs1] \in Word /\ id_regs[op.inst.rs2] \in Word
    BY <1>1
<1> QED
    BY <1>2, <1>3 DEF Decoded, MicroOps, OperandsRead

LEMMA ExecutedType ==
    ASSUME NEW op \in MicroOps, OperandsRead(op)
    PROVE  /\ Executed(op) \in MicroOps
           /\ Executed(op).inst = op.inst /\ Executed(op).pc = op.pc
           /\ Executed(op).placeholder = op.placeholder
<1> DEFINE type == AluOpType(op.inst)
           result == AluResult(type, Op1(op), Op2(op))
<1>1. op.inst \in Instructions /\ op.inst.imm \in Word /\ op.rs1 \in Int /\ op.rs2 \in Int
      /\ op.pc \in Int
    BY NoValueFacts DEF MicroOps, Instructions
<1>2. Op1(op) \in Int /\ Op2(op) \in Int
    BY <1>1, NoValueFacts DEF Op1, Op2
<1>3. result \in Word
    <2>1. CASE op.inst.op \in OpInsts
        <3>1. op.rs1 \in Word /\ op.rs2 \in Word
            BY <2>1, OpIsNotNoOp DEF OperandsRead, ReadsRs1, ReadsRs2
        <3>2. Op1(op) = op.rs1 /\ Op2(op) = op.rs2 /\ type \in OpInsts
            BY <2>1 DEF Op1, Op2, AluOpType, OpInsts, BranchInsts
        <3> QED
            BY <3>1, <3>2, AluResultIsWord
    <2>2. CASE op.inst.op \in OpImmInsts
        <3>1. op.rs1 \in Word
            BY <2>2, OpIsNotNoOp DEF OperandsRead, ReadsRs1
        <3>2. Op1(op) = op.rs1 /\ Op2(op) = op.inst.imm
            BY <2>2 DEF Op1, Op2, OpInsts, OpImmInsts, BranchInsts
        <3>3. type \in OpInsts
            BY <2>2 DEF AluOpType, OpInsts, OpImmInsts
        <3> QED
            BY <1>1, <3>1, <3>2, <3>3, AluResultIsWord
    <2>3. CASE op.inst.op \notin OpInsts \cup OpImmInsts
        <3>1. type = "Add"
            BY <2>3 DEF AluOpType, OpInsts, OpImmInsts
        <3>2. result = ToWord(Op1(op) + Op2(op))
            BY <3>1 DEF AluResult
        <3> QED
            BY <1>2, <3>2, ToWordType
    <2> QED
        BY <2>1, <2>2, <2>3
<1> HIDE DEF result
<1>4. Executed(op) = [op EXCEPT !.alu_result = result,
                                !.rd_write_value = IF AluResultIsRd(op) THEN result ELSE @]
    BY DEF Executed, result
<1> QED
    BY <1>3, <1>4 DEF MicroOps

(* A load with its value; any other op leaves MEM as it came. *)
Finished(op) ==
    IF IsLoad(op) THEN [op EXCEPT !.rd_write_value = LoadedValue(op.inst, LoadBytes(op))] ELSE op

LEMMA FinishedType ==
    ASSUME NEW op \in MicroOps, data \in [Word -> Byte],
           IsLoad(op) => Aligned(op.inst, op.alu_result)
    PROVE  /\ Finished(op) \in MicroOps
           /\ Finished(op).inst = op.inst /\ Finished(op).pc = op.pc
           /\ Finished(op).placeholder = op.placeholder
           /\ ~IsLoad(op) => Finished(op) = op
<1>1. CASE IsLoad(op)
    <2>1. op.inst \in Instructions /\ op.inst.op \in LoadInsts /\ op.alu_result \in Word
        BY <1>1 DEF IsLoad, MicroOps
    <2>2. AccessLen(op.inst) \in {1, 2, 4}
        BY <2>1 DEF AccessLen, LoadInsts
    <2>3. \A k \in 1 .. AccessLen(op.inst) : op.alu_result + k - 1 \in Word
        BY <1>1, <2>1, <2>2, AlignedFits
    <2>4. LoadBytes(op) \in ByteStrings(op.inst)
        BY <2>3 DEF LoadBytes, ByteStrings
    <2> DEFINE v == LoadedValue(op.inst, LoadBytes(op))
    <2>5. v \in Word
        BY <2>1, <2>4, LoadedValueIsWord
    <2> HIDE DEF v
    <2>6. Finished(op) = [op EXCEPT !.rd_write_value = v]
        BY <1>1 DEF Finished, v
    <2> QED
        BY <1>1, <2>5, <2>6 DEF MicroOps
<1>2. CASE ~IsLoad(op)
    BY <1>2 DEF Finished
<1> QED
    BY <1>1, <1>2

LEMMA PerformType ==
    ASSUME NEW op \in MicroOps, data \in [Word -> Byte]
    PROVE  Perform(op) \in [Word -> Byte]
<1>1. CASE op.inst.op \in StoreInsts
    <2>1. op.rs2 \in Int /\ op.alu_result \in Word /\ op.alu_result \in Int
        BY NoValueFacts DEF MicroOps
    <2>2. AccessLen(op.inst) \in 0 .. 4
        BY DEF AccessLen
    <2>3. StoreBytes(op.inst, op.rs2) \in [1 .. AccessLen(op.inst) -> Byte]
        BY <2>1, <2>2, StoreBytesType DEF ByteStrings
    <2>4. ASSUME NEW a \in Word
          PROVE  Perform(op)[a] \in Byte
        <3>1. a \in Int
            BY NoValueFacts
        <3>2. a \in op.alu_result .. (op.alu_result + AccessLen(op.inst) - 1)
              => a - op.alu_result + 1 \in 1 .. AccessLen(op.inst)
            BY <2>1, <2>2, <3>1
        <3> QED
            BY <1>1, <2>3, <3>2 DEF Perform
    <2> QED
        BY <1>1, <2>4 DEF Perform
<1>2. CASE op.inst.op \notin StoreInsts
    BY <1>2 DEF Perform
<1> QED
    BY <1>1, <1>2

LEMMA AcceptType ==
    ASSUME NEW c \in Caches, NEW n \in Nat, NEW q \in BOOLEAN
    PROVE  /\ Accept(c, n, q) \in Caches
           /\ Accept(c, n, q).live <=> n > 0
           /\ Accept(c, n, q).busy <=> n > 0
<1> DEFINE b == n > 0
           u == c.queued \/ q
<1>1. b \in BOOLEAN /\ u \in BOOLEAN
    BY DEF Caches
<1>2. Accept(c, n, q) = [busy |-> b, left |-> n, live |-> b, queued |-> u]
    BY DEF Accept
<1> HIDE DEF b, u
<1>3. Accept(c, n, q) \in Caches
    BY <1>1, <1>2 DEF Caches
<1>4. Accept(c, n, q).live = b /\ Accept(c, n, q).busy = b
    BY <1>2
<1>5. (Accept(c, n, q).live <=> b) /\ (Accept(c, n, q).busy <=> b)
    BY <1>4, Zenon
<1> QED
    BY <1>3, <1>5 DEF b

(* A tick keeps a request that is in work alive until the cache answers it,  *)
(* and makes no request that a stage holds.                                  *)
LEMMA TickType ==
    ASSUME NEW c \in Caches, NEW latencies, latencies \subseteq Nat,
           NEW d \in TickCache(c, latencies)
    PROVE  /\ d \in Caches
           /\ d.live => c.live
           /\ (c.live => c.busy) => (d.live => d.busy)
           /\ (c.live => c.busy) /\ Answers(c) => ~d.live
<1>1. CASE c.busy /\ c.left > 1
    <2>1. d = [c EXCEPT !.left = c.left - 1]
        BY <1>1 DEF TickCache, CountDown
    <2> QED
        BY <1>1, <2>1 DEF Caches, Answers
<1>2. CASE c.busy /\ ~(c.left > 1)
    <2>1. d = [busy |-> FALSE, left |-> 0, live |-> FALSE, queued |-> c.queued]
        BY <1>2 DEF TickCache, Release, IdleCache
    <2> QED
        BY <2>1 DEF Caches
<1>3. CASE ~c.busy /\ c.queued
    <2>1. PICK n \in latencies : d = [busy |-> TRUE, left |-> n, live |-> FALSE, queued |-> FALSE]
        BY <1>3 DEF TickCache, StartPrefetch
    <2> QED
        BY <2>1 DEF Caches
<1>4. CASE ~c.busy /\ ~c.queued
    BY <1>4 DEF TickCache, Answers
<1> QED
    BY <1>1, <1>2, <1>3, <1>4

LEMMA MayQueueType == ASSUME NEW name PROVE MayQueue(name) \subseteq BOOLEAN
BY DEF MayQueue

-----------------------------------------------------------------------------
(* The four stages counted one by one. *)

LEMMA CountStep ==
    ASSUME NEW S, IsFiniteSet(S), NEW j, j \notin S, NEW p \in BOOLEAN,
           NEW T, T = IF p THEN S \cup {j} ELSE S
    PROVE  IsFiniteSet(T) /\ Cardinality(T) = Cardinality(S) + (IF p THEN 1 ELSE 0)
<1>1. Cardinality(S) \in Nat
    BY FS_CardinalityType
<1>2. CASE p
    BY <1>1, <1>2, FS_AddElement
<1>3. CASE ~p
    BY <1>1, <1>3
<1> QED
    BY <1>2, <1>3

LEMMA CountersSum ==
    ASSUME NEW a, NEW b, NEW c, NEW d
    PROVE  Cardinality({k \in 1 .. 4 : InFlight(<<a, b, c, d>>[k])})
             = Retired(a) + Retired(b) + Retired(c) + Retired(d)
<1> DEFINE n == <<a, b, c, d>>
           S(j) == {k \in 1 .. j : InFlight(n[k])}
           one(op) == IF InFlight(op) THEN 1 ELSE 0
<1>0. n[1] = a /\ n[2] = b /\ n[3] = c /\ n[4] = d
    OBVIOUS
<1>1. \A op : InFlight(op) \in BOOLEAN
    BY DEF InFlight
<1> HIDE DEF n
<1>2. IsFiniteSet(S(0)) /\ Cardinality(S(0)) = 0
    <2>1. S(0) = {}
        OBVIOUS
    <2> QED
        BY <2>1, FS_EmptySet
<1>3. ASSUME NEW j \in 1 .. 4, IsFiniteSet(S(j - 1))
      PROVE  IsFiniteSet(S(j)) /\ Cardinality(S(j)) = Cardinality(S(j - 1)) + one(n[j])
    <2>1. j \notin S(j - 1) /\ S(j) = IF InFlight(n[j]) THEN S(j - 1) \cup {j} ELSE S(j - 1)
        OBVIOUS
    <2> HIDE DEF S
    <2> QED
        BY <1>1, <1>3, <2>1, CountStep
<1> HIDE DEF S
<1>4. \A j \in 1 .. 4 : IsFiniteSet(S(j - 1)) =>
        IsFiniteSet(S(j)) /\ Cardinality(S(j)) = Cardinality(S(j - 1)) + one(n[j])
    BY <1>3
<1>5. IsFiniteSet(S(1)) /\ Cardinality(S(1)) = one(n[1])
    <2>1. 1 \in 1 .. 4 /\ 1 - 1 = 0
        OBVIOUS
    <2> QED
        BY <1>2, <1>4, <2>1
<1>6. IsFiniteSet(S(2)) /\ Cardinality(S(2)) = one(n[1]) + one(n[2])
    <2>1. 2 \in 1 .. 4 /\ 2 - 1 = 1
        OBVIOUS
    <2> QED
        BY <1>5, <1>4, <2>1
<1>7. IsFiniteSet(S(3)) /\ Cardinality(S(3)) = one(n[1]) + one(n[2]) + one(n[3])
    <2>1. 3 \in 1 .. 4 /\ 3 - 1 = 2
        OBVIOUS
    <2> QED
        BY <1>6, <1>4, <2>1
<1>8. Cardinality(S(4)) = one(n[1]) + one(n[2]) + one(n[3]) + one(n[4])
    <2>1. 4 \in 1 .. 4 /\ 4 - 1 = 3
        OBVIOUS
    <2> QED
        BY <1>7, <1>4, <2>1
<1>9. \A op : one(op) = Retired(op)
    BY DEF InFlight, Retired
<1> QED
    BY <1>0, <1>8, <1>9 DEF S, n

(* CountersConserve as a sum over the stages. *)
Balance == Retired(id_op) + Retired(exe_op) + Retired(mem_op) + Retired(wb_op)

LEMMA BalanceIsCount == CountersConserve <=> hpm_balance = Balance
BY CountersSum DEF CountersConserve, Balance, ops

-----------------------------------------------------------------------------
LEMMA InitInv == ASSUME Init PROVE IndInv
<1> USE DEF Init
<1>1. PICK setup \in Setups : /\ program = setup.program
                              /\ data = setup.data
                              /\ branch_predictor = BP!NewPredictor(setup.predictor)
    OBVIOUS
<1>2. /\ program \in Seq(Instructions) /\ data \in [Word -> Byte]
      /\ branch_predictor \in BP!Predictors
    BY <1>1, PipelineAssumption, WordFacts
    DEF BP!NewPredictor, BP!Predictors, BP!PredictorKinds
<1>3. TypeOK
    BY <1>2, WordFacts, RegsFacts DEF TypeOK, IdleFsm, IdleCache, Caches, NoValue, DIV_REM_STALL
<1>4. OpsInv
    BY RegsFacts DEF OpsInv, WellFormed, OperandsRead
<1>5. MemInv /\ FetchIsCurrent
    BY DEF MemInv, FetchIsCurrent, IdleFsm, IdleCache
<1>6. BranchInv /\ StallInv /\ FreshInv
    BY DEF BranchInv, StallInv, FreshInv
<1>7. CountersConserve
    <2>1. Retired(NoOp) = 0
        BY DEF Retired
    <2> QED
        BY <2>1, BalanceIsCount DEF Balance
<1> QED
    BY <1>3, <1>4, <1>5, <1>6, <1>7 DEF IndInv, ShapeInv

-----------------------------------------------------------------------------
(* The invariant, one action after the other. *)

LEMMA OpTypes ==
    ASSUME TypeOK
    PROVE  /\ id_op # NoOp => id_op \in MicroOps
           /\ exe_op # NoOp => exe_op \in MicroOps
           /\ mem_op # NoOp => mem_op \in MicroOps
           /\ wb_op # NoOp => wb_op \in MicroOps
BY DEF TypeOK

LEMMA RetiredType == ASSUME NEW op PROVE Retired(op) \in {0, 1}
BY DEF Retired

LEMMA RecoverStep == ASSUME IndInv, Recover PROVE IndInv'
<1> USE DEF IndInv, ShapeInv, Recover, Enter, Goto, DropFetch
<1>1. /\ mem_op \in MicroOps /\ ~mem_op.placeholder /\ mem_op.inst.op \in ControlFlow
      /\ mem_op.pc \in Word
    BY OpTypes DEF BranchInv, OpsInv, WellFormed
<1>2. /\ if_pc' \in Word
      /\ branch_predictor' \in BP!Predictors
    <2>1. /\ branch_predictor \in BP!Predictors /\ branch_correct_direction \in BOOLEAN
          /\ branch_destination \in Word
        BY DEF TypeOK
    <2>2. BP!MispredictRecovery(branch_predictor, branch_correct_direction, mem_op.pc,
                                branch_destination) \in BP!Predictors
        BY <1>1, <2>1, LearnType
    <2> QED
        BY <2>1, <2>2
<1>3. icache' \in Caches /\ ~icache'.live
    BY DEF TypeOK, Caches
<1>4. TypeOK'
    BY <1>2, <1>3, WordFacts DEF TypeOK, IdleFsm, memory_vars
<1>5. OpsInv'
    BY DEF OpsInv, WellFormed, OperandsRead
<1>6. MemInv'
    BY DEF MemInv, memory_vars
<1>7. FetchIsCurrent'
    BY <1>3 DEF FetchIsCurrent, IdleFsm
<1>8. BranchInv' /\ StallInv' /\ FreshInv'
    BY DEF BranchInv, StallInv, FreshInv
<1>9. CountersConserve'
    <2>1. hpm_balance = Balance
        BY BalanceIsCount
    <2>2. Flushed(id_op) = Retired(id_op) /\ Flushed(exe_op) = Retired(exe_op)
        BY DEF Flushed, Retired, OpsInv, StallInv
    <2>3. Retired(NoOp) = 0
        BY DEF Retired
    <2>4. hpm_balance' = Balance'
        BY <2>1, <2>2, <2>3, RetiredType DEF Balance
    <2> QED
        BY <2>4, CountersSum DEF CountersConserve, Balance, ops
<1> QED
    BY <1>4, <1>5, <1>6, <1>7, <1>8, <1>9

LEMMA ForwardStep == ASSUME IndInv, Forward PROVE IndInv'
<1> USE DEF IndInv, ShapeInv, Forward, Enter, Goto
<1> DEFINE v1 == Forwarded(exe_op.inst.rs1, exe_op.rs1)
           v2 == Forwarded(exe_op.inst.rs2, exe_op.rs2)
<1>0. {mem_op, wb_op} \subseteq MicroOps \cup {NoOp}
    BY DEF TypeOK
<1>1. CASE exe_op = NoOp
    <2>1. exe_op' = NoOp
        BY <1>1
    <2>2. TypeOK'
        BY <1>1, <2>1 DEF TypeOK, fetch_vars, memory_vars, branch_vars
    <2>3. OpsInv' /\ MemInv' /\ FetchIsCurrent'
        BY <1>1, <2>1 DEF OpsInv, MemInv, FetchIsCurrent, WellFormed, OperandsRead,
           fetch_vars, memory_vars
    <2>4. BranchInv' /\ StallInv' /\ FreshInv'
        BY <1>1, <2>1 DEF BranchInv, StallInv, FreshInv, branch_vars
    <2>5. CountersConserve'
        BY <1>1, <2>1 DEF CountersConserve, ops
    <2> QED
        BY <2>2, <2>3, <2>4, <2>5
<1>2. CASE exe_op # NoOp
    <2>1. exe_op \in MicroOps
        BY <1>2, OpTypes
    <2>2. /\ exe_op.rs1 \in Word \cup {NoValue} /\ exe_op.rs2 \in Word \cup {NoValue}
          /\ exe_op.inst \in Instructions
        BY <2>1 DEF MicroOps
    <2>3. /\ v1 \in Word \cup {NoValue} /\ (v1 = NoValue <=> exe_op.rs1 = NoValue)
          /\ v2 \in Word \cup {NoValue} /\ (v2 = NoValue <=> exe_op.rs2 = NoValue)
        BY <1>0, <2>2, ForwardedType
    <2>v. exe_op' = [exe_op EXCEPT !.rs1 = v1, !.rs2 = v2]
        BY <1>2
    <2> HIDE DEF v1, v2
    <2>4. /\ exe_op' \in MicroOps
          /\ exe_op'.inst = exe_op.inst /\ exe_op'.pc = exe_op.pc
          /\ exe_op'.placeholder = exe_op.placeholder
          /\ exe_op'.rs1 = v1 /\ exe_op'.rs2 = v2
        BY <2>1, <2>3, <2>v DEF MicroOps
    <2>5. exe_op' # NoOp
        BY <2>4, OpIsNotNoOp
    <2>6. TypeOK'
        BY <2>4 DEF TypeOK, fetch_vars, memory_vars, branch_vars
    <2>7. OpsInv'
        BY <1>2, <2>3, <2>4, <2>5, NoValueFacts DEF OpsInv, WellFormed, OperandsRead
    <2>8. MemInv' /\ FetchIsCurrent'
        BY DEF MemInv, FetchIsCurrent, fetch_vars, memory_vars
    <2>9. BranchInv' /\ StallInv'
        BY <1>2, <2>4 DEF BranchInv, StallInv, branch_vars
    <2>10. FreshInv'
        <3>1. ASSUME NEW r \in Regs, NEW value \in Word \cup {NoValue}, Fresh(r, value),
                     NEW w, w = Forwarded(r, value)
              PROVE  Fresh(r, w)'
            <4>0. id_regs[r] \in Word
                BY DEF TypeOK
            <4>1. Newest(r)' = Newest(r)
                BY DEF Newest, Forwarded
            <4>2. w # NoValue => value # NoValue
                BY <1>0, <3>1, ForwardedType
            <4>3. w # NoValue => w = Newest(r)
                BY <4>0, <4>2, <3>1, NoValueFacts DEF Fresh, Newest, Forwarded
            <4> QED
                BY <4>1, <4>2, <4>3, <3>1 DEF Fresh
        <3>2. PICK r1, r2, w1, w2 :
                /\ r1 \in Regs /\ r2 \in Regs
                /\ r1 = exe_op.inst.rs1 /\ r2 = exe_op.inst.rs2 /\ w1 = v1 /\ w2 = v2
            BY <2>2 DEF Instructions
        <3>3. Fresh(r1, w1)'
            BY <3>1, <3>2, <2>2, <1>2 DEF FreshInv, v1
        <3>4. Fresh(r2, w2)'
            BY <3>1, <3>2, <2>2, <1>2 DEF FreshInv, v2
        <3> QED
            BY <3>2, <3>3, <3>4, <2>4, <2>5 DEF FreshInv
    <2>11. CountersConserve'
        <3>1. Retired(exe_op') = Retired(exe_op)
            BY <1>2, <2>4, <2>5 DEF Retired
        <3>2. hpm_balance' = Balance'
            BY <3>1, BalanceIsCount DEF Balance
        <3> QED
            BY <3>2, CountersSum DEF CountersConserve, Balance, ops
    <2> QED
        BY <2>6, <2>7, <2>8, <2>9, <2>10, <2>11
<1> QED
    BY <1>1, <1>2

(* Writing a register back changes where its newest value is, not the value. *)
LEMMA WriteBackKeepsNewest ==
    ASSUME TypeOK, WriteBack, NEW r \in Regs
    PROVE  Newest(r)' = Newest(r)
<1> USE DEF WriteBack, Enter, Goto
<1>1. id_regs \in [Regs -> Word] /\ id_regs[r] # NoValue
    BY NoValueFacts DEF TypeOK
<1>2. ~Writeback(NoOp)
    BY DEF Writeback
<1>3. CASE Writeback(wb_op) /\ wb_op.inst.rd # 0
    <2>1. wb_op \in MicroOps
        BY <1>3, OpTypes DEF Writeback
    <2>2. wb_op.inst.rd \in Regs /\ wb_op.rd_write_value # NoValue
        BY <2>1, <1>3 DEF MicroOps, Instructions, Writeback
    <2>3. id_regs'[r] = IF wb_op.inst.rd = r THEN wb_op.rd_write_value ELSE id_regs[r]
        BY <1>1, <1>3, <2>2
    <2>4. id_regs'[r] # NoValue
        BY <1>1, <2>2, <2>3
    <2>5. Newest(r)' = IF r # 0 /\ Writeback(mem_op) /\ mem_op.inst.rd = r
                       THEN mem_op.rd_write_value ELSE id_regs'[r]
        BY <1>2, <2>4 DEF Newest, Forwarded
    <2> QED
        BY <1>1, <1>3, <2>2, <2>3, <2>5 DEF Newest, Forwarded
<1>4. CASE ~(Writeback(wb_op) /\ wb_op.inst.rd # 0)
    <2>1. id_regs' = id_regs
        BY <1>4
    <2>2. Newest(r)' = IF r # 0 /\ Writeback(mem_op) /\ mem_op.inst.rd = r
                       THEN mem_op.rd_write_value ELSE id_regs[r]
        BY <1>1, <1>2, <2>1 DEF Newest, Forwarded
    <2> QED
        BY <1>1, <1>4, <2>2 DEF Newest, Forwarded
<1> QED
    BY <1>3, <1>4

LEMMA WriteBackStep == ASSUME IndInv, WriteBack PROVE IndInv'
<1> USE DEF IndInv, ShapeInv, WriteBack, Enter, Goto
<1>1. id_regs' \in [Regs -> Word] /\ id_regs'[0] = 0
    <2>1. id_regs \in [Regs -> Word] /\ id_regs[0] = 0
        BY DEF TypeOK, OpsInv
    <2>2. CASE Writeback(wb_op) /\ wb_op.inst.rd # 0
        <3>1. wb_op.inst.rd \in Regs /\ wb_op.rd_write_value \in Word
            BY <2>2, OpTypes DEF Writeback, MicroOps, Instructions
        <3> QED
            BY <2>1, <2>2, <3>1, RegsFacts
    <2> QED
        BY <2>1, <2>2
<1>2. TypeOK'
    <2>1. halt' \in BOOLEAN
        BY DEF TypeOK
    <2>2. retired_data' \in [Word -> Byte]
        BY DEF TypeOK
    <2> QED
        BY <1>1, <2>1, <2>2 DEF TypeOK, fetch_vars, memory_vars, branch_vars
<1>3. OpsInv'
    BY <1>1 DEF OpsInv, WellFormed, OperandsRead
<1>4. MemInv'
    BY DEF MemInv, memory_vars
<1>5. FetchIsCurrent'
    BY DEF FetchIsCurrent, fetch_vars
<1>6. BranchInv' /\ StallInv'
    BY DEF BranchInv, StallInv, branch_vars
<1>7. FreshInv'
    <2>1. ASSUME NEW r \in Regs, NEW value, Fresh(r, value)
          PROVE  Fresh(r, value)'
        BY <2>1, WriteBackKeepsNewest DEF Fresh
    <2>2. CASE exe_op # NoOp
        <3>1. PICK r1, r2, w1, w2 :
                /\ r1 \in Regs /\ r2 \in Regs
                /\ r1 = exe_op.inst.rs1 /\ r2 = exe_op.inst.rs2 /\ w1 = exe_op.rs1 /\ w2 = exe_op.rs2
            BY <2>2, OpTypes DEF MicroOps, Instructions
        <3>2. Fresh(r1, w1)' /\ Fresh(r2, w2)'
            BY <2>1, <2>2, <3>1 DEF FreshInv
        <3> QED
            BY <3>1, <3>2 DEF FreshInv
    <2> QED
        BY <2>2 DEF FreshInv
<1>8. CountersConserve'
    <2>1. Retired(NoOp) = 0
        BY DEF Retired
    <2>2. hpm_balance' = Balance'
        BY <2>1, BalanceIsCount, RetiredType DEF Balance
    <2> QED
        BY <2>2, CountersSum DEF CountersConserve, Balance, ops
<1> QED
    BY <1>2, <1>3, <1>4, <1>5, <1>6, <1>7, <1>8

(* What MemoryAccess leaves alone, and the two things it does with the op: *)
(* it goes to WB, or it stays.                                             *)
MemFrame ==
    /\ Enter("mem") /\ Goto("exe")
    /\ UNCHANGED <<halt, panicked, fetch_vars, branch_predictor, id_regs, id_op, exe_op,
                   branch_vars, int_mul_div_stall_countdown, id_load_use_stall, retired_data,
                   hpm_balance>>

Leaves ==
    /\ mem_op # NoOp
    /\ wb_op' = Finished(mem_op) /\ mem_op' = NoOp
    /\ mem_transaction' = [state |-> "Idle", done |-> FALSE]
    /\ IsLoad(mem_op) => Aligned(mem_op.inst, mem_op.alu_result)
    /\ data' \in [Word -> Byte]
    /\ dcache' \in Caches /\ ~dcache'.live

Stays ==
    /\ UNCHANGED <<mem_op, wb_op, data>>
    /\ mem_transaction' \in [state : {"Idle", "Sending", "Waiting", "Complete"}, done : BOOLEAN]
    /\ dcache' \in Caches

LEMMA MemFrameStep ==
    ASSUME IndInv, MemFrame, {mem_op', wb_op'} \subseteq MicroOps \cup {NoOp},
           mem_transaction' \in [state : {"Idle", "Sending", "Waiting", "Complete"},
                                 done : BOOLEAN],
           dcache' \in Caches, data' \in [Word -> Byte]
    PROVE  /\ TypeOK' /\ FetchIsCurrent' /\ BranchInv' /\ (StallInv)'
           /\ WellFormed(id_op)' /\ WellFormed(exe_op)' /\ OperandsRead(exe_op)'
           /\ (id_op # NoOp => ~id_op.placeholder)' /\ (id_regs[0] = 0)'
<1> USE DEF IndInv, ShapeInv, MemFrame, Enter, Goto
<1>1. TypeOK'
    BY DEF TypeOK, fetch_vars, branch_vars
<1>2. FetchIsCurrent'
    BY DEF FetchIsCurrent, fetch_vars
<1>3. BranchInv' /\ StallInv'
    BY DEF BranchInv, StallInv, branch_vars
<1> QED
    BY <1>1, <1>2, <1>3 DEF OpsInv, WellFormed, OperandsRead

LEMMA LeavesStep == ASSUME IndInv, MemFrame, Leaves PROVE IndInv'
<1> USE DEF IndInv, ShapeInv
<1>1. mem_op \in MicroOps /\ data \in [Word -> Byte] /\ wb_op = NoOp
    BY OpTypes DEF Leaves, TypeOK, MemInv, MemFrame, Enter
<1>2. /\ wb_op' \in MicroOps /\ wb_op'.inst = mem_op.inst /\ wb_op'.pc = mem_op.pc
      /\ wb_op'.placeholder = mem_op.placeholder
      /\ ~IsLoad(mem_op) => wb_op' = mem_op
    BY <1>1, FinishedType DEF Leaves
<1>3. wb_op' # NoOp
    BY <1>2, OpIsNotNoOp
<1>4. /\ TypeOK' /\ FetchIsCurrent' /\ BranchInv' /\ StallInv'
      /\ WellFormed(id_op)' /\ WellFormed(exe_op)' /\ OperandsRead(exe_op)'
      /\ (id_op # NoOp => ~id_op.placeholder)' /\ (id_regs[0] = 0)'
    BY <1>2, MemFrameStep DEF Leaves
<1>5. OpsInv'
    BY <1>2, <1>3, <1>4 DEF OpsInv, WellFormed, Leaves
<1>6. MemInv'
    BY DEF MemInv, Leaves, MemFrame, Goto
<1>7. FreshInv'
    <2>1. ASSUME NEW r \in Regs, NEW value, Fresh(r, value), value # NoValue
          PROVE  Newest(r)' = Newest(r)
        <3>1. id_regs' = id_regs /\ id_regs[r] # NoValue /\ stage = "mem"
            BY NoValueFacts DEF TypeOK, MemFrame, Enter
        <3>2. ~Writeback(NoOp)
            BY DEF Writeback
        <3>3. CASE IsLoad(mem_op)
            <4>1. r # 0 => mem_op.inst.rd # r
                BY <2>1, <3>3, <1>1, OpIsNotNoOp DEF Fresh
            <4> QED
                BY <4>1, <3>1, <3>2, <1>1, <1>2 DEF Newest, Forwarded, Leaves
        <3>4. CASE ~IsLoad(mem_op)
            BY <3>4, <3>1, <3>2, <1>1, <1>2 DEF Newest, Forwarded, Leaves
        <3> QED
            BY <3>3, <3>4
    <2>2. ASSUME NEW r \in Regs, NEW value, Fresh(r, value)
          PROVE  Fresh(r, value)'
        BY <2>1, <2>2 DEF Fresh, MemFrame, Enter, Goto, Leaves
    <2>3. CASE exe_op # NoOp
        <3>1. PICK r1, r2, w1, w2 :
                /\ r1 \in Regs /\ r2 \in Regs
                /\ r1 = exe_op.inst.rs1 /\ r2 = exe_op.inst.rs2 /\ w1 = exe_op.rs1 /\ w2 = exe_op.rs2
            BY <2>3, OpTypes DEF MicroOps, Instructions
        <3>2. Fresh(r1, w1)' /\ Fresh(r2, w2)'
            BY <2>2, <2>3, <3>1 DEF FreshInv
        <3> QED
            BY <3>1, <3>2 DEF FreshInv, MemFrame
    <2> QED
        BY <2>3 DEF FreshInv, MemFrame
<1>8. CountersConserve'
    <2>1. Retired(NoOp) = 0 /\ Retired(wb_op') = Retired(mem_op)
        BY <1>1, <1>2, <1>3, OpIsNotNoOp DEF Retired
    <2>2. hpm_balance' = Balance'
        BY <1>1, <2>1, BalanceIsCount, RetiredType DEF Balance, Leaves, MemFrame
    <2> QED
        BY <2>2, CountersSum DEF CountersConserve, Balance, ops
<1> QED
    BY <1>4, <1>5, <1>6, <1>7, <1>8

LEMMA StaysStep == ASSUME IndInv, MemFrame, Stays, MemInv' PROVE IndInv'
<1> USE DEF IndInv, ShapeInv
<1>1. /\ TypeOK' /\ FetchIsCurrent' /\ BranchInv' /\ StallInv'
      /\ WellFormed(id_op)' /\ WellFormed(exe_op)' /\ OperandsRead(exe_op)'
      /\ (id_op # NoOp => ~id_op.placeholder)' /\ (id_regs[0] = 0)'
    BY MemFrameStep DEF Stays, TypeOK
<1>2. OpsInv'
    BY <1>1 DEF OpsInv, WellFormed, Stays
<1>3. FreshInv'
    BY DEF FreshInv, Fresh, Newest, Forwarded, Stays, MemFrame, Enter, Goto
<1>4. CountersConserve'
    BY DEF CountersConserve, ops, Stays, MemFrame
<1> QED
    BY <1>1, <1>2, <1>3, <1>4

LEMMA LeaveMemLeaves ==
    ASSUME wb_op = NoOp, LeaveMem(mem_op)
    PROVE  /\ wb_op' = Finished(mem_op) /\ mem_op' = NoOp
           /\ mem_transaction' = [state |-> "Idle", done |-> FALSE]
BY DEF LeaveMem, Finished

LEMMA MemoryAccessStep == ASSUME IndInv, MemoryAccess PROVE IndInv'
<1> USE DEF IndInv, ShapeInv
<1>1. MemFrame /\ ~Misaligned
    BY DEF MemoryAccess, MemFrame
<1>2. /\ wb_op = NoOp /\ stage' = "exe"
      /\ dcache \in Caches /\ data \in [Word -> Byte]
      /\ mem_transaction \in [state : {"Idle", "Sending", "Waiting", "Complete"}, done : BOOLEAN]
    BY <1>1 DEF MemFrame, Enter, Goto, MemInv, TypeOK
<1>3. CASE mem_op = NoOp /\ UNCHANGED <<mem_op, wb_op, memory_vars>>
    <2>1. Stays
        BY <1>2, <1>3 DEF Stays, memory_vars
    <2>2. MemInv'
        BY <1>2, <1>3 DEF MemInv, memory_vars
    <2> QED
        BY <1>1, <2>1, <2>2, StaysStep
<1>4. CASE /\ mem_op # NoOp /\ ~AccessesMemory(mem_op)
           /\ LeaveMem(mem_op)
           /\ UNCHANGED <<dcache, data>>
    <2>1. ~IsLoad(mem_op) /\ ~dcache.live
        BY <1>4 DEF AccessesMemory, IsLoad, MemInv
    <2>2. Leaves
        BY <1>2, <1>4, <2>1, LeaveMemLeaves DEF Leaves
    <2> QED
        BY <1>1, <2>2, LeavesStep
<1>5. CASE mem_op # NoOp /\ AccessesMemory(mem_op) /\ MemSend
    <2>1. Aligned(mem_op.inst, mem_op.alu_result) /\ ~mem_transaction.done
        BY <1>5 DEF MemSend, MemInv
    <2>2. CASE /\ dcache.busy
               /\ mem_transaction' = [state |-> "Sending", done |-> FALSE]
               /\ StayInMem
               /\ UNCHANGED <<dcache, data>>
        <3>1. Stays
            BY <1>2, <2>2 DEF Stays, StayInMem
        <3>2. ~dcache.live
            BY <1>5 DEF MemSend, MemInv
        <3>3. MemInv'
            BY <1>2, <1>5, <2>2, <3>2 DEF MemInv, StayInMem
        <3> QED
            BY <1>1, <3>1, <3>3, StaysStep
    <2>3. ASSUME ~dcache.busy, NEW n \in DLatencies, NEW q \in MayQueue("dcache"),
                 dcache' = Accept(dcache, n, q),
                 IF n = 0
                 THEN data' = Perform(mem_op) /\ LeaveMem(mem_op)
                 ELSE /\ mem_transaction' = [state |-> "Waiting", done |-> FALSE]
                      /\ StayInMem
                      /\ UNCHANGED data
          PROVE  IndInv'
        <3>1. n \in Nat /\ q \in BOOLEAN
            BY PipelineAssumption, MayQueueType
        <3>2. dcache' \in Caches /\ (dcache'.live <=> n > 0) /\ (dcache'.busy <=> n > 0)
            BY <1>2, <2>3, <3>1, AcceptType
        <3>3. CASE n = 0
            <4>1. data' \in [Word -> Byte]
                BY <1>2, <1>5, <2>3, <3>3, PerformType, OpTypes
            <4>2. Leaves
                BY <1>2, <1>5, <2>1, <2>3, <3>2, <3>3, <4>1, LeaveMemLeaves DEF Leaves
            <4> QED
                BY <1>1, <4>2, LeavesStep
        <3>4. CASE n # 0
            <4>0. /\ mem_transaction' = [state |-> "Waiting", done |-> FALSE]
                  /\ UNCHANGED <<mem_op, wb_op, data>>
                BY <2>3, <3>4 DEF StayInMem
            <4>1. Stays
                BY <3>2, <4>0 DEF Stays
            <4>2. dcache'.busy
                BY <3>1, <3>2, <3>4
            <4>3. MemInv'
                BY <1>2, <1>5, <2>1, <4>0, <4>2 DEF MemInv
            <4> QED
                BY <1>1, <4>1, <4>3, StaysStep
        <3> QED
            BY <3>3, <3>4
    <2> QED
        BY <1>5, <2>2, <2>3 DEF MemSend
<1>6. CASE mem_op # NoOp /\ AccessesMemory(mem_op) /\ MemWait
    <2>1. mem_transaction.state = "Waiting" /\ Aligned(mem_op.inst, mem_op.alu_result)
        BY <1>6 DEF MemWait, MemInv
    <2>2. CASE mem_transaction.done
        <3>1. ~dcache.live
            BY <2>2 DEF MemInv
        <3>2. Leaves
            BY <1>2, <1>6, <2>1, <2>2, <3>1, LeaveMemLeaves DEF Leaves, MemWait
        <3> QED
            BY <1>1, <3>2, LeavesStep
    <2>3. CASE ~mem_transaction.done
        <3>1. UNCHANGED <<mem_op, wb_op, mem_transaction, dcache, data>>
            BY <1>6, <2>3 DEF MemWait, StayInMem
        <3>2. Stays
            BY <1>2, <3>1 DEF Stays
        <3>3. MemInv'
            BY <1>2, <3>1 DEF MemInv
        <3> QED
            BY <1>1, <3>2, <3>3, StaysStep
    <2> QED
        BY <2>2, <2>3
<1> QED
    BY <1>3, <1>4, <1>5, <1>6 DEF MemoryAccess

LEMMA CountdownType ==
    ASSUME int_mul_div_stall_countdown \in NoValue .. DIV_REM_STALL, NEW i
    PROVE  /\ Decremented \in NoValue .. DIV_REM_STALL
           /\ MExtensionStall(i) \in NoValue .. DIV_REM_STALL
           /\ NoValue \in NoValue .. DIV_REM_STALL
BY DEF Decremented, NoValue, DIV_REM_STALL, MUL_STALL, MExtensionStall

LEMMA BranchTakenType ==
    ASSUME NEW i, i.op \in ControlFlow, NEW rs1 \in Int, NEW rs2 \in Int
    PROVE  BranchTaken(i, rs1, rs2) \in BOOLEAN
<1> DEFINE eq == rs1 = rs2
           ne == rs1 # rs2
           lt == Signed(rs1) < Signed(rs2)
           ge == Signed(rs1) >= Signed(rs2)
           ltu == rs1 < rs2
           geu == rs1 >= rs2
<1>1. /\ eq \in BOOLEAN /\ ne \in BOOLEAN /\ lt \in BOOLEAN
      /\ ge \in BOOLEAN /\ ltu \in BOOLEAN /\ geu \in BOOLEAN
    OBVIOUS
<1>2. BranchTaken(i, rs1, rs2) = CASE i.op \in {"Jal", "Jalr"} -> TRUE
                                   [] i.op = "Beq" -> eq
                                   [] i.op = "Bne" -> ne
                                   [] i.op = "Blt" -> lt
                                   [] i.op = "Bge" -> ge
                                   [] i.op = "Bltu" -> ltu
                                   [] i.op = "Bgeu" -> geu
    BY Zenon DEF BranchTaken
<1> HIDE DEF eq, ne, lt, ge, ltu, geu
<1> QED
    BY <1>1, <1>2 DEF ControlFlow, BranchInsts

(* What Execute leaves alone, and the op moving from EXE to MEM. *)
ExecuteFrame ==
    /\ Enter("exe") /\ Goto("id")
    /\ int_mul_div_stall_countdown' \in NoValue .. DIV_REM_STALL
    /\ UNCHANGED <<halt, panicked, fetch_vars, branch_predictor, id_regs, id_op, wb_op,
                   memory_vars, id_load_use_stall, retired_data, hpm_balance>>

Advances ==
    /\ exe_op # NoOp /\ mem_op = NoOp /\ exe_op' = NoOp
    /\ mem_op' \in MicroOps
    /\ mem_op'.inst = exe_op.inst /\ mem_op'.pc = exe_op.pc
    /\ mem_op'.placeholder = exe_op.placeholder

BranchTypes ==
    /\ {branch_recover, branch_correct_direction} \subseteq BOOLEAN
    /\ branch_destination \in Word

LEMMA ExecuteStaysStep ==
    ASSUME IndInv, ExecuteFrame, UNCHANGED <<exe_op, mem_op, branch_vars>>
    PROVE  IndInv'
<1> USE DEF IndInv, ShapeInv, ExecuteFrame, Enter, Goto
<1>1. TypeOK'
    BY DEF TypeOK, fetch_vars, memory_vars, branch_vars
<1>2. OpsInv' /\ FetchIsCurrent'
    BY DEF OpsInv, WellFormed, OperandsRead, FetchIsCurrent, fetch_vars
<1>3. MemInv'
    BY DEF MemInv, memory_vars
<1>4. BranchInv' /\ StallInv'
    BY DEF BranchInv, StallInv, branch_vars
<1>5. FreshInv'
    BY DEF FreshInv, Fresh, Newest, Forwarded
<1>6. CountersConserve'
    BY DEF CountersConserve, ops
<1> QED
    BY <1>1, <1>2, <1>3, <1>4, <1>5, <1>6

LEMMA AdvancesStep ==
    ASSUME IndInv, ExecuteFrame, Advances, BranchTypes', BranchInv'
    PROVE  IndInv'
<1> USE DEF IndInv, ShapeInv, ExecuteFrame, Enter, Goto, Advances
<1>0. mem_op' # NoOp
    BY OpIsNotNoOp
<1>1. TypeOK'
    BY DEF TypeOK, BranchTypes, fetch_vars, memory_vars
<1>2. OpsInv'
    BY DEF OpsInv, WellFormed, OperandsRead
<1>3. FetchIsCurrent'
    BY DEF FetchIsCurrent, fetch_vars
<1>4. MemInv'
    <2>1. mem_transaction.state = "Idle" /\ ~dcache.live /\ ~mem_transaction.done
        BY DEF MemInv
    <2> QED
        BY <2>1 DEF MemInv, memory_vars
<1>5. StallInv' /\ FreshInv'
    BY DEF StallInv, FreshInv
<1>6. CountersConserve'
    <2>1. Retired(NoOp) = 0 /\ Retired(mem_op') = Retired(exe_op)
        BY <1>0 DEF Retired
    <2>2. hpm_balance' = Balance'
        BY <2>1, BalanceIsCount, RetiredType DEF Balance
    <2> QED
        BY <2>2, CountersSum DEF CountersConserve, Balance, ops
<1> QED
    BY <1>1, <1>2, <1>3, <1>4, <1>5, <1>6

LEMMA ExecuteStep == ASSUME IndInv, Execute PROVE IndInv'
<1> USE DEF IndInv, ShapeInv
<1>1. ~branch_recover /\ stage = "exe" /\ stage' = "id"
    BY DEF Execute, Enter, Goto, BranchInv
<1>2. int_mul_div_stall_countdown \in NoValue .. DIV_REM_STALL
    BY DEF TypeOK
<1>3. ExecuteFrame
    <2>1. int_mul_div_stall_countdown' \in {Decremented, NoValue, MExtensionStall(exe_op.inst)}
        BY DEF Execute
    <2> QED
        BY <1>2, <2>1, CountdownType DEF ExecuteFrame, Execute
<1>4. CASE UNCHANGED <<exe_op, mem_op, branch_vars>>
    BY <1>3, <1>4, ExecuteStaysStep
<1>5. CASE /\ ~ExecuteBlocked /\ exe_op.inst.op = "Ecall"
           /\ mem_op' = exe_op
           /\ exe_op' = NoOp
           /\ UNCHANGED branch_vars
    <2>1. Advances
        BY <1>5, OpTypes DEF Advances, ExecuteBlocked
    <2>2. BranchTypes' /\ BranchInv'
        BY <1>1, <1>5 DEF BranchTypes, BranchInv, branch_vars, TypeOK
    <2> QED
        BY <1>3, <2>1, <2>2, AdvancesStep
<1>6. CASE /\ ~ExecuteBlocked
           /\ mem_op' = Executed(exe_op)
           /\ exe_op' = NoOp
           /\ ResolveBranch(Executed(exe_op))
    <2>1. exe_op \in MicroOps /\ mem_op = NoOp /\ exe_op # NoOp
        BY <1>6, OpTypes DEF ExecuteBlocked
    <2>2. Advances
        BY <1>6, <2>1, ExecutedType DEF Advances, OpsInv
    <2> DEFINE op == Executed(exe_op)
               taken == BranchTaken(op.inst, op.rs1, op.rs2)
    <2>3. /\ op \in MicroOps /\ op.inst = exe_op.inst /\ op.placeholder = exe_op.placeholder
          /\ mem_op' = op
        BY <1>6, <2>1, ExecutedType DEF OpsInv
    <2>4. CASE op.inst.op \in ControlFlow /\ NeedsRecovery(op, taken)
        <3>1. /\ branch_recover' = TRUE
              /\ branch_correct_direction' = taken
              /\ branch_destination' = RecoveryDestination(op, taken)
            BY <1>6, <2>4 DEF ResolveBranch
        <3> HIDE DEF op
        <3>2. op.rs1 \in Int /\ op.rs2 \in Int /\ op.pc \in Int /\ op.alu_result \in Word
            BY <2>3, NoValueFacts DEF MicroOps
        <3>3. taken \in BOOLEAN
            BY <2>4, <3>2, BranchTakenType
        <3> HIDE DEF taken
        <3>4. branch_destination' \in Word
            BY <3>1, <3>2, NextPcType DEF RecoveryDestination
        <3>5. ~op.placeholder
            BY <2>1, <2>3, <2>4 DEF OpsInv, WellFormed, Nop, ControlFlow, BranchInsts
        <3>6. mem_transaction'.state = "Idle"
            BY <1>3, <2>1 DEF MemInv, ExecuteFrame, memory_vars
        <3>7. BranchTypes'
            BY <3>1, <3>3, <3>4 DEF BranchTypes
        <3>8. BranchInv'
            BY <1>1, <2>3, <2>4, <3>1, <3>5, <3>6, OpIsNotNoOp DEF BranchInv, RecoveryDestination
        <3> QED
            BY <1>3, <2>2, <3>7, <3>8, AdvancesStep
    <2>5. CASE ~(op.inst.op \in ControlFlow /\ NeedsRecovery(op, taken))
        <3>1. UNCHANGED branch_vars
            BY <1>6, <2>5 DEF ResolveBranch
        <3>2. BranchTypes' /\ BranchInv'
            BY <1>1, <3>1 DEF BranchTypes, BranchInv, branch_vars, TypeOK
        <3> QED
            BY <1>3, <2>2, <3>2, AdvancesStep
    <2> QED
        BY <2>4, <2>5
<1> QED
    BY <1>4, <1>5, <1>6 DEF Execute

LEMMA DecodeStep == ASSUME IndInv, Decode PROVE IndInv'
<1> USE DEF IndInv, ShapeInv, Decode, Enter, Goto
<1>0. id_load_use_stall' \in BOOLEAN
    BY DEF LoadUseHazard
<1>1. CASE DecodeBlocked \/ LoadUseHazard
    <2>0. UNCHANGED <<id_op, exe_op>>
        BY <1>1
    <2>1. TypeOK'
        BY <1>0, <2>0 DEF TypeOK, fetch_vars, memory_vars, branch_vars
    <2>2. OpsInv' /\ FetchIsCurrent' /\ MemInv'
        BY <2>0 DEF OpsInv, WellFormed, OperandsRead, FetchIsCurrent, MemInv,
           fetch_vars, memory_vars
    <2>3. BranchInv'
        BY DEF BranchInv, memory_vars, branch_vars, RecoveryDestination
    <2>4. StallInv'
        BY <2>0 DEF StallInv, LoadUseHazard, IsLoad, branch_vars
    <2>5. FreshInv'
        BY <2>0 DEF FreshInv, Fresh, Newest, Forwarded
    <2>6. CountersConserve'
        BY <2>0 DEF CountersConserve, ops
    <2> QED
        BY <2>1, <2>2, <2>3, <2>4, <2>5, <2>6
<1>2. CASE ~(DecodeBlocked \/ LoadUseHazard)
    <2>0. /\ exe_op' = Decoded(id_op) /\ id_op' = NoOp
          /\ exe_op = NoOp /\ id_op # NoOp /\ id_op \in MicroOps
          /\ id_regs \in [Regs -> Word]
        BY <1>2, OpTypes DEF DecodeBlocked, TypeOK
    <2>1. /\ exe_op' \in MicroOps
          /\ exe_op'.inst = id_op.inst /\ exe_op'.pc = id_op.pc
          /\ exe_op'.placeholder = id_op.placeholder
          /\ OperandsRead(exe_op')
          /\ exe_op'.rs1 = IF ReadsRs1(id_op.inst) THEN id_regs[id_op.inst.rs1] ELSE NoValue
          /\ exe_op'.rs2 = IF ReadsRs2(id_op.inst) THEN id_regs[id_op.inst.rs2] ELSE NoValue
        BY <2>0, DecodedType
    <2>2. exe_op' # NoOp /\ ~exe_op'.placeholder
        BY <2>0, <2>1, OpIsNotNoOp DEF OpsInv
    <2>3. TypeOK'
        BY <1>0, <2>0, <2>1 DEF TypeOK, fetch_vars, memory_vars, branch_vars
    <2>4. OpsInv'
        BY <2>0, <2>1, <2>2 DEF OpsInv, WellFormed, OperandsRead
    <2>5. FetchIsCurrent' /\ MemInv'
        BY DEF FetchIsCurrent, MemInv, fetch_vars, memory_vars
    <2>6. BranchInv'
        BY DEF BranchInv, memory_vars, branch_vars, RecoveryDestination
    <2>7. StallInv'
        BY <1>2, <2>2 DEF StallInv, LoadUseHazard
    <2>8. FreshInv'
        <3>1. ~(mem_op # NoOp /\ IsLoad(mem_op) /\ mem_op.inst.rd # 0
                /\ id_op.inst.op \notin {"Jal", "Lui", "Auipc", "Fence", "Ecall"}
                /\ mem_op.inst.rd \in {id_op.inst.rs1, RawRs2(id_op.inst)})
            BY <1>2, <2>0 DEF LoadUseHazard
        <3>2. ASSUME exe_op'.rs1 # NoValue
              PROVE  /\ exe_op'.rs1 = id_regs[id_op.inst.rs1]
                     /\ id_op.inst.rs1 # 0 /\ mem_op # NoOp /\ IsLoad(mem_op) =>
                          mem_op.inst.rd # id_op.inst.rs1
            <4>1. ReadsRs1(id_op.inst)
                BY <2>1, <3>2
            <4>2. id_op.inst.op \notin {"Jal", "Lui", "Auipc", "Fence", "Ecall"}
                BY <4>1 DEF ReadsRs1, OpInsts, OpImmInsts, LoadInsts, StoreInsts, BranchInsts
            <4> QED
                BY <2>1, <3>1, <4>1, <4>2
        <3>3. ASSUME exe_op'.rs2 # NoValue
              PROVE  /\ exe_op'.rs2 = id_regs[id_op.inst.rs2]
                     /\ id_op.inst.rs2 # 0 /\ mem_op # NoOp /\ IsLoad(mem_op) =>
                          mem_op.inst.rd # id_op.inst.rs2
            <4>1. ReadsRs2(id_op.inst)
                BY <2>1, <3>3
            <4>2. id_op.inst.op \notin {"Jal", "Lui", "Auipc", "Fence", "Ecall"}
                BY <4>1 DEF ReadsRs2, OpInsts, StoreInsts, BranchInsts
            <4>3. RawRs2(id_op.inst) = id_op.inst.rs2
                BY <4>1 DEF RawRs2
            <4> QED
                BY <2>1, <3>1, <4>1, <4>2, <4>3
        <3> QED
            BY <2>1, <3>2, <3>3 DEF FreshInv, Fresh
    <2>9. CountersConserve'
        <3>1. Retired(NoOp) = 0 /\ Retired(exe_op') = Retired(id_op)
            BY <2>0, <2>1, <2>2 DEF Retired
        <3>2. hpm_balance' = Balance'
            BY <2>0, <3>1, BalanceIsCount, RetiredType DEF Balance
        <3> QED
            BY <3>2, CountersSum DEF CountersConserve, Balance, ops
    <2> QED
        BY <2>3, <2>4, <2>5, <2>6, <2>7, <2>8, <2>9
<1> QED
    BY <1>1, <1>2

-----------------------------------------------------------------------------
FsmStates == [state : {"Idle", "SendingReq", "WaitingComplete"}, addr : Word, done : BOOLEAN]

(* What a call of the fetch stage establishes. *)
FetchOutcome ==
    /\ if_pc' \in Word
    /\ if_raw_inst_buffer' \in Instructions \cup {NoInst}
    /\ if_fsm' \in FsmStates
    /\ icache' \in Caches
    /\ panicked' \in BOOLEAN
    /\ id_op' \in MicroOps \cup {NoOp}
    /\ WellFormed(id_op')
    /\ id_op' # NoOp => ~id_op'.placeholder
    /\ if_fsm'.state # "Idle" => if_fsm'.addr = if_pc'
    /\ if_raw_inst_buffer' # NoInst => if_raw_inst_buffer' = InstAt(program, if_pc')
    /\ icache'.live => if_fsm'.state # "Idle"
    /\ hpm_balance' = hpm_balance + Retired(id_op') - Retired(id_op)

LEMMA BalanceType == ASSUME CountersConserve PROVE hpm_balance \in Int
BY BalanceIsCount, RetiredType DEF Balance

LEMMA DeliverOutcome ==
    ASSUME IndInv, NEW addr, addr = if_pc, NEW cache \in Caches,
           cache.live => if_fsm.state # "Idle", Deliver(addr, cache)
    PROVE  FetchOutcome
<1> DEFINE inst == InstAt(program, addr)
           bp == IF inst.op \in ControlFlow THEN BP!BranchPredict(branch_predictor, if_pc)
                 ELSE BP!NotTaken
<1>1. /\ if_pc \in Word /\ program \in Seq(Instructions) /\ branch_predictor \in BP!Predictors
      /\ if_fsm \in FsmStates /\ icache \in Caches /\ panicked \in BOOLEAN
      /\ id_op \in MicroOps \cup {NoOp}
      /\ if_raw_inst_buffer \in Instructions \cup {NoInst}
    BY DEF IndInv, ShapeInv, TypeOK, FsmStates
<1>2. inst \in Instructions /\ bp \in Predictions
    BY <1>1, InstAtType, PredictType
<1>3. FetchIsCurrent /\ WellFormed(id_op) /\ (id_op # NoOp => ~id_op.placeholder)
      /\ hpm_balance \in Int /\ Retired(id_op) \in Int
    BY BalanceType, RetiredType DEF IndInv, ShapeInv, OpsInv
<1>4. CASE id_op # NoOp
    <2>1. /\ if_raw_inst_buffer' = inst
          /\ if_fsm' = IF if_fsm.state = "Idle" THEN if_fsm ELSE [if_fsm EXCEPT !.done = TRUE]
          /\ icache' = cache
          /\ UNCHANGED <<id_op, if_pc, panicked, hpm_balance>>
        BY <1>4 DEF Deliver
    <2>2. if_fsm' \in FsmStates /\ if_fsm'.state = if_fsm.state /\ if_fsm'.addr = if_fsm.addr
        BY <1>1, <2>1 DEF FsmStates
    <2> QED
        BY <1>1, <1>2, <1>3, <2>1, <2>2 DEF FetchOutcome, FetchIsCurrent
<1>5. CASE id_op = NoOp /\ inst.op = "Fence"
    <2>1. /\ panicked' = TRUE
          /\ UNCHANGED <<id_op, fetch_vars, hpm_balance>>
        BY <1>5 DEF Deliver
    <2> QED
        BY <1>1, <1>3, <2>1 DEF FetchOutcome, FetchIsCurrent, fetch_vars
<1>6. CASE id_op = NoOp /\ inst.op # "Fence"
    <2>1. /\ id_op' = Fetched(inst, if_pc, bp)
          /\ if_pc' = IF bp.direction THEN bp.addr ELSE NextPc(if_pc)
          /\ if_raw_inst_buffer' = NoInst
          /\ if_fsm' = IdleFsm
          /\ icache' = [cache EXCEPT !.live = FALSE]
          /\ hpm_balance' = hpm_balance + 1
          /\ UNCHANGED panicked
        BY <1>6 DEF Deliver
    <2> HIDE DEF inst, bp
    <2>2. /\ id_op' \in MicroOps /\ id_op'.pc \in Word /\ ~id_op'.placeholder
          /\ id_op' # NoOp
        BY <1>1, <1>2, <2>1, FetchedType, OpIsNotNoOp
    <2>3. if_pc' \in Word
        BY <1>1, <1>2, <2>1, NextPcType, NoValueFacts DEF Predictions
    <2>4. /\ icache' \in Caches /\ ~icache'.live
          /\ if_fsm' \in FsmStates /\ if_fsm'.state = "Idle"
        BY <2>1, WordFacts DEF Caches, IdleFsm, FsmStates
    <2>5. Retired(id_op') = 1 /\ Retired(id_op) = 0
        BY <1>6, <2>2 DEF Retired
    <2> QED
        BY <1>1, <1>3, <2>1, <2>2, <2>3, <2>4, <2>5 DEF FetchOutcome, WellFormed
<1> QED
    BY <1>4, <1>5, <1>6

LEMMA FetchOutcomeHolds == ASSUME IndInv, FetchSend \/ FetchWait PROVE FetchOutcome
<1>1. /\ if_pc \in Word /\ if_fsm \in FsmStates /\ icache \in Caches /\ panicked \in BOOLEAN
      /\ id_op \in MicroOps \cup {NoOp}
      /\ if_raw_inst_buffer \in Instructions \cup {NoInst}
    BY DEF IndInv, ShapeInv, TypeOK, FsmStates
<1>2. /\ FetchIsCurrent /\ WellFormed(id_op) /\ (id_op # NoOp => ~id_op.placeholder)
      /\ hpm_balance \in Int /\ Retired(id_op) \in Int
    BY BalanceType, RetiredType DEF IndInv, ShapeInv, OpsInv
<1>3. FetchReq.addr = if_pc /\ FetchReq.done \in BOOLEAN
    BY <1>1, <1>2 DEF FetchReq, FetchIsCurrent, FsmStates
<1>4. CASE FetchSend
    <2>1. CASE /\ icache.busy
               /\ if_fsm' = [state |-> "SendingReq", addr |-> FetchReq.addr, done |-> FetchReq.done]
               /\ UNCHANGED <<if_pc, if_raw_inst_buffer, icache, id_op, panicked, hpm_balance>>
        <3>1. if_fsm' \in FsmStates /\ if_fsm'.state = "SendingReq" /\ if_fsm'.addr = if_pc
            BY <1>1, <1>3, <2>1 DEF FsmStates
        <3> QED
            BY <1>1, <1>2, <2>1, <3>1 DEF FetchOutcome, FetchIsCurrent
    <2>2. ASSUME NEW n \in ILatencies, NEW q \in MayQueue("icache"),
                 IF n = 0 \/ FetchReq.done
                 THEN Deliver(FetchReq.addr, Accept(icache, n, q))
                 ELSE /\ if_fsm' = [state |-> "WaitingComplete", addr |-> FetchReq.addr,
                                    done |-> FALSE]
                      /\ icache' = Accept(icache, n, q)
                      /\ UNCHANGED <<if_pc, if_raw_inst_buffer, id_op, panicked, hpm_balance>>
          PROVE  FetchOutcome
        <3> DEFINE cache == Accept(icache, n, q)
        <3>1. n \in Nat /\ q \in BOOLEAN
            BY PipelineAssumption, MayQueueType
        <3>2. cache \in Caches /\ (cache.live <=> n > 0)
            BY <1>1, <3>1, AcceptType
        <3>3. CASE n = 0 \/ FetchReq.done
            <4>1. FetchReq.done => if_fsm.state # "Idle"
                BY DEF FetchReq
            <4>2. cache.live => if_fsm.state # "Idle"
                BY <3>1, <3>2, <3>3, <4>1
            <4>3. Deliver(FetchReq.addr, cache)
                BY <2>2, <3>3
            <4> HIDE DEF cache
            <4> QED
                BY <1>3, <3>2, <4>2, <4>3, DeliverOutcome
        <3>4. CASE ~(n = 0 \/ FetchReq.done)
            <4>1. /\ if_fsm' = [state |-> "WaitingComplete", addr |-> FetchReq.addr, done |-> FALSE]
                  /\ icache' = cache
                  /\ UNCHANGED <<if_pc, if_raw_inst_buffer, id_op, panicked, hpm_balance>>
                BY <2>2, <3>4
            <4> HIDE DEF cache
            <4>2. if_fsm' \in FsmStates /\ if_fsm'.state = "WaitingComplete" /\ if_fsm'.addr = if_pc
                BY <1>1, <1>3, <4>1 DEF FsmStates
            <4> QED
                BY <1>1, <1>2, <3>2, <4>1, <4>2 DEF FetchOutcome, FetchIsCurrent
        <3> QED
            BY <3>3, <3>4
    <2> QED
        BY <1>4, <2>1, <2>2 DEF FetchSend
<1>5. CASE FetchWait
    <2>1. CASE if_fsm.done
        <3>1. Deliver(if_fsm.addr, icache) /\ if_fsm.addr = if_pc /\ if_fsm.state # "Idle"
            BY <1>2, <1>5, <2>1 DEF FetchWait, FetchIsCurrent
        <3> QED
            BY <1>1, <3>1, DeliverOutcome
    <2>2. CASE ~if_fsm.done
        <3>1. UNCHANGED <<fetch_vars, id_op, panicked, hpm_balance>>
            BY <1>5, <2>2 DEF FetchWait
        <3> QED
            BY <1>1, <1>2, <3>1 DEF FetchOutcome, FetchIsCurrent, fetch_vars
    <2> QED
        BY <2>1, <2>2
<1> QED
    BY <1>4, <1>5

LEMMA FetchStep == ASSUME IndInv, Fetch PROVE IndInv'
<1> USE DEF IndInv, ShapeInv
<1>0. FetchOutcome /\ stage = "if" /\ stage' = "caches" /\ program' = program
    BY FetchOutcomeHolds DEF Fetch, Enter, Goto
<1>1. id_load_use_stall => exe_op = NoOp /\ exe_op' = PlaceholderNop /\ ~branch_recover
    BY <1>0 DEF Fetch, StallInv, BranchInv, IsLoad, LoadInsts, ControlFlow, BranchInsts
<1>2. ~id_load_use_stall => exe_op' = exe_op
    BY DEF Fetch
<1>3. exe_op' \in MicroOps \cup {NoOp}
    BY <1>1, <1>2, PlaceholderType DEF TypeOK
<1>4. TypeOK'
    BY <1>0, <1>3 DEF TypeOK, FetchOutcome, FsmStates, Fetch, memory_vars, branch_vars
<1>5. OpsInv'
    <2>1. WellFormed(exe_op) /\ OperandsRead(exe_op)
        BY DEF OpsInv
    <2>2. WellFormed(PlaceholderNop) /\ OperandsRead(PlaceholderNop)
        BY PlaceholderType, WordFacts DEF WellFormed, OperandsRead
    <2>3. WellFormed(exe_op') /\ OperandsRead(exe_op')
        BY <1>1, <1>2, <2>1, <2>2
    <2> QED
        BY <1>0, <2>3 DEF OpsInv, FetchOutcome, Fetch, WellFormed, OperandsRead
<1>6. MemInv'
    BY <1>0 DEF MemInv, Fetch, memory_vars
<1>7. FetchIsCurrent'
    BY <1>0 DEF FetchIsCurrent, FetchOutcome
<1>8. BranchInv'
    BY <1>0 DEF BranchInv, Fetch, memory_vars, branch_vars, RecoveryDestination
<1>9. StallInv'
    BY <1>0, <1>1, <1>2 DEF StallInv, Fetch, branch_vars
<1>10. FreshInv'
    <2>1. CASE id_load_use_stall
        <3>1. /\ exe_op'.inst.rs1 = 0 /\ exe_op'.inst.rs2 = 0
              /\ exe_op'.rs1 = 0 /\ exe_op'.rs2 = 0
            BY <1>1, <2>1, PlaceholderType DEF Nop
        <3>2. id_regs'[0] = 0
            BY DEF OpsInv, Fetch
        <3> QED
            BY <1>0, <3>1, <3>2 DEF FreshInv, Fresh
    <2>2. CASE ~id_load_use_stall
        BY <1>0, <1>2, <2>2 DEF FreshInv, Fresh, Newest, Forwarded, Fetch
    <2> QED
        BY <2>1, <2>2
<1>11. CountersConserve'
    <2>1. Retired(exe_op') = Retired(exe_op)
        BY <1>1, <1>2, PlaceholderType DEF Retired
    <2>2. hpm_balance = Balance /\ hpm_balance' = hpm_balance + Retired(id_op') - Retired(id_op)
        BY <1>0, BalanceIsCount DEF FetchOutcome
    <2>3. hpm_balance' = Balance'
        BY <2>1, <2>2, RetiredType DEF Balance, Fetch
    <2> QED
        BY <2>3, CountersSum DEF CountersConserve, Balance, ops
<1> QED
    BY <1>4, <1>5, <1>6, <1>7, <1>8, <1>9, <1>10, <1>11

LEMMA TickCachesStep == ASSUME IndInv, TickCaches PROVE IndInv'
<1> USE DEF IndInv, ShapeInv
<1>0. stage = "caches" /\ stage' = "start" /\ program' = program
    BY DEF TickCaches, Enter, Goto
<1>1. icache \in Caches /\ dcache \in Caches /\ ILatencies \subseteq Nat /\ DLatencies \subseteq Nat
    BY PipelineAssumption DEF TypeOK
<1>2. icache' \in Caches /\ (icache'.live => icache.live)
    BY <1>1, TickType DEF TickCaches
<1>3. /\ dcache' \in Caches /\ (dcache'.live => dcache.live) /\ (dcache'.live => dcache'.busy)
      /\ Answers(dcache) => ~dcache'.live
    BY <1>1, TickType DEF TickCaches, MemInv
<1>4. Answers(icache) => icache.live
    BY DEF Answers
<1>5. Answers(dcache) => dcache.live
    BY DEF Answers
<1>6. /\ if_fsm' \in FsmStates /\ if_fsm'.state = if_fsm.state /\ if_fsm'.addr = if_fsm.addr
    BY DEF TickCaches, TypeOK, FsmStates
<1>7. /\ mem_transaction' \in [state : {"Idle", "Sending", "Waiting", "Complete"}, done : BOOLEAN]
      /\ mem_transaction'.state = mem_transaction.state
      /\ Answers(dcache) => mem_transaction'.done
      /\ ~Answers(dcache) => mem_transaction' = mem_transaction
    BY DEF TickCaches, TypeOK
<1>8. data' \in [Word -> Byte]
    <2>1. CASE Answers(dcache)
        <3>1. mem_op \in MicroOps
            BY <1>5, <2>1, OpTypes DEF MemInv
        <3> QED
            BY <2>1, <3>1, PerformType DEF TickCaches, TypeOK
    <2>2. CASE ~Answers(dcache)
        BY <2>2 DEF TickCaches, TypeOK
    <2> QED
        BY <2>1, <2>2
<1>9. UNCHANGED <<halt, panicked, if_pc, if_raw_inst_buffer, branch_predictor, id_regs, ops,
                   branch_vars, int_mul_div_stall_countdown, retired_data, hpm_balance>>
      /\ id_load_use_stall' = FALSE
    BY DEF TickCaches
<1>10. TypeOK'
    BY <1>0, <1>2, <1>3, <1>6, <1>7, <1>8, <1>9 DEF TypeOK, FsmStates, ops, branch_vars
<1>11. OpsInv'
    BY <1>9 DEF OpsInv, WellFormed, OperandsRead, ops
<1>12. MemInv'
    BY <1>0, <1>3, <1>5, <1>7, <1>9 DEF MemInv, ops
<1>13. FetchIsCurrent'
    BY <1>0, <1>2, <1>6, <1>9 DEF FetchIsCurrent
<1>14. BranchInv'
    BY <1>0, <1>7, <1>9 DEF BranchInv, ops, branch_vars, RecoveryDestination
<1>15. StallInv'
    BY <1>0, <1>9 DEF StallInv, ops, branch_vars
<1>16. FreshInv'
    BY <1>0, <1>9 DEF FreshInv, Fresh, Newest, Forwarded, ops
<1>17. CountersConserve'
    BY <1>9 DEF CountersConserve, ops
<1> QED
    BY <1>10, <1>11, <1>12, <1>13, <1>14, <1>15, <1>16, <1>17

LEMMA UnchangedStep ==
    ASSUME IndInv, panicked' \in BOOLEAN,
           UNCHANGED <<stage, program, halt, fetch_vars, branch_predictor, id_regs, ops,
                       memory_vars, branch_vars, int_mul_div_stall_countdown,
                       id_load_use_stall, retired_data, hpm_balance>>
    PROVE  IndInv'
<1> USE DEF IndInv, ShapeInv, ops, fetch_vars, memory_vars, branch_vars
<1>1. TypeOK'
    BY DEF TypeOK
<1>2. OpsInv' /\ MemInv' /\ FetchIsCurrent'
    BY DEF OpsInv, MemInv, FetchIsCurrent, WellFormed, OperandsRead
<1>3. BranchInv' /\ StallInv'
    BY DEF BranchInv, StallInv, RecoveryDestination
<1>4. FreshInv'
    BY DEF FreshInv, Fresh, Newest, Forwarded
<1>5. CountersConserve'
    BY DEF CountersConserve
<1> QED
    BY <1>1, <1>2, <1>3, <1>4, <1>5

LEMMA NextStep == ASSUME IndInv, [Next]_vars PROVE IndInv'
<1>0. IndInv => panicked \in BOOLEAN
    BY DEF IndInv, ShapeInv, TypeOK
<1>1. CASE Recover BY <1>1, RecoverStep
<1>2. CASE Forward BY <1>2, ForwardStep
<1>3. CASE WriteBack BY <1>3, WriteBackStep
<1>4. CASE MemoryAccess BY <1>4, MemoryAccessStep
<1>5. CASE Execute BY <1>5, ExecuteStep
<1>6. CASE Decode BY <1>6, DecodeStep
<1>7. CASE Fetch BY <1>7, FetchStep
<1>8. CASE TickCaches BY <1>8, TickCachesStep
<1>9. CASE Panic
    BY <1>9, UnchangedStep DEF Panic
<1>10. CASE UNCHANGED vars
    BY <1>0, <1>10, UnchangedStep DEF vars
<1> QED
    BY <1>1, <1>2, <1>3, <1>4, <1>5, <1>6, <1>7, <1>8, <1>9, <1>10 DEF Next, Step, Terminated

(* The whole inductive invariant, whatever the program, the predictor, the   *)
(* sizes and the latencies of the two caches.                                *)
THEOREM PipelineInvariantHolds == Spec => []IndInv
<1>1. Init => IndInv
    BY InitInv
<1>2. IndInv /\ [Next]_vars => IndInv'
    BY NextStep
<1> QED
    BY <1>1, <1>2, PTL DEF Spec

(* No program counter, address, operand or loaded byte of any run leaves its *)
(* range: the words wrap as the registers of the machine do.                 *)
THEOREM PipelineTypes == Spec => []TypeOK
<1>1. IndInv => TypeOK
    BY DEF IndInv, ShapeInv
<1> QED
    BY <1>1, PipelineInvariantHolds, PTL

(* Every operand EXE computes with is the newest value of its register.      *)
(* pipe_normal_data_hazard_resolve and the load-use interlock together let   *)
(* no stale value through, for every latency of a load.                      *)
THEOREM ForwardingIsSound == Spec => []OperandsFresh
<1>1. IndInv => OperandsFresh
    <2> SUFFICES ASSUME IndInv, stage = "exe", ~ExecuteBlocked
                 PROVE  /\ OperandFresh(exe_op.inst.rs1, exe_op.rs1)
                        /\ OperandFresh(exe_op.inst.rs2, exe_op.rs2)
        BY DEF OperandsFresh
    <2>1. mem_op = NoOp /\ exe_op # NoOp /\ ~Writeback(NoOp)
        BY DEF ExecuteBlocked, Writeback
    <2>2. \A r \in Regs : id_regs[r] # NoValue
        BY NoValueFacts DEF IndInv, ShapeInv, TypeOK
    <2>3. exe_op.inst.rs1 \in Regs /\ exe_op.inst.rs2 \in Regs
        BY <2>1, OpTypes DEF IndInv, ShapeInv, MicroOps, Instructions
    <2>4. Fresh(exe_op.inst.rs1, exe_op.rs1) /\ Fresh(exe_op.inst.rs2, exe_op.rs2)
        BY <2>1 DEF IndInv, FreshInv
    <2> QED
        BY <2>1, <2>2, <2>3, <2>4 DEF Fresh, Newest, Forwarded, OperandFresh
<1> QED
    BY <1>1, PipelineInvariantHolds, PTL

(* The fetch in progress and the buffered word are always for the present    *)
(* if_pc, through every recovery, stall and late answer of the cache.        *)
THEOREM FetchStaysCurrent == Spec => []FetchIsCurrent
<1>1. IndInv => FetchIsCurrent
    BY DEF IndInv, ShapeInv
<1> QED
    BY <1>1, PipelineInvariantHolds, PTL

(* When tick handles a recovery the branch it is for is in MEM, idle and     *)
(* with the destination that was noted.                                      *)
THEOREM RecoveriesAreForMem == Spec => []RecoveryIsForMem
<1>1. IndInv => RecoveryIsForMem
    BY DEF IndInv, BranchInv, RecoveryIsForMem
<1> QED
    BY <1>1, PipelineInvariantHolds, PTL

(* The assertion before the placeholder goes into EXE never fails. *)
THEOREM PlaceholderAlwaysFits == Spec => []PlaceholderFindsRoom
<1>1. IndInv => PlaceholderFindsRoom
    BY DEF IndInv, StallInv, PlaceholderFindsRoom
<1> QED
    BY <1>1, PipelineInvariantHolds, PTL

(* inst_fetched = inst_retire + actual_flushed_inst_cnt + what is in flight, *)
(* in every state of every run.                                              *)
THEOREM CountersAgree == Spec => []CountersConserve
<1>1. IndInv => CountersConserve
    BY DEF IndInv
<1> QED
    BY <1>1, PipelineInvariantHolds, PTL
=============================================================================

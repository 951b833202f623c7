-------------------------- MODULE NandyWordProofs --------------------------
(***************************************************************************)
(* Lemmas about words and addresses: what the operators of NandyWord       *)
(* return, for every argument.  Other proofs cite the ranges from here     *)
(* and never expand Byte and Addr, which the provers would enumerate.      *)
(* Then induction over the natural numbers, and what it gives about        *)
(* functions that are defined by recursion; and what every byte is decoded *)
(* to.                                                                     *)
(***************************************************************************)
EXTENDS NandyDecode, TLAPS, WellFoundedInduction, FiniteSetTheorems

\* The ranges, by their bounds.
LEMMA ByteRange == \A w : w \in Byte <=> w \in Int /\ 0 <= w /\ w <= 255
<1>1. WORD_MAX \in Int /\ WORD_MAX <= 255 /\ 255 <= WORD_MAX
  BY DEF WORD_MAX
<1> QED BY <1>1 DEF Byte

LEMMA AddrRange == \A a : a \in Addr <=> a \in Int /\ 0 <= a /\ a <= 65535
<1>1. ADDR_MAX \in Int /\ ADDR_MAX <= 65535 /\ 65535 <= ADDR_MAX
  BY DEF ADDR_MAX
<1> QED BY <1>1 DEF Addr

\* A byte read back from a set of bits is a byte, whatever the set.
LEMMA ByteOfType == \A S : ByteOf(S) \in Byte
  BY ByteRange DEF ByteOf, Part

\* Truncation reaches the range of the type.
LEMMA Truncated == \A n \in Int : ToByte(n) \in Byte /\ ToAddr(n) \in Addr
  BY ByteRange, AddrRange DEF ToByte, ToAddr

LEMMA Displaced == \A a \in Addr, n \in Int : ToAddr(a + n) \in Addr
  BY AddrRange DEF ToAddr

-----------------------------------------------------------------------------
(* The ALU.                                                                *)

AluResult == [word : Byte, cout : BOOLEAN]

LEMMA AluType ==
  ASSUME NEW a \in Byte, NEW b \in Byte, NEW cin \in BOOLEAN
  PROVE  /\ alu_add(a, b, cin) \in AluResult
         /\ alu_sub(a, b, cin) \in AluResult
         /\ alu_sl(a, cin) \in AluResult
         /\ alu_sr(a, cin) \in AluResult
<1>1. /\ a \in Int /\ 0 <= a /\ a <= 255
      /\ b \in Int /\ CarryIn(cin) \in {0, 1}
  BY ByteRange DEF CarryIn
<1>2. /\ SumOf(a, b, cin) \in Int /\ DifferenceOf(a, b, cin) \in Int
      /\ 2 * a + CarryIn(cin) \in Int
  BY <1>1 DEF SumOf, DifferenceOf
<1>3. \A n, w \in Int : HasBit(n, w) \in BOOLEAN
  BY DEF HasBit
<1>4. (a \div 2) + 128 * CarryIn(cin) \in Byte
  BY <1>1, ByteRange
<1>5. /\ alu_add(a, b, cin) \in AluResult /\ alu_sub(a, b, cin) \in AluResult
      /\ alu_sl(a, cin) \in AluResult
  BY <1>1, <1>2, <1>3, Truncated DEF alu_add, alu_sub, alu_sl, AluResult
<1>6. alu_sr(a, cin) \in AluResult
  BY <1>1, <1>3, <1>4 DEF alu_sr, AluResult
<1> QED BY <1>5, <1>6

LEMMA BitwiseType ==
  ASSUME NEW a, NEW b
  PROVE  /\ BitAnd(a, b) \in Byte
         /\ BitOr(a, b) \in Byte
         /\ BitXor(a, b) \in Byte
  BY ByteOfType DEF BitAnd, BitOr, BitXor
-----------------------------------------------------------------------------
(***************************************************************************)
(* Induction.  The library states it for an operator, which the provers    *)
(* cannot instantiate; here it is stated for a set.  It rests on strict    *)
(* inclusion being well-founded on the finite sets 0..n.                   *)
(***************************************************************************)
LEMMA NatMin ==
  ASSUME NEW T \in SUBSET Nat, T # {}
  PROVE  \E n \in T : \A m \in T : n <= m
<1>1. PICK t \in T : TRUE
  OBVIOUS
<1> DEFINE S == 0..t
           Below == {0..m : m \in {k \in T : k <= t}}
<1>2. IsWellFoundedOn(StrictSubsetOrdering(S), FiniteSubsetsOf(S))
  BY FS_StrictSubsetOrderingWellFounded
<1>3. Below \subseteq FiniteSubsetsOf(S)
  <2> SUFFICES ASSUME NEW m \in T, m <= t PROVE 0..m \in FiniteSubsetsOf(S)
    OBVIOUS
  <2>1. 0..m \subseteq S
    OBVIOUS
  <2> QED BY <2>1, FS_Interval DEF FiniteSubsetsOf
<1>4. Below # {}
  BY <1>1
<1> HIDE DEF Below
<1>5. PICK b \in Below : \A c \in Below : ~ (<<c, b>> \in StrictSubsetOrdering(S))
  BY <1>2, <1>3, <1>4, WFMin
<1>6. PICK n \in T : n <= t /\ b = 0..n
  BY <1>5 DEF Below
<1>7. ASSUME NEW m \in T PROVE n <= m
  <2> SUFFICES ASSUME m < n PROVE FALSE
    OBVIOUS
  <2>1. 0..m \in Below
    BY <1>6 DEF Below
  <2>2. 0..m \subseteq S /\ 0..n \subseteq S /\ 0..m \subseteq 0..n
    BY <1>6
  <2>3. n \in 0..n /\ n \notin 0..m
    OBVIOUS
  <2>4. <<0..m, 0..n>> \in StrictSubsetOrdering(S)
    BY <2>2, <2>3 DEF StrictSubsetOrdering
  <2> QED BY <2>1, <2>4, <1>5, <1>6
<1> QED BY <1>6, <1>7

LEMMA NatInduct ==
  ASSUME NEW S, 0 \in S, \A n \in Nat : n \in S => n + 1 \in S
  PROVE  Nat \subseteq S
<1> DEFINE T == Nat \ S
<1> SUFFICES ASSUME T # {} PROVE FALSE
  OBVIOUS
<1>1. PICK n \in T : \A m \in T : n <= m
  BY NatMin
<1>2. n - 1 \in Nat /\ n - 1 \notin T
  BY <1>1
<1>3. n - 1 \in S
  BY <1>2
<1> QED BY <1>2, <1>3, <1>1

\* A function that is given at 0 and by a step from each number to the next
\* exists: the definition by recursion is one.
Iteration(f, v, step, N) == f[0] = v /\ \A n \in 1..N : f[n] = step[<<n, f[n - 1]>>]

LEMMA Iterated ==
  ASSUME NEW V, NEW v \in V, NEW step \in [Nat \X V -> V], NEW N \in Nat
  PROVE  \E f \in [0..N -> V] : Iteration(f, v, step, N)
<1> DEFINE Good(n, f) == /\ f \in [0..n -> V] /\ f[0] = v
                         /\ \A k \in 1..n : f[k] = step[<<k, f[k - 1]>>]
           S == {n \in Nat : \E f : Good(n, f)}
<1>1. 0 \in S
  <2>1. Good(0, [k \in 0..0 |-> v])
    OBVIOUS
  <2> QED BY <2>1
<1>2. ASSUME NEW n \in Nat, n \in S PROVE n + 1 \in S
  <2>1. PICK f : Good(n, f)
    BY <1>2
  <2> DEFINE w == step[<<n + 1, f[n]>>]
             g == [k \in 0..(n + 1) |-> IF k = n + 1 THEN w ELSE f[k]]
  <2>2. f[n] \in V /\ w \in V
    BY <2>1
  <2>3. g \in [0..(n + 1) -> V] /\ g[0] = v
    BY <2>1, <2>2
  <2>4. ASSUME NEW k \in 1..(n + 1) PROVE g[k] = step[<<k, g[k - 1]>>]
    <3>1. k - 1 \in 0..n /\ g[k - 1] = f[k - 1]
      OBVIOUS
    <3>2. CASE k = n + 1
      <4>1. k - 1 = n /\ g[k] = w
        BY <3>2
      <4> QED BY <3>1, <3>2, <4>1
    <3>3. CASE k # n + 1
      <4>1. k \in 1..n /\ g[k] = f[k]
        BY <3>3
      <4> QED BY <2>1, <3>1, <4>1
    <3> QED BY <3>2, <3>3
  <2> HIDE DEF g, w
  <2>5. Good(n + 1, g)
    BY <2>3, <2>4
  <2> QED BY <2>5
<1> HIDE DEF S
<1>3. N \in S
  BY <1>1, <1>2, NatInduct
<1> QED BY <1>3 DEF S, Iteration
-----------------------------------------------------------------------------
(* Bits.                                                                   *)

\* A byte has exactly the bits it is the sum of.
LEMMA BitsOfByteOf ==
  ASSUME NEW S \in SUBSET Weights
  PROVE  BitsOf(ByteOf(S)) = S
<1> DEFINE b(w) == IF w \in S THEN 1 ELSE 0
<1>1. \A w : b(w) \in {0, 1}
  OBVIOUS
<1>2. ByteOf(S) = b(1) + 2 * b(2) + 4 * b(4) + 8 * b(8)
                  + 16 * b(16) + 32 * b(32) + 64 * b(64) + 128 * b(128)
  BY DEF ByteOf, Part
<1>3. \A w : b(w) = 1 <=> w \in S
  OBVIOUS
<1> HIDE DEF b
<1>4. /\ b(1) \in {0, 1} /\ b(2) \in {0, 1} /\ b(4) \in {0, 1} /\ b(8) \in {0, 1}
      /\ b(16) \in {0, 1} /\ b(32) \in {0, 1} /\ b(64) \in {0, 1} /\ b(128) \in {0, 1}
  BY <1>1
<1>5. \A w \in Weights : HasBit(ByteOf(S), w) <=> b(w) = 1
  <2>1. HasBit(ByteOf(S), 1) <=> b(1) = 1
    BY <1>2, <1>4 DEF HasBit
  <2>2. HasBit(ByteOf(S), 2) <=> b(2) = 1
    BY <1>2, <1>4 DEF HasBit
  <2>3. HasBit(ByteOf(S), 4) <=> b(4) = 1
    BY <1>2, <1>4 DEF HasBit
  <2>4. HasBit(ByteOf(S), 8) <=> b(8) = 1
    BY <1>2, <1>4 DEF HasBit
  <2>5. HasBit(ByteOf(S), 16) <=> b(16) = 1
    BY <1>2, <1>4 DEF HasBit
  <2>6. HasBit(ByteOf(S), 32) <=> b(32) = 1
    BY <1>2, <1>4 DEF HasBit
  <2>7. HasBit(ByteOf(S), 64) <=> b(64) = 1
    BY <1>2, <1>4 DEF HasBit
  <2>8. HasBit(ByteOf(S), 128) <=> b(128) = 1
    BY <1>2, <1>4 DEF HasBit
  <2> HIDE DEF HasBit
  <2> QED BY <2>1, <2>2, <2>3, <2>4, <2>5, <2>6, <2>7, <2>8 DEF Weights
<1>6. \A w \in Weights : HasBit(ByteOf(S), w) <=> w \in S
  BY <1>3, <1>5, Zenon
<1> QED BY <1>6 DEF BitsOf

\* What clearing the bits of a mask does to one bit of a byte.
LEMMA WithoutBits ==
  ASSUME NEW i, NEW mask, NEW w \in Weights
  PROVE  HasBit(Without(i, mask), w) <=> HasBit(i, w) /\ ~HasBit(mask, w)
<1>1. BitsOf(Without(i, mask)) = BitsOf(i) \ BitsOf(mask)
  BY BitsOfByteOf DEF Without, BitsOf
<1> QED BY <1>1 DEF BitsOf

\* A word as the sum of its bits.
LEMMA BitParts ==
  ASSUME NEW i \in Byte
  PROVE  /\ i \in Int /\ 0 <= i /\ i <= 255
         /\ \A w \in Weights : Part(BitsOf(i), w) = w * ((i \div w) % 2)
<1>1. i \in Int /\ 0 <= i /\ i <= 255
  BY ByteRange
<1> QED BY <1>1 DEF Part, BitsOf, HasBit, Weights

LEMMA SumOfBits == \A i \in Byte : ByteOf(BitsOf(i)) = i
<1> TAKE i \in Byte
<1>1. i \in Int /\ 0 <= i /\ i <= 255
  BY ByteRange
<1>2. \A w \in Weights : Part(BitsOf(i), w) = w * ((i \div w) % 2)
  BY BitParts
<1>3. /\ Part(BitsOf(i), 1) = i % 2
      /\ Part(BitsOf(i), 2) = 2 * ((i \div 2) % 2)
      /\ Part(BitsOf(i), 4) = 4 * ((i \div 4) % 2)
      /\ Part(BitsOf(i), 8) = 8 * ((i \div 8) % 2)
      /\ Part(BitsOf(i), 16) = 16 * ((i \div 16) % 2)
      /\ Part(BitsOf(i), 32) = 32 * ((i \div 32) % 2)
      /\ Part(BitsOf(i), 64) = 64 * ((i \div 64) % 2)
      /\ Part(BitsOf(i), 128) = 128 * ((i \div 128) % 2)
  BY <1>1, <1>2 DEF Weights
<1>4. /\ i = 2 * (i \div 2) + (i % 2)
      /\ i \div 2 = 2 * (i \div 4) + ((i \div 2) % 2)
      /\ i \div 4 = 2 * (i \div 8) + ((i \div 4) % 2)
      /\ i \div 8 = 2 * (i \div 16) + ((i \div 8) % 2)
      /\ i \div 16 = 2 * (i \div 32) + ((i \div 16) % 2)
      /\ i \div 32 = 2 * (i \div 64) + ((i \div 32) % 2)
      /\ i \div 64 = 2 * (i \div 128) + ((i \div 64) % 2)
      /\ i \div 128 = (i \div 128) % 2
  <2>1. i = 2 * (i \div 2) + (i % 2)
    BY <1>1
  <2>2. i \div 2 = 2 * (i \div 4) + ((i \div 2) % 2)
    BY <1>1
  <2>3. i \div 4 = 2 * (i \div 8) + ((i \div 4) % 2)
    BY <1>1
  <2>4. i \div 8 = 2 * (i \div 16) + ((i \div 8) % 2)
    BY <1>1
  <2>5. i \div 16 = 2 * (i \div 32) + ((i \div 16) % 2)
    BY <1>1
  <2>6. i \div 32 = 2 * (i \div 64) + ((i \div 32) % 2)
    BY <1>1
  <2>7. i \div 64 = 2 * (i \div 128) + ((i \div 64) % 2)
    BY <1>1
  <2>8. i \div 128 = (i \div 128) % 2
    BY <1>1
  <2> QED BY <2>1, <2>2, <2>3, <2>4, <2>5, <2>6, <2>7, <2>8
<1> DEFINE half(w) == i \div w
           bit(w)  == half(w) % 2
<1>5. /\ half(2) \in Int /\ half(4) \in Int /\ half(8) \in Int /\ half(16) \in Int
      /\ half(32) \in Int /\ half(64) \in Int /\ half(128) \in Int
      /\ bit(2) \in Int /\ bit(4) \in Int /\ bit(8) \in Int /\ bit(16) \in Int
      /\ bit(32) \in Int /\ bit(64) \in Int /\ bit(128) \in Int /\ i % 2 \in Int
  BY <1>1
<1>6. /\ Part(BitsOf(i), 1) = i % 2     /\ Part(BitsOf(i), 2) = 2 * bit(2)
      /\ Part(BitsOf(i), 4) = 4 * bit(4)   /\ Part(BitsOf(i), 8) = 8 * bit(8)
      /\ Part(BitsOf(i), 16) = 16 * bit(16) /\ Part(BitsOf(i), 32) = 32 * bit(32)
      /\ Part(BitsOf(i), 64) = 64 * bit(64) /\ Part(BitsOf(i), 128) = 128 * bit(128)
  BY <1>3
<1>7. /\ i = 2 * half(2) + (i % 2)
      /\ half(2) = 2 * half(4) + bit(2)   /\ half(4) = 2 * half(8) + bit(4)
      /\ half(8) = 2 * half(16) + bit(8)  /\ half(16) = 2 * half(32) + bit(16)
      /\ half(32) = 2 * half(64) + bit(32) /\ half(64) = 2 * half(128) + bit(64)
      /\ half(128) = bit(128)
  BY <1>4
<1> HIDE DEF half, bit
<1>8. ByteOf(BitsOf(i)) = (i % 2) + 2 * bit(2) + 4 * bit(4) + 8 * bit(8)
           + 16 * bit(16) + 32 * bit(32) + 64 * bit(64) + 128 * bit(128)
  BY <1>6, Zenon DEF ByteOf
<1>9. i = (i % 2) + 2 * bit(2) + 4 * bit(4) + 8 * bit(8)
           + 16 * bit(16) + 32 * bit(32) + 64 * bit(64) + 128 * bit(128)
  <2>1. i = (i % 2) + 2 * bit(2) + 4 * bit(4) + 8 * half(8)
    BY <1>1, <1>5, <1>7
  <2>2. half(8) = bit(8) + 2 * bit(16) + 4 * bit(32) + 8 * bit(64) + 16 * bit(128)
    BY <1>5, <1>7
  <2> QED BY <1>1, <1>5, <2>1, <2>2
<1> QED BY <1>8, <1>9

LEMMA PartsAdd ==
  ASSUME NEW S, NEW T, S \cap T = {}
  PROVE  ByteOf(S \cup T) = ByteOf(S) + ByteOf(T)
<1>1. \A w \in Weights : /\ Part(S \cup T, w) = Part(S, w) + Part(T, w)
                         /\ Part(S, w) \in Int /\ Part(T, w) \in Int
  BY DEF Part, Weights
<1> QED BY <1>1 DEF ByteOf, Weights

\* Setting bits that are clear adds them, clearing bits takes them away.
LEMMA BitOrAdds ==
  ASSUME NEW a \in Byte, NEW b \in Byte, BitAnd(a, b) = 0
  PROVE  BitOr(a, b) = a + b
<1>1. BitsOf(a) \cap BitsOf(b) = {}
  <2>1. BitsOf(a) \cap BitsOf(b) \in SUBSET Weights
    BY DEF BitsOf
  <2>2. BitsOf(0) = {}
    BY DEF BitsOf, HasBit, Weights
  <2> QED BY <2>1, <2>2, BitsOfByteOf DEF BitAnd
<1> QED BY <1>1, PartsAdd, SumOfBits DEF BitOr

LEMMA WithoutTakes ==
  ASSUME NEW i \in Byte, NEW mask
  PROVE  Without(i, mask) = i - BitAnd(i, mask)
<1> DEFINE S == BitsOf(i) \ BitsOf(mask)
           T == BitsOf(i) \cap BitsOf(mask)
<1>1. ByteOf(S \cup T) = ByteOf(S) + ByteOf(T)
  BY PartsAdd
<1>2. S \cup T = BitsOf(i)
  OBVIOUS
<1>3. ByteOf(S) \in Int /\ ByteOf(T) \in Int /\ i \in Int
  BY ByteOfType, ByteRange
<1>4. ByteOf(BitsOf(i)) = i
  BY SumOfBits
<1>5. Without(i, mask) = ByteOf(S) /\ BitAnd(i, mask) = ByteOf(T)
  BY DEF Without, BitAnd
<1> HIDE DEF S, T
<1> QED BY <1>1, <1>2, <1>3, <1>4, <1>5

Kept(i, S, w) == IF w \in S THEN Part(BitsOf(i), w) ELSE 0

LEMMA KeptBits ==
  \A i, S : ByteOf(BitsOf(i) \cap S)
              = Kept(i, S, 1) + Kept(i, S, 2) + Kept(i, S, 4) + Kept(i, S, 8)
                + Kept(i, S, 16) + Kept(i, S, 32) + Kept(i, S, 64) + Kept(i, S, 128)
<1> TAKE i, S
<1>1. \A w : Part(BitsOf(i) \cap S, w) = Kept(i, S, w)
  BY DEF Part, Kept
<1>2. \A w \in Weights : Kept(i, S, w) \in Int
  BY DEF Part, Kept, Weights
<1>3. \A w \in Weights : Part(BitsOf(i) \cap S, w) = Kept(i, S, w)
  BY <1>1
<1> QED BY <1>2, <1>3 DEF ByteOf, Weights

\* What a mask leaves of a byte.
LEMMA Masked ==
  ASSUME NEW i \in Byte
  PROVE  /\ BitAnd(i, 0) = 0
         /\ BitAnd(i, REGID_MASK) = i % 8
         /\ BitAnd(i, IMM4_MASK) = i % 16
         /\ BitAnd(i, IMMJ_MASK) = (i % 16) - (i % 2)
         /\ BitAnd(i, XY_MASK) = 16 * ((i \div 16) % 2)
         /\ BitAnd(i, 111) = i - (16 * ((i \div 16) % 2)) - (128 * (i \div 128))
<1> DEFINE P(w) == Part(BitsOf(i), w)
<1>1. i \in Int /\ 0 <= i /\ i <= 255
  BY ByteRange
<1>2. /\ P(1) = i % 2 /\ P(2) = 2 * ((i \div 2) % 2) /\ P(4) = 4 * ((i \div 4) % 2)
      /\ P(8) = 8 * ((i \div 8) % 2) /\ P(16) = 16 * ((i \div 16) % 2)
      /\ P(128) = 128 * (i \div 128)
  BY <1>1, BitParts DEF Weights
<1>3. /\ BitsOf(0) = {} /\ BitsOf(REGID_MASK) = {1, 2, 4}
      /\ BitsOf(IMM4_MASK) = {1, 2, 4, 8} /\ BitsOf(IMMJ_MASK) = {2, 4, 8}
      /\ BitsOf(XY_MASK) = {16} /\ BitsOf(111) = {1, 2, 4, 8, 32, 64}
  BY DEF BitsOf, HasBit, Weights, REGID_MASK, IMM4_MASK, IMMJ_MASK, XY_MASK
<1>5. /\ P(1) \in Int /\ P(2) \in Int /\ P(4) \in Int /\ P(8) \in Int
      /\ P(16) \in Int /\ P(32) \in Int /\ P(64) \in Int /\ P(128) \in Int
  BY DEF Part
<1>6. P(1) + P(2) + P(4) + P(8) + P(16) + P(32) + P(64) + P(128) = i
  BY SumOfBits DEF ByteOf
<1> HIDE DEF P
<1>7. BitAnd(i, 0) = 0
  <2>1. BitsOf(i) \cap {} = {}
    OBVIOUS
  <2> QED BY <1>3, <2>1 DEF BitAnd, ByteOf, Part
<1>8. BitAnd(i, REGID_MASK) = P(1) + P(2) + P(4)
  <2> DEFINE S == {1, 2, 4}
  <2>1. /\ Kept(i, S, 1) = P(1) /\ Kept(i, S, 2) = P(2) /\ Kept(i, S, 4) = P(4)
        /\ Kept(i, S, 8) = 0 /\ Kept(i, S, 16) = 0 /\ Kept(i, S, 32) = 0
        /\ Kept(i, S, 64) = 0 /\ Kept(i, S, 128) = 0
    BY DEF Kept, P
  <2>2. BitAnd(i, REGID_MASK) = ByteOf(BitsOf(i) \cap S)
    BY <1>3 DEF BitAnd
  <2> HIDE DEF S
  <2> QED BY <1>5, <2>1, <2>2, KeptBits
<1>9. BitAnd(i, IMM4_MASK) = P(1) + P(2) + P(4) + P(8)
  <2> DEFINE S == {1, 2, 4, 8}
  <2>1. /\ Kept(i, S, 1) = P(1) /\ Kept(i, S, 2) = P(2) /\ Kept(i, S, 4) = P(4)
        /\ Kept(i, S, 8) = P(8) /\ Kept(i, S, 16) = 0 /\ Kept(i, S, 32) = 0
        /\ Kept(i, S, 64) = 0 /\ Kept(i, S, 128) = 0
    BY DEF Kept, P
  <2>2. BitAnd(i, IMM4_MASK) = ByteOf(BitsOf(i) \cap S)
    BY <1>3 DEF BitAnd
  <2> HIDE DEF S
  <2> QED BY <1>5, <2>1, <2>2, KeptBits
<1>10. BitAnd(i, IMMJ_MASK) = P(2) + P(4) + P(8)
  <2> DEFINE S == {2, 4, 8}
  <2>1. /\ Kept(i, S, 1) = 0 /\ Kept(i, S, 2) = P(2) /\ Kept(i, S, 4) = P(4)
        /\ Kept(i, S, 8) = P(8) /\ Kept(i, S, 16) = 0 /\ Kept(i, S, 32) = 0
        /\ Kept(i, S, 64) = 0 /\ Kept(i, S, 128) = 0
    BY DEF Kept, P
  <2>2. BitAnd(i, IMMJ_MASK) = ByteOf(BitsOf(i) \cap S)
    BY <1>3 DEF BitAnd
  <2> HIDE DEF S
  <2> QED BY <1>5, <2>1, <2>2, KeptBits
<1>11. BitAnd(i, XY_MASK) = P(16)
  <2> DEFINE S == {16}
  <2>1. /\ Kept(i, S, 1) = 0 /\ Kept(i, S, 2) = 0 /\ Kept(i, S, 4) = 0
        /\ Kept(i, S, 8) = 0 /\ Kept(i, S, 16) = P(16) /\ Kept(i, S, 32) = 0
        /\ Kept(i, S, 64) = 0 /\ Kept(i, S, 128) = 0
    BY DEF Kept, P
  <2>2. BitAnd(i, XY_MASK) = ByteOf(BitsOf(i) \cap S)
    BY <1>3 DEF BitAnd
  <2> HIDE DEF S
  <2> QED BY <1>5, <2>1, <2>2, KeptBits
<1>12. BitAnd(i, 111) = P(1) + P(2) + P(4) + P(8) + P(32) + P(64)
  <2> DEFINE S == {1, 2, 4, 8, 32, 64}
  <2>1. /\ Kept(i, S, 1) = P(1) /\ Kept(i, S, 2) = P(2) /\ Kept(i, S, 4) = P(4)
        /\ Kept(i, S, 8) = P(8) /\ Kept(i, S, 16) = 0 /\ Kept(i, S, 32) = P(32)
        /\ Kept(i, S, 64) = P(64) /\ Kept(i, S, 128) = 0
    BY DEF Kept, P
  <2>2. BitAnd(i, 111) = ByteOf(BitsOf(i) \cap S)
    BY <1>3 DEF BitAnd
  <2> HIDE DEF S
  <2> QED BY <1>5, <2>1, <2>2, KeptBits
<1>13. BitAnd(i, 111) = i - P(16) - P(128)
  BY <1>1, <1>5, <1>6, <1>12
<1>14. P(1) + P(2) + P(4) = i % 8
  BY <1>1, <1>2
<1>15. P(8) = (i % 16) - (i % 8)
  BY <1>1, <1>2
<1>16. /\ BitAnd(i, REGID_MASK) = i % 8 /\ BitAnd(i, IMM4_MASK) = i % 16
       /\ BitAnd(i, IMMJ_MASK) = (i % 16) - (i % 2)
  BY <1>1, <1>2, <1>5, <1>8, <1>9, <1>10, <1>14, <1>15
<1>17. /\ BitAnd(i, XY_MASK) = 16 * ((i \div 16) % 2)
       /\ BitAnd(i, 111) = i - (16 * ((i \div 16) % 2)) - (128 * (i \div 128))
  BY <1>2, <1>11, <1>13, Zenon
<1> QED BY <1>7, <1>16, <1>17
-----------------------------------------------------------------------------
(* What the table says of every byte.                                      *)

\* The bytes whose fixed bits are those of an entry
Bytes(m) ==
  CASE m = "rd"    -> 16..23        [] m = "wr"    -> 8..15
    [] m = "sw"    -> 24..31
    [] m = "jp"    -> {4}           [] m = "jpr"   -> {5}
    [] m = "jxi"   -> {6}           [] m = "brk"   -> {0}
    [] m = "dint"  -> {2}           [] m = "eint"  -> {3}
    [] m = "ipoll" -> {32, 48}      [] m = "or"    -> {33, 49}
    [] m = "and"   -> {34, 50}      [] m = "xor"   -> {35, 51}
    [] m = "cclr"  -> {40}          [] m = "nop"   -> {41}
    [] m = "nzero" -> {42}          [] m = "sgn"   -> {43}
    [] m = "cset"  -> {56}          [] m = "ctog"  -> {57}
    [] m = "zero"  -> {58}          [] m = "nsgn"  -> {59}
    [] m \in {"add", "adc"} -> {44, 60}
    [] m \in {"sub", "sbc"} -> {45, 61}
    [] m = "sl"    -> {38, 54}      [] m = "slc"   -> {46, 62}
    [] m = "sr"    -> {39, 55}      [] m = "src"   -> {47, 63}
    [] m = "ld"    -> {i \in 128..255 : (i \div 16) % 2 = 1}
    [] m = "st"    -> {i \in 128..255 : (i \div 16) % 2 = 0}
    [] m = "rdi"   -> {96}          [] m = "ori"   -> {97}
    [] m = "andi"  -> {98}          [] m = "xori"  -> {99}
    [] m = "addi"  -> {100, 116}    [] m = "adci"  -> {108, 124}
    [] m = "subi"  -> {101, 117}    [] m = "sbci"  -> {109, 125}
    [] m = "j"     -> {i \in 64..79 : i % 2 = 0}
    [] m = "jr"    -> {i \in 64..79 : i % 2 = 1}
    [] m = "jc"    -> 80..95
    [] m = "jcr"   -> {i \in 80..95 : i % 2 = 1}

Listed(s) == {s[k] : k \in 1..Len(s)}
TakesBytes(e) ==
  \A i \in Byte : e.opcode = Without(i, e.mask) <=> i \in Bytes(e.mnemonic)

LEMMA RowSelects ==
  \A m, o, k : /\ Instr(m, o, k).mnemonic = m
               /\ Instr(m, o, k).opcode = o
               /\ Instr(m, o, k).mask = k
  BY DEF Instr

LEMMA MovesTake == \A e \in Listed(MoveInstrs) : TakesBytes(e)
<1>1. Listed(MoveInstrs) = {Instr("rd", 16, REGID_MASK), Instr("wr", 8, REGID_MASK),
                            Instr("sw", 24, REGID_MASK)}
  BY DEF Listed, MoveInstrs
<1>2. \A i \in Byte : Without(i, REGID_MASK) = i - (i % 8)
  BY WithoutTakes, Masked
<1>3. Bytes("rd") = 16..23 /\ Bytes("wr") = 8..15 /\ Bytes("sw") = 24..31
  BY DEF Bytes
<1>4. TakesBytes(Instr("rd", 16, REGID_MASK))
  BY <1>2, <1>3, RowSelects, ByteRange DEF TakesBytes
<1>5. TakesBytes(Instr("wr", 8, REGID_MASK))
  BY <1>2, <1>3, RowSelects, ByteRange DEF TakesBytes
<1>6. TakesBytes(Instr("sw", 24, REGID_MASK))
  BY <1>2, <1>3, RowSelects, ByteRange DEF TakesBytes
<1> QED BY <1>1, <1>4, <1>5, <1>6, Zenon

LEMMA Stripped ==
  ASSUME NEW i \in Byte
  PROVE  /\ Without(i, 0) = i
         /\ Without(i, REGID_MASK) = i - (i % 8)
         /\ Without(i, XY_MASK) = i - (16 * ((i \div 16) % 2))
         /\ Without(i, 111) = (16 * ((i \div 16) % 2)) + (128 * (i \div 128))
         /\ Without(i, IMMJ_MASK) = i - ((i % 16) - (i % 2))
         /\ Without(i, IMM4_MASK) = i - (i % 16)
  BY WithoutTakes, Masked, ByteRange

\* An entry without operand bits takes one byte.
LEMMA OneTaken ==
  \A m, o : Bytes(m) = {o} => TakesBytes(Instr(m, o, 0))
  BY Stripped, RowSelects DEF TakesBytes

\* One that selects x or y takes two.
LEMMA TwoTaken ==
  \A m, o : o \in Byte /\ (o \div 16) % 2 = 0 /\ Bytes(m) = {o, o + 16}
              => TakesBytes(Instr(m, o, XY_MASK))
<1> TAKE m, o
<1> SUFFICES ASSUME o \in Byte, (o \div 16) % 2 = 0, Bytes(m) = {o, o + 16}, NEW i \in Byte
             PROVE  o = Without(i, XY_MASK) <=> i \in {o, o + 16}
  BY RowSelects DEF TakesBytes
<1>1. i \in Int /\ o \in Int /\ 0 <= i /\ 0 <= o
  BY ByteRange
<1>2. Without(i, XY_MASK) = i - (16 * ((i \div 16) % 2))
  BY Stripped
<1>3. o = i - (16 * ((i \div 16) % 2)) <=> i = o \/ i = o + 16
  BY <1>1
<1> QED BY <1>2, <1>3

LEMMA ControlsTake == \A e \in Listed(ControlInstrs) : TakesBytes(e)
<1>1. Listed(ControlInstrs) =
        {Instr("jp", 4, 0), Instr("jpr", 5, 0),
         Instr("jxi", 6, 0), Instr("brk", 0, 0),
         Instr("dint", 2, 0), Instr("eint", 3, 0)}
  BY DEF Listed, ControlInstrs
<1>2. /\ Bytes("jp") = {4}
      /\ Bytes("jpr") = {5}
      /\ Bytes("jxi") = {6}
      /\ Bytes("brk") = {0}
      /\ Bytes("dint") = {2}
      /\ Bytes("eint") = {3}
  BY DEF Bytes
<1>3. /\ TakesBytes(Instr("jp", 4, 0))
      /\ TakesBytes(Instr("jpr", 5, 0))
      /\ TakesBytes(Instr("jxi", 6, 0))
      /\ TakesBytes(Instr("brk", 0, 0))
      /\ TakesBytes(Instr("dint", 2, 0))
      /\ TakesBytes(Instr("eint", 3, 0))
  BY <1>2, OneTaken
<1> QED BY <1>1, <1>3, Zenon

LEMMA RegBitsTake == \A e \in Listed(RegBitInstrs) : TakesBytes(e)
<1>1. Listed(RegBitInstrs) =
        {Instr("ipoll", 32, XY_MASK), Instr("or", 33, XY_MASK),
         Instr("and", 34, XY_MASK), Instr("xor", 35, XY_MASK)}
  BY DEF Listed, RegBitInstrs
<1>2. /\ Bytes("ipoll") = {32, 48}
      /\ Bytes("or") = {33, 49}
      /\ Bytes("and") = {34, 50}
      /\ Bytes("xor") = {35, 51}
  BY DEF Bytes
<1>3. /\ TakesBytes(Instr("ipoll", 32, XY_MASK))
      /\ TakesBytes(Instr("or", 33, XY_MASK))
      /\ TakesBytes(Instr("and", 34, XY_MASK))
      /\ TakesBytes(Instr("xor", 35, XY_MASK))
  BY <1>2, TwoTaken, ByteRange
<1> QED BY <1>1, <1>3, Zenon

LEMMA ComparesTake == \A e \in Listed(CompareInstrs) : TakesBytes(e)
<1>1. Listed(CompareInstrs) =
        {Instr("cclr", 40, 0), Instr("nop", 41, 0),
         Instr("nzero", 42, 0), Instr("sgn", 43, 0),
         Instr("cset", 56, 0), Instr("ctog", 57, 0),
         Instr("zero", 58, 0), Instr("nsgn", 59, 0)}
  BY DEF Listed, CompareInstrs
<1>2. /\ Bytes("cclr") = {40}
      /\ Bytes("nop") = {41}
      /\ Bytes("nzero") = {42}
      /\ Bytes("sgn") = {43}
      /\ Bytes("cset") = {56}
      /\ Bytes("ctog") = {57}
      /\ Bytes("zero") = {58}
      /\ Bytes("nsgn") = {59}
  BY DEF Bytes
<1>3. /\ TakesBytes(Instr("cclr", 40, 0))
      /\ TakesBytes(Instr("nop", 41, 0))
      /\ TakesBytes(Instr("nzero", 42, 0))
      /\ TakesBytes(Instr("sgn", 43, 0))
      /\ TakesBytes(Instr("cset", 56, 0))
      /\ TakesBytes(Instr("ctog", 57, 0))
      /\ TakesBytes(Instr("zero", 58, 0))
      /\ TakesBytes(Instr("nsgn", 59, 0))
  BY <1>2, OneTaken
<1> QED BY <1>1, <1>3, Zenon

LEMMA RegAddsTake == \A e \in Listed(RegAddInstrs) : TakesBytes(e)
<1>1. Listed(RegAddInstrs) =
        {Instr("add", 44, XY_MASK), Instr("adc", 44, XY_MASK),
         Instr("sub", 45, XY_MASK), Instr("sbc", 45, XY_MASK)}
  BY DEF Listed, RegAddInstrs
<1>2. /\ Bytes("add") = {44, 60}
      /\ Bytes("adc") = {44, 60}
      /\ Bytes("sub") = {45, 61}
      /\ Bytes("sbc") = {45, 61}
  BY DEF Bytes
<1>3. /\ TakesBytes(Instr("add", 44, XY_MASK))
      /\ TakesBytes(Instr("adc", 44, XY_MASK))
      /\ TakesBytes(Instr("sub", 45, XY_MASK))
      /\ TakesBytes(Instr("sbc", 45, XY_MASK))
  BY <1>2, TwoTaken, ByteRange
<1> QED BY <1>1, <1>3, Zenon

LEMMA RegShiftsTake == \A e \in Listed(RegShiftInstrs) : TakesBytes(e)
<1>1. Listed(RegShiftInstrs) =
        {Instr("sl", 38, XY_MASK), Instr("slc", 46, XY_MASK),
         Instr("sr", 39, XY_MASK), Instr("src", 47, XY_MASK)}
  BY DEF Listed, RegShiftInstrs
<1>2. /\ Bytes("sl") = {38, 54}
      /\ Bytes("slc") = {46, 62}
      /\ Bytes("sr") = {39, 55}
      /\ Bytes("src") = {47, 63}
  BY DEF Bytes
<1>3. /\ TakesBytes(Instr("sl", 38, XY_MASK))
      /\ TakesBytes(Instr("slc", 46, XY_MASK))
      /\ TakesBytes(Instr("sr", 39, XY_MASK))
      /\ TakesBytes(Instr("src", 47, XY_MASK))
  BY <1>2, TwoTaken, ByteRange
<1> QED BY <1>1, <1>3, Zenon

LEMMA ImmsTake == \A e \in Listed(ImmInstrs) : TakesBytes(e)
<1>1. Listed(ImmInstrs) =
        {Instr("rdi", 96, 0), Instr("ori", 97, 0),
         Instr("andi", 98, 0), Instr("xori", 99, 0),
         Instr("addi", 100, XY_MASK), Instr("adci", 108, XY_MASK),
         Instr("subi", 101, XY_MASK), Instr("sbci", 109, XY_MASK)}
  BY DEF Listed, ImmInstrs
<1>2. /\ Bytes("rdi") = {96}
      /\ Bytes("ori") = {97}
      /\ Bytes("andi") = {98}
      /\ Bytes("xori") = {99}
  BY DEF Bytes
<1>3. /\ TakesBytes(Instr("rdi", 96, 0))
      /\ TakesBytes(Instr("ori", 97, 0))
      /\ TakesBytes(Instr("andi", 98, 0))
      /\ TakesBytes(Instr("xori", 99, 0))
  BY <1>2, OneTaken
<1>4. /\ Bytes("addi") = {100, 116}
      /\ Bytes("adci") = {108, 124}
      /\ Bytes("subi") = {101, 117}
      /\ Bytes("sbci") = {109, 125}
  BY DEF Bytes
<1>5. /\ TakesBytes(Instr("addi", 100, XY_MASK))
      /\ TakesBytes(Instr("adci", 108, XY_MASK))
      /\ TakesBytes(Instr("subi", 101, XY_MASK))
      /\ TakesBytes(Instr("sbci", 109, XY_MASK))
  BY <1>4, TwoTaken, ByteRange
<1> QED BY <1>1, <1>3, <1>5

LEMMA MemsTake == \A e \in Listed(MemInstrs) : TakesBytes(e)
<1>1. Listed(MemInstrs) = {Instr("ld", 144, 111), Instr("st", 128, 111)}
  BY DEF Listed, MemInstrs
<1>2. \A i \in Byte : Without(i, 111) = (16 * ((i \div 16) % 2)) + (128 * (i \div 128))
  BY Stripped
<1>3. /\ Bytes("ld") = {i \in 128..255 : (i \div 16) % 2 = 1}
      /\ Bytes("st") = {i \in 128..255 : (i \div 16) % 2 = 0}
  BY DEF Bytes
<1>4. ASSUME NEW i \in Byte
      PROVE  /\ 144 = Without(i, 111) <=> i \in Bytes("ld")
             /\ 128 = Without(i, 111) <=> i \in Bytes("st")
  <2>1. i \in Int /\ 0 <= i /\ i <= 255
    BY ByteRange
  <2>2. i \div 128 \in {0, 1} /\ (i \div 16) % 2 \in {0, 1} /\ (i \div 128 = 1 <=> i >= 128)
    BY <2>1
  <2> QED BY <1>2, <1>3, <2>1, <2>2
<1>5. TakesBytes(Instr("ld", 144, 111)) /\ TakesBytes(Instr("st", 128, 111))
  BY <1>4, RowSelects DEF TakesBytes
<1> QED BY <1>1, <1>5, Zenon

LEMMA JumpsTake == \A e \in Listed(JumpInstrs) : TakesBytes(e)
<1>1. Listed(JumpInstrs) =
        {Instr("j", 64, IMMJ_MASK), Instr("jr", 65, IMMJ_MASK),
         Instr("jc", 80, IMM4_MASK), Instr("jcr", 81, IMMJ_MASK)}
  BY DEF Listed, JumpInstrs
<1>2. \A i \in Byte : /\ Without(i, IMMJ_MASK) = i - ((i % 16) - (i % 2))
                      /\ Without(i, IMM4_MASK) = i - (i % 16)
  BY Stripped
<1>3. /\ Bytes("j") = {i \in 64..79 : i % 2 = 0}
      /\ Bytes("jr") = {i \in 64..79 : i % 2 = 1}
      /\ Bytes("jc") = 80..95
      /\ Bytes("jcr") = {i \in 80..95 : i % 2 = 1}
  BY DEF Bytes
<1>4. ASSUME NEW i \in Byte
      PROVE  /\ 64 = Without(i, IMMJ_MASK) <=> i \in Bytes("j")
             /\ 65 = Without(i, IMMJ_MASK) <=> i \in Bytes("jr")
             /\ 80 = Without(i, IMM4_MASK) <=> i \in Bytes("jc")
             /\ 81 = Without(i, IMMJ_MASK) <=> i \in Bytes("jcr")
  <2>1. i \in Int /\ 0 <= i /\ i <= 255
    BY ByteRange
  <2>2. 64 = Without(i, IMMJ_MASK) <=> i \in Bytes("j")
    BY <1>2, <1>3, <2>1
  <2>3. 65 = Without(i, IMMJ_MASK) <=> i \in Bytes("jr")
    BY <1>2, <1>3, <2>1
  <2>4. 80 = Without(i, IMM4_MASK) <=> i \in Bytes("jc")
    BY <1>2, <1>3, <2>1
  <2>5. 81 = Without(i, IMMJ_MASK) <=> i \in Bytes("jcr")
    BY <1>2, <1>3, <2>1
  <2> QED BY <2>2, <2>3, <2>4, <2>5
<1>5. /\ TakesBytes(Instr("j", 64, IMMJ_MASK)) /\ TakesBytes(Instr("jr", 65, IMMJ_MASK))
      /\ TakesBytes(Instr("jc", 80, IMM4_MASK)) /\ TakesBytes(Instr("jcr", 81, IMMJ_MASK))
  BY <1>4, RowSelects DEF TakesBytes
<1> QED BY <1>1, <1>5, Zenon

Entries == Listed(MoveInstrs) \cup Listed(ControlInstrs) \cup Listed(RegBitInstrs)
        \cup Listed(CompareInstrs) \cup Listed(RegAddInstrs) \cup Listed(RegShiftInstrs)
        \cup Listed(MemInstrs) \cup Listed(ImmInstrs) \cup Listed(JumpInstrs)

LEMMA ListedJoined ==
  ASSUME NEW T, NEW s \in Seq(T), NEW t \in Seq(T)
  PROVE  s \o t \in Seq(T) /\ Listed(s \o t) = Listed(s) \cup Listed(t)
<1>1. /\ s \o t \in Seq(T) /\ Len(s \o t) = Len(s) + Len(t)
      /\ Len(s) \in Nat /\ Len(t) \in Nat
  OBVIOUS
<1>2. \A k \in 1..Len(s) + Len(t) :
        (s \o t)[k] = IF k <= Len(s) THEN s[k] ELSE t[k - Len(s)]
  OBVIOUS
<1> DEFINE st == s \o t
<1>3. /\ Len(st) = Len(s) + Len(t)
      /\ \A k \in 1..Len(st) : st[k] = IF k <= Len(s) THEN s[k] ELSE t[k - Len(s)]
  BY <1>1, <1>2
<1> HIDE DEF st
<1>4. ASSUME NEW e \in Listed(st) PROVE e \in Listed(s) \cup Listed(t)
  <2>1. PICK k \in 1..Len(st) : e = st[k]
    BY DEF Listed
  <2>2. CASE k <= Len(s)
    <3>1. k \in 1..Len(s)
      BY <1>1, <1>3, <2>2
    <3> QED BY <1>3, <2>1, <2>2, <3>1 DEF Listed
  <2>3. CASE k > Len(s)
    <3>1. k - Len(s) \in 1..Len(t)
      BY <1>1, <1>3, <2>3
    <3> QED BY <1>1, <1>3, <2>1, <2>3, <3>1 DEF Listed
  <2> QED BY <1>1, <1>3, <2>2, <2>3
<1>5. ASSUME NEW e \in Listed(s) PROVE e \in Listed(st)
  <2>1. PICK k \in 1..Len(s) : e = s[k]
    BY DEF Listed
  <2>2. k \in 1..Len(st) /\ k <= Len(s)
    BY <1>1, <1>3
  <2> QED BY <1>3, <2>1, <2>2 DEF Listed
<1>6. ASSUME NEW e \in Listed(t) PROVE e \in Listed(st)
  <2>1. PICK k \in 1..Len(t) : e = t[k]
    BY DEF Listed
  <2>2. k + Len(s) \in 1..Len(st) /\ ~ (k + Len(s) <= Len(s)) /\ (k + Len(s)) - Len(s) = k
    BY <1>1, <1>3
  <2> QED BY <1>3, <2>1, <2>2 DEF Listed
<1> QED BY <1>1, <1>4, <1>5, <1>6 DEF st

LEMMA GroupsListed ==
  /\ MoveInstrs \in Seq(Entries) /\ ControlInstrs \in Seq(Entries) /\ RegBitInstrs \in Seq(Entries)
  /\ CompareInstrs \in Seq(Entries) /\ RegAddInstrs \in Seq(Entries) /\ RegShiftInstrs \in Seq(Entries)
  /\ MemInstrs \in Seq(Entries) /\ ImmInstrs \in Seq(Entries) /\ JumpInstrs \in Seq(Entries)
<1>1. \A s : s \in Seq(Listed(s)) /\ Listed(s) \subseteq Entries => s \in Seq(Entries)
  OBVIOUS
<1>2. /\ MoveInstrs \in Seq(Listed(MoveInstrs))
      /\ ControlInstrs \in Seq(Listed(ControlInstrs))
      /\ RegBitInstrs \in Seq(Listed(RegBitInstrs))
      /\ CompareInstrs \in Seq(Listed(CompareInstrs))
      /\ RegAddInstrs \in Seq(Listed(RegAddInstrs))
      /\ RegShiftInstrs \in Seq(Listed(RegShiftInstrs))
      /\ MemInstrs \in Seq(Listed(MemInstrs))
      /\ ImmInstrs \in Seq(Listed(ImmInstrs))
      /\ JumpInstrs \in Seq(Listed(JumpInstrs))
  BY DEF Listed, MoveInstrs, ControlInstrs, RegBitInstrs, CompareInstrs, RegAddInstrs,
         RegShiftInstrs, MemInstrs, ImmInstrs, JumpInstrs
<1> QED BY <1>1, <1>2 DEF Entries

LEMMA EntriesListed ==
  /\ NANDY_ILIST \in Seq(Entries)
  /\ Listed(NANDY_ILIST) = Entries
<1> DEFINE ok(s, R) == s \in Seq(Entries) /\ Listed(s) = R
<1>1. \A s, t, R, S : ok(s, R) /\ ok(t, S) => ok(s \o t, R \cup S)
  BY ListedJoined
<1>2. /\ ok(MoveInstrs, Listed(MoveInstrs)) /\ ok(ControlInstrs, Listed(ControlInstrs))
      /\ ok(RegBitInstrs, Listed(RegBitInstrs)) /\ ok(CompareInstrs, Listed(CompareInstrs))
      /\ ok(RegAddInstrs, Listed(RegAddInstrs)) /\ ok(RegShiftInstrs, Listed(RegShiftInstrs))
      /\ ok(MemInstrs, Listed(MemInstrs)) /\ ok(ImmInstrs, Listed(ImmInstrs))
      /\ ok(JumpInstrs, Listed(JumpInstrs))
  BY GroupsListed
<1> HIDE DEF ok
<1>3. ok(MoveInstrs \o ControlInstrs \o RegBitInstrs \o CompareInstrs \o RegAddInstrs
           \o RegShiftInstrs \o MemInstrs \o ImmInstrs \o JumpInstrs, Entries)
  BY <1>1, <1>2, Zenon DEF Entries
<1> QED BY <1>3 DEF ok, NANDY_ILIST

LEMMA EntriesTake == \A e \in Entries : TakesBytes(e)
  BY MovesTake, ControlsTake, RegBitsTake, ComparesTake, RegAddsTake, RegShiftsTake,
     MemsTake, ImmsTake, JumpsTake, Zenon DEF Entries

-----------------------------------------------------------------------------
(* Decoding.                                                               *)

JumpEntries == {"jp", "jpr", "jxi", "j", "jr", "jc", "jcr"}
ImmEntries  == {"rdi", "ori", "andi", "xori", "addi", "adci", "subi", "sbci"}
OneByteEntries ==
  {"rd", "wr", "sw", "brk", "dint", "eint", "ipoll", "or", "and", "xor",
   "cclr", "nop", "nzero", "sgn", "cset", "ctog", "zero", "nsgn",
   "add", "adc", "sub", "sbc", "sl", "slc", "sr", "src", "ld", "st"}
Mnemonics == JumpEntries \cup ImmEntries \cup OneByteEntries

\* The rows of the table have mnemonics of their own.
LEMMA EntriesNamed == /\ \A e \in Entries : e.mnemonic \in Mnemonics
                   /\ \A m \in Mnemonics : \E e \in Entries : e.mnemonic = m
<1>1. /\ {e.mnemonic : e \in Listed(MoveInstrs)} = {"rd", "wr", "sw"}
      /\ {e.mnemonic : e \in Listed(ControlInstrs)} = {"jp", "jpr", "jxi", "brk", "dint", "eint"}
      /\ {e.mnemonic : e \in Listed(RegBitInstrs)} = {"ipoll", "or", "and", "xor"}
  BY RowSelects DEF Listed, MoveInstrs, ControlInstrs, RegBitInstrs
<1>2. {e.mnemonic : e \in Listed(CompareInstrs)} =
         {"cclr", "nop", "nzero", "sgn", "cset", "ctog", "zero", "nsgn"}
  BY RowSelects DEF Listed, CompareInstrs
<1>3. /\ {e.mnemonic : e \in Listed(RegAddInstrs)} = {"add", "adc", "sub", "sbc"}
      /\ {e.mnemonic : e \in Listed(RegShiftInstrs)} = {"sl", "slc", "sr", "src"}
      /\ {e.mnemonic : e \in Listed(MemInstrs)} = {"ld", "st"}
      /\ {e.mnemonic : e \in Listed(JumpInstrs)} = {"j", "jr", "jc", "jcr"}
  BY RowSelects DEF Listed, RegAddInstrs, RegShiftInstrs, MemInstrs, JumpInstrs
<1>4. {e.mnemonic : e \in Listed(ImmInstrs)} =
         {"rdi", "ori", "andi", "xori", "addi", "adci", "subi", "sbci"}
  BY RowSelects DEF Listed, ImmInstrs
<1>5. {e.mnemonic : e \in Entries} = Mnemonics
  <2>1. {e.mnemonic : e \in Entries} =
          {e.mnemonic : e \in Listed(MoveInstrs)} \cup {e.mnemonic : e \in Listed(ControlInstrs)}
          \cup {e.mnemonic : e \in Listed(RegBitInstrs)} \cup {e.mnemonic : e \in Listed(CompareInstrs)}
          \cup {e.mnemonic : e \in Listed(RegAddInstrs)} \cup {e.mnemonic : e \in Listed(RegShiftInstrs)}
          \cup {e.mnemonic : e \in Listed(MemInstrs)} \cup {e.mnemonic : e \in Listed(ImmInstrs)}
          \cup {e.mnemonic : e \in Listed(JumpInstrs)}
    BY DEF Entries
  <2> QED BY <1>1, <1>2, <1>3, <1>4, <2>1 DEF Mnemonics, JumpEntries, ImmEntries, OneByteEntries
<1> QED BY <1>5

LEMMA BytesApart ==
  ASSUME NEW i \in Int, NEW m \in Mnemonics \ Shadowed, NEW n \in Mnemonics \ Shadowed,
         i \in Bytes(m), i \in Bytes(n)
  PROVE  m = n
  BY DEF Mnemonics, JumpEntries, ImmEntries, OneByteEntries, Shadowed, Bytes

\* The mnemonic of a byte is that of an entry the byte matches, the first.
LEMMA LookedUp ==
  ASSUME NEW i, Lookup(i) # Invalid
  PROVE  \E k \in Matches(i) : /\ \A m \in Matches(i) : k <= m
                               /\ Lookup(i) = NANDY_ILIST[k].mnemonic
<1>1. Len(NANDY_ILIST) \in Nat
  BY EntriesListed
<1>2. Matches(i) \in SUBSET Nat
  <2> HIDE DEF NANDY_ILIST
  <2> QED BY <1>1 DEF Matches
<1>3. Matches(i) # {}
  BY DEF Lookup
<1>4. \E k \in Matches(i) : \A m \in Matches(i) : k <= m
  BY <1>2, <1>3, NatMin
<1> DEFINE k == CHOOSE k \in Matches(i) : \A m \in Matches(i) : k <= m
<1>5. k \in Matches(i) /\ \A m \in Matches(i) : k <= m
  BY <1>4, Zenon
<1>6. Lookup(i) = NANDY_ILIST[k].mnemonic
  BY <1>3, Zenon DEF Lookup
<1> QED BY <1>5, <1>6, Zenon


\* A row that matches is one whose bytes these are.
LEMMA RowLookedUp ==
  ASSUME NEW i \in Byte, Lookup(i) # Invalid
  PROVE  Lookup(i) \in Mnemonics /\ i \in Bytes(Lookup(i))
<1>1. PICK k \in Matches(i) : Lookup(i) = NANDY_ILIST[k].mnemonic
  BY LookedUp
<1> HIDE DEF NANDY_ILIST
<1>2. k \in 1..Len(NANDY_ILIST) /\ NANDY_ILIST[k].opcode = Without(i, NANDY_ILIST[k].mask)
  BY DEF Matches
<1>3. NANDY_ILIST[k] \in Entries
  BY <1>2, EntriesListed
<1>4. NANDY_ILIST[k].mnemonic \in Mnemonics /\ i \in Bytes(NANDY_ILIST[k].mnemonic)
  BY <1>2, <1>3, EntriesNamed, EntriesTake DEF TakesBytes
<1> QED BY <1>1, <1>4

LEMMA SomeRow ==
  ASSUME NEW m \in Mnemonics, NEW i \in Byte, i \in Bytes(m)
  PROVE  Lookup(i) # Invalid
<1> HIDE DEF NANDY_ILIST
<1>1. PICK e \in Entries : e.mnemonic = m
  BY EntriesNamed
<1>2. PICK k \in 1..Len(NANDY_ILIST) : NANDY_ILIST[k] = e
  BY EntriesListed DEF Listed
<1>3. k \in Matches(i)
  BY <1>1, <1>2, EntriesTake DEF TakesBytes, Matches
<1>4. \E f \in Matches(i) : \A g \in Matches(i) : f <= g
  <2>1. Len(NANDY_ILIST) \in Nat
    BY EntriesListed
  <2>2. Matches(i) \in SUBSET Nat
    BY <2>1 DEF Matches
  <2> QED BY <1>3, <2>2, NatMin
<1> DEFINE first == CHOOSE f \in Matches(i) : \A g \in Matches(i) : f <= g
<1>5. first \in Matches(i)
  BY <1>4, Zenon
<1>6. Lookup(i) = NANDY_ILIST[first].mnemonic
  BY <1>3, Zenon DEF Lookup
<1>7. NANDY_ILIST[first] \in Entries
  BY <1>5, EntriesListed DEF Matches
<1>8. Invalid \notin Mnemonics
  BY DEF Invalid, Mnemonics, JumpEntries, ImmEntries, OneByteEntries
<1> QED BY <1>6, <1>7, <1>8, EntriesNamed

-----------------------------------------------------------------------------
(* Entries no byte selects.                                                *)

\* Whatever byte matches e matches d too.
Covers(d, e) ==
  \A i : e.opcode = Without(i, e.mask) => d.opcode = Without(i, d.mask)

\* Every shadowed entry of a table follows one that takes its bytes.
Hidden(s) == \A k \in 1..Len(s) :
               s[k].mnemonic \in Shadowed => k > 1 /\ Covers(s[k - 1], s[k])

LEMMA HiddenJoined ==
  ASSUME NEW T, NEW s \in Seq(T), NEW t \in Seq(T), Hidden(s), Hidden(t)
  PROVE  s \o t \in Seq(T) /\ Hidden(s \o t)
<1>1. s \o t \in Seq(T) /\ Len(s \o t) = Len(s) + Len(t) /\ Len(s) \in Nat /\ Len(t) \in Nat
  OBVIOUS
<1>2. \A k \in 1..Len(s) + Len(t) :
        (s \o t)[k] = IF k <= Len(s) THEN s[k] ELSE t[k - Len(s)]
  OBVIOUS
<1> DEFINE st == s \o t
<1>3. \A k \in 1..Len(s) + Len(t) :
        st[k] = IF k <= Len(s) THEN s[k] ELSE t[k - Len(s)]
  BY <1>2
<1>4. Len(st) = Len(s) + Len(t)
  BY <1>1
<1> HIDE DEF st
<1>5. ASSUME NEW k \in 1..Len(st), st[k].mnemonic \in Shadowed
      PROVE  k > 1 /\ Covers(st[k - 1], st[k])
  <2>1. CASE k <= Len(s)
    <3>1. st[k] = s[k] /\ k \in 1..Len(s)
      BY <1>1, <1>3, <1>4, <1>5, <2>1
    <3>2. k > 1 /\ Covers(s[k - 1], s[k])
      BY <1>5, <3>1 DEF Hidden
    <3>3. st[k - 1] = s[k - 1]
      BY <1>1, <1>3, <1>4, <2>1, <3>1, <3>2
    <3> QED BY <3>1, <3>2, <3>3
  <2>2. CASE k > Len(s)
    <3> DEFINE j == k - Len(s)
    <3>1. st[k] = t[j] /\ j \in 1..Len(t)
      BY <1>1, <1>3, <1>4, <1>5, <2>2
    <3>2. j > 1 /\ Covers(t[j - 1], t[j])
      BY <1>5, <3>1 DEF Hidden
    <3>3. k - 1 \in 1..Len(s) + Len(t) /\ k - 1 > Len(s) /\ (k - 1) - Len(s) = j - 1
      BY <1>1, <1>4, <2>2, <3>1, <3>2
    <3>4. st[k - 1] = t[j - 1]
      BY <1>1, <1>3, <3>3
    <3>5. k > 1
      BY <1>1, <1>4, <2>2, <3>2
    <3> QED BY <3>1, <3>2, <3>4, <3>5
  <2> QED BY <1>1, <1>4, <2>1, <2>2
<1>6. Hidden(st)
  BY <1>5 DEF Hidden
<1> QED BY <1>1, <1>6 DEF st

\* A table without shadowed entries.
LEMMA NoneHidden ==
  ASSUME NEW T, NEW s \in Seq(T), \A e \in T : e.mnemonic \notin Shadowed
  PROVE  Hidden(s)
  BY DEF Hidden

\* adc and sbc have the byte of the entry in front of them, jcr those of jc
\* with the lowest bit of the offset's high part set.
LEMMA JcTakesJcr == Covers(Instr("jc", 80, IMM4_MASK), Instr("jcr", 81, IMMJ_MASK))
<1> SUFFICES ASSUME NEW i, 81 = Without(i, IMMJ_MASK)
             PROVE  80 = Without(i, IMM4_MASK)
  BY RowSelects DEF Covers
<1>1. BitsOf(IMMJ_MASK) = {2, 4, 8} /\ BitsOf(IMM4_MASK) = {1, 2, 4, 8}
  BY DEF BitsOf, HasBit, Weights, IMMJ_MASK, IMM4_MASK
<1>2. BitsOf(81) = {1, 16, 64}
  BY DEF BitsOf, HasBit, Weights
<1>3. BitsOf(i) \ {2, 4, 8} = {1, 16, 64}
  <2>1. BitsOf(i) \ {2, 4, 8} \in SUBSET Weights
    BY DEF BitsOf
  <2> QED BY <1>1, <1>2, <2>1, BitsOfByteOf DEF Without
<1>4. BitsOf(i) \ {1, 2, 4, 8} = {16, 64}
  BY <1>3
<1>5. ByteOf({16, 64}) = 80
  BY DEF ByteOf, Part
<1> QED BY <1>1, <1>4, <1>5 DEF Without

\* Each group of the table hides only adc, sbc and jcr.
LEMMA GroupsHidden ==
  /\ Hidden(MoveInstrs) /\ Hidden(ControlInstrs) /\ Hidden(RegBitInstrs)
  /\ Hidden(CompareInstrs) /\ Hidden(RegAddInstrs) /\ Hidden(RegShiftInstrs)
  /\ Hidden(MemInstrs) /\ Hidden(ImmInstrs) /\ Hidden(JumpInstrs)
<1>1. Hidden(MoveInstrs) /\ Hidden(RegBitInstrs)
  BY RowSelects DEF Hidden, Shadowed, MoveInstrs, RegBitInstrs
<1>2. Hidden(ControlInstrs)
  BY RowSelects DEF Hidden, Shadowed, ControlInstrs
<1>3. Hidden(CompareInstrs)
  BY RowSelects DEF Hidden, Shadowed, CompareInstrs
<1>4. Hidden(RegShiftInstrs) /\ Hidden(MemInstrs)
  BY RowSelects DEF Hidden, Shadowed, RegShiftInstrs, MemInstrs
<1>5. Hidden(ImmInstrs)
  BY RowSelects DEF Hidden, Shadowed, ImmInstrs
<1>6. Hidden(RegAddInstrs)
  <2>1. /\ Covers(Instr("add", 44, XY_MASK), Instr("adc", 44, XY_MASK))
        /\ Covers(Instr("sub", 45, XY_MASK), Instr("sbc", 45, XY_MASK))
    BY RowSelects DEF Covers
  <2> QED BY <2>1, RowSelects DEF Hidden, Shadowed, RegAddInstrs
<1>7. Hidden(JumpInstrs)
  BY JcTakesJcr, RowSelects DEF Hidden, Shadowed, JumpInstrs
<1> QED BY <1>1, <1>2, <1>3, <1>4, <1>5, <1>6, <1>7

LEMMA TableHidden == Hidden(NANDY_ILIST)
<1> DEFINE ok(s) == s \in Seq(Entries) /\ Hidden(s)
<1>1. \A s, t : ok(s) /\ ok(t) => ok(s \o t)
  BY HiddenJoined
<1>2. /\ ok(MoveInstrs) /\ ok(ControlInstrs) /\ ok(RegBitInstrs)
      /\ ok(CompareInstrs) /\ ok(RegAddInstrs) /\ ok(RegShiftInstrs)
      /\ ok(MemInstrs) /\ ok(ImmInstrs) /\ ok(JumpInstrs)
  BY GroupsListed, GroupsHidden
<1> HIDE DEF ok
<1>3. ok(MoveInstrs \o ControlInstrs \o RegBitInstrs \o CompareInstrs)
  BY <1>1, <1>2, Zenon
<1>4. ok(NANDY_ILIST)
  BY <1>1, <1>2, <1>3, Zenon DEF NANDY_ILIST
<1> QED BY <1>4 DEF ok

\* No byte executes as adc, sbc or jcr: ilookup takes the first entry that
\* matches, and an entry in front of each has its opcode, or its opcode under
\* a wider mask.  The forty instructions that are left and the unassigned byte
\* are what a step of the processor can be.
THEOREM ShadowedNeverRun ==
  \A i \in Byte : ilookup[i] \in (Mnemonics \cup {Invalid}) \ Shadowed
<1> TAKE i \in Byte
<1>1. ilookup[i] = Lookup(i)
  BY DEF ilookup
<1>2. CASE Lookup(i) = Invalid
  BY <1>1, <1>2 DEF Invalid, Shadowed
<1>3. CASE Lookup(i) # Invalid
  <2>1. PICK k \in Matches(i) : /\ \A m \in Matches(i) : k <= m
                                /\ Lookup(i) = NANDY_ILIST[k].mnemonic
    BY <1>3, LookedUp
  <2> HIDE DEF NANDY_ILIST
  <2>2. k \in 1..Len(NANDY_ILIST) /\ Len(NANDY_ILIST) \in Nat
    BY EntriesListed DEF Matches
  <2>3. Lookup(i) \in Mnemonics
    BY <1>3, RowLookedUp
  <2>4. ASSUME NANDY_ILIST[k].mnemonic \in Shadowed
        PROVE  FALSE
    <3>1. k > 1 /\ Covers(NANDY_ILIST[k - 1], NANDY_ILIST[k])
      BY <2>2, <2>4, TableHidden DEF Hidden
    <3>2. k - 1 \in 1..Len(NANDY_ILIST)
      BY <2>2, <3>1
    <3>3. k - 1 \in Matches(i)
      BY <3>1, <3>2 DEF Covers, Matches
    <3> QED BY <2>1, <2>2, <3>3
  <2> QED BY <1>1, <2>1, <2>3, <2>4
<1> QED BY <1>2, <1>3

\* Each byte executes as the one instruction that has it among its bytes.
THEOREM OpcodeMap ==
  \A i \in Byte, m \in Mnemonics \ Shadowed : ilookup[i] = m <=> i \in Bytes(m)
<1> TAKE i \in Byte, m \in Mnemonics \ Shadowed
<1>1. ilookup[i] = Lookup(i)
  BY DEF ilookup
<1>2. ASSUME Lookup(i) = m PROVE i \in Bytes(m)
  <2>1. m # Invalid
    BY DEF Invalid, Mnemonics, JumpEntries, ImmEntries, OneByteEntries
  <2> QED BY <1>2, <2>1, RowLookedUp
<1>3. ASSUME i \in Bytes(m) PROVE Lookup(i) = m
  <2>1. Lookup(i) # Invalid
    BY <1>3, SomeRow
  <2>2. Lookup(i) \in Mnemonics \ Shadowed /\ i \in Bytes(Lookup(i))
    BY <1>1, <2>1, RowLookedUp, ShadowedNeverRun
  <2>3. i \in Int
    BY ByteRange
  <2> QED BY <1>3, <2>2, <2>3, BytesApart
<1> QED BY <1>1, <1>2, <1>3

\* The length follows from the mnemonic: two bytes for the immediate
\* instructions and the relative jumps, one for every other (nbytes).
LEMMA LengthOf ==
  ASSUME NEW i \in Byte, NEW m \in Mnemonics, i \in Bytes(m)
  PROVE  nbytes(i) = IF m \in ImmEntries \cup {"j", "jr", "jc", "jcr"} THEN 2 ELSE 1
<1>1. i \in Int /\ 0 <= i /\ i <= 255
  BY ByteRange
<1>2. nbytes(i) = IF i \in 64..127 THEN 2 ELSE 1
  BY <1>1 DEF nbytes, HasBit, MULTIBYTE_MASK, MEM_MASK
<1>3. i \in 64..127 <=> m \in ImmEntries \cup {"j", "jr", "jc", "jcr"}
  BY <1>1 DEF Bytes, Mnemonics, JumpEntries, ImmEntries, OneByteEntries
<1> QED BY <1>2, <1>3
=============================================================================

----------------------------- MODULE NandyWord -----------------------------
(***************************************************************************)
(* Words and addresses of the NANDy toolchain, and the eight-bit ALU.      *)
(*                                                                         *)
(* word_t is int8_t and addr_t is uint16_t (nandy_definitions.h:79-80).  A *)
(* word is kept here as the byte it is stored in, 0..255; Signed gives the *)
(* value C computes with wherever a word is promoted to int.               *)
(***************************************************************************)
EXTENDS Integers

WORD_MAX == 255
ADDR_MAX == 65535
Byte == 0..WORD_MAX
Addr == 0..ADDR_MAX

\* The int an int8_t promotes to.
Signed(w) == IF w < 128 THEN w ELSE w - 256

\* Truncation of an int to a word and to an address.
ToByte(n) == n % 256
ToAddr(n) == n % 65536

\* Mutant: a relative jump whose sign is lost.
signExtendUnsigned(n, half) == n

\* signExtend: the low `bits` bits of n, the topmost of them a sign;
\* `half` is the weight of that sign bit.
signExtend(n, half) == IF (n \div half) % 2 = 1 THEN (n % half) - half
                                                ELSE n % half
-----------------------------------------------------------------------------
(***************************************************************************)
(* Bitwise operations: a byte as the set of the weights it is the sum of.  *)
(***************************************************************************)
Weights == {1, 2, 4, 8, 16, 32, 64, 128}

HasBit(a, w) == (a \div w) % 2 = 1
BitsOf(a) == {w \in Weights : HasBit(a, w)}

\* The weight w where it is a member of S.
Part(S, w) == IF w \in S THEN w ELSE 0
ByteOf(S) ==   Part(S, 1)  + Part(S, 2)  + Part(S, 4)  + Part(S, 8)
             + Part(S, 16) + Part(S, 32) + Part(S, 64) + Part(S, 128)

BitAnd(a, b) == ByteOf(BitsOf(a) \cap BitsOf(b))
BitOr(a, b)  == ByteOf(BitsOf(a) \cup BitsOf(b))

BitXor(a, b) == ByteOf((BitsOf(a) \cup BitsOf(b)) \ (BitsOf(a) \cap BitsOf(b)))
-----------------------------------------------------------------------------
(***************************************************************************)
(* nandy_alufuncs.c.  Each function returns the word and, where the caller *)
(* passes a pointer for it, the carry out.                                 *)
(***************************************************************************)
CarryIn(c) == IF c THEN 1 ELSE 0

SumOf(a, b, cin) == a + b + CarryIn(cin)

\* Mutant: the carry out leaves the carry in out of account.
alu_addLosesCarry(a, b, cin) == [word |-> ToByte(SumOf(a, b, cin)),
                                 cout |-> HasBit(SumOf(a, b, FALSE), 256)]

alu_add(a, b, cin) == [word |-> ToByte(SumOf(a, b, cin)),
                       cout |-> HasBit(SumOf(a, b, cin), 256)]

DifferenceOf(a, b, cin) == a + 255 + CarryIn(cin) - b
alu_sub(a, b, cin) == [word |-> ToByte(DifferenceOf(a, b, cin)),
                       cout |-> HasBit(DifferenceOf(a, b, cin), 256)]

alu_sl(a, cin) == [word |-> ToByte(2 * a + CarryIn(cin)),
                   cout |-> HasBit(a, 128)]

alu_sr(a, cin) == [word |-> (a \div 2) + 128 * CarryIn(cin),
                   cout |-> HasBit(a, 1)]
=============================================================================

------------------------------- MODULE Words -------------------------------
(***************************************************************************)
(* The instructions of runtime/evm/instructions.go that compute on words,  *)
(* as the code computes them: on big.Int values of any size and sign, with *)
(* toU256 and to256 in between.                                            *)
(*                                                                         *)
(* A word has WordBytes bytes of ByteBits bits, 32 of 8 in the code; an    *)
(* int64 has Int64Bits bits, fewer than a word.                            *)
(***************************************************************************)
EXTENDS Integers, Sequences, FiniteSets, FiniteSetsExt

CONSTANTS ByteBits, WordBytes, Int64Bits

WordBits == ByteBits * WordBytes

ASSUME WordConstants ==
  /\ ByteBits \in Nat \ {0}
  /\ WordBytes \in Nat \ {0}
  /\ Int64Bits \in 1 .. WordBits

tt256 == 2 ^ WordBits
tt255 == 2 ^ (WordBits - 1)
tt64 == 2 ^ Int64Bits
Byte == 2 ^ ByteBits

\* What the provers, which know no exponentiation, need of the powers above.
ASSUME PowersOfTwo ==
  /\ \A i, j \in 0 .. WordBits + ByteBits :
       i + j <= WordBits + ByteBits => 2 ^ i \in Nat \ {0} /\ 2 ^ (i + j) = 2 ^ i * 2 ^ j
  /\ \A n \in 0 .. WordBytes : Byte ^ n = 2 ^ (ByteBits * n)

Word == 0 .. tt256 - 1

\* Byte slices that a word can count.
Bytes == {b \in Seq(0 .. Byte - 1) : Len(b) \in Word}

\* x.And(x, tt256m1), also for a negative x.
toU256(x) == x % tt256

\* The signed value of a word: BitLen() > 255 means that the top bit is set.
to256(x) == IF x >= tt255 THEN x - tt256 ELSE x

abs(x) == IF x < 0 THEN -x ELSE x

sign(x) == IF x < 0 THEN -1 ELSE IF x = 0 THEN 0 ELSE 1

bit(x, i) == (x \div 2 ^ i) % 2

truth(b) == IF b THEN 1 ELSE 0

\* big.Int.Int64 and big.Int.Uint64: the low 64 bits.
Uint64(x) == x % tt64
Int64(x) == IF Uint64(x) >= tt64 \div 2 THEN Uint64(x) - tt64 ELSE Uint64(x)

-----------------------------------------------------------------------------
(* a is popped first, b is the top under it and takes the result.          *)

opAdd(a, b) == toU256(a + b)
opMul(a, b) == toU256(a * b)
opSub(a, b) == toU256(a - b)
opDiv(a, b) == IF b = 0 THEN 0 ELSE a \div b
opMod(a, b) == IF b = 0 THEN 0 ELSE a % b

\* A variant that divides the signed values as they are: Div rounds down.
opSDiv_floor(a, b) ==
  IF b = 0 THEN 0
  ELSE LET x == to256(a)
           y == to256(b)
       IN toU256(IF y < 0 THEN (-x) \div (-y) ELSE x \div y)

\* On absolute values; the sign is put back.
opSDiv(a, b) ==
  LET x == to256(a)
      y == to256(b)
      q == abs(x) \div abs(y)
  IN IF b = 0 THEN 0 ELSE toU256(IF sign(x) # sign(y) THEN -q ELSE q)

opSMod(a, b) ==
  LET x == to256(a)
      y == to256(b)
      r == abs(x) % abs(y)
  IN IF b = 0 THEN 0 ELSE toU256(IF x < 0 THEN -r ELSE r)

\* Square and multiply over the bits of y, in whole machine words of Int64Bits.
\* Both the product and the square are left behind.
expLoop(x, y) ==
  LET rounds == Int64Bits * ((WordBits + Int64Bits - 1) \div Int64Bits)
      f[i \in 0 .. rounds] ==
        IF i = 0 THEN [z |-> 1, x |-> x]
        ELSE LET r == f[i - 1]
             IN [z |-> IF bit(y, i - 1) = 1 THEN toU256(r.z * r.x) ELSE r.z,
                 x |-> toU256(r.x * r.x)]
  IN IF y = 0 THEN f[0] ELSE f[rounds]

opExp(a, b) == expLoop(a, b).z

opAddMod(a, b, z) == IF z = 0 THEN 0 ELSE (a + b) % z
opMulMod(a, b, z) == IF z = 0 THEN 0 ELSE (a * b) % z

\* big.Int's bitwise operations.
onBits(op, x, y) ==
  CASE op = "AND" -> x * y [] op = "OR" -> x + y - x * y [] op = "XOR" -> (x + y) % 2

bitwise(op, a, b) ==
  LET f[n \in 0 .. WordBits] ==
        IF n = 0 THEN 0
        ELSE f[n - 1] + onBits(op, bit(a, n - 1), bit(b, n - 1)) * 2 ^ (n - 1)
  IN f[WordBits]

opAnd(a, b) == bitwise("AND", a, b)
opOr(a, b) == bitwise("OR", a, b)
opXor(a, b) == bitwise("XOR", a, b)
opNot(a) == toU256(-a - 1)

opIsZero(a) == truth(a = 0)
opEq(a, b) == truth(a = b)
opLt(a, b) == truth(a < b)
opGt(a, b) == truth(a > b)
opSlt(a, b) == truth(to256(a) < to256(b))
opSgt(a, b) == truth(to256(a) > to256(b))

\* The index is cut to an int64, and so is the number of bits to shift by.
opByte(a, b) ==
  LET indx == Int64(a)
      sh == Uint64((WordBytes - 1 - indx) * ByteBits)
  IN IF indx > WordBytes - 1 \/ sh >= WordBits THEN 0 ELSE (b \div 2 ^ sh) % Byte

\* The mask has the bits below the sign bit; its complement is negative.
opSignExtension(ext, x) ==
  LET sgn == ext * ByteBits + ByteBits - 1
  IN IF ext > WordBytes THEN x
     ELSE IF bit(x, sgn) = 1 THEN toU256((x % (2 ^ sgn)) - 2 ^ sgn) ELSE x % (2 ^ sgn)

\* BitLen() > 8.
equalOrOverflowsUint256(x) == x >= WordBits

opShl(shift, v) ==
  IF equalOrOverflowsUint256(shift) THEN 0 ELSE toU256(v * 2 ^ shift)

opShr(shift, v) == IF equalOrOverflowsUint256(shift) THEN 0 ELSE v \div 2 ^ shift

opSar(shift, v) ==
  LET x == to256(v) IN
  IF equalOrOverflowsUint256(shift) THEN (IF x >= 0 THEN 0 ELSE tt256 - 1)
  ELSE toU256(x \div 2 ^ shift)

-----------------------------------------------------------------------------
(* Bytes.                                                                  *)

\* big.Int.SetBytes: big-endian.
fromBytes(bytes) ==
  LET f[i \in 0 .. Len(bytes)] == IF i = 0 THEN 0 ELSE f[i - 1] * Byte + bytes[i]
  IN f[Len(bytes)]

\* The loop of opMStore over val.Bits().
toBytes(x) == [i \in 1 .. WordBytes |-> (x \div Byte ^ (WordBytes - i)) % Byte]

bitLen(x) == CHOOSE n \in 0 .. WordBits : 2 ^ n > x /\ (n = 0 \/ 2 ^ (n - 1) <= x)
=============================================================================

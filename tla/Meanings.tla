------------------------------ MODULE Meanings ------------------------------
(***************************************************************************)
(* What the comments of runtime/evm/opcodes.go say the computing           *)
(* instructions are for, as mathematics: (u)int256 arithmetic, and words   *)
(* as sequences of bits.  Machine's StackEffect compares the code with it. *)
(***************************************************************************)
EXTENDS Words

Bits == 0 .. WordBits - 1

\* The word with the bits f.
ofBits(f) == MapThenSumSet(LAMBDA i : f[i] * 2 ^ i, Bits)

\* The integer that a word stands for in two's complement.
signed(x) == CHOOSE n \in {x, x - tt256} : n \in -tt255 .. tt255 - 1

\* Division that rounds towards zero: quotient and remainder.
quotient(x, y) ==
  LET floor == x \div abs(y)
      truncated == IF floor < 0 /\ floor * abs(y) # x THEN floor + 1 ELSE floor
  IN truncated * sign(y)

remainder(x, y) == x - quotient(x, y) * y

\* x multiplied n times: x^(i+1) = x * x^i and x^(2i) = x^i * x^i.
power(x, n) ==
  LET f[i \in 0 .. n] ==
        IF i = 0 THEN 1
        ELSE IF i % 2 = 0 THEN LET half == f[i \div 2] IN (half * half) % tt256
        ELSE (f[i - 1] * x) % tt256
  IN f[n]

lower(i, j) == IF i < j THEN i ELSE j

\* The result of an instruction on the words x (the top) and y (below it).
Result2(op, x, y) ==
  CASE op = "ADD" -> (x + y) % tt256
    [] op = "MUL" -> (x * y) % tt256
    [] op = "SUB" -> (x - y) % tt256
    [] op = "DIV" -> IF y = 0 THEN 0 ELSE x \div y
    [] op = "MOD" -> IF y = 0 THEN 0 ELSE x % y
    [] op = "SDIV" -> IF y = 0 THEN 0 ELSE quotient(signed(x), signed(y)) % tt256
    [] op = "SMOD" -> IF y = 0 THEN 0 ELSE remainder(signed(x), signed(y)) % tt256
    [] op = "EXP" -> power(x, y)
    [] op = "AND" -> ofBits([i \in Bits |-> lower(bit(x, i), bit(y, i))])
    [] op = "OR" -> ofBits([i \in Bits |-> 1 - lower(1 - bit(x, i), 1 - bit(y, i))])
    [] op = "XOR" -> ofBits([i \in Bits |-> truth(bit(x, i) # bit(y, i))])
    [] op = "EQ" -> truth(x = y)
    [] op \in {"LT", "SLT"} -> truth(signed(x) < signed(y))
    [] op \in {"GT", "SGT"} -> truth(signed(y) < signed(x))
    [] op = "BYTE" -> IF x >= WordBytes THEN 0 ELSE toBytes(y)[x + 1]
    [] op = "SIGNEXTEND" ->
         ofBits([i \in Bits |-> bit(y, lower(i, lower(x, WordBytes) * ByteBits + ByteBits - 1))])
    [] op = "SHL" -> ofBits([i \in Bits |-> IF i < x THEN 0 ELSE bit(y, i - x)])
    [] op = "SHR" -> ofBits([i \in Bits |-> IF i + x >= WordBits THEN 0 ELSE bit(y, i + x)])
    [] op = "SAR" -> ofBits([i \in Bits |-> bit(y, lower(i + x, WordBits - 1))])

Binary == {"ADD", "MUL", "SUB", "DIV", "MOD", "SDIV", "SMOD", "EXP", "AND", "OR",
           "XOR", "EQ", "LT", "GT", "SLT", "SGT", "BYTE", "SIGNEXTEND", "SHL",
           "SHR", "SAR"}

Unary == {"NOT", "ISZERO"}

Result1(op, x) ==
  IF op = "ISZERO" THEN truth(x = 0)
  ELSE ofBits([i \in Bits |-> 1 - bit(x, i)])

Ternary == {"ADDMOD", "MULMOD"}

Result3(op, x, y, n) ==
  IF n = 0 THEN 0 ELSE (IF op = "ADDMOD" THEN x + y ELSE x * y) % n
=============================================================================

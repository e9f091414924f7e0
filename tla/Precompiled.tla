---------------------------- MODULE Precompiled ----------------------------
(***************************************************************************)
(* The precompiled contracts (runtime/precompiled): who can run, what it   *)
(* costs, and how each reads its input through the one buffer they share.  *)
(* What the cryptography computes, and which points and signatures it      *)
(* takes, are given operators.                                             *)
(***************************************************************************)
EXTENDS Meanings

CONSTANTS
  GasRoot,        \* 2^32: gas is counted modulo its square
  BlakeLen,       \* 213: the length of an input of blake2f
  Digest(_, _),   \* what a cryptographic function makes of its input
  Valid(_, _)     \* whether it takes the bytes of a point or of a signature

ASSUME BlakeLength == BlakeLen \in Nat /\ BlakeLen >= 4

GasWord == GasRoot * GasRoot

\* setupContracts: the contracts at the addresses 1 to 9.
contracts == <<"ecrecover", "sha256h", "ripemd160h", "identity", "modExp", "bn256Add",
               "bn256Mul", "bn256Pairing", "blake2f">>

CanRun(address, config) ==
  /\ address \in DOMAIN contracts
  /\ address \in 5 .. 8 => "Byzantium" \in config
  /\ address = 9 => "Istanbul" \in config

wordsOf(bytes) == (bytes + WordBytes - 1) \div WordBytes

\* extendByteSlice: the capacity is used up before bytes are added.
extendByteSlice(b, n) ==
  IF n <= Len(b) THEN b ELSE b \o [i \in 1 .. n - Len(b) |-> 0]

\* size bytes of the input at the start of b, with zeros behind its end up to upto.
filled(b, input, size, upto) ==
  [i \in DOMAIN b |-> IF i <= Min({size, Len(input)}) THEN input[i]
                      ELSE IF i <= upto THEN 0 ELSE b[i]]

taken(b, input, size) ==
  [buf |-> b, val |-> SubSeq(b, 1, size), input |-> SubSeq(input, size + 1, Len(input))]

\* A variant that pads one byte too few.
get_padsShort(buf, input, size) ==
  taken(filled(extendByteSlice(buf, size), input, size, size - 1), input, size)

\* get: size bytes of the input, with zeros behind its end, in the shared buffer;
\* and the rest of the input.
get(buf, input, size) ==
  taken(filled(extendByteSlice(buf, size), input, size, size), input, size)

\* Several fields in a row.
next(r, g) == [buf |-> g.buf, input |-> g.input, vals |-> Append(r.vals, g.val)]

getNext(r, size) == next(r, get(r.buf, r.input, size))

getAll(buf, input, sizes) ==
  LET f[i \in 0 .. Len(sizes)] ==
        IF i = 0 THEN [buf |-> buf, input |-> input, vals |-> << >>]
        ELSE getNext(f[i - 1], sizes[i])
  IN f[Len(sizes)]

leftPad(bytes, n) ==
  IF Len(bytes) > n THEN bytes ELSE [i \in 1 .. n - Len(bytes) |-> 0] \o bytes

-----------------------------------------------------------------------------
(* modExp.  A length is a word; run takes it as a uint64.                  *)

adjustedExponentLength(len, head) ==
  LET bitlength == IF head = 0 THEN 0 ELSE bitLen(head) - 1
  IN IF len <= WordBytes THEN bitlength ELSE (len - WordBytes) * ByteBits + bitlength

multComplexity(x) ==
  IF x <= 64 THEN x * x
  ELSE IF x <= 1024 THEN (x * x) \div 4 + 96 * x - 3072
  ELSE (x * x) \div 16 + 480 * x - 199680

\* The lengths of base, exponent and modulus, and what follows them.
lengthsOf(r) ==
  [base |-> fromBytes(r.vals[1]), exponent |-> fromBytes(r.vals[2]),
   modulus |-> fromBytes(r.vals[3]), buf |-> r.buf, input |-> r.input]

lengths(buf, input) == lengthsOf(getAll(buf, input, <<WordBytes, WordBytes, WordBytes>>))

\* a * b / 20, or the largest uint64 if it is more than that holds.
scaled(a, b) ==
  IF a >= (20 * GasWord + b - 1) \div b THEN GasWord - 1 ELSE (a * b) \div 20

modExpCost(l) ==
  LET bLen == Uint64(l.base)
      read == bLen < Len(l.input)
      h == get(l.buf, SubSeq(l.input, bLen + 1, Len(l.input)), Min({l.exponent, WordBytes}))
      adjusted == adjustedExponentLength(l.exponent, IF read THEN fromBytes(h.val) ELSE 0)
  IN [gas |-> scaled(multComplexity(Max({l.modulus, l.base})), Max({adjusted, 1})),
      buf |-> IF read THEN h.buf ELSE l.buf]

modExpGas(buf, input) == modExpCost(lengths(buf, input))

\* big.Int.Exp with a modulus.
expMod(x, n, z) ==
  LET f[i \in 0 .. n] ==
        IF i = 0 THEN 1 % z
        ELSE LET half == f[i \div 2]
             IN (((half * half) % z) * (IF i % 2 = 1 THEN x % z ELSE 1)) % z
  IN f[n]

\* The bytes of a number that has at most n.
bytesOf(x, n) ==
  [i \in 1 .. n |-> IF n - i >= WordBytes THEN 0 ELSE (x \div Byte ^ (n - i)) % Byte]

result(ok, ret, buf) == [ok |-> ok, ret |-> ret, buf |-> buf]

\* Of the three numbers in r, as many bytes as the modulus has.
modExpResult(r, n) ==
  LET z == fromBytes(r.vals[3])
      bytes == bytesOf(expMod(fromBytes(r.vals[1]), fromBytes(r.vals[2]), z), n)
  IN result(TRUE, leftPad(IF z = 0 THEN << >> ELSE bytes, n), r.buf)

modExpOf(l, b, e, m) ==
  IF b = 0 /\ m = 0 THEN result(TRUE, << >>, l.buf)
  ELSE modExpResult(getAll(l.buf, l.input, <<b, e, m>>), m)

modExpLengths(l) == modExpOf(l, Uint64(l.base), Uint64(l.exponent), Uint64(l.modulus))

modExpRun(buf, input) == modExpLengths(lengths(buf, input))

-----------------------------------------------------------------------------
(* The others: each decodes its input piece by piece.                      *)

\* v is one byte; a signature that is not valid gives no address, and no error.
ecrecoverRun(buf, input) ==
  LET g == get(buf, input, 4 * WordBytes)
  IN IF \/ \E i \in WordBytes + 1 .. 2 * WordBytes - 1 : g.val[i] # 0
        \/ ~Valid("ecrecover", g.val)
     THEN result(TRUE, << >>, g.buf)
     ELSE result(TRUE, leftPad(Digest("ecrecover", g.val), WordBytes), g.buf)

\* Reads a point of one or two words each; the first that is not valid ends it.
bn256Run(name, buf, input, second) ==
  LET a == get(buf, input, 2 * WordBytes)
      b == get(a.buf, a.input, second)
  IN IF ~Valid(name, a.val) THEN result(FALSE, << >>, a.buf)
     ELSE IF name = "bn256Add" /\ ~Valid(name, b.val) THEN result(FALSE, << >>, b.buf)
     ELSE result(TRUE, Digest(name, a.val \o b.val), b.buf)

bn256PairingRun(buf, input) ==
  LET num == Len(input) \div (6 * WordBytes)
      loop[i \in 0 .. 2 * num] ==
        IF i = 0 THEN [ok |-> TRUE, buf |-> buf, input |-> input]
        ELSE LET p == loop[i - 1]
                 g == get(p.buf, p.input, (IF i % 2 = 1 THEN 2 ELSE 4) * WordBytes)
             IN IF ~p.ok THEN p
                ELSE [ok |-> Valid("bn256Pairing", g.val), buf |-> g.buf, input |-> g.input]
      end == loop[2 * num]
  IN IF Len(input) = 0 THEN result(TRUE, bytesOf(1, WordBytes), buf)
     ELSE IF Len(input) % (6 * WordBytes) # 0 THEN result(FALSE, << >>, buf)
     ELSE result(end.ok, IF end.ok THEN Digest("bn256Pairing", input) ELSE << >>, end.buf)

blake2fRun(buf, input) ==
  IF Len(input) # BlakeLen \/ input[BlakeLen] \notin {0, 1} THEN result(FALSE, << >>, buf)
  ELSE result(TRUE, Digest("blake2f", input), buf)

-----------------------------------------------------------------------------
baseGasCalc(input, base, word) == base + wordsOf(Len(input)) * word

\* gas, and the buffer it leaves.
gasOf(name, buf, input, config) ==
  LET istanbul == "Istanbul" \in config
      cost(g) == [gas |-> g, buf |-> buf]
  IN CASE name = "ecrecover" -> cost(3000)
       [] name = "sha256h" -> cost(baseGasCalc(input, 60, 12))
       [] name = "ripemd160h" -> cost(baseGasCalc(input, 600, 120))
       [] name = "identity" -> cost(baseGasCalc(input, 15, 3))
       [] name = "modExp" -> modExpGas(buf, input)
       [] name = "bn256Add" -> cost(IF istanbul THEN 150 ELSE 500)
       [] name = "bn256Mul" -> cost(IF istanbul THEN 6000 ELSE 40000)
       [] name = "bn256Pairing" ->
            cost((IF istanbul THEN 45000 ELSE 100000)
                 + (IF istanbul THEN 34000 ELSE 80000) * (Len(input) \div (6 * WordBytes)))
       [] name = "blake2f" ->
            cost(IF Len(input) # BlakeLen THEN 0 ELSE fromBytes(SubSeq(input, 1, 4)))

runOf(name, buf, input) ==
  CASE name = "ecrecover" -> ecrecoverRun(buf, input)
    [] name = "identity" -> result(TRUE, input, buf)
    [] name = "sha256h" -> result(TRUE, Digest(name, input), buf)
    [] name = "ripemd160h" -> result(TRUE, leftPad(Digest(name, input), WordBytes), buf)
    [] name = "modExp" -> modExpRun(buf, input)
    [] name = "bn256Add" -> bn256Run(name, buf, input, 2 * WordBytes)
    [] name = "bn256Mul" -> bn256Run(name, buf, input, WordBytes)
    [] name = "bn256Pairing" -> bn256PairingRun(buf, input)
    [] name = "blake2f" -> blake2fRun(buf, input)

outcome(r, gas) ==
  IF r.ok THEN [err |-> "", ret |-> r.ret, gas |-> gas, buf |-> r.buf]
  ELSE [err |-> "failed", ret |-> << >>, gas |-> 0, buf |-> r.buf]

\* The gas c is checked first; a contract that fails keeps it all.
runFor(name, c, input, gas) ==
  IF gas < c.gas THEN [err |-> "errOutOfGas", ret |-> << >>, gas |-> 0, buf |-> c.buf]
  ELSE outcome(runOf(name, c.buf, input), gas - c.gas)

\* Precompiled.Run.
Run(name, buf, input, gas, config) ==
  runFor(name, gasOf(name, buf, input, config), input, gas)

-----------------------------------------------------------------------------
(* What the contracts are for: the input goes on with zeros for ever.      *)

Padded(input, n) == [i \in 1 .. n |-> IF i <= Len(input) THEN input[i] ELSE 0]

Field(input, from, n) == fromBytes(SubSeq(Padded(input, from + n), from + 1, from + n))

\* EIP-198: base to the exponent, modulo the modulus, as long as the modulus.
ModExpOf(input) ==
  LET b == Field(input, 0, WordBytes)
      e == Field(input, WordBytes, WordBytes)
      m == Field(input, 2 * WordBytes, WordBytes)
      start == 3 * WordBytes
      z == Field(input, start + b + e, m)
      x == Field(input, start, b)
      times[i \in 0 .. Field(input, start + b, e)] ==
        IF i = 0 THEN 1 ELSE (times[i - 1] * (x % z)) % z
  IN bytesOf(IF z = 0 THEN 0 ELSE times[Field(input, start + b, e)] % z, m)

\* The answer of a contract, as a function of its input alone.
Expected(name, input) ==
  CASE name = "identity" -> input
    [] name = "modExp" -> ModExpOf(input)
    [] name = "ecrecover" ->
         LET padded == Padded(input, 4 * WordBytes)
         IN IF Field(padded, WordBytes, WordBytes - 1) = 0 /\ Valid(name, padded)
            THEN leftPad(Digest(name, padded), WordBytes) ELSE << >>
    [] name = "bn256Add" -> Digest(name, Padded(input, 4 * WordBytes))
    [] name = "bn256Mul" -> Digest(name, Padded(input, 3 * WordBytes))
    [] name = "ripemd160h" -> leftPad(Digest(name, input), WordBytes)
    [] name = "bn256Pairing" /\ input = << >> -> bytesOf(1, WordBytes)
    [] OTHER -> Digest(name, input)
=============================================================================

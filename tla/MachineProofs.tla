--------------------------- MODULE MachineProofs ---------------------------
(***************************************************************************)
(* Theorems about Machine, for every width, limit, program and host.       *)
(*                                                                         *)
(* Numbers and loops come first, then the words, the fields of a machine,  *)
(* the instructions one by one, the precompiled contracts, calls, the      *)
(* invariant Inv with what follows from it, and the jumps.                 *)
(***************************************************************************)
EXTENDS Machine, SequenceTheorems, NaturalsInduction, WellFoundedInduction, TLAPS

-----------------------------------------------------------------------------
(* Numbers.                                                                *)

\* Every set of natural numbers has a least one.
LEMMA Least ==
  ASSUME NEW T, T \subseteq Nat, T # {}
  PROVE  \E x \in T : \A y \in T : x <= y
<1> DEFINE R == OpToRel(<, Nat)
<1>1. IsWellFoundedOn(R, Nat)
  BY NatLessThanWellFounded
<1>2. \A x \in Nat, y \in Nat : <<y, x>> \in R <=> y < x
  BY DEF OpToRel
<1> HIDE DEF R
<1>3. PICK x \in T : \A y \in T : ~ (<<y, x>> \in R)
  BY <1>1, WFMin
<1>4. ASSUME NEW y \in T
      PROVE  x <= y
  <2>1. ~ (y < x)
    BY <1>2, <1>3
  <2> QED
    BY <2>1
<1> QED
  BY <1>4

\* A loop f on 0 .. n, in which turn i makes of what turn back[i] left what G[i] says.
Loops(f, n, a, back, G) == f = [i \in 0 .. n |-> IF i = 0 THEN a ELSE G[i][f[back[i]]]]
Within(f, n, S) == \A i \in 0 .. n : f[i] \in S[i]
GoesBack(back, n) == \A i \in 1 .. n : back[i] \in 0 .. i - 1
LeadsOn(G, back, n, S) == \A i \in 1 .. n : \A u \in S[back[i]] : G[i][u] \in S[i]

\* A loop in which every turn stays within S keeps within S.
LEMMA Invariably ==
  ASSUME NEW n \in Nat, NEW S, NEW f, NEW back, GoesBack(back, n),
         f[0] \in S[0], \A i \in 1 .. n : f[back[i]] \in S[back[i]] => f[i] \in S[i]
  PROVE  Within(f, n, S)
<1> USE DEF GoesBack, Within
<1> DEFINE bad == {i \in 0 .. n : f[i] \notin S[i]}
<1>1. SUFFICES ASSUME bad # {} PROVE FALSE
  OBVIOUS
<1>2. PICK k \in bad : \A j \in bad : k <= j
  <2>1. bad \subseteq Nat
    OBVIOUS
  <2> HIDE DEF bad
  <2> QED
    BY <1>1, <2>1, Least
<1>3. k # 0 /\ k \in 1 .. n
  OBVIOUS
<1>4. back[k] \in 0 .. n /\ ~(k <= back[k])
  BY <1>3
<1>5. f[back[k]] \in S[back[k]]
  BY <1>2, <1>4
<1> QED
  BY <1>3, <1>5

\* A recursive definition on 0 .. n defines a function: it has a solution up to every
\* turn (take the first up to which it has none).
LEMMA Recursion ==
  ASSUME NEW n \in Nat, NEW S, NEW a, a \in S[0], NEW back, NEW G,
         GoesBack(back, n), LeadsOn(G, back, n, S)
  PROVE  \E f : Loops(f, n, a, back, G) /\ Within(f, n, S)
<1> USE DEF GoesBack, LeadsOn
<1> DEFINE turn(g, i) == G[i][g[back[i]]]
           Runs(g, m) == /\ g = [i \in 0 .. m |-> g[i]] /\ g[0] = a
                         /\ \A i \in 0 .. m : g[i] \in S[i]
                         /\ \A i \in 1 .. m : g[i] = turn(g, i)
<1>2. \A m \in 0 .. n : \E g : Runs(g, m)
  <2> DEFINE bad == {m \in 0 .. n : ~ \E g : Runs(g, m)}
  <2>1. SUFFICES ASSUME bad # {} PROVE FALSE
    OBVIOUS
  <2>2. PICK k \in bad : \A j \in bad : k <= j
    <3>1. bad \subseteq Nat
      OBVIOUS
    <3> HIDE DEF bad
    <3> QED
      BY <2>1, <3>1, Least
  <2>3. CASE k = 0
    <3>1. Runs([i \in 0 .. 0 |-> a], 0)
      OBVIOUS
    <3> QED
      BY <2>3, <3>1
  <2>4. CASE k # 0
    <3>1. k \in Nat /\ k - 1 \in 0 .. n /\ ~(k <= k - 1) /\ k \in 1 .. n
      BY <2>4
    <3>2. PICK g : Runs(g, k - 1)
      BY <2>2, <3>1
    <3> DEFINE h == [i \in 0 .. k |-> IF i = k THEN turn(g, k) ELSE g[i]]
    <3>3. turn(g, k) \in S[k]
      <4>1. back[k] \in 0 .. k - 1
        BY <3>1
      <4>2. g[back[k]] \in S[back[k]]
        BY <3>2, <4>1
      <4> QED
        BY <3>1, <4>2
    <3>4. h = [i \in 0 .. k |-> h[i]] /\ h[0] = a /\ \A i \in 0 .. k : h[i] \in S[i]
      <4>1. \A i \in 0 .. k : i # k => i \in 0 .. k - 1
        BY <3>1
      <4>2. h = [i \in 0 .. k |-> h[i]]
        OBVIOUS
      <4>3. 0 \in 0 .. k /\ h[0] = a
        <5> HIDE DEF turn
        <5> QED
          BY <2>4, <3>1, <3>2
      <4>4. ASSUME NEW i \in 0 .. k PROVE h[i] \in S[i]
        <5>1. CASE i = k
          BY <3>3, <5>1
        <5>2. CASE i # k
          <6>1. h[i] = g[i]
            BY <5>2
          <6> QED
            BY <3>2, <4>1, <5>2, <6>1
        <5> QED
          BY <5>1, <5>2
      <4> QED
        BY <4>2, <4>3, <4>4
    <3>5. ASSUME NEW i \in 1 .. k
          PROVE  h[i] = turn(h, i)
      <4>1. i \in 0 .. k /\ i \in 1 .. n /\ (i # k => i \in 1 .. k - 1)
        BY <3>1
      <4>2. back[i] \in 0 .. k /\ back[i] # k
        BY <3>1, <4>1
      <4>3. h[back[i]] = g[back[i]]
        BY <4>2
      <4>4. turn(h, i) = turn(g, i)
        BY <4>3
      <4>5. h[i] = IF i = k THEN turn(g, k) ELSE g[i]
        BY <4>1
      <4> HIDE DEF h, turn
      <4> QED
        BY <3>2, <4>1, <4>4, <4>5
    <3>6. Runs(h, k)
      BY <3>4, <3>5
    <3> QED
      BY <3>6
  <2> QED
    BY <2>3, <2>4
<1>3. PICK g : Runs(g, n)
  BY <1>2
<1>4. g = [i \in 0 .. n |-> IF i = 0 THEN a ELSE turn(g, i)]
  <2> HIDE DEF turn
  <2>1. ASSUME NEW i \in 0 .. n
        PROVE  g[i] = IF i = 0 THEN a ELSE turn(g, i)
    <3>1. i # 0 => i \in 1 .. n
      OBVIOUS
    <3> QED
      BY <1>3, <3>1
  <2> QED
    BY <1>3, <2>1
<1> QED
  BY <1>3, <1>4 DEF Loops, Within

LEMMA Width == WordBits \in Nat \ {0}
  BY WordConstants DEF WordBits

LEMMA Powers == \A n \in 0 .. WordBits + ByteBits : 2 ^ n \in Nat \ {0}
<1> SUFFICES ASSUME NEW n \in 0 .. WordBits + ByteBits PROVE 2 ^ n \in Nat \ {0}
  OBVIOUS
<1>1. WordBits + ByteBits \in Nat
  BY Width, WordConstants
<1>2. 0 \in 0 .. WordBits + ByteBits /\ n + 0 <= WordBits + ByteBits
  BY <1>1
<1> QED BY <1>2, PowersOfTwo

LEMMA Product ==
  ASSUME NEW i \in Nat, NEW j \in Nat, i + j <= WordBits + ByteBits
  PROVE  2 ^ (i + j) = 2 ^ i * 2 ^ j
<1>1. i \in 0 .. WordBits + ByteBits /\ j \in 0 .. WordBits + ByteBits
  BY Width, WordConstants
<1> QED BY <1>1, PowersOfTwo

LEMMA Doubling ==
  ASSUME NEW n \in Nat, n + 1 <= WordBits + ByteBits
  PROVE  2 ^ (n + 1) = 2 * 2 ^ n
<1>1. 2 ^ 1 = 2
  OBVIOUS
<1>2. 2 ^ (n + 1) = 2 ^ n * 2 ^ 1
  BY Product
<1>3. 2 ^ n \in Nat
  BY Powers, Width, WordConstants
<1> QED BY <1>1, <1>2, <1>3

\* A power is a multiple of a smaller one.
LEMMA SmallerPower ==
  ASSUME NEW i \in Nat, NEW n \in Nat, i <= n, n <= WordBits + ByteBits
  PROVE  2 ^ i <= 2 ^ n
<1>1. 2 ^ (i + (n - i)) = 2 ^ i * 2 ^ (n - i)
  BY Product
<1>2. 2 ^ i \in Nat /\ 2 ^ (n - i) \in Nat \ {0}
  BY Powers, Width, WordConstants
<1>3. \A a \in Nat, b \in Nat \ {0} : a <= a * b
  OBVIOUS
<1>4. i + (n - i) = n
  OBVIOUS
<1> QED BY <1>1, <1>2, <1>3, <1>4

LEMMA Widths ==
  /\ tt256 \in Nat \ {0} /\ tt255 \in Nat \ {0} /\ tt64 \in Nat \ {0} /\ Byte \in Nat \ {0}
  /\ tt256 = 2 * tt255 /\ tt64 <= tt256 /\ Byte <= tt256
<1>1. /\ WordBits \in Nat /\ WordBits - 1 \in Nat /\ Int64Bits \in Nat /\ ByteBits \in Nat
      /\ Int64Bits <= WordBits
  BY Width, WordConstants
<1>2. ByteBits <= WordBits
  <2>1. \A a \in Nat, b \in Nat \ {0} : a <= a * b
    OBVIOUS
  <2> QED BY <2>1, WordConstants DEF WordBits
<1>3. /\ tt256 \in Nat \ {0} /\ tt255 \in Nat \ {0} /\ tt64 \in Nat \ {0}
      /\ Byte \in Nat \ {0}
  BY <1>1, <1>2, Powers DEF tt256, tt255, tt64, Byte
<1>4. tt256 = 2 * tt255
  <2>1. (WordBits - 1) + 1 = WordBits
    BY <1>1
  <2> QED BY <1>1, <2>1, Doubling DEF tt256, tt255
<1>5. tt64 <= tt256 /\ Byte <= tt256
  BY <1>1, <1>2, SmallerPower DEF tt256, tt64, Byte
<1> QED BY <1>3, <1>4, <1>5

-----------------------------------------------------------------------------
(* What the instructions compute is a word.                                *)

LEMMA Division ==
  ASSUME NEW x \in Nat, NEW p \in Nat \ {0}
  PROVE  x \div p \in 0 .. x /\ x % p \in 0 .. x /\ x % p < p
  OBVIOUS

LEMMA Cut == ASSUME NEW x \in Int PROVE toU256(x) \in Word
  BY Widths DEF toU256, Word

LEMMA Low ==
  ASSUME NEW x \in Int
  PROVE  Uint64(x) \in 0 .. tt64 - 1 /\ Int64(x) \in Int
  BY Widths DEF Uint64, Int64

LEMMA Truth == ASSUME NEW b \in BOOLEAN PROVE truth(b) \in {0, 1} /\ truth(b) \in Word
<1>1. {0, 1} \subseteq Word
  BY Widths DEF Word
<1> QED
  BY <1>1 DEF truth

LEMMA Signed ==
  ASSUME NEW x \in Word
  PROVE  to256(x) \in Int /\ (x # 0 => to256(x) # 0)
  BY Widths DEF to256, Word

LEMMA Absolute == ASSUME NEW x \in Int PROVE abs(x) \in Nat /\ (x # 0 => abs(x) # 0)
  BY DEF abs

LEMMA Unaries ==
  ASSUME NEW op, NEW a \in Word
  PROVE  compute1(op, a) \in Word
<1>1. opNot(a) \in Word
  BY Cut DEF opNot, Word
<1>2. opIsZero(a) \in Word
  BY Truth DEF opIsZero
<1> QED
  BY <1>1, <1>2 DEF compute1

LEMMA Ternaries ==
  ASSUME NEW op, NEW a \in Word, NEW b \in Word, NEW z \in Word
  PROVE  compute3(op, a, b, z) \in Word
<1>1. opAddMod(a, b, z) \in Word
  BY Widths DEF opAddMod, Word
<1>2. opMulMod(a, b, z) \in Word
  <2>1. a * b \in Int
    BY DEF Word
  <2>2. \A y \in Int : z # 0 => y % z \in 0 .. z - 1
    BY DEF Word
  <2> QED
    BY <2>1, <2>2, Widths DEF opMulMod, Word
<1> QED
  BY <1>1, <1>2 DEF compute3

LEMMA Shifting == ASSUME NEW s \in Nat, s < WordBits PROVE 2 ^ s \in Nat \ {0}
  BY Powers, Width, WordConstants

LEMMA Arithmetics ==
  ASSUME NEW a \in Word, NEW b \in Word
  PROVE  /\ opAdd(a, b) \in Word /\ opMul(a, b) \in Word /\ opSub(a, b) \in Word
         /\ opDiv(a, b) \in Word /\ opMod(a, b) \in Word
         /\ opSDiv(a, b) \in Word /\ opSMod(a, b) \in Word
<1> USE Widths
<1>1. a \in Nat /\ b \in Nat /\ a \in Int /\ b \in Int /\ 0 \in Word
  BY DEF Word
<1>2. opAdd(a, b) \in Word /\ opMul(a, b) \in Word /\ opSub(a, b) \in Word
  BY <1>1, Cut DEF opAdd, opMul, opSub
<1>3. opDiv(a, b) \in Word /\ opMod(a, b) \in Word
  <2>1. b # 0 => a \div b \in 0 .. a /\ a % b \in 0 .. a
    BY <1>1, Division
  <2> QED
    BY <1>1, <2>1 DEF opDiv, opMod, Word
<1>4. opSDiv(a, b) \in Word /\ opSMod(a, b) \in Word
  <2>1. CASE b = 0
    BY <1>1, <2>1 DEF opSDiv, opSMod
  <2>2. CASE b # 0
    <3> DEFINE x == to256(a)
               y == to256(b)
    <3>1. x \in Int /\ abs(x) \in Nat /\ abs(y) \in Nat \ {0}
      BY <2>2, Signed, Absolute
    <3>2. abs(x) \div abs(y) \in Int /\ abs(x) % abs(y) \in Int
      BY <3>1, Division
    <3> HIDE DEF x, y
    <3>3. /\ toU256(IF sign(x) # sign(y) THEN -(abs(x) \div abs(y)) ELSE abs(x) \div abs(y)) \in Word
          /\ toU256(IF x < 0 THEN -(abs(x) % abs(y)) ELSE abs(x) % abs(y)) \in Word
      BY <3>2, Cut
    <3> QED
      BY <2>2, <3>3 DEF opSDiv, opSMod, x, y
  <2> QED
    BY <2>1, <2>2
<1> QED
  BY <1>2, <1>3, <1>4

LEMMA Comparisons ==
  ASSUME NEW a \in Word, NEW b \in Word
  PROVE  /\ opEq(a, b) \in Word /\ opLt(a, b) \in Word /\ opGt(a, b) \in Word
         /\ opSlt(a, b) \in Word /\ opSgt(a, b) \in Word
<1>1. /\ (a = b) \in BOOLEAN /\ (a < b) \in BOOLEAN /\ (a > b) \in BOOLEAN
      /\ (to256(a) < to256(b)) \in BOOLEAN /\ (to256(a) > to256(b)) \in BOOLEAN
  BY Signed DEF Word
<1> QED
  BY <1>1, Truth DEF opEq, opLt, opGt, opSlt, opSgt

LEMMA Shifts ==
  ASSUME NEW a \in Word, NEW b \in Word
  PROVE  /\ opByte(a, b) \in Word /\ opSignExtension(a, b) \in Word
         /\ opShl(a, b) \in Word /\ opShr(a, b) \in Word /\ opSar(a, b) \in Word
<1> USE Widths
<1>1. a \in Nat /\ b \in Nat /\ a \in Int /\ b \in Int /\ 0 \in Word /\ tt256 - 1 \in Word
  BY DEF Word
<1>2. opByte(a, b) \in Word
  <2> DEFINE indx == Int64(a)
             sh == Uint64((WordBytes - 1 - indx) * ByteBits)
  <2>1. sh \in Nat
    BY <1>1, Low, WordConstants
  <2>2. sh < WordBits => (b \div 2 ^ sh) % Byte \in 0 .. Byte - 1
    BY <1>1, <2>1, Shifting, Division
  <2> HIDE DEF sh
  <2>3. sh >= WordBits \/ sh < WordBits
    BY <2>1, Width
  <2>4. 0 .. Byte - 1 \subseteq Word
    BY DEF Word
  <2>5. opByte(a, b) = IF indx > WordBytes - 1 \/ sh >= WordBits THEN 0
                       ELSE (b \div 2 ^ sh) % Byte
    BY DEF opByte, sh
  <2> QED
    BY <1>1, <2>2, <2>3, <2>4, <2>5
<1>3. opSignExtension(a, b) \in Word
  <2> DEFINE sgn == a * ByteBits + ByteBits - 1
  <2>1. CASE a > WordBytes
    BY <2>1 DEF opSignExtension
  <2>2. CASE a <= WordBytes
    <3>1. sgn \in 0 .. WordBits + ByteBits
      <4>1. \A n \in Nat, w \in Nat, k \in Nat \ {0} : n <= w =>
              n * k + k - 1 \in 0 .. k * w + k
        OBVIOUS
      <4> QED
        BY <1>1, <2>2, <4>1, WordConstants DEF WordBits
    <3> HIDE DEF sgn
    <3>2. 2 ^ sgn \in Nat \ {0}
      BY <3>1, Powers
    <3>3. b % (2 ^ sgn) \in 0 .. b /\ toU256((b % (2 ^ sgn)) - 2 ^ sgn) \in Word
      BY <1>1, <3>2, Division, Cut
    <3>4. b % (2 ^ sgn) \in Word
      BY <3>3 DEF Word
    <3> QED
      BY <1>1, <2>2, <3>3, <3>4, WordConstants DEF opSignExtension, sgn
  <2> QED
    BY <1>1, <2>1, <2>2, WordConstants
<1>4. ASSUME a < WordBits
      PROVE  toU256(b * 2 ^ a) \in Word /\ b \div 2 ^ a \in Word /\ toU256(to256(b) \div 2 ^ a) \in Word
  <2>1. 2 ^ a \in Nat \ {0}
    BY <1>1, <1>4, Shifting
  <2> HIDE <1>4
  <2>2. b * 2 ^ a \in Int /\ b \div 2 ^ a \in 0 .. b /\ to256(b) \div 2 ^ a \in Int
    BY <1>1, <2>1, Division, Signed
  <2> QED
    BY <2>2, Cut DEF Word
<1>5. a >= WordBits \/ a < WordBits
  BY <1>1, Width
<1>6. opShl(a, b) \in Word /\ opShr(a, b) \in Word /\ opSar(a, b) \in Word
  BY <1>1, <1>4, <1>5 DEF opShl, opShr, opSar, equalOrOverflowsUint256
<1> QED
  BY <1>2, <1>3, <1>6

\* The sum of the first n bits stays below 2^n.
LEMMA Bitwise ==
  ASSUME NEW op \in {"AND", "OR", "XOR"}, NEW a \in Word, NEW b \in Word
  PROVE  bitwise(op, a, b) \in Word
<1> DEFINE S == [n \in 0 .. WordBits |-> 0 .. 2 ^ n - 1]
           both(n) == onBits(op, bit(a, n - 1), bit(b, n - 1))
           G == [n \in 1 .. WordBits |-> [u \in Int |-> u + both(n) * 2 ^ (n - 1)]]
           back == [n \in 1 .. WordBits |-> n - 1]
           Sums(f) == f = [n \in 0 .. WordBits |->
                             IF n = 0 THEN 0 ELSE f[n - 1] + both(n) * 2 ^ (n - 1)]
<1>1. a \in Nat /\ b \in Nat /\ WordBits \in Nat
  BY Width DEF Word
<1>2. ASSUME NEW n \in 1 .. WordBits
      PROVE  /\ both(n) \in {0, 1} /\ 2 ^ (n - 1) \in Nat \ {0} /\ 2 ^ n = 2 * 2 ^ (n - 1)
             /\ n - 1 \in 0 .. WordBits /\ n \in 0 .. WordBits /\ 2 ^ n \in Nat
  <2>1. n - 1 \in Nat /\ n - 1 < WordBits /\ (n - 1) + 1 = n /\ n <= WordBits + ByteBits
    BY <1>1, WordConstants
  <2>2. 2 ^ (n - 1) \in Nat \ {0} /\ 2 ^ n = 2 * 2 ^ (n - 1)
    BY <2>1, Shifting, Doubling
  <2>3. bit(a, n - 1) \in {0, 1} /\ bit(b, n - 1) \in {0, 1}
    BY <1>1, <2>2, Division DEF bit
  <2>4. \A x \in {0, 1}, y \in {0, 1} : onBits(op, x, y) \in {0, 1}
    BY DEF onBits
  <2> QED
    BY <1>1, <2>1, <2>2, <2>3, <2>4
<1> HIDE DEF both
<1>3. 2 ^ 0 = 1
  OBVIOUS
<1>4. 0 \in S[0]
  BY <1>1, <1>3
<1>5. \A n \in 1 .. WordBits : back[n] \in 0 .. n - 1 /\ back[n] = n - 1
  BY <1>1
<1>6. ASSUME NEW n \in 1 .. WordBits, NEW u \in S[n - 1]
      PROVE  u + both(n) * 2 ^ (n - 1) \in S[n] /\ G[n][u] = u + both(n) * 2 ^ (n - 1)
  BY <1>2, SMTT(60)
<1> HIDE DEF S, G, back
<1>7. GoesBack(back, WordBits) /\ LeadsOn(G, back, WordBits, S)
  BY <1>5, <1>6 DEF GoesBack, LeadsOn
<1>8. PICK g : Loops(g, WordBits, 0, back, G) /\ Within(g, WordBits, S)
  BY <1>1, <1>4, <1>7, Recursion
<1>9. Sums(g)
  <2>1. ASSUME NEW n \in 0 .. WordBits
        PROVE  g[n] = IF n = 0 THEN 0 ELSE g[n - 1] + both(n) * 2 ^ (n - 1)
    <3>1. CASE n = 0
      BY <1>8, <3>1 DEF Loops
    <3>2. CASE n # 0
      <4>1. n \in 1 .. WordBits /\ n - 1 \in 0 .. WordBits
        BY <1>1, <3>2
      <4>2. g[n] = G[n][g[n - 1]] /\ g[n - 1] \in S[n - 1]
        BY <1>5, <1>8, <3>2, <4>1 DEF Loops, Within
      <4> QED
        BY <1>6, <3>2, <4>1, <4>2
    <3> QED
      BY <3>1, <3>2
  <2>2. g = [n \in 0 .. WordBits |-> g[n]]
    BY <1>8 DEF Loops
  <2> QED
    BY <2>1, <2>2
<1>10. PICK f : Sums(f) /\ bitwise(op, a, b) = f[WordBits]
  <2>1. bitwise(op, a, b) = (CHOOSE f : Sums(f))[WordBits]
    BY Zenon DEF bitwise, both
  <2> HIDE DEF Sums
  <2>2. Sums(CHOOSE f : Sums(f))
    BY <1>9
  <2> QED
    BY <2>1, <2>2
<1>11. f[0] \in S[0] /\ \A n \in 1 .. WordBits : f[back[n]] \in S[back[n]] => f[n] \in S[n]
  <2>1. f[0] = 0
    BY <1>1, <1>10
  <2>2. ASSUME NEW n \in 1 .. WordBits, f[n - 1] \in S[n - 1] PROVE f[n] \in S[n]
    <3>1. n \in 0 .. WordBits /\ n # 0
      BY <1>1
    <3>2. f[n] = f[n - 1] + both(n) * 2 ^ (n - 1)
      BY <1>10, <3>1
    <3> QED
      BY <1>6, <2>2, <3>2
  <2> QED
    BY <1>4, <1>5, <2>1, <2>2
<1>12. Within(f, WordBits, S)
  BY <1>1, <1>7, <1>11, Invariably
<1>13. f[WordBits] \in 0 .. tt256 - 1
  BY <1>1, <1>12 DEF S, tt256, Within
<1> QED
  BY <1>10, <1>13 DEF Word

\* Square and multiply: both the product and the square stay words.
LEMMA Exponentiation ==
  ASSUME NEW a \in Word, NEW b \in Word
  PROVE  opExp(a, b) \in Word
<1> DEFINE rounds == Int64Bits * ((WordBits + Int64Bits - 1) \div Int64Bits)
           Pairs == [z : Word, x : Word]
           S == [i \in 0 .. rounds |-> Pairs]
           start == [z |-> 1, x |-> a]
           turn(i, r) == [z |-> IF bit(b, i - 1) = 1 THEN toU256(r.z * r.x) ELSE r.z,
                          x |-> toU256(r.x * r.x)]
           G == [i \in 1 .. rounds |-> [r \in Pairs |-> turn(i, r)]]
           back == [i \in 1 .. rounds |-> i - 1]
           Exp(f) == f = [i \in 0 .. rounds |-> IF i = 0 THEN start ELSE turn(i, f[i - 1])]
<1>1. rounds \in Nat
  <2>1. (WordBits + Int64Bits - 1) \div Int64Bits \in Nat
    BY Width, WordConstants, Division
  <2> QED
    BY <2>1, WordConstants
<1>2. 1 \in Word
  BY Widths DEF Word
<1>3. start \in S[0]
  <2>1. start \in Pairs
    BY <1>2
  <2> HIDE DEF rounds, start, Pairs
  <2> QED
    BY <1>1, <2>1
<1>4. \A x, y \in Word : toU256(x * y) \in Word
  BY Cut DEF Word
<1>5. \A i, r : r \in Pairs => turn(i, r) \in Pairs
  BY <1>4
<1> HIDE DEF rounds, turn, Pairs, start
<1>6. \A i \in 1 .. rounds : back[i] = i - 1
  OBVIOUS
<1>7. \A i \in 0 .. rounds : S[i] = Pairs
  OBVIOUS
<1>8. \A i \in 1 .. rounds : \A r \in Pairs : G[i][r] = turn(i, r)
  OBVIOUS
<1> HIDE DEF S, G, back
<1>9. \A i \in 1 .. rounds : i - 1 \in 0 .. i - 1 /\ i - 1 \in 0 .. rounds /\ i \in 0 .. rounds /\ i # 0
  BY <1>1
<1>10. GoesBack(back, rounds) /\ LeadsOn(G, back, rounds, S)
  BY <1>5, <1>6, <1>7, <1>8, <1>9 DEF GoesBack, LeadsOn
<1>11. PICK g : Loops(g, rounds, start, back, G) /\ Within(g, rounds, S)
  BY <1>1, <1>3, <1>10, Recursion
<1>12. Exp(g)
  <2>1. ASSUME NEW i \in 0 .. rounds, i # 0
        PROVE  G[i][g[back[i]]] = turn(i, g[i - 1])
    <3>1. i \in 1 .. rounds
      BY <1>1, <2>1
    <3>2. g[i - 1] \in Pairs
      BY <1>7, <1>9, <1>11, <3>1 DEF Within
    <3> QED
      BY <1>6, <1>8, <3>1, <3>2
  <2> QED
    BY <1>11, <2>1 DEF Loops
<1>13. PICK f : Exp(f) /\ (opExp(a, b) = f[0].z \/ opExp(a, b) = f[rounds].z)
  <2>1. expLoop(a, b) = IF b = 0 THEN (CHOOSE f : Exp(f))[0] ELSE (CHOOSE f : Exp(f))[rounds]
    BY Zenon DEF expLoop, start, turn, rounds
  <2> HIDE DEF Exp
  <2>2. Exp(CHOOSE f : Exp(f))
    BY <1>12
  <2> QED
    BY <2>1, <2>2 DEF opExp
<1>14. f[0] \in S[0] /\ \A i \in 1 .. rounds : f[back[i]] \in S[back[i]] => f[i] \in S[i]
  <2>1. f[0] = start
    BY <1>1, <1>13
  <2>2. \A i \in 1 .. rounds : f[i] = turn(i, f[i - 1])
    BY <1>9, <1>13
  <2> QED
    BY <1>3, <1>5, <1>6, <1>7, <1>9, <2>1, <2>2
<1>15. Within(f, rounds, S)
  BY <1>1, <1>10, <1>14, Invariably
<1>16. f[0] \in Pairs /\ f[rounds] \in Pairs
  BY <1>1, <1>7, <1>15 DEF Within
<1> QED
  BY <1>13, <1>16 DEF Pairs

LEMMA Binaries ==
  ASSUME NEW op \in Binary, NEW a \in Word, NEW b \in Word
  PROVE  compute2(op, a, b) \in Word
<1>1. opAnd(a, b) \in Word /\ opOr(a, b) \in Word /\ opXor(a, b) \in Word
  BY Bitwise DEF opAnd, opOr, opXor
<1>2. op \in {"ADD", "MUL", "SUB", "DIV", "MOD", "SDIV", "SMOD"} => compute2(op, a, b) \in Word
  BY Arithmetics DEF compute2
<1>3. op \in {"EQ", "LT", "GT", "SLT", "SGT"} => compute2(op, a, b) \in Word
  BY Comparisons DEF compute2
<1>4. op \in {"BYTE", "SIGNEXTEND", "SHL", "SHR", "SAR"} => compute2(op, a, b) \in Word
  BY Shifts DEF compute2
<1>5. op \in {"AND", "OR", "XOR", "EXP"} => compute2(op, a, b) \in Word
  BY <1>1, Exponentiation DEF compute2
<1> QED
  BY <1>2, <1>3, <1>4, <1>5 DEF Binary

-----------------------------------------------------------------------------
(* Bytes.                                                                  *)

\* n bytes make a number below Byte^n.
LEMMA FromBytes ==
  ASSUME NEW bytes \in Seq(0 .. Byte - 1)
  PROVE  fromBytes(bytes) \in Nat /\ (Len(bytes) <= WordBytes => fromBytes(bytes) \in Word)
<1> DEFINE L == Len(bytes)
           S == [i \in 0 .. L |-> IF L <= WordBytes THEN 0 .. 2 ^ (ByteBits * i) - 1 ELSE Nat]
           G == [i \in 1 .. L |-> [u \in Int |-> u * Byte + bytes[i]]]
           back == [i \in 1 .. L |-> i - 1]
           Reads(f) == f = [i \in 0 .. L |-> IF i = 0 THEN 0 ELSE f[i - 1] * Byte + bytes[i]]
<1>1. L \in Nat /\ ByteBits \in Nat /\ WordBytes \in Nat
  BY LenProperties, WordConstants
<1>2. \A i \in 1 .. L : bytes[i] \in 0 .. Byte - 1
  BY ElementOfSeq
<1> HIDE DEF L
<1>3. \A i \in Nat : i <= WordBytes => ByteBits * i \in Nat /\ ByteBits * i <= WordBits
  <2>1. \A b \in Nat, w \in Nat, i \in Nat : i <= w => b * i \in Nat /\ b * i <= b * w
    OBVIOUS
  <2> QED
    BY <1>1, <2>1 DEF WordBits
<1>4. 0 \in S[0]
  <2>1. 2 ^ (ByteBits * 0) = 1
    <3>1. ByteBits * 0 = 0 /\ 2 ^ 0 = 1
      BY <1>1
    <3> QED
      BY <3>1
  <2> QED
    BY <1>1, <2>1
<1>5. \A i \in 1 .. L : back[i] = i - 1
  OBVIOUS
<1>6. \A i \in 1 .. L : \A u \in Int : G[i][u] = u * Byte + bytes[i]
  OBVIOUS
<1>7. ASSUME NEW i \in 1 .. L, NEW u \in S[i - 1]
      PROVE  u \in Int /\ u * Byte + bytes[i] \in S[i]
  <2>1. i \in 0 .. L /\ i - 1 \in 0 .. L /\ i \in Nat /\ i - 1 \in Nat /\ bytes[i] \in 0 .. Byte - 1
    BY <1>1, <1>2
  <2>2. CASE L <= WordBytes
    <3>1. i <= WordBytes /\ i - 1 <= WordBytes /\ ByteBits * i = ByteBits * (i - 1) + ByteBits
      BY <1>1, <2>1, <2>2
    <3>2. 2 ^ (ByteBits * i) = 2 ^ (ByteBits * (i - 1)) * Byte
      <4>1. ByteBits * (i - 1) + ByteBits <= WordBits + ByteBits
        BY <1>1, <1>3, <2>1, <3>1, Width
      <4> QED
        BY <1>1, <1>3, <2>1, <3>1, <4>1, Product DEF Byte
    <3>3. 2 ^ (ByteBits * (i - 1)) \in Nat
      <4>1. ByteBits * (i - 1) \in Nat /\ ByteBits * (i - 1) <= WordBits
        BY <1>3, <2>1, <3>1
      <4>2. ByteBits * (i - 1) \in 0 .. WordBits + ByteBits
        BY <1>1, <4>1, Width
      <4> QED
        BY <4>2, Powers
    <3>4. u \in 0 .. 2 ^ (ByteBits * (i - 1)) - 1
      BY <2>1, <2>2
    <3>5. \A p \in Nat, k \in Nat \ {0} : \A x \in 0 .. p - 1, y \in 0 .. k - 1 : x * k + y \in 0 .. p * k - 1
      <4> TAKE p \in Nat, k \in Nat \ {0}
      <4> TAKE x \in 0 .. p - 1, y \in 0 .. k - 1
      <4>1. x * k <= (p - 1) * k /\ (p - 1) * k = p * k - k
        OBVIOUS
      <4> QED
        BY <4>1
    <3>6. u * Byte + bytes[i] \in 0 .. 2 ^ (ByteBits * i) - 1
      BY <2>1, <3>2, <3>3, <3>4, <3>5, Widths
    <3> QED
      BY <2>1, <2>2, <3>3, <3>4, <3>6
  <2>3. CASE ~(L <= WordBytes)
    <3>1. u \in Nat
      BY <2>1, <2>3
    <3>2. u * Byte + bytes[i] \in Nat
      BY <2>1, <3>1, Widths
    <3> QED
      BY <2>1, <2>3, <3>1, <3>2
  <2> QED
    BY <2>2, <2>3
<1>8. S[L] = IF L <= WordBytes THEN 0 .. 2 ^ (ByteBits * L) - 1 ELSE Nat
  BY <1>1
<1> HIDE DEF S, G, back
<1>9. \A i \in 1 .. L : i - 1 \in 0 .. i - 1 /\ i - 1 \in 0 .. L /\ i \in 0 .. L /\ i # 0
  BY <1>1
<1>10. GoesBack(back, L) /\ LeadsOn(G, back, L, S)
  <2>1. GoesBack(back, L)
    BY <1>5, <1>9 DEF GoesBack
  <2>2. ASSUME NEW i \in 1 .. L, NEW u \in S[back[i]] PROVE G[i][u] \in S[i]
    <3>1. u \in S[i - 1]
      BY <1>5
    <3> QED
      BY <1>6, <1>7, <3>1
  <2> QED
    BY <2>1, <2>2 DEF LeadsOn
<1>11. PICK g : Loops(g, L, 0, back, G) /\ Within(g, L, S)
  BY <1>1, <1>4, <1>10, Recursion
<1>12. Reads(g)
  <2>1. ASSUME NEW i \in 0 .. L, i # 0
        PROVE  G[i][g[back[i]]] = g[i - 1] * Byte + bytes[i]
    <3>1. i \in 1 .. L
      BY <1>1, <2>1
    <3>2. g[i - 1] \in Int
      BY <1>7, <1>9, <1>11, <3>1 DEF Within
    <3> QED
      BY <1>5, <1>6, <3>1, <3>2
  <2> QED
    BY <1>11, <2>1 DEF Loops
<1>13. PICK f : Reads(f) /\ fromBytes(bytes) = f[L]
  <2>1. fromBytes(bytes) = (CHOOSE f : Reads(f))[L]
    BY Zenon DEF fromBytes, L
  <2> HIDE DEF Reads
  <2>2. Reads(CHOOSE f : Reads(f))
    BY <1>12
  <2> QED
    BY <2>1, <2>2
<1>14. f[0] \in S[0] /\ \A i \in 1 .. L : f[back[i]] \in S[back[i]] => f[i] \in S[i]
  <2>1. f[0] = 0
    BY <1>1, <1>13
  <2>2. \A i \in 1 .. L : f[i] = f[i - 1] * Byte + bytes[i]
    BY <1>9, <1>13
  <2> QED
    BY <1>4, <1>5, <1>7, <1>9, <2>1, <2>2
<1>15. Within(f, L, S)
  BY <1>1, <1>10, <1>14, Invariably
<1>16. f[L] \in S[L]
  BY <1>1, <1>15 DEF Within
<1>17. CASE L <= WordBytes
  <2>1. 2 ^ (ByteBits * L) \in Nat /\ 2 ^ (ByteBits * L) <= tt256
    BY <1>1, <1>3, <1>17, Powers, SmallerPower, Width DEF tt256
  <2> QED
    BY <1>8, <1>13, <1>16, <1>17, <2>1, Widths DEF Word, L
<1>18. CASE ~(L <= WordBytes)
  BY <1>8, <1>13, <1>16, <1>18 DEF L
<1> QED
  BY <1>17, <1>18

Octets == 0 .. Byte - 1

LEMMA Zero == 0 \in Octets /\ 0 \in Word /\ Octets \subseteq Word
  BY Widths DEF Octets, Word

LEMMA Array ==
  ASSUME NEW S, NEW n \in Nat, NEW f, f = [i \in 1 .. n |-> f[i]],
         \A i \in 1 .. n : f[i] \in S
  PROVE  f \in Seq(S) /\ Len(f) = n /\ DOMAIN f = 1 .. n
  OBVIOUS

LEMMA Slice ==
  ASSUME NEW S, NEW s \in Seq(S), NEW i \in Nat \ {0}, NEW j \in Nat, j <= Len(s)
  PROVE  SubSeq(s, i, j) \in Seq(S) /\ Len(SubSeq(s, i, j)) = IF i <= j THEN j - i + 1 ELSE 0
  OBVIOUS

LEMMA Joined ==
  ASSUME NEW S, NEW s \in Seq(S), NEW t \in Seq(S)
  PROVE  s \o t \in Seq(S) /\ Len(s \o t) = Len(s) + Len(t)
  OBVIOUS

LEMMA ToBytes ==
  ASSUME NEW x \in Nat
  PROVE  toBytes(x) \in Seq(Octets) /\ Len(toBytes(x)) = WordBytes
<1>1. ASSUME NEW i \in 1 .. WordBytes PROVE toBytes(x)[i] \in Octets
  <2>1. WordBytes - i \in 0 .. WordBytes /\ WordBytes - i \in Nat
    BY WordConstants
  <2>2. Byte ^ (WordBytes - i) = 2 ^ (ByteBits * (WordBytes - i))
    BY <2>1, PowersOfTwo
  <2>3. ByteBits * (WordBytes - i) \in 0 .. WordBits + ByteBits
    <3>1. \A b \in Nat, w \in Nat, k \in Nat : k <= w => b * k \in Nat /\ b * k <= b * w
      OBVIOUS
    <3>2. ByteBits * (WordBytes - i) \in Nat /\ ByteBits * (WordBytes - i) <= WordBits
      BY <2>1, <3>1, WordConstants DEF WordBits
    <3> QED
      BY <3>2, Width, WordConstants
  <2>4. Byte ^ (WordBytes - i) \in Nat \ {0}
    BY <2>2, <2>3, Powers
  <2>5. (x \div Byte ^ (WordBytes - i)) % Byte \in 0 .. Byte - 1
    BY <2>4, Division, Widths
  <2> QED
    BY <2>5 DEF toBytes, Octets
<1>2. toBytes(x) = [i \in 1 .. WordBytes |-> toBytes(x)[i]]
  BY DEF toBytes
<1> QED
  BY <1>1, <1>2, Array, WordConstants

LEMMA ExtendByteSlice ==
  ASSUME NEW b \in Seq(Octets), NEW n \in Nat
  PROVE  /\ extendByteSlice(b, n) \in Seq(Octets)
         /\ Len(extendByteSlice(b, n)) = IF n <= Len(b) THEN Len(b) ELSE n
         /\ \A i \in 1 .. Len(b) : extendByteSlice(b, n)[i] = b[i]
         /\ \A i \in 1 .. Len(extendByteSlice(b, n)) : i > Len(b) => extendByteSlice(b, n)[i] = 0
<1>1. CASE n <= Len(b)
  BY <1>1 DEF extendByteSlice
<1>2. CASE ~(n <= Len(b))
  <2> DEFINE zeros == [i \in 1 .. n - Len(b) |-> 0]
  <2>1. n - Len(b) \in Nat
    BY <1>2
  <2>2. zeros \in Seq(Octets) /\ Len(zeros) = n - Len(b) /\ \A i \in 1 .. n - Len(b) : zeros[i] = 0
    <3>1. zeros = [i \in 1 .. n - Len(b) |-> zeros[i]] /\ \A i \in 1 .. n - Len(b) : zeros[i] \in Octets
      BY Zero
    <3> HIDE DEF zeros
    <3> QED
      BY <2>1, <3>1, Array DEF zeros
  <2>3. extendByteSlice(b, n) = b \o zeros
    BY <1>2 DEF extendByteSlice
  <2> HIDE DEF zeros
  <2> QED
    BY <1>2, <2>1, <2>2, <2>3
<1> QED
  BY <1>1, <1>2

LEMMA BytesAre ==
  ASSUME NEW b
  PROVE  b \in Bytes <=> b \in Seq(Octets) /\ Len(b) \in Word
  BY DEF Bytes, Octets

LEMMA SetBytes ==
  ASSUME NEW input \in Seq(Octets), NEW size \in Nat, NEW offset \in Nat
  PROVE  setBytes(input, size, offset) \in Seq(Octets) /\ Len(setBytes(input, size, offset)) = size
<1>1. ASSUME NEW i \in 1 .. size PROVE setBytes(input, size, offset)[i] \in Octets
  <2>1. offset + i <= Len(input) => input[offset + i] \in Octets
    OBVIOUS
  <2> QED
    BY <2>1, Zero DEF setBytes
<1>2. setBytes(input, size, offset) = [i \in 1 .. size |-> setBytes(input, size, offset)[i]]
  BY DEF setBytes
<1> QED
  BY <1>1, <1>2, Array

LEMMA DataOf ==
  ASSUME NEW code, IsCode(code)
  PROVE  dataOf(code) \in Seq(Octets) /\ Len(dataOf(code)) = Len(code) /\ Len(code) \in Word
<1>1. code \in Seq([op : STRING, data : Octets]) /\ Len(code) \in Word
  BY DEF IsCode, Octets
<1>2. Len(code) \in Nat /\ DOMAIN code = 1 .. Len(code)
      /\ \A i \in 1 .. Len(code) : code[i] \in [op : STRING, data : Octets]
  <2> DEFINE Cells == [op : STRING, data : Octets]
  <2>1. code \in Seq(Cells)
    BY <1>1
  <2> HIDE DEF Cells
  <2>2. Len(code) \in Nat /\ DOMAIN code = 1 .. Len(code) /\ \A i \in 1 .. Len(code) : code[i] \in Cells
    BY <2>1
  <2> QED
    BY <2>2 DEF Cells
<1>3. \A i \in 1 .. Len(code) : dataOf(code)[i] \in Octets
  BY <1>2 DEF dataOf
<1>4. dataOf(code) = [i \in 1 .. Len(code) |-> dataOf(code)[i]]
  BY <1>2 DEF dataOf
<1> QED
  BY <1>1, <1>2, <1>3, <1>4, Array

LEMMA WholeWords ==
  ASSUME NEW n \in Nat
  PROVE  /\ wordsOf(n) \in Nat /\ wordsOf(n) * WordBytes >= n
         /\ wordsOf(n) * WordBytes < n + WordBytes
  BY WordConstants DEF wordsOf

-----------------------------------------------------------------------------
(* The machine is a record, and every operation changes a few fields of it. *)

Fields ==
  {"ip", "code", "slots", "sp", "memory", "len", "lastGasCost", "gas", "bitmap",
   "returnData", "ret", "stop", "err", "value", "static", "config", "input", "given",
   "spent", "called", "out"}

Shaped(m) == m = [f \in Fields |-> m[f]]

\* n is a machine that differs from m in the fields F at most.
SameBut(m, n, F) == Shaped(n) /\ \A f \in Fields \ F : n[f] = m[f]

LEMMA SameButTrans ==
  ASSUME NEW m, NEW n, NEW p, NEW F, NEW H, SameBut(m, n, F), SameBut(n, p, H)
  PROVE  SameBut(m, p, F \cup H)
  BY DEF SameBut

LEMMA SameButMore ==
  ASSUME NEW m, NEW n, NEW F, NEW H, SameBut(m, n, F), F \subseteq H
  PROVE  SameBut(m, n, H)
  BY DEF SameBut

LEMMA SameButSelf == ASSUME NEW m, Shaped(m), NEW F PROVE SameBut(m, m, F)
  BY DEF SameBut

LEMMA NewShaped == Shaped(newState)
  BY DEF newState, Shaped, Fields

LEMMA Exits ==
  ASSUME NEW m, Shaped(m), NEW e
  PROVE  SameBut(m, exit(m, e), {"stop", "err"}) /\ exit(m, e).stop /\ exit(m, e).stop \in BOOLEAN
  BY DEF Shaped, SameBut, exit, Fields

LEMMA Halting ==
  ASSUME NEW m, Shaped(m)
  PROVE  SameBut(m, halt(m), {"stop"}) /\ halt(m).stop /\ halt(m).stop \in BOOLEAN
  BY DEF Shaped, SameBut, halt, Fields

LEMMA Pops ==
  ASSUME NEW m, Shaped(m), NEW k
  PROVE  SameBut(m, pop(m, k), {"sp"}) /\ pop(m, k).sp = m.sp - k
  BY DEF Shaped, SameBut, pop, Fields

LEMMA Pushes ==
  ASSUME NEW m, Shaped(m), NEW v
  PROVE  /\ SameBut(m, push(m, v), {"sp", "slots"}) /\ push(m, v).sp = m.sp + 1
         /\ push(m, v).slots = IF Len(m.slots) > m.sp THEN [m.slots EXCEPT ![m.sp + 1] = v]
                               ELSE Append(m.slots, v)
  BY DEF Shaped, SameBut, push, Fields

LEMMA Replaces ==
  ASSUME NEW m, Shaped(m), NEW k, NEW v
  PROVE  /\ SameBut(m, replace(m, k, v), {"sp", "slots"}) /\ replace(m, k, v).sp = m.sp - k
         /\ replace(m, k, v).slots = [m.slots EXCEPT ![m.sp - k] = v]
  BY DEF Shaped, SameBut, replace, Fields

LEMMA Stores ==
  ASSUME NEW m, Shaped(m), NEW o, NEW b
  PROVE  /\ SameBut(m, store(m, o, b), {"memory"})
         /\ store(m, o, b).memory = [i \in DOMAIN m.memory |->
              IF i > o /\ i <= o + Len(b) THEN b[i - o] ELSE m.memory[i]]
  BY DEF Shaped, SameBut, store, Fields

LEMMA Consumes ==
  ASSUME NEW m, Shaped(m), NEW g
  PROVE  LET n == consumeGas(m, g) IN
         /\ m.gas < g => SameBut(m, n, {"stop", "err"}) /\ n.stop /\ n.stop \in BOOLEAN
         /\ ~(m.gas < g) => SameBut(m, n, {"gas"}) /\ n.gas = m.gas - g
<1>1. SameBut(m, [m EXCEPT !.gas = @ - g], {"gas"}) /\ [m EXCEPT !.gas = @ - g].gas = m.gas - g
  BY DEF Shaped, SameBut, Fields
<1> QED
  BY <1>1, Exits DEF consumeGas

LEMMA Resizes ==
  ASSUME NEW m, Shaped(m), NEW n
  PROVE  /\ SameBut(m, resized(m, n), {"memory", "len"}) /\ resized(m, n).len = n
         /\ resized(m, n).memory = extendByteSlice(m.memory, n)
  BY DEF Shaped, SameBut, resized, Fields

LEMMA Notes ==
  ASSUME NEW m, Shaped(m), NEW c
  PROVE  LET n == [m EXCEPT !.lastGasCost = c] IN SameBut(m, n, {"lastGasCost"}) /\ n.lastGasCost = c
  BY DEF Shaped, SameBut, Fields

LEMMA Moves ==
  ASSUME NEW m, Shaped(m), NEW c
  PROVE  LET n == [m EXCEPT !.ip = c] IN SameBut(m, n, {"ip"}) /\ n.ip = c
  BY DEF Shaped, SameBut, Fields

LEMMA Answers ==
  ASSUME NEW m, Shaped(m), NEW c
  PROVE  LET n == [m EXCEPT !.ret = c] IN SameBut(m, n, {"ret"}) /\ n.ret = c
  BY DEF Shaped, SameBut, Fields

LEMMA Refunds ==
  ASSUME NEW m, Shaped(m), NEW c
  PROVE  LET n == [m EXCEPT !.gas = c] IN SameBut(m, n, {"gas"}) /\ n.gas = c
  BY DEF Shaped, SameBut, Fields

LEMMA Clears ==
  ASSUME NEW m, Shaped(m), NEW c
  PROVE  LET n == [m EXCEPT !.returnData = c] IN SameBut(m, n, {"returnData"}) /\ n.returnData = c
  BY DEF Shaped, SameBut, Fields

-----------------------------------------------------------------------------
(* What holds of a machine while an instruction works on it.               *)

StackOK(m) ==
  /\ m.slots \in Seq(Nat) /\ m.sp \in 0 .. Len(m.slots)
  /\ \A i \in 1 .. m.sp : m.slots[i] \in Word

\* The memory in use is whole words, nothing lies beyond it, and where the answer
\* of a call goes is within.
MemoryOK(m) ==
  /\ m.memory \in Seq(Octets)
  /\ m.len \in 0 .. Len(m.memory) /\ m.len <= 2 * MemLimit + WordBytes - 1
  /\ \E w \in Nat : m.len = w * WordBytes
  /\ \A i \in DOMAIN m.memory : i > m.len => m.memory[i] = 0
  /\ m.out[1] \in Nat /\ m.out[2] \in Nat
  /\ m.out[2] = 0 \/ m.out[1] + m.out[2] <= m.len

\* What w words of memory cost where nothing wraps around.
dueFor(w) == 3 * w + (w * w) \div QuadDivisor

\* A call costs what it costs: from EIP-150 on, or where the gas that a call may
\* name is far enough below the width of a gas counter.
CallsPaid ==
  \/ tt64 + CallMost <= GasWord
  \/ \A n \in 1 .. MaxRuns : \A c \in Programs(n) : "EIP150" \in c.config

\* The invariant behind MemoryPaid: lastGasCost is what the memory has cost.
Paid(m) ==
  CallsPaid /\ m.given < 3 * GasRoot =>
    /\ m.gas + m.spent + dueFor(m.len \div WordBytes) <= m.given
    /\ ~m.stop => m.lastGasCost = dueFor(m.len \div WordBytes)

GasOK(m) ==
  /\ m.gas \in 0 .. GasWord - 1 /\ m.lastGasCost \in Nat
  /\ m.given \in Nat /\ m.spent \in Nat
  /\ Paid(m)

ContractOK(m) ==
  /\ IsCode(m.code) /\ m.input \in Bytes /\ m.returnData \in Bytes /\ m.ret \in Bytes
  /\ m.value \in Word \cup {NilValue}
  /\ m.stop \in BOOLEAN
  /\ m.ip \in Int /\ m.ip >= -1

Sound(m) == Shaped(m) /\ StackOK(m) /\ MemoryOK(m) /\ GasOK(m) /\ ContractOK(m)

\* The fields that instructions other than calls change.
Work == {"ip", "slots", "sp", "memory", "len", "lastGasCost", "gas", "ret", "stop", "err"}

\* m becomes n within an instruction.
Works(m, n) == Sound(n) /\ SameBut(m, n, Work) /\ n.len >= m.len

LEMMA WorksTrans ==
  ASSUME NEW m, NEW n, NEW p, Sound(m), Works(m, n), Works(n, p)
  PROVE  Works(m, p)
<1>1. SameBut(m, p, Work \cup Work)
  BY SameButTrans DEF Works
<1>2. m.len \in Int /\ n.len \in Int /\ p.len \in Int
  BY DEF Works, Sound, MemoryOK
<1>3. Work \cup Work = Work
  OBVIOUS
<1>4. SameBut(m, p, Work)
  BY <1>1, <1>3
<1>5. Sound(p) /\ p.len >= m.len
  BY <1>2 DEF Works
<1> QED
  BY <1>4, <1>5 DEF Works

LEMMA WorksSelf == ASSUME NEW m, Sound(m) PROVE Works(m, m)
  BY SameButSelf DEF Works, Sound, MemoryOK

LEMMA StackKept ==
  ASSUME NEW m, NEW n, NEW F, SameBut(m, n, F), F \cap {"slots", "sp"} = {}, StackOK(m)
  PROVE  StackOK(n)
<1>1. n.slots = m.slots /\ n.sp = m.sp
  BY DEF SameBut, Fields
<1> QED
  BY <1>1 DEF StackOK

LEMMA MemoryKept ==
  ASSUME NEW m, NEW n, NEW F, SameBut(m, n, F), F \cap {"memory", "len", "out"} = {}, MemoryOK(m)
  PROVE  MemoryOK(n) /\ n.len = m.len
<1>1. n.memory = m.memory /\ n.len = m.len /\ n.out = m.out
  BY DEF SameBut, Fields
<1> QED
  BY <1>1 DEF MemoryOK

LEMMA GasKept ==
  ASSUME NEW m, NEW n, NEW F, SameBut(m, n, F), GasOK(m),
         F \cap {"gas", "lastGasCost", "given", "spent", "len"} = {},
         "stop" \in F => n.stop
  PROVE  GasOK(n)
<1>1. /\ n.gas = m.gas /\ n.lastGasCost = m.lastGasCost /\ n.given = m.given
      /\ n.spent = m.spent /\ n.len = m.len
  BY DEF SameBut, Fields
<1>2. n.stop \/ n.stop = m.stop
  BY DEF SameBut, Fields
<1> QED
  BY <1>1, <1>2 DEF GasOK, Paid

LEMMA ContractKept ==
  ASSUME NEW m, NEW n, NEW F, SameBut(m, n, F), ContractOK(m),
         F \cap {"code", "input", "returnData", "ret", "value", "ip"} = {},
         n.stop \in BOOLEAN
  PROVE  ContractOK(n)
<1>1. /\ n.code = m.code /\ n.input = m.input /\ n.returnData = m.returnData
      /\ n.ret = m.ret /\ n.value = m.value /\ n.ip = m.ip
  BY DEF SameBut, Fields
<1> QED
  BY <1>1 DEF ContractOK

LEMMA WorksExit ==
  ASSUME NEW m, Sound(m), NEW e
  PROVE  Works(m, exit(m, e)) /\ exit(m, e).stop
<1> DEFINE n == exit(m, e)
<1>1. SameBut(m, n, {"stop", "err"}) /\ n.stop /\ n.stop \in BOOLEAN
  BY Exits DEF Sound
<1> HIDE DEF n
<1>2. SameBut(m, n, Work)
  BY <1>1, SameButMore DEF Work
<1>3. StackOK(n) /\ MemoryOK(n) /\ n.len = m.len /\ GasOK(n) /\ ContractOK(n)
  BY <1>1, StackKept, MemoryKept, GasKept, ContractKept DEF Sound
<1> QED
  BY <1>1, <1>2, <1>3 DEF Works, Sound, SameBut, n, MemoryOK

LEMMA WorksHalt ==
  ASSUME NEW m, Sound(m)
  PROVE  Works(m, halt(m)) /\ halt(m).stop
<1> DEFINE n == halt(m)
<1>1. SameBut(m, n, {"stop"}) /\ n.stop /\ n.stop \in BOOLEAN
  BY Halting DEF Sound
<1> HIDE DEF n
<1>2. SameBut(m, n, Work)
  BY <1>1, SameButMore DEF Work
<1>3. StackOK(n) /\ MemoryOK(n) /\ n.len = m.len /\ GasOK(n) /\ ContractOK(n)
  BY <1>1, StackKept, MemoryKept, GasKept, ContractKept DEF Sound
<1> QED
  BY <1>1, <1>2, <1>3 DEF Works, Sound, SameBut, n, MemoryOK

\* An operation on the stack alone.
LEMMA WorksStack ==
  ASSUME NEW m, NEW n, Sound(m), SameBut(m, n, {"sp", "slots"}), StackOK(n)
  PROVE  Works(m, n) /\ n.stop = m.stop
<1>1. n.stop = m.stop
  BY DEF SameBut, Fields
<1>2. SameBut(m, n, Work)
  BY SameButMore DEF Work
<1>3. MemoryOK(n) /\ n.len = m.len /\ GasOK(n) /\ ContractOK(n)
  BY <1>1, MemoryKept, GasKept, ContractKept DEF Sound, ContractOK
<1> QED
  BY <1>1, <1>2, <1>3 DEF Works, Sound, SameBut, MemoryOK

LEMMA WorksPop ==
  ASSUME NEW m, Sound(m), NEW k \in Nat, k <= m.sp
  PROVE  Works(m, pop(m, k)) /\ pop(m, k).stop = m.stop /\ pop(m, k).sp = m.sp - k
         /\ pop(m, k).slots = m.slots
<1> DEFINE n == pop(m, k)
<1>1. SameBut(m, n, {"sp"}) /\ n.sp = m.sp - k
  BY Pops DEF Sound
<1> HIDE DEF n
<1>2. n.slots = m.slots
  BY <1>1 DEF SameBut, Fields
<1>3. StackOK(n)
  BY <1>1, <1>2 DEF Sound, StackOK
<1> QED
  BY <1>1, <1>2, <1>3, SameButMore, WorksStack DEF n

LEMMA WorksPush ==
  ASSUME NEW m, Sound(m), NEW v \in Word
  PROVE  Works(m, push(m, v)) /\ push(m, v).stop = m.stop
<1> DEFINE n == push(m, v)
<1>1. /\ SameBut(m, n, {"sp", "slots"}) /\ n.sp = m.sp + 1
      /\ n.slots = IF Len(m.slots) > m.sp THEN [m.slots EXCEPT ![m.sp + 1] = v]
                   ELSE Append(m.slots, v)
  BY Pushes DEF Sound
<1> HIDE DEF n
<1>2. v \in Nat
  BY DEF Word
<1>3. StackOK(n)
  <2>1. m.slots \in Seq(Nat) /\ m.sp \in 0 .. Len(m.slots) /\ \A i \in 1 .. m.sp : m.slots[i] \in Word
    BY DEF Sound, StackOK
  <2>2. CASE Len(m.slots) > m.sp
    <3>1. n.slots = [m.slots EXCEPT ![m.sp + 1] = v]
      BY <1>1, <2>2
    <3>2. n.slots \in Seq(Nat) /\ Len(n.slots) = Len(m.slots)
      BY <1>2, <2>1, <2>2, <3>1
    <3>3. \A i \in 1 .. n.sp : n.slots[i] \in Word
      BY <1>1, <2>1, <2>2, <3>1
    <3> QED
      BY <1>1, <2>1, <2>2, <3>2, <3>3 DEF StackOK
  <2>3. CASE ~(Len(m.slots) > m.sp)
    <3>1. n.slots = Append(m.slots, v) /\ m.sp = Len(m.slots)
      BY <1>1, <2>1, <2>3
    <3>2. n.slots \in Seq(Nat) /\ Len(n.slots) = Len(m.slots) + 1
      BY <1>2, <2>1, <3>1
    <3>3. \A i \in 1 .. n.sp : n.slots[i] \in Word
      BY <1>1, <2>1, <3>1
    <3> QED
      BY <1>1, <2>1, <3>1, <3>2, <3>3 DEF StackOK
  <2> QED
    BY <2>2, <2>3
<1> QED
  BY <1>1, <1>3, WorksStack DEF n

LEMMA WorksReplace ==
  ASSUME NEW m, Sound(m), NEW k \in Nat, k < m.sp, NEW v \in Word
  PROVE  Works(m, replace(m, k, v)) /\ replace(m, k, v).stop = m.stop
<1> DEFINE n == replace(m, k, v)
<1>1. /\ SameBut(m, n, {"sp", "slots"}) /\ n.sp = m.sp - k
      /\ n.slots = [m.slots EXCEPT ![m.sp - k] = v]
  BY Replaces DEF Sound
<1> HIDE DEF n
<1>2. v \in Nat
  BY DEF Word
<1>3. StackOK(n)
  <2>1. m.slots \in Seq(Nat) /\ m.sp \in 0 .. Len(m.slots) /\ \A i \in 1 .. m.sp : m.slots[i] \in Word
    BY DEF Sound, StackOK
  <2>2. n.slots \in Seq(Nat) /\ Len(n.slots) = Len(m.slots)
    BY <1>1, <1>2, <2>1
  <2>3. \A i \in 1 .. n.sp : n.slots[i] \in Word
    BY <1>1, <2>1
  <2> QED
    BY <1>1, <2>1, <2>2, <2>3 DEF StackOK
<1> QED
  BY <1>1, <1>3, WorksStack DEF n

LEMMA Peeks ==
  ASSUME NEW m, Sound(m), NEW k \in Nat, 1 <= k, k <= m.sp
  PROVE  peekAt(m, k) \in Word
  BY DEF Sound, StackOK, peekAt

LEMMA GasWords ==
  /\ GasRoot \in Nat /\ GasWord \in Nat \ {0} /\ 6 * GasRoot <= GasWord
  /\ \A w \in Nat : w < GasRoot => w * w < GasWord
<1>1. GasRoot \in Nat /\ GasWord >= 36 /\ GasWord = GasRoot * GasRoot
  BY MachineConstants, SMT DEF GasWord, CallMost
<1>2. GasRoot >= 6
  <2>1. \A r \in Nat : r < 6 => r * r <= 25
    OBVIOUS
  <2> QED
    BY <1>1, <2>1
<1>3. \A r \in Nat : r >= 6 => 6 * r <= r * r
  OBVIOUS
<1>4. \A r \in Nat, w \in Nat : w < r => w * w < r * r
  OBVIOUS
<1> QED
  BY <1>1, <1>2, <1>3, <1>4

LEMMA Due ==
  ASSUME NEW w \in Nat
  PROVE  dueFor(w) \in Nat
<1>1. w * w \in Nat /\ QuadDivisor \in Nat \ {0}
  BY MachineConstants
<1> QED
  BY <1>1, Division DEF dueFor

LEMMA MemoryWords ==
  ASSUME NEW m, MemoryOK(m)
  PROVE  m.len \div WordBytes \in Nat /\ m.len % WordBytes = 0
<1>1. PICK w \in Nat : m.len = w * WordBytes
  BY DEF MemoryOK
<1>2. \A k \in Nat, b \in Nat \ {0} : (k * b) \div b = k /\ (k * b) % b = 0
  OBVIOUS
<1> QED
  BY <1>1, <1>2, WordConstants

LEMMA WorksConsume ==
  ASSUME NEW m, Sound(m), NEW g \in Nat
  PROVE  LET n == consumeGas(m, g) IN
         /\ Works(m, n)
         /\ ~n.stop => n.gas = m.gas - g /\ ~m.stop
         /\ n.sp = m.sp /\ n.slots = m.slots /\ n.memory = m.memory /\ n.len = m.len
         /\ n.ip = m.ip
<1> DEFINE n == consumeGas(m, g)
<1>1. /\ m.gas < g => SameBut(m, n, {"stop", "err"}) /\ n.stop /\ n.stop \in BOOLEAN
      /\ ~(m.gas < g) => SameBut(m, n, {"gas"}) /\ n.gas = m.gas - g
  BY Consumes DEF Sound
<1>2. CASE m.gas < g
  <2>1. n = exit(m, "errOutOfGas")
    BY <1>2 DEF consumeGas
  <2>2. Works(m, n) /\ n.stop
    BY <2>1, WorksExit
  <2> HIDE DEF n
  <2>3. n.sp = m.sp /\ n.slots = m.slots /\ n.memory = m.memory /\ n.len = m.len /\ n.ip = m.ip
    BY <1>1, <1>2 DEF SameBut, Fields
  <2> QED
    BY <2>2, <2>3 DEF n
<1>3. CASE ~(m.gas < g)
  <2> HIDE DEF n
  <2>1. SameBut(m, n, {"gas"}) /\ n.gas = m.gas - g
    BY <1>1, <1>3
  <2>2. SameBut(m, n, Work)
    BY <2>1, SameButMore DEF Work
  <2>3. /\ n.sp = m.sp /\ n.slots = m.slots /\ n.memory = m.memory /\ n.len = m.len
        /\ n.ip = m.ip /\ n.stop = m.stop /\ n.lastGasCost = m.lastGasCost
        /\ n.given = m.given /\ n.spent = m.spent
    BY <2>1 DEF SameBut, Fields
  <2>4. StackOK(n) /\ MemoryOK(n) /\ ContractOK(n)
    BY <2>1, <2>3, StackKept, MemoryKept, ContractKept DEF Sound, ContractOK
  <2>5. GasOK(n)
    <3>1. m.gas \in 0 .. GasWord - 1 /\ m.spent \in Nat /\ m.given \in Nat /\ m.lastGasCost \in Nat
      BY DEF Sound, GasOK
    <3>2. n.gas \in 0 .. GasWord - 1 /\ n.gas <= m.gas
      BY <1>3, <2>1, <3>1, GasWords
    <3>3. dueFor(m.len \div WordBytes) \in Nat
      BY Due, MemoryWords DEF Sound
    <3>4. Paid(n)
      BY <2>3, <3>1, <3>2, <3>3 DEF Sound, GasOK, Paid
    <3> QED
      BY <2>3, <3>1, <3>2, <3>4 DEF GasOK
  <2>6. Works(m, n)
    BY <2>1, <2>2, <2>3, <2>4, <2>5 DEF Works, Sound, SameBut, MemoryOK
  <2> QED
    BY <2>1, <2>3, <2>6 DEF n
<1> QED
  BY <1>2, <1>3

LEMMA WorksStore ==
  ASSUME NEW m, Sound(m), NEW o \in Nat, NEW b \in Seq(Octets),
         Len(b) = 0 \/ o + Len(b) <= m.len
  PROVE  Works(m, store(m, o, b)) /\ store(m, o, b).stop = m.stop
<1> DEFINE n == store(m, o, b)
<1>1. /\ SameBut(m, n, {"memory"})
      /\ n.memory = [i \in DOMAIN m.memory |->
              IF i > o /\ i <= o + Len(b) THEN b[i - o] ELSE m.memory[i]]
  BY Stores DEF Sound
<1> HIDE DEF n
<1>2. n.stop = m.stop /\ n.len = m.len /\ n.out = m.out
  BY <1>1 DEF SameBut, Fields
<1>3. SameBut(m, n, Work)
  BY <1>1, SameButMore DEF Work
<1>4. StackOK(n) /\ GasOK(n) /\ ContractOK(n)
  BY <1>1, <1>2, StackKept, GasKept, ContractKept DEF Sound, ContractOK
<1>5. MemoryOK(n)
  <2>1. m.memory \in Seq(Octets) /\ m.len \in 0 .. Len(m.memory)
        /\ \A i \in DOMAIN m.memory : i > m.len => m.memory[i] = 0
    BY DEF Sound, MemoryOK
  <2>2. DOMAIN m.memory = 1 .. Len(m.memory) /\ Len(m.memory) \in Nat
        /\ \A i \in 1 .. Len(m.memory) : m.memory[i] \in Octets
    BY <2>1
  <2>3. Len(b) \in Nat /\ \A i \in 1 .. Len(b) : b[i] \in Octets
    OBVIOUS
  <2>4. \A i \in 1 .. Len(m.memory) : n.memory[i] \in Octets
    <3> SUFFICES ASSUME NEW i \in 1 .. Len(m.memory) PROVE n.memory[i] \in Octets
      OBVIOUS
    <3>1. CASE i > o /\ i <= o + Len(b)
      <4>1. i - o \in 1 .. Len(b)
        BY <2>3, <3>1
      <4> QED
        BY <1>1, <2>2, <2>3, <3>1, <4>1
    <3>2. CASE ~(i > o /\ i <= o + Len(b))
      BY <1>1, <2>2, <3>2
    <3> QED
      BY <3>1, <3>2
  <2>5. n.memory = [i \in 1 .. Len(m.memory) |-> n.memory[i]]
    BY <1>1, <2>2
  <2>6. n.memory \in Seq(Octets) /\ Len(n.memory) = Len(m.memory) /\ DOMAIN n.memory = 1 .. Len(m.memory)
    BY <2>2, <2>4, <2>5, Array
  <2>7. \A i \in DOMAIN n.memory : i > n.len => n.memory[i] = 0
    BY <1>1, <1>2, <2>1, <2>2, <2>3, <2>6
  <2> QED
    BY <1>2, <2>6, <2>7 DEF Sound, MemoryOK
<1> QED
  BY <1>1, <1>2, <1>3, <1>4, <1>5 DEF Works, Sound, SameBut, n, MemoryOK

LEMMA WorksMove ==
  ASSUME NEW m, Sound(m), NEW p \in Int, p >= -1
  PROVE  LET n == [m EXCEPT !.ip = p] IN
         Works(m, n) /\ n.stop = m.stop /\ n.ip = p /\ n.sp = m.sp
<1> DEFINE n == [m EXCEPT !.ip = p]
<1>1. SameBut(m, n, {"ip"}) /\ n.ip = p
  BY Moves DEF Sound
<1> HIDE DEF n
<1>2. /\ n.stop = m.stop /\ n.sp = m.sp /\ n.code = m.code /\ n.input = m.input
      /\ n.returnData = m.returnData /\ n.ret = m.ret /\ n.value = m.value
  BY <1>1 DEF SameBut, Fields
<1>3. SameBut(m, n, Work)
  BY <1>1, SameButMore DEF Work
<1>4. StackOK(n) /\ GasOK(n) /\ MemoryOK(n) /\ n.len = m.len
  BY <1>1, <1>2, StackKept, GasKept, MemoryKept DEF Sound
<1>5. ContractOK(n)
  BY <1>1, <1>2 DEF Sound, ContractOK
<1> QED
  BY <1>1, <1>2, <1>3, <1>4, <1>5 DEF Works, Sound, SameBut, n, MemoryOK

LEMMA WorksAnswer ==
  ASSUME NEW m, Sound(m), NEW b \in Bytes
  PROVE  LET n == [m EXCEPT !.ret = b] IN Works(m, n) /\ n.stop = m.stop
<1> DEFINE n == [m EXCEPT !.ret = b]
<1>1. SameBut(m, n, {"ret"}) /\ n.ret = b
  BY Answers DEF Sound
<1> HIDE DEF n
<1>2. /\ n.stop = m.stop /\ n.sp = m.sp /\ n.code = m.code /\ n.input = m.input
      /\ n.returnData = m.returnData /\ n.ip = m.ip /\ n.value = m.value
  BY <1>1 DEF SameBut, Fields
<1>3. SameBut(m, n, Work)
  BY <1>1, SameButMore DEF Work
<1>4. StackOK(n) /\ GasOK(n) /\ MemoryOK(n) /\ n.len = m.len
  BY <1>1, <1>2, StackKept, GasKept, MemoryKept DEF Sound
<1>5. ContractOK(n)
  BY <1>1, <1>2 DEF Sound, ContractOK
<1> QED
  BY <1>1, <1>2, <1>3, <1>4, <1>5 DEF Works, Sound, SameBut, n, MemoryOK

\* What checkMemory charges for w words covers them to the last, where the contract
\* was given less than three times the root: the words alone would cost more before
\* their square wraps around.
LEMMA Growth ==
  ASSUME NEW w \in Nat, w <= 2 * MemLimit + WordBytes,
         NEW last \in Nat, NEW gas \in Nat, gas + last < 3 * GasRoot,
         (memoryCost(w) - last) % GasWord <= gas
  PROVE  (memoryCost(w) - last) % GasWord = memoryCost(w) - last /\ memoryCost(w) = dueFor(w)
<1> DEFINE quad == ((w * w) % GasWord) \div QuadDivisor
           cost == memoryCost(w)
<1>1. /\ GasRoot \in Nat /\ GasWord \in Nat \ {0} /\ 6 * GasRoot <= GasWord
      /\ QuadDivisor \in Nat \ {0, 1} /\ MemLimit \in Nat /\ WordBytes \in Nat \ {0}
      /\ 6 * MemLimit + 6 * WordBytes + GasWord \div 2 <= GasWord
  BY GasWords, MachineConstants, WordConstants
<1>2. quad \in Nat /\ quad <= GasWord \div 2
  <2>1. w * w \in Nat
    OBVIOUS
  <2>2. PICK r \in 0 .. GasWord - 1 : r = (w * w) % GasWord
    BY <1>1, <2>1
  <2>3. \A x \in Nat, d \in Nat \ {0, 1} : x \div d \in Nat /\ x \div d <= x \div 2
    <3> SUFFICES ASSUME NEW x \in Nat, NEW d \in Nat \ {0, 1}
                 PROVE  x \div d \in Nat /\ x \div d <= x \div 2
      OBVIOUS
    <3>1. x \div d \in Nat
      OBVIOUS
    <3>2. d * (x \div d) <= x
      OBVIOUS
    <3>3. \A q \in Nat : d * q <= x => 2 * q <= x
      <4> SUFFICES ASSUME NEW q \in Nat, d * q <= x PROVE 2 * q <= x
        OBVIOUS
      <4>1. 2 * q <= d * q
        OBVIOUS
      <4> QED
        BY <4>1
    <3>4. 2 * (x \div d) <= x
      BY <3>1, <3>2, <3>3
    <3> QED
      BY <3>1, <3>4
  <2>4. r \div 2 <= GasWord \div 2
    BY <1>1
  <2>5. r \div QuadDivisor \in Nat /\ r \div QuadDivisor <= r \div 2
    <3>1. r \in Nat /\ QuadDivisor \in Nat \ {0, 1}
      BY <1>1
    <3> QED
      BY ONLY <2>3, <3>1, Zenon
  <2>6. quad = r \div QuadDivisor
    BY <2>2
  <2> HIDE DEF quad
  <2> QED
    BY <1>1, <2>4, <2>5, <2>6
<1>3. cost = (3 * w + quad) % GasWord
  BY DEF memoryCost
<1> HIDE DEF quad, cost
<1>4. cost = 3 * w + quad
  <2>1. 3 * w + quad \in 0 .. GasWord - 1
    BY <1>1, <1>2
  <2>2. \A x \in 0 .. GasWord - 1 : x % GasWord = x
    BY <1>1
  <2> QED
    BY <1>3, <2>1, <2>2
<1>5. cost \in 0 .. GasWord - 1
  BY <1>1, <1>2, <1>3
<1>6. (cost - last) % GasWord <= gas
  BY DEF cost
<1>7. cost >= last
  <2>1. SUFFICES ASSUME cost < last PROVE FALSE
    BY <1>5
  <2>2. cost - last + GasWord \in 0 .. GasWord - 1
    BY <1>1, <1>5, <2>1
  <2>3. (cost - last) % GasWord = cost - last + GasWord
    BY <1>1, <1>5, <2>1, <2>2
  <2> QED
    BY <1>1, <1>5, <1>6, <2>3
<1>8. (cost - last) % GasWord = cost - last
  BY <1>1, <1>5, <1>7
<1>9. w < GasRoot
  BY <1>1, <1>2, <1>4, <1>6, <1>8
<1>10. (w * w) % GasWord = w * w
  <2>1. w * w < GasWord /\ w * w \in Nat
    BY <1>9, GasWords
  <2> QED
    BY <1>1, <2>1
<1>11. cost = dueFor(w)
  BY <1>4, <1>10 DEF dueFor, quad
<1> QED
  BY <1>8, <1>11 DEF cost

\* checkMemory keeps the machine sound; if it goes on, the range is in the memory.
LEMMA WorksCheck ==
  ASSUME NEW m, Sound(m), ~m.stop, NEW offset \in Nat, NEW size \in Nat
  PROVE  LET n == checkMemory(m, offset, size) IN
         /\ Works(m, n) /\ n.sp = m.sp /\ n.slots = m.slots /\ n.ip = m.ip
         /\ ~n.stop => \/ size = 0
                       \/ /\ offset + size <= n.len /\ size <= MemLimit
                          /\ offset < tt64 /\ size < tt64
<1> DEFINE w == wordsOf(offset + size)
           newCost == memoryCost(w)
           fee == (newCost - m.lastGasCost) % GasWord
           m1 == [m EXCEPT !.lastGasCost = newCost]
           m2 == consumeGas(m1, fee)
           n == checkMemory(m, offset, size)
           fits == \/ size = 0
                   \/ /\ offset + size <= n.len /\ size <= MemLimit
                      /\ offset < tt64 /\ size < tt64
<1>1. n = IF size = 0 THEN m
          ELSE IF badRange(offset, size) THEN exit(m, "errGasUintOverflow")
          ELSE IF m.len >= offset + size THEN m
          ELSE IF m2.stop THEN m2 ELSE resized(m2, w * WordBytes)
  BY DEF checkMemory, then
<1>2. /\ tt64 \in Nat /\ MemLimit \in Nat /\ m.len \in Nat
      /\ WordBytes \in Nat \ {0} /\ GasWord \in Nat \ {0}
  BY Widths, MachineConstants, WordConstants, GasWords DEF Sound, MemoryOK
<1> HIDE DEF n, m2, m1, fee, newCost, w
<1>3. ~badRange(offset, size) =>
        offset < tt64 /\ size < tt64 /\ offset <= MemLimit /\ size <= MemLimit
  BY <1>2 DEF badRange
<1>4. CASE size = 0 \/ (~badRange(offset, size) /\ m.len >= offset + size)
  <2>1. n = m
    BY <1>1, <1>4
  <2>2. fits
    BY <1>2, <1>3, <1>4, <2>1
  <2> QED
    BY <2>1, <2>2, WorksSelf DEF n
<1>5. CASE size # 0 /\ badRange(offset, size)
  <2>4. n = exit(m, "errGasUintOverflow")
    BY <1>1, <1>5
  <2>1. Works(m, n) /\ n.stop
    BY <2>4, WorksExit
  <2>2. SameBut(m, n, {"stop", "err"})
    BY <2>4, Exits DEF Sound
  <2>3. n.sp = m.sp /\ n.slots = m.slots /\ n.ip = m.ip
    BY <2>2 DEF SameBut, Fields
  <2> QED
    BY <2>1, <2>3 DEF n
<1>6. CASE size # 0 /\ ~badRange(offset, size) /\ ~(m.len >= offset + size)
  <2>1. /\ w \in Nat /\ w * WordBytes >= offset + size
        /\ w * WordBytes < offset + size + WordBytes
    BY WholeWords DEF w
  <2>2. w * WordBytes \in Nat /\ w <= 2 * MemLimit + WordBytes
        /\ w * WordBytes <= 2 * MemLimit + WordBytes - 1 /\ w * WordBytes > m.len
    <3>1. \A a \in Nat, b \in Nat \ {0} : a * b \in Nat /\ a <= a * b
      OBVIOUS
    <3> QED
      BY <1>2, <1>3, <1>6, <2>1, <3>1
  <2>3. newCost \in Nat /\ newCost < GasWord /\ fee \in Nat
    <3>1. \A x \in Int : x % GasWord \in 0 .. GasWord - 1
      BY <1>2
    <3>2. w * w \in Int /\ (w * w) % GasWord \in Int
      BY <1>2, <2>1
    <3>3. ((w * w) % GasWord) \div QuadDivisor \in Int
      BY <3>2, MachineConstants
    <3>4. newCost \in 0 .. GasWord - 1
      BY <2>1, <3>1, <3>3 DEF newCost, memoryCost
    <3>5. m.lastGasCost \in Int
      BY DEF Sound, GasOK
    <3> QED
      BY <1>2, <3>1, <3>4, <3>5 DEF fee
  <2>4. SameBut(m, m1, {"lastGasCost"}) /\ m1.lastGasCost = newCost /\ Shaped(m1)
    BY Notes DEF Sound, m1, SameBut
  <2>5. m1.gas = m.gas /\ m1.stop = m.stop
    BY <2>4 DEF SameBut, Fields
  <2>6. /\ m.gas < fee => SameBut(m1, m2, {"stop", "err"}) /\ m2.stop /\ m2.stop \in BOOLEAN
        /\ ~(m.gas < fee) => SameBut(m1, m2, {"gas"}) /\ m2.gas = m.gas - fee
    BY <2>4, <2>5, Consumes DEF m2
  <2>7. m.gas \in Nat /\ m.gas < GasWord /\ m.spent \in Nat /\ m.given \in Nat /\ m.lastGasCost \in Nat
    BY <1>2 DEF Sound, GasOK
  <2>8. CASE m.gas < fee
    <3>1. n = m2 /\ n.stop /\ n.stop \in BOOLEAN
      BY <1>1, <1>6, <2>6, <2>8
    <3>2. SameBut(m, n, {"lastGasCost", "stop", "err"})
      <4>1. {"lastGasCost"} \cup {"stop", "err"} = {"lastGasCost", "stop", "err"}
        OBVIOUS
      <4>2. SameBut(m, n, {"lastGasCost"} \cup {"stop", "err"})
        BY <2>4, <2>6, <2>8, <3>1, SameButTrans
      <4> QED
        BY <4>1, <4>2
    <3>3. SameBut(m, n, Work)
      BY <3>2, SameButMore DEF Work
    <3>4. StackOK(n) /\ MemoryOK(n) /\ n.len = m.len /\ ContractOK(n)
      <4>1. StackOK(n)
        BY <3>2, StackKept DEF Sound
      <4>2. MemoryOK(n) /\ n.len = m.len
        BY <3>2, MemoryKept DEF Sound
      <4>3. ContractOK(n)
        <5>1. {"lastGasCost", "stop", "err"}
                \cap {"code", "input", "returnData", "ret", "value", "ip"} = {}
          OBVIOUS
        <5> QED
          BY <3>1, <3>2, <5>1, ContractKept DEF Sound
      <4> QED
        BY <4>1, <4>2, <4>3
    <3>5. /\ n.sp = m.sp /\ n.slots = m.slots /\ n.ip = m.ip /\ n.gas = m.gas
          /\ n.spent = m.spent /\ n.given = m.given
      BY <3>2 DEF SameBut, Fields
    <3>6. n.lastGasCost = newCost
      BY <2>4, <2>6, <2>8, <3>1 DEF SameBut, Fields
    <3>7. GasOK(n)
      BY <2>3, <3>1, <3>4, <3>5, <3>6 DEF Sound, GasOK, Paid
    <3>8. Works(m, n)
      BY <1>2, <3>2, <3>3, <3>4, <3>7 DEF Works, Sound, SameBut
    <3> QED
      BY <3>1, <3>5, <3>8 DEF n
  <2>9. CASE ~(m.gas < fee)
    <3>1. SameBut(m, m2, {"lastGasCost", "gas"}) /\ m2.gas = m.gas - fee
      <4>1. {"lastGasCost"} \cup {"gas"} = {"lastGasCost", "gas"}
        OBVIOUS
      <4>2. SameBut(m, m2, {"lastGasCost"} \cup {"gas"})
        BY <2>4, <2>6, <2>9, SameButTrans
      <4> QED
        BY <2>6, <2>9, <4>1, <4>2
    <3>2. m2.stop = m.stop /\ m2.memory = m.memory /\ Shaped(m2)
      BY <3>1 DEF SameBut, Fields
    <3>3. m2.lastGasCost = newCost
      BY <2>4, <2>6, <2>9 DEF SameBut, Fields
    <3>4. n = resized(m2, w * WordBytes)
      BY <1>1, <1>6, <3>2
    <3>5. /\ SameBut(m2, n, {"memory", "len"}) /\ n.len = w * WordBytes
          /\ n.memory = extendByteSlice(m.memory, w * WordBytes)
      BY <3>2, <3>4, Resizes
    <3>6. SameBut(m, n, {"lastGasCost", "gas", "memory", "len"})
      <4>1. {"lastGasCost", "gas"} \cup {"memory", "len"} = {"lastGasCost", "gas", "memory", "len"}
        OBVIOUS
      <4>2. SameBut(m, n, {"lastGasCost", "gas"} \cup {"memory", "len"})
        BY <3>1, <3>5, SameButTrans
      <4> QED
        BY <4>1, <4>2
    <3>7. SameBut(m, n, Work)
      BY <3>6, SameButMore DEF Work
    <3>8. /\ n.sp = m.sp /\ n.slots = m.slots /\ n.ip = m.ip /\ n.stop = m.stop
          /\ n.spent = m.spent /\ n.given = m.given /\ n.out = m.out
      BY <3>6 DEF SameBut, Fields
    <3>9. n.lastGasCost = newCost /\ n.gas = m.gas - fee
      BY <3>1, <3>3, <3>5 DEF SameBut, Fields
    <3>10. StackOK(n) /\ ContractOK(n)
      BY <3>6, <3>8, StackKept, ContractKept DEF Sound, ContractOK
    <3>11. MemoryOK(n)
      <4> DEFINE b == m.memory
      <4>1. b \in Seq(Octets) /\ m.len \in 0 .. Len(b) /\ \A i \in DOMAIN b : i > m.len => b[i] = 0
        BY DEF Sound, MemoryOK
      <4>2. /\ n.memory \in Seq(Octets)
            /\ Len(n.memory) = IF n.len <= Len(b) THEN Len(b) ELSE n.len
            /\ \A i \in 1 .. Len(b) : n.memory[i] = b[i]
            /\ \A i \in 1 .. Len(n.memory) : i > Len(b) => n.memory[i] = 0
        BY <2>2, <3>5, <4>1, ExtendByteSlice
      <4>3. Len(b) \in Nat /\ DOMAIN b = 1 .. Len(b) /\ DOMAIN n.memory = 1 .. Len(n.memory)
        BY <4>1, <4>2
      <4>4. n.len \in Nat /\ n.len > m.len /\ n.len \in 0 .. Len(n.memory)
        BY <2>2, <3>5, <4>2, <4>3
      <4>5. \A i \in DOMAIN n.memory : i > n.len => n.memory[i] = 0
        BY <1>2, <4>1, <4>2, <4>3, <4>4
      <4>6. m.out[1] \in Nat /\ m.out[2] \in Nat /\ (m.out[2] = 0 \/ m.out[1] + m.out[2] <= m.len)
        BY DEF Sound, MemoryOK
      <4>7. n.out[2] = 0 \/ n.out[1] + n.out[2] <= n.len
        BY <1>2, <3>8, <4>4, <4>6
      <4>8. n.len <= 2 * MemLimit + WordBytes - 1 /\ \E k \in Nat : n.len = k * WordBytes
        BY <2>1, <2>2, <3>5
      <4> QED
        BY <3>8, <4>2, <4>4, <4>5, <4>6, <4>7, <4>8 DEF MemoryOK
    <3>12. GasOK(n)
      <4>1. n.gas \in 0 .. GasWord - 1 /\ n.lastGasCost \in Nat
        BY <1>2, <2>3, <2>7, <2>9, <3>9
      <4>2. n.len \div WordBytes = w
        <5>1. \A a \in Nat, b \in Nat \ {0} : (a * b) \div b = a
          OBVIOUS
        <5> QED
          BY <1>2, <2>1, <3>5, <5>1
      <4>3. Paid(n)
        <5>1. SUFFICES ASSUME CallsPaid, m.given < 3 * GasRoot
                       PROVE  n.gas + n.spent + dueFor(w) <= n.given /\ n.lastGasCost = dueFor(w)
          BY <3>8, <4>2 DEF Paid
        <5> DEFINE old == dueFor(m.len \div WordBytes)
        <5>2. old \in Nat
          BY Due, MemoryWords DEF Sound
        <5>3. m.gas + m.spent + old <= m.given /\ m.lastGasCost = old
          BY <5>1 DEF Sound, GasOK, Paid
        <5> HIDE DEF old
        <5>4. m.gas + m.lastGasCost < 3 * GasRoot
          BY <2>7, <5>1, <5>2, <5>3, GasWords
        <5>5. (memoryCost(w) - m.lastGasCost) % GasWord <= m.gas
          BY <2>3, <2>7, <2>9 DEF fee, newCost
        <5>6. fee = newCost - m.lastGasCost /\ newCost = dueFor(w)
          BY <2>1, <2>2, <2>7, <5>4, <5>5, Growth DEF fee, newCost
        <5> QED
          BY <2>3, <2>7, <3>8, <3>9, <5>2, <5>3, <5>6
      <4> QED
        BY <2>7, <3>8, <4>1, <4>3 DEF GasOK
    <3>13. Works(m, n)
      BY <1>2, <2>2, <3>5, <3>6, <3>7, <3>10, <3>11, <3>12 DEF Works, Sound, SameBut
    <3>14. fits
      BY <1>3, <1>6, <2>1, <3>5
    <3> QED
      BY <3>8, <3>13, <3>14 DEF n
  <2> QED
    BY <2>8, <2>9
<1> QED
  BY <1>4, <1>5, <1>6

-----------------------------------------------------------------------------
(* The dispatch table lets an instruction in only where it finds its words.  *)

Takes(op) ==
  CASE op \in Binary \cup Unary \cup QueryOps \cup {"CALLDATALOAD", "MLOAD", "POP", "JUMP"} -> 1
    [] op \in {"MSTORE", "MSTORE8", "JUMPI", "SHA3", "RETURN", "REVERT"} -> 2
    [] op \in Ternary \cup {"CALLDATACOPY", "CODECOPY", "RETURNDATACOPY"} -> 3
    [] op = "EXTCODECOPY" -> 4
    [] op \in DOMAIN CallOps -> CallOps[op]
    [] OTHER -> 0

\* A row asks for what its instructions take.
RowOK(r) == r.gas \in Nat /\ r.stack \in Nat /\ \A op \in r.ops : Takes(op) <= r.stack

LEMMA Registered ==
  ASSUME NEW ops, NEW k \in Nat, NEW g \in Nat, \A op \in ops : Takes(op) <= k
  PROVE  RowOK(register(ops, k, g))
  BY DEF RowOK, register

LEMMA TableRows ==
  \A op \in DOMAIN dispatchTable :
    /\ dispatchTable[op].gas \in Nat /\ dispatchTable[op].stack \in Nat
    /\ Takes(op) <= dispatchTable[op].stack
<1> USE DEF Takes, Binary, Unary, Ternary, QueryOps, EnvOps, SizeOps
<1>1. DOMAIN CallOps = {"CALL", "CALLCODE", "DELEGATECALL", "STATICCALL"}
      /\ \A op \in DOMAIN CallOps : CallOps[op] \in {6, 7}
  BY DEF CallOps
<1>2. /\ DOMAIN PushOps = {"PUSH1", "PUSH2", "PUSH32"} /\ DOMAIN DupOps = {"DUP1", "DUP2", "DUP3"}
      /\ DOMAIN SwapOps = {"SWAP1", "SWAP2"} /\ DOMAIN LogOps = {"LOG0", "LOG1"}
  BY DEF PushOps, DupOps, SwapOps, LogOps
<1>3. RowOK(register({"STOP"}, 0, 0))
  <2>1. \A op \in {"STOP"} : Takes(op) <= 0
    BY <1>1, <1>2
  <2> QED
    BY <2>1, Registered
<1>4. RowOK(register({"RETURN", "REVERT"}, 2, 0))
  <2>1. \A op \in {"RETURN", "REVERT"} : Takes(op) <= 2
    BY <1>1, <1>2
  <2> QED
    BY <2>1, Registered
<1>5. RowOK(register({"ADD", "SUB", "AND", "OR", "XOR", "BYTE", "EQ", "LT", "GT", "SLT", "SGT", "SHL", "SHR", "SAR"}, 2, 3))
  <2>1. \A op \in {"ADD", "SUB", "AND", "OR", "XOR", "BYTE", "EQ", "LT", "GT", "SLT", "SGT", "SHL", "SHR", "SAR"} : Takes(op) <= 2
    BY <1>1, <1>2
  <2> QED
    BY <2>1, Registered
<1>6. RowOK(register({"MUL", "DIV", "SDIV", "MOD", "SMOD"}, 2, 5))
  <2>1. \A op \in {"MUL", "DIV", "SDIV", "MOD", "SMOD"} : Takes(op) <= 2
    BY <1>1, <1>2
  <2> QED
    BY <2>1, Registered
<1>7. RowOK(register({"EXP"}, 2, 10))
  <2>1. \A op \in {"EXP"} : Takes(op) <= 2
    BY <1>1, <1>2
  <2> QED
    BY <2>1, Registered
<1>8. RowOK(register({"SIGNEXTEND"}, 1, 5))
  <2>1. \A op \in {"SIGNEXTEND"} : Takes(op) <= 1
    BY <1>1, <1>2
  <2> QED
    BY <2>1, Registered
<1>9. RowOK(register(Ternary, 3, 8))
  <2>1. \A op \in Ternary : Takes(op) <= 3
    BY <1>1, <1>2
  <2> QED
    BY <2>1, Registered
<1>10. RowOK(register(Unary, 1, 3))
  <2>1. \A op \in Unary : Takes(op) <= 1
    BY <1>1, <1>2
  <2> QED
    BY <2>1, Registered
<1>11. RowOK(register(DOMAIN PushOps \cup DOMAIN DupOps \cup DOMAIN SwapOps, 0, 3))
  <2>1. \A op \in DOMAIN PushOps \cup DOMAIN DupOps \cup DOMAIN SwapOps : Takes(op) <= 0
    BY <1>1, <1>2
  <2> QED
    BY <2>1, Registered
<1>12. RowOK(register(DOMAIN LogOps, 0, 375))
  <2>1. \A op \in DOMAIN LogOps : Takes(op) <= 0
    BY <1>1, <1>2
  <2> QED
    BY <2>1, Registered
<1>13. RowOK(register({"POP"}, 1, 2))
  <2>1. \A op \in {"POP"} : Takes(op) <= 1
    BY <1>1, <1>2
  <2> QED
    BY <2>1, Registered
<1>14. RowOK(register((EnvOps \cup SizeOps) \ {"SELFBALANCE"}, 0, 2))
  <2>1. \A op \in (EnvOps \cup SizeOps) \ {"SELFBALANCE"} : Takes(op) <= 0
    BY <1>1, <1>2
  <2> QED
    BY <2>1, Registered
<1>15. RowOK(register({"SELFBALANCE"}, 0, 5))
  <2>1. \A op \in {"SELFBALANCE"} : Takes(op) <= 0
    BY <1>1, <1>2
  <2> QED
    BY <2>1, Registered
<1>16. RowOK(register(QueryOps \ {"BLOCKHASH"}, 1, 0))
  <2>1. \A op \in QueryOps \ {"BLOCKHASH"} : Takes(op) <= 1
    BY <1>1, <1>2
  <2> QED
    BY <2>1, Registered
<1>17. RowOK(register({"BLOCKHASH"}, 1, 20))
  <2>1. \A op \in {"BLOCKHASH"} : Takes(op) <= 1
    BY <1>1, <1>2
  <2> QED
    BY <2>1, Registered
<1>18. RowOK(register({"MLOAD", "CALLDATALOAD"}, 1, 3))
  <2>1. \A op \in {"MLOAD", "CALLDATALOAD"} : Takes(op) <= 1
    BY <1>1, <1>2
  <2> QED
    BY <2>1, Registered
<1>19. RowOK(register({"MSTORE", "MSTORE8"}, 2, 3))
  <2>1. \A op \in {"MSTORE", "MSTORE8"} : Takes(op) <= 2
    BY <1>1, <1>2
  <2> QED
    BY <2>1, Registered
<1>20. RowOK(register({"SHA3"}, 2, 30))
  <2>1. \A op \in {"SHA3"} : Takes(op) <= 2
    BY <1>1, <1>2
  <2> QED
    BY <2>1, Registered
<1>21. RowOK(register({"CALLDATACOPY", "CODECOPY", "RETURNDATACOPY"}, 3, 3))
  <2>1. \A op \in {"CALLDATACOPY", "CODECOPY", "RETURNDATACOPY"} : Takes(op) <= 3
    BY <1>1, <1>2
  <2> QED
    BY <2>1, Registered
<1>22. RowOK(register({"EXTCODECOPY"}, 4, 0))
  <2>1. \A op \in {"EXTCODECOPY"} : Takes(op) <= 4
    BY <1>1, <1>2
  <2> QED
    BY <2>1, Registered
<1>23. RowOK(register({"JUMP"}, 1, 8))
  <2>1. \A op \in {"JUMP"} : Takes(op) <= 1
    BY <1>1, <1>2
  <2> QED
    BY <2>1, Registered
<1>24. RowOK(register({"JUMPI"}, 2, 10))
  <2>1. \A op \in {"JUMPI"} : Takes(op) <= 2
    BY <1>1, <1>2
  <2> QED
    BY <2>1, Registered
<1>25. RowOK(register({"JUMPDEST"}, 0, 1))
  <2>1. \A op \in {"JUMPDEST"} : Takes(op) <= 0
    BY <1>1, <1>2
  <2> QED
    BY <2>1, Registered
<1>26. RowOK(register({"CALL", "CALLCODE"}, 7, 0))
  <2>1. \A op \in {"CALL", "CALLCODE"} : Takes(op) <= 7
    BY <1>1, <1>2 DEF CallOps
  <2> QED
    BY <2>1, Registered
<1>27. RowOK(register({"DELEGATECALL", "STATICCALL"}, 6, 0))
  <2>1. \A op \in {"DELEGATECALL", "STATICCALL"} : Takes(op) <= 6
    BY <1>1, <1>2 DEF CallOps
  <2> QED
    BY <2>1, Registered
<1> HIDE DEF Takes, Binary, Unary, Ternary, QueryOps, EnvOps, SizeOps
<1>28. \A r \in rows : RowOK(r)
  BY <1>3, <1>4, <1>5, <1>6, <1>7, <1>8, <1>9, <1>10, <1>11, <1>12, <1>13, <1>14, <1>15, <1>16, <1>17, <1>18, <1>19, <1>20, <1>21, <1>22, <1>23, <1>24, <1>25, <1>26, <1>27
  DEF rows
<1>29. SUFFICES ASSUME NEW op \in DOMAIN dispatchTable
                PROVE  RowOK(dispatchTable[op]) /\ op \in dispatchTable[op].ops
  BY DEF RowOK
<1>30. PICK r \in rows : op \in r.ops
  BY DEF dispatchTable
<1>31. dispatchTable[op] = CHOOSE q \in rows : op \in q.ops
  BY DEF dispatchTable
<1>32. dispatchTable[op] \in rows /\ op \in dispatchTable[op].ops
  BY <1>30, <1>31
<1> QED
  BY <1>28, <1>32

-----------------------------------------------------------------------------
(* The instructions, one lemma each: a sound machine stays sound.           *)

LEMMA Depth == ASSUME NEW m, Sound(m) PROVE m.sp \in Nat /\ m.stop \in BOOLEAN
  BY DEF Sound, StackOK, ContractOK

LEMMA BitLen ==
  ASSUME NEW x \in Word
  PROVE  bitLen(x) \in 0 .. WordBits /\ (x # 0 => bitLen(x) >= 1)
<1> DEFINE T == {n \in 0 .. WordBits : 2 ^ n > x}
<1>1. WordBits \in T /\ T \subseteq Nat
  <2>1. WordBits \in 0 .. WordBits
    BY Width
  <2>2. 2 ^ WordBits > x
    BY Widths DEF Word, tt256
  <2> QED
    BY <2>1, <2>2, Width
<1>2. PICK n \in T : \A k \in T : n <= k
  <2> HIDE DEF T
  <2> QED
    BY <1>1, Least
<1>3. n = 0 \/ 2 ^ (n - 1) <= x
  <2>1. SUFFICES ASSUME n # 0 PROVE 2 ^ (n - 1) <= x
    OBVIOUS
  <2>2. n - 1 \in 0 .. WordBits /\ ~(n <= n - 1)
    BY <2>1, Width
  <2>3. n - 1 \notin T
    BY <1>2, <2>2
  <2>4. 2 ^ (n - 1) \in Nat
    BY <2>2, Powers, WordConstants, Width
  <2> QED
    BY <2>2, <2>3, <2>4 DEF Word
<1>4. \E k \in 0 .. WordBits : 2 ^ k > x /\ (k = 0 \/ 2 ^ (k - 1) <= x)
  BY <1>2, <1>3
<1>5. bitLen(x) \in 0 .. WordBits /\ 2 ^ bitLen(x) > x
  BY <1>4 DEF bitLen
<1>6. 2 ^ 0 = 1
  <2>1. 2 ^ (0 + 0) = 2 ^ 0 * 2 ^ 0
    BY Product, Width, WordConstants
  <2>2. 2 ^ 0 \in Nat \ {0}
    BY Powers, Width, WordConstants
  <2>3. \A z \in Nat \ {0} : z # 1 => z < z * z
    OBVIOUS
  <2>4. 2 ^ 0 = 2 ^ 0 * 2 ^ 0
    <3>1. 0 + 0 = 0
      OBVIOUS
    <3> QED
      BY ONLY <2>1, <3>1, Zenon
  <2> DEFINE z == 2 ^ 0
  <2>5. z \in Nat \ {0} /\ z = z * z
    BY ONLY <2>2, <2>4, Zenon DEF z
  <2> HIDE DEF z
  <2>6. z = 1
    BY <2>3, <2>5
  <2> QED
    BY ONLY <2>6, Zenon DEF z
<1>7. bitLen(x) = 0 => x = 0
  <2>1. bitLen(x) = 0 => 2 ^ bitLen(x) = 1
    BY ONLY <1>6, Zenon
  <2> QED
    BY <1>5, <2>1 DEF Word
<1> QED
  BY <1>5, <1>7, Width

LEMMA WorksUnary ==
  ASSUME NEW m, Sound(m), m.sp >= 1, NEW op
  PROVE  Works(m, unary(m, op))
<1>1. peekAt(m, 1) \in Word /\ 0 < m.sp
  BY Peeks, Depth
<1> QED
  BY <1>1, Unaries, WorksReplace DEF unary

LEMMA ExpGas ==
  ASSUME NEW m, NEW y \in Word
  PROVE  expGas(m, y) \in Nat
<1>1. ((bitLen(y) + ByteBits - 1) \div ByteBits) \in Nat
  BY BitLen, WordConstants, Width
<1> QED
  BY <1>1 DEF expGas

LEMMA WorksBinary ==
  ASSUME NEW m, Sound(m), ~m.stop, m.sp >= 1, NEW op \in Binary
  PROVE  Works(m, binary(m, op))
<1>1. m.sp \in Nat
  BY Depth
<1>2. CASE m.sp = 1
  BY <1>1, <1>2, WorksPop DEF binary
<1>3. CASE m.sp # 1
  <2> DEFINE a == peekAt(m, 1)
             b == peekAt(m, 2)
             p == IF op = "EXP" THEN consumeGas(pop(m, 1), expGas(m, b)) ELSE pop(m, 1)
             n == binary(m, op)
  <2>1. a \in Word /\ b \in Word
    BY <1>1, <1>3, Peeks
  <2>2. n = IF p.stop THEN p ELSE replace(p, 0, compute2(op, a, b))
    BY <1>3 DEF binary, then
  <2>3. Works(m, p) /\ p.sp = m.sp - 1
    <3>1. Works(m, pop(m, 1)) /\ pop(m, 1).sp = m.sp - 1
      BY <1>1, WorksPop
    <3>2. expGas(m, b) \in Nat
      BY <2>1, ExpGas
    <3>3. Works(pop(m, 1), consumeGas(pop(m, 1), expGas(m, b)))
          /\ consumeGas(pop(m, 1), expGas(m, b)).sp = pop(m, 1).sp
      BY <3>1, <3>2, WorksConsume DEF Works
    <3>4. Works(m, consumeGas(pop(m, 1), expGas(m, b)))
      BY <3>1, <3>3, WorksTrans
    <3> QED
      BY <3>1, <3>3, <3>4
  <2>4. compute2(op, a, b) \in Word
    BY <2>1, Binaries
  <2> HIDE DEF a, b, p, n
  <2>5. Works(p, replace(p, 0, compute2(op, a, b)))
    BY <1>1, <1>3, <2>3, <2>4, WorksReplace DEF Works
  <2>6. Works(m, n)
    BY <2>2, <2>3, <2>5, WorksTrans
  <2> QED
    BY <2>6 DEF n
<1> QED
  BY <1>2, <1>3

LEMMA WorksTernary ==
  ASSUME NEW m, Sound(m), m.sp >= 3, NEW op
  PROVE  Works(m, ternary(m, op))
<1>1. peekAt(m, 1) \in Word /\ peekAt(m, 2) \in Word /\ peekAt(m, 3) \in Word /\ 2 < m.sp
  BY Peeks, Depth
<1> QED
  BY <1>1, Ternaries, WorksReplace DEF ternary

LEMMA WorksDup ==
  ASSUME NEW m, Sound(m), NEW k \in Nat, k >= 1
  PROVE  Works(m, opDup(m, k))
<1>1. CASE m.sp < k
  BY <1>1, WorksExit DEF opDup
<1>2. CASE ~(m.sp < k)
  <2>1. peekAt(m, k) \in Word
    BY <1>2, Peeks, Depth
  <2> QED
    BY <1>2, <2>1, WorksPush DEF opDup
<1> QED
  BY <1>1, <1>2

LEMMA WorksSwap ==
  ASSUME NEW m, Sound(m), NEW k \in Nat, k >= 1
  PROVE  Works(m, opSwap(m, k))
<1> DEFINE n == opSwap(m, k)
<1>1. CASE m.sp < k + 1
  BY <1>1, WorksExit DEF opSwap
<1>2. CASE ~(m.sp < k + 1)
  <2> DEFINE a == peekAt(m, 1)
             b == peekAt(m, k + 1)
  <2>1. a \in Word /\ b \in Word
    BY <1>2, Peeks, Depth
  <2>2. n = [m EXCEPT !.slots[m.sp] = b, !.slots[m.sp - k] = a]
    BY <1>2 DEF opSwap
  <2> HIDE DEF a, b, n
  <2>3. SameBut(m, n, {"sp", "slots"}) /\ n.sp = m.sp
        /\ n.slots = [m.slots EXCEPT ![m.sp] = b, ![m.sp - k] = a]
    BY <2>2 DEF Sound, Shaped, SameBut, Fields
  <2>4. StackOK(n)
    <3>1. m.slots \in Seq(Nat) /\ m.sp \in 0 .. Len(m.slots) /\ \A i \in 1 .. m.sp : m.slots[i] \in Word
      BY DEF Sound, StackOK
    <3>2. a \in Nat /\ b \in Nat
      BY <2>1 DEF Word
    <3>3. n.slots \in Seq(Nat) /\ Len(n.slots) = Len(m.slots)
      <4> DEFINE s == [m.slots EXCEPT ![m.sp] = b]
      <4>1. s \in Seq(Nat) /\ Len(s) = Len(m.slots)
        BY <1>2, <3>1, <3>2, ExceptSeq
      <4>2. n.slots = [s EXCEPT ![m.sp - k] = a]
        BY <2>3
      <4> HIDE DEF s
      <4> QED
        <5> DEFINE i == m.sp - k
        <5>1. i \in 1 .. Len(s)
          BY <1>2, <3>1, <4>1, SMTT(60)
        <5> HIDE DEF i
        <5>2. [s EXCEPT ![i] = a] \in Seq(Nat) /\ Len([s EXCEPT ![i] = a]) = Len(s)
          BY <3>2, <4>1, <5>1, ExceptSeq
        <5> QED
          BY <4>1, <4>2, <5>2 DEF i
    <3>4. \A i \in 1 .. n.sp : n.slots[i] \in Word
      BY <2>1, <2>3, <3>1
    <3> QED
      BY <2>3, <3>1, <3>3, <3>4 DEF StackOK
  <2> QED
    BY <2>3, <2>4, WorksStack DEF n
<1> QED
  BY <1>1, <1>2

Names == {"ecrecover", "sha256h", "ripemd160h", "identity", "modExp", "bn256Add", "bn256Mul",
          "bn256Pairing", "blake2f"}

\* What the host answers: gas counters fit into a word, hashes are words, and what
\* cryptography makes is bytes.
Hosted ==
  /\ GasWord <= tt256
  /\ \A b \in Seq(Octets) : Keccak(b) \in Word
  /\ \A name \in Names, b \in Seq(Octets) : Digest(name, b) \in Bytes

LEMMA WordNat == \A x \in Word : x \in Nat /\ \A y \in Nat : y <= x => y \in Word
  BY Widths DEF Word

LEMMA Contexts ==
  ASSUME NEW m, Sound(m), Hosted, m.ip \in 0 .. Len(m.code) - 1, NEW op \in EnvOps \cup SizeOps
  PROVE  context(m, op) \in Word
<1>1. m.value = NilValue \/ m.value \in Word
  BY DEF Sound, ContractOK
<1>2. Len(m.input) \in Word /\ Len(m.returnData) \in Word
  BY BytesAre DEF Sound, ContractOK
<1>3. Len(m.code) \in Word
  BY DEF Sound, ContractOK, IsCode
<1>4. m.ip \in Word
  BY <1>3, WordNat
<1>5. m.len \in Word
  <2>1. /\ m.len \in Nat /\ m.len <= 2 * MemLimit + WordBytes - 1 /\ MemLimit \in Nat
        /\ 2 * MemLimit + WordBytes < tt256
    BY MachineConstants DEF Sound, MemoryOK
  <2> QED
    BY <2>1, WordConstants, Widths DEF Word
<1>6. m.gas \in Word
  BY GasWords, Widths DEF Sound, GasOK, Hosted, Word
<1>7. op \in EnvOps => HostWord(op, 0) \in Word
  BY Zero, Deployed
<1>8. op \in {"CALLVALUE", "CALLDATASIZE", "CODESIZE", "RETURNDATASIZE", "PC", "MSIZE", "GAS"}
      => context(m, op) \in Word
  BY <1>1, <1>2, <1>3, <1>4, <1>5, <1>6, Zero DEF context
<1>9. op \notin {"CALLVALUE", "CALLDATASIZE", "CODESIZE", "RETURNDATASIZE", "PC", "MSIZE", "GAS"}
      => op \in EnvOps /\ context(m, op) = HostWord(op, 0)
  BY DEF context, SizeOps
<1> QED
  BY <1>7, <1>8, <1>9

LEMMA Addresses == ASSUME NEW x \in Word PROVE addressOf(x) \in Word
<1>1. x \in Nat /\ AddressSpan \in Nat \ {0}
  BY MachineConstants DEF Word
<1>2. x % AddressSpan \in 0 .. x
  BY <1>1, Division
<1> QED
  BY <1>1, <1>2, WordNat DEF addressOf

LEMMA AnswersAre ==
  ASSUME NEW op \in QueryOps, NEW x \in Word
  PROVE  answer(op, x) \in Word
<1>1. \A y \in Word : HostWord(op, y) \in Word
  BY Deployed
<1>2. HostWord("BLOCKHASH", x) \in Word
  BY Deployed DEF QueryOps
<1>3. blockHash(x) \in Word
  BY <1>2, Zero DEF blockHash
<1>4. HostWord(op, x) \in Word /\ HostWord(op, addressOf(x)) \in Word
  BY <1>1, Addresses
<1> QED
  BY <1>3, <1>4, Zero DEF answer

LEMMA WorksQuery ==
  ASSUME NEW m, Sound(m), ~m.stop, m.sp >= 1, NEW op \in QueryOps
  PROVE  Works(m, query(m, op))
<1> DEFINE p == consumeGas(m, queryGas(m, op))
           x == answer(op, peekAt(p, 1))
           n == query(m, op)
<1>1. queryGas(m, op) \in Nat
  BY DEF queryGas, QueryOps
<1>2. Works(m, p) /\ p.sp = m.sp /\ Sound(p)
  BY <1>1, WorksConsume DEF Works
<1>3. n = IF p.stop THEN p ELSE replace(p, 0, x)
  BY DEF query, then
<1>4. peekAt(p, 1) \in Word /\ 0 < p.sp
  BY <1>2, Peeks, Depth
<1>5. x \in Word
  BY <1>4, AnswersAre
<1> HIDE DEF p, x, n
<1>6. Works(p, replace(p, 0, x))
  BY <1>2, <1>4, <1>5, WorksReplace
<1>7. Works(m, n)
  BY <1>2, <1>3, <1>6, WorksTrans
<1> QED
  BY <1>7 DEF n

LEMMA WorksCallDataLoad ==
  ASSUME NEW m, Sound(m), m.sp >= 1
  PROVE  Works(m, opCallDataLoad(m))
<1> DEFINE b == setBytes(m.input, WordBytes, peekAt(m, 1))
<1>1. peekAt(m, 1) \in Word /\ 0 < m.sp
  BY Peeks, Depth
<1>2. m.input \in Seq(Octets)
  BY BytesAre DEF Sound, ContractOK
<1>3. b \in Seq(Octets) /\ Len(b) = WordBytes
  <2>1. peekAt(m, 1) \in Nat /\ WordBytes \in Nat
    BY <1>1, WordNat, WordConstants
  <2> QED
    BY <1>2, <2>1, SetBytes
<1> HIDE DEF b
<1>4. fromBytes(b) \in Word
  BY <1>3, FromBytes, WordConstants DEF Octets
<1> QED
  BY <1>1, <1>4, WorksReplace DEF opCallDataLoad, b

LEMMA BytesAt ==
  ASSUME NEW m, Sound(m), NEW o \in Nat, NEW size \in Nat, size = 0 \/ o + size <= m.len
  PROVE  /\ bytesAt(m, o, size) \in Seq(Octets) /\ Len(bytesAt(m, o, size)) = size
         /\ size <= MemLimit => bytesAt(m, o, size) \in Bytes
<1>1. m.memory \in Seq(Octets) /\ m.len \in 0 .. Len(m.memory)
  BY DEF Sound, MemoryOK
<1>2. bytesAt(m, o, size) \in Seq(Octets) /\ Len(bytesAt(m, o, size)) = size
  <2>1. CASE size = 0
    BY <2>1 DEF bytesAt
  <2>2. CASE size # 0
    <3>1. o + 1 \in Nat \ {0} /\ o + size \in Nat /\ o + size <= Len(m.memory)
      BY <1>1, <2>2
    <3>2. /\ SubSeq(m.memory, o + 1, o + size) \in Seq(Octets)
          /\ Len(SubSeq(m.memory, o + 1, o + size)) = size
      BY <1>1, <2>2, <3>1, Slice
    <3> QED
      BY <2>2, <3>2 DEF bytesAt
  <2> QED
    BY <2>1, <2>2
<1>3. size <= MemLimit => size \in Word
  BY MachineConstants, WordConstants, Widths DEF Word
<1> QED
  BY <1>2, <1>3, BytesAre

LEMMA WorksMload ==
  ASSUME NEW m, Sound(m), ~m.stop, m.sp >= 1
  PROVE  Works(m, opMload(m))
<1> DEFINE o == peekAt(m, 1)
           q == pop(m, 1)
           p == checkMemory(q, o, WordBytes)
           b == bytesAt(p, o, WordBytes)
           n == opMload(m)
<1>1. o \in Nat /\ m.sp \in Nat
  BY Peeks, Depth DEF Word
<1>2. Works(m, q) /\ ~q.stop /\ Sound(q)
  BY <1>1, WorksPop DEF Works
<1>3. n = IF p.stop THEN p ELSE push(p, fromBytes(b))
  BY DEF opMload, then
<1> HIDE DEF q, o
<1>4. Works(q, p) /\ Sound(p) /\ (~p.stop => o + WordBytes <= p.len)
  BY <1>1, <1>2, WorksCheck, WordConstants DEF Works
<1>5. Works(m, p)
  BY <1>2, <1>4, WorksTrans
<1> HIDE DEF p
<1>6. ~p.stop => b \in Seq(Octets) /\ Len(b) = WordBytes
  BY <1>1, <1>4, BytesAt, WordConstants
<1> HIDE DEF n, b
<1>7. ~p.stop => fromBytes(b) \in Word
  BY <1>6, FromBytes, WordConstants DEF Octets
<1>8. ~p.stop => Works(p, push(p, fromBytes(b)))
  BY <1>4, <1>7, WorksPush
<1>9. Works(m, n)
  BY <1>3, <1>5, <1>8, WorksTrans
<1> QED
  BY <1>9 DEF n

\* What is stored has its place in the memory.
LEMMA WorksChecked ==
  ASSUME NEW m, Sound(m), ~m.stop, NEW o \in Nat, NEW size \in Nat,
         NEW b \in Seq(Octets), Len(b) = size
  PROVE  LET p == checkMemory(m, o, size)
         IN  Works(m, IF p.stop THEN p ELSE store(p, o, b))
<1> DEFINE p == checkMemory(m, o, size)
<1>1. Works(m, p) /\ Sound(p) /\ (~p.stop => size = 0 \/ o + size <= p.len)
  BY WorksCheck DEF Works
<1> HIDE DEF p
<1>2. ~p.stop => Works(p, store(p, o, b))
  BY <1>1, WorksStore
<1>3. Works(m, IF p.stop THEN p ELSE store(p, o, b))
  BY <1>1, <1>2, WorksTrans
<1> QED
  BY <1>3 DEF p

LEMMA WorksMStore ==
  ASSUME NEW m, Sound(m), ~m.stop, m.sp >= 2
  PROVE  Works(m, opMStore(m)) /\ Works(m, opMStore8(m))
<1> DEFINE o == peekAt(m, 1)
           x == peekAt(m, 2)
           q == pop(m, 2)
           p == checkMemory(q, o, WordBytes)
           p8 == checkMemory(q, o, 1)
<1>1. o \in Nat /\ x \in Nat /\ m.sp \in Nat
  BY Peeks, Depth DEF Word
<1>2. Works(m, q) /\ ~q.stop /\ Sound(q)
  BY <1>1, WorksPop DEF Works
<1>3. opMStore(m) = IF p.stop THEN p ELSE store(p, o, toBytes(x))
  BY DEF opMStore, then
<1>4. opMStore8(m) = IF p8.stop THEN p8 ELSE store(p8, o, <<x % Byte>>)
  BY DEF opMStore8, then
<1> HIDE DEF q, o, x
<1>5. toBytes(x) \in Seq(Octets) /\ Len(toBytes(x)) = WordBytes
  BY <1>1, ToBytes
<1>6. <<x % Byte>> \in Seq(Octets) /\ Len(<<x % Byte>>) = 1
  <2>1. x % Byte \in Octets
    BY <1>1, Widths DEF Octets
  <2> QED
    BY <2>1
<1>7. Works(q, opMStore(m))
  BY <1>1, <1>2, <1>3, <1>5, WorksChecked, WordConstants
<1>8. Works(q, opMStore8(m))
  BY <1>1, <1>2, <1>4, <1>6, WorksChecked
<1> QED
  BY <1>2, <1>7, <1>8, WorksTrans

LEMMA WordsOf == ASSUME NEW n \in Nat PROVE wordsOf(n) \in Nat
  BY WholeWords

LEMMA WorksSha3 ==
  ASSUME NEW m, Sound(m), ~m.stop, m.sp >= 2, Hosted
  PROVE  Works(m, opSha3(m))
<1> DEFINE o == peekAt(m, 1)
           size == peekAt(m, 2)
           r == pop(m, 2)
           p == checkMemory(r, o, size)
           q == consumeGas(p, wordsOf(size) * 6)
           v == Keccak(bytesAt(q, o, size))
           n == opSha3(m)
<1>1. o \in Nat /\ size \in Nat /\ m.sp \in Nat
  BY Peeks, Depth DEF Word
<1>2. Works(m, r) /\ ~r.stop /\ Sound(r)
  BY <1>1, WorksPop DEF Works
<1>3. n = IF p.stop THEN p ELSE IF q.stop THEN q ELSE push(q, v)
  BY DEF opSha3, then
<1> HIDE DEF o, size, r
<1>4. Works(r, p) /\ Sound(p) /\ (~p.stop => size = 0 \/ o + size <= p.len)
  BY <1>1, <1>2, WorksCheck DEF Works
<1>5. Works(m, p)
  BY <1>2, <1>4, WorksTrans
<1> HIDE DEF p
<1>6. wordsOf(size) * 6 \in Nat
  BY <1>1, WordsOf
<1>7. Works(p, q) /\ Sound(q) /\ q.len = p.len
  BY <1>4, <1>6, WorksConsume DEF Works
<1>8. Works(m, q)
  BY <1>5, <1>7, WorksTrans
<1> HIDE DEF q
<1>9. ~p.stop => bytesAt(q, o, size) \in Seq(Octets)
  BY <1>1, <1>4, <1>7, BytesAt
<1>10. ~p.stop => v \in Word
  BY <1>9 DEF Hosted
<1> HIDE DEF v, n
<1>11. ~p.stop => Works(q, push(q, v))
  BY <1>7, <1>10, WorksPush
<1>12. Works(m, n)
  BY <1>3, <1>5, <1>8, <1>11, WorksTrans
<1> QED
  BY <1>12 DEF n

LEMMA WorksCopyTo ==
  ASSUME NEW m, Sound(m), ~m.stop, NEW o \in Nat, NEW size \in Nat, NEW extra \in Nat
  PROVE  LET p == copyTo(m, o, size, extra)
         IN  Works(m, p) /\ p.sp = m.sp /\ (~p.stop => size = 0 \/ o + size <= p.len)
<1> DEFINE p == checkMemory(m, o, size)
           q == consumeGas(p, wordsOf(size) * 3)
           r == consumeGas(q, extra)
           n == copyTo(m, o, size, extra)
<1>1. n = IF p.stop THEN p ELSE IF q.stop THEN q ELSE r
  BY DEF copyTo, then
<1>2. Works(m, p) /\ Sound(p) /\ p.sp = m.sp /\ (~p.stop => size = 0 \/ o + size <= p.len)
  BY WorksCheck DEF Works
<1> HIDE DEF p
<1>3. wordsOf(size) * 3 \in Nat
  BY WordsOf
<1>4. Works(p, q) /\ Sound(q) /\ q.sp = p.sp /\ q.len = p.len
  BY <1>2, <1>3, WorksConsume DEF Works
<1>5. Works(m, q)
  BY <1>2, <1>4, WorksTrans
<1> HIDE DEF q
<1>6. Works(q, r) /\ r.sp = q.sp /\ r.len = q.len
  BY <1>4, WorksConsume
<1>7. Works(m, r)
  BY <1>5, <1>6, WorksTrans
<1> HIDE DEF r, n
<1>8. (n = p /\ n.stop) \/ (n = q /\ ~p.stop /\ n.stop) \/ (n = r /\ ~p.stop)
  <2>1. p.stop \in BOOLEAN /\ q.stop \in BOOLEAN
    BY <1>2, <1>4, Depth
  <2> QED
    BY <1>1, <2>1
<1>9. Works(m, n) /\ n.sp = m.sp /\ (~n.stop => size = 0 \/ o + size <= n.len)
  BY <1>2, <1>4, <1>5, <1>6, <1>7, <1>8
<1> QED
  BY <1>9 DEF n

LEMMA CodeAt ==
  ASSUME NEW a
  PROVE  IsCode(codeAt(a))
<1>1. a \in DOMAIN Contracts => IsCode(codeAt(a))
  BY Deployed DEF codeAt
<1>2. a \notin DOMAIN Contracts => codeAt(a) = << >>
  BY DEF codeAt
<1>3. IsCode(<< >>)
  BY Zero DEF IsCode
<1> QED
  BY <1>1, <1>2, <1>3

LEMMA WorksCopy ==
  ASSUME NEW m, Sound(m), ~m.stop, NEW op \in CopyOps,
         m.sp >= (IF op = "EXTCODECOPY" THEN 4 ELSE 3)
  PROVE  Works(m, opCopy(m, op))
<1> DEFINE k == IF op = "EXTCODECOPY" THEN 1 ELSE 0
           o == peekAt(m, k + 1)
           size == peekAt(m, k + 3)
           from == peekAt(m, k + 2)
           input == CASE op = "CALLDATACOPY" -> m.input
                      [] op = "CODECOPY" -> dataOf(m.code)
                      [] op = "EXTCODECOPY" -> dataOf(codeAt(addressOf(peekAt(m, 1))))
           extra == IF k = 0 THEN 0 ELSE IF active(m, "EIP150") THEN 700 ELSE 20
           q == pop(m, k + 3)
           p == copyTo(q, o, size, extra)
           n == opCopy(m, op)
<1>1. k \in {0, 1} /\ k + 3 <= m.sp /\ m.sp \in Nat /\ extra \in Nat
  BY Depth
<1>2. n = IF p.stop THEN p ELSE store(p, o, setBytes(input, size, from))
  BY DEF opCopy, then
<1>3. input \in Seq(Octets)
  <2>1. m.input \in Seq(Octets) /\ dataOf(m.code) \in Seq(Octets)
    BY BytesAre, DataOf DEF Sound, ContractOK
  <2>2. dataOf(codeAt(addressOf(peekAt(m, 1)))) \in Seq(Octets)
    BY CodeAt, DataOf
  <2> QED
    BY <2>1, <2>2 DEF CopyOps
<1> HIDE DEF k, extra, input
<1>4. o \in Nat /\ size \in Nat /\ from \in Nat
  <2>1. k + 1 \in Nat /\ k + 2 \in Nat /\ k + 3 \in Nat /\ 1 <= k + 1 /\ k + 1 <= m.sp
        /\ 1 <= k + 2 /\ k + 2 <= m.sp /\ 1 <= k + 3 /\ k + 3 <= m.sp
    BY <1>1
  <2> QED
    BY <2>1, Peeks, WordNat
<1> HIDE DEF o, size, from, n
<1>5. Works(m, q) /\ Sound(q) /\ ~q.stop
  <2>1. k + 3 \in Nat
    BY <1>1
  <2> QED
    BY <1>1, <2>1, WorksPop DEF Works
<1> HIDE DEF q
<1>6. Works(q, p) /\ Sound(p) /\ (~p.stop => size = 0 \/ o + size <= p.len)
  BY <1>1, <1>4, <1>5, WorksCopyTo DEF Works
<1>7. Works(m, p)
  BY <1>5, <1>6, WorksTrans
<1> HIDE DEF p
<1>8. ~p.stop => Works(p, store(p, o, setBytes(input, size, from)))
  <2>1. /\ setBytes(input, size, from) \in Seq(Octets)
        /\ Len(setBytes(input, size, from)) = size
    BY <1>3, <1>4, SetBytes
  <2> QED
    BY <1>4, <1>6, <2>1, WorksStore
<1>9. Works(m, n)
  BY <1>2, <1>7, <1>8, WorksTrans
<1> QED
  BY <1>9 DEF n

LEMMA WorksJumpTo ==
  ASSUME NEW m, Sound(m), NEW dest \in Nat
  PROVE  Works(m, jumpTo(m, dest))
<1>1. CASE validJumpdest(m, dest)
  <2>1. dest - 1 \in Int /\ dest - 1 >= -1
    OBVIOUS
  <2> QED
    BY <1>1, <2>1, WorksMove DEF jumpTo
<1>2. CASE ~validJumpdest(m, dest)
  BY <1>2, WorksExit DEF jumpTo
<1> QED
  BY <1>1, <1>2

LEMMA WorksJump ==
  ASSUME NEW m, Sound(m), m.sp >= 1
  PROVE  Works(m, opJump(m))
<1>1. peekAt(m, 1) \in Nat /\ m.sp \in Nat
  BY Peeks, Depth, WordNat
<1>2. Works(m, pop(m, 1)) /\ Sound(pop(m, 1))
  BY <1>1, WorksPop DEF Works
<1>3. Works(pop(m, 1), jumpTo(pop(m, 1), peekAt(m, 1)))
  BY <1>1, <1>2, WorksJumpTo
<1> QED
  BY <1>2, <1>3, WorksTrans DEF opJump

LEMMA WorksJumpi ==
  ASSUME NEW m, Sound(m), m.sp >= 2
  PROVE  Works(m, opJumpi(m))
<1>1. peekAt(m, 1) \in Nat /\ m.sp \in Nat
  BY Peeks, Depth, WordNat
<1>2. Works(m, pop(m, 2)) /\ Sound(pop(m, 2))
  BY <1>1, WorksPop DEF Works
<1>3. Works(pop(m, 2), jumpTo(pop(m, 2), peekAt(m, 1)))
  BY <1>1, <1>2, WorksJumpTo
<1>4. Works(m, jumpTo(pop(m, 2), peekAt(m, 1)))
  BY <1>2, <1>3, WorksTrans
<1> QED
  BY <1>2, <1>4 DEF opJumpi

LEMMA WorksLog ==
  ASSUME NEW m, Sound(m), ~m.stop, NEW k \in Nat
  PROVE  Works(m, opLog(m, k))
<1>1. CASE m.static \/ m.sp < 2 + k
  BY <1>1, WorksExit DEF opLog
<1>2. CASE ~(m.static \/ m.sp < 2 + k)
  <2> DEFINE o == peekAt(m, 1)
             size == peekAt(m, 2)
             r == pop(m, 2 + k)
             p == checkMemory(r, o, size)
             q == consumeGas(p, k * 375)
             s == consumeGas(q, size * 8)
             n == opLog(m, k)
  <2>1. m.sp \in Nat /\ 2 + k <= m.sp
    BY <1>2, Depth
  <2>2. o \in Nat /\ size \in Nat
    BY <2>1, Peeks, WordNat
  <2>3. n = IF p.stop THEN p ELSE IF q.stop THEN q ELSE s
    BY <1>2 DEF opLog, then
  <2> HIDE DEF o, size, n
  <2>4. Works(m, r) /\ Sound(r) /\ ~r.stop
    <3>1. 2 + k \in Nat
      OBVIOUS
    <3> QED
      BY <2>1, <3>1, WorksPop DEF Works
  <2> HIDE DEF r
  <2>5. Works(r, p) /\ Sound(p)
    BY <2>2, <2>4, WorksCheck DEF Works
  <2>6. Works(m, p)
    BY <2>4, <2>5, WorksTrans
  <2> HIDE DEF p
  <2>7. k * 375 \in Nat /\ size * 8 \in Nat
    BY <2>2
  <2>8. Works(p, q) /\ Sound(q)
    BY <2>5, <2>7, WorksConsume DEF Works
  <2>9. Works(m, q)
    BY <2>6, <2>8, WorksTrans
  <2> HIDE DEF q
  <2>10. Works(q, s)
    BY <2>7, <2>8, WorksConsume
  <2>11. Works(m, s)
    BY <2>9, <2>10, WorksTrans
  <2>12. Works(m, n)
    BY <2>3, <2>6, <2>9, <2>11
  <2> QED
    BY <2>12 DEF n
<1> QED
  BY <1>1, <1>2

LEMMA WorksHalting ==
  ASSUME NEW m, Sound(m), ~m.stop, m.sp >= 2, NEW op
  PROVE  Works(m, opHalt(m, op))
<1> DEFINE o == peekAt(m, 1)
           size == peekAt(m, 2)
           r == pop(m, 2)
           p == checkMemory(r, o, size)
           q == IF op = "REVERT" THEN exit(p, "errRevert") ELSE halt(p)
           b == bytesAt(p, o, size)
           n == opHalt(m, op)
<1>1. o \in Nat /\ size \in Nat /\ m.sp \in Nat
  BY Peeks, Depth, WordNat
<1>2. n = IF p.stop THEN p ELSE [q EXCEPT !.ret = b]
  BY DEF opHalt, then
<1> HIDE DEF o, size, n
<1>3. Works(m, r) /\ Sound(r) /\ ~r.stop
  BY <1>1, WorksPop DEF Works
<1> HIDE DEF r
<1>4. /\ Works(r, p) /\ Sound(p)
      /\ ~p.stop => size = 0 \/ (o + size <= p.len /\ size <= MemLimit)
  BY <1>1, <1>3, WorksCheck DEF Works
<1>5. Works(m, p)
  BY <1>3, <1>4, WorksTrans
<1> HIDE DEF p
<1>6. ~p.stop => b \in Bytes
  <2>1. size = 0 => size <= MemLimit
    BY MachineConstants
  <2> QED
    BY <1>1, <1>4, <2>1, BytesAt
<1> HIDE DEF b
<1>7. Works(p, q) /\ Sound(q)
  BY <1>4, WorksExit, WorksHalt DEF Works
<1> HIDE DEF q
<1>8. ~p.stop => Works(q, [q EXCEPT !.ret = b])
  BY <1>6, <1>7, WorksAnswer
<1>9. Works(m, q)
  BY <1>5, <1>7, WorksTrans
<1>10. ~p.stop => Works(m, [q EXCEPT !.ret = b])
  BY <1>8, <1>9, WorksTrans
<1>11. Works(m, n)
  BY <1>2, <1>5, <1>10
<1> QED
  BY <1>11 DEF n

-----------------------------------------------------------------------------
(* Between two instructions.  A push that has run off the end of the code may have *)
(* left a number that is no word: the machine stops before anything reads it.      *)

Loose(m) ==
  /\ m.slots \in Seq(Nat) /\ m.sp \in 0 .. Len(m.slots)
  /\ \A i \in 1 .. m.sp : m.slots[i] \in Word \/ (i = m.sp /\ m.ip >= Len(m.code))

Resting(m) == Shaped(m) /\ Loose(m) /\ MemoryOK(m) /\ GasOK(m) /\ ContractOK(m)

\* m becomes n in an instruction.
Leaves(m, n) == Resting(n) /\ SameBut(m, n, Work) /\ n.len >= m.len

LEMMA Rests == ASSUME NEW m, Sound(m) PROVE Resting(m)
  BY DEF Sound, Resting, StackOK, Loose

LEMMA Wakes ==
  ASSUME NEW m, Resting(m), m.ip < Len(m.code)
  PROVE  Sound(m)
<1>1. m.ip \in Int /\ Len(m.code) \in Nat
  BY WordNat DEF Resting, ContractOK, IsCode
<1> QED
  BY <1>1 DEF Sound, Resting, StackOK, Loose

LEMMA WorksLeaves == ASSUME NEW m, NEW n, Works(m, n) PROVE Leaves(m, n)
  BY Rests DEF Works, Leaves

LEMMA LeavesPush ==
  ASSUME NEW m, Sound(m), NEW k \in Nat, k <= WordBytes, m.ip \in 0 .. Len(m.code) - 1
  PROVE  Leaves(m, opPush(m, k))
<1> DEFINE code == dataOf(m.code)
           rest == SubSeq(code, m.ip + 2, Len(m.code))
           zeros == [i \in 1 .. k |-> 0]
           bytes == IF Len(rest) < k THEN rest \o zeros ELSE SubSeq(rest, 1, k)
           v == fromBytes(bytes)
           p == push(m, v)
           n == opPush(m, k)
<1>1. n = [p EXCEPT !.ip = p.ip + k]
  BY DEF opPush
<1>2. code \in Seq(Octets) /\ Len(code) = Len(m.code) /\ Len(m.code) \in Nat /\ m.ip \in Nat
  BY DataOf, WordNat DEF Sound, ContractOK
<1> HIDE DEF code
<1>3. rest \in Seq(Octets) /\ Len(rest) = IF m.ip + 2 <= Len(m.code) THEN Len(m.code) - m.ip - 1 ELSE 0
  <2>1. m.ip + 2 \in Nat \ {0}
    BY <1>2
  <2>2. Len(rest) = IF m.ip + 2 <= Len(m.code) THEN Len(m.code) - (m.ip + 2) + 1 ELSE 0
    BY <1>2, <2>1, Slice
  <2>3. rest \in Seq(Octets)
    BY <1>2, <2>1, Slice
  <2> QED
    BY <1>2, <2>2, <2>3
<1> HIDE DEF rest
<1>4. zeros \in Seq(Octets)
  <2>1. zeros = [i \in 1 .. k |-> zeros[i]] /\ \A i \in 1 .. k : zeros[i] \in Octets
    BY Zero
  <2> HIDE DEF zeros
  <2> QED
    BY <2>1, Array
<1> HIDE DEF zeros
<1>5. bytes \in Seq(Octets) /\ (Len(rest) >= k => Len(bytes) <= WordBytes)
  <2>1. Len(rest) \in Nat
    BY <1>3
  <2>2. CASE Len(rest) < k
    BY <1>3, <1>4, <2>1, <2>2, Joined
  <2>3. CASE ~(Len(rest) < k)
    <3>1. SubSeq(rest, 1, k) \in Seq(Octets) /\ Len(SubSeq(rest, 1, k)) <= k
      BY <1>3, <2>1, <2>3, Slice
    <3>2. bytes = SubSeq(rest, 1, k)
      BY <2>3
    <3> HIDE DEF bytes
    <3> QED
      BY <3>1, <3>2, WordConstants
  <2> QED
    BY <2>2, <2>3
<1> HIDE DEF bytes
<1>6. v \in Nat /\ (Len(rest) >= k => v \in Word)
  BY <1>5, FromBytes DEF Octets
<1> HIDE DEF v
<1>7. CASE Len(rest) >= k
  <2>1. Works(m, p) /\ Sound(p)
    BY <1>6, <1>7, WorksPush DEF Works
  <2>2. p.ip = m.ip
    BY <2>1 DEF Works, SameBut, Fields, ContractOK, push
  <2> HIDE DEF p
  <2>3. p.ip + k \in Int /\ p.ip + k >= -1
    BY <1>2, <2>2
  <2>4. Works(p, [p EXCEPT !.ip = p.ip + k])
    BY <2>1, <2>3, WorksMove
  <2>5. Works(m, n)
    BY <1>1, <2>1, <2>4, WorksTrans
  <2> QED
    BY <2>5, WorksLeaves DEF n
<1>8. CASE ~(Len(rest) >= k)
  <2>1. /\ SameBut(m, p, {"sp", "slots"}) /\ p.sp = m.sp + 1
        /\ p.slots = IF Len(m.slots) > m.sp THEN [m.slots EXCEPT ![m.sp + 1] = v]
                     ELSE Append(m.slots, v)
    BY Pushes DEF Sound
  <2> HIDE DEF p
  <2>2. p.ip = m.ip /\ Shaped(p)
    BY <2>1 DEF SameBut, Fields
  <2>3. SameBut(p, n, {"ip"}) /\ n.ip = m.ip + k
    BY <1>1, <2>2, Moves, ZenonT(60)
  <2> HIDE DEF n
  <2>4. SameBut(m, n, {"sp", "slots", "ip"})
    <3>1. {"sp", "slots"} \cup {"ip"} = {"sp", "slots", "ip"}
      OBVIOUS
    <3>2. SameBut(m, n, {"sp", "slots"} \cup {"ip"})
      BY <2>1, <2>3, SameButTrans
    <3> QED
      BY <3>1, <3>2
  <2>5. n.slots = p.slots /\ n.sp = p.sp
    BY <2>3 DEF SameBut, Fields
  <2>6. /\ n.code = m.code /\ n.input = m.input /\ n.returnData = m.returnData
        /\ n.ret = m.ret /\ n.value = m.value /\ n.stop = m.stop
    BY <2>4 DEF SameBut, Fields
  <2>7. n.ip >= Len(n.code)
    BY <1>2, <1>3, <1>8, <2>3, <2>6
  <2>8. Loose(n)
    <3>1. m.slots \in Seq(Nat) /\ m.sp \in 0 .. Len(m.slots) /\ \A i \in 1 .. m.sp : m.slots[i] \in Word
      BY DEF Sound, StackOK
    <3>2. CASE Len(m.slots) > m.sp
      <4>1. n.slots = [m.slots EXCEPT ![m.sp + 1] = v]
        BY <2>1, <2>5, <3>2
      <4>2. n.slots \in Seq(Nat) /\ Len(n.slots) = Len(m.slots)
        BY <1>6, <3>1, <3>2, <4>1
      <4>3. \A i \in 1 .. m.sp : n.slots[i] \in Word
        BY <3>1, <3>2, <4>1
      <4> QED
        BY <2>1, <2>5, <2>7, <3>1, <3>2, <4>2, <4>3, SMTT(60) DEF Loose
    <3>3. CASE ~(Len(m.slots) > m.sp)
      <4>1. n.slots = Append(m.slots, v) /\ m.sp = Len(m.slots)
        BY <2>1, <2>5, <3>1, <3>3
      <4>2. n.slots \in Seq(Nat) /\ Len(n.slots) = Len(m.slots) + 1
        BY <1>6, <3>1, <4>1
      <4>3. \A i \in 1 .. m.sp : n.slots[i] \in Word
        BY <3>1, <4>1
      <4> QED
        BY <2>1, <2>5, <2>7, <3>1, <4>1, <4>2, <4>3 DEF Loose
    <3> QED
      BY <3>2, <3>3
  <2>9. MemoryOK(n) /\ n.len = m.len /\ GasOK(n)
    BY <2>4, <2>6, MemoryKept, GasKept DEF Sound
  <2>10. ContractOK(n)
    BY <1>2, <2>3, <2>6 DEF Sound, ContractOK
  <2>11. SameBut(m, n, Work)
    BY <2>4, SameButMore DEF Work
  <2>12. Leaves(m, n)
    BY <2>8, <2>9, <2>10, <2>11 DEF Leaves, Resting, SameBut, MemoryOK
  <2> QED
    BY <2>12 DEF n
<1>9. Len(rest) \in Nat
  BY <1>3
<1> QED
  BY <1>7, <1>8

\* The gas of the instruction.
LEMMA Charging ==
  ASSUME NEW m, Sound(m), opOf(m) \in DOMAIN dispatchTable, m.gas >= dispatchTable[opOf(m)].gas
  PROVE  /\ Sound(charged(m)) /\ SameBut(m, charged(m), {"gas", "spent"})
         /\ charged(m).gas <= m.gas
<1> DEFINE g == dispatchTable[opOf(m)].gas
           n == charged(m)
<1>1. g \in Nat
  BY TableRows
<1>2. n = [m EXCEPT !.gas = m.gas - g, !.spent = m.spent + g]
  BY DEF charged
<1> HIDE DEF g, n
<1>3. SameBut(m, n, {"gas", "spent"}) /\ n.gas = m.gas - g /\ n.spent = m.spent + g
  BY <1>2 DEF Sound, Shaped, SameBut, Fields
<1>4. /\ n.stop = m.stop /\ n.len = m.len /\ n.lastGasCost = m.lastGasCost
      /\ n.given = m.given
  BY <1>3 DEF SameBut, Fields
<1>5. StackOK(n) /\ MemoryOK(n) /\ ContractOK(n)
  BY <1>3, <1>4, StackKept, MemoryKept, ContractKept DEF Sound, ContractOK
<1>6. m.gas \in 0 .. GasWord - 1 /\ m.spent \in Nat /\ m.gas >= g
  BY DEF Sound, GasOK, g
<1>7. n.gas \in 0 .. GasWord - 1 /\ n.spent \in Nat /\ n.gas + n.spent = m.gas + m.spent
  BY <1>1, <1>3, <1>6, GasWords
<1>8. GasOK(n)
  <2>1. dueFor(m.len \div WordBytes) \in Nat
    BY Due, MemoryWords DEF Sound
  <2> QED
    BY <1>4, <1>6, <1>7, <2>1 DEF Sound, GasOK, Paid
<1> QED
  BY <1>1, <1>3, <1>5, <1>6, <1>8, GasWords DEF Sound, SameBut, n

-----------------------------------------------------------------------------
(* The machine of a contract.                                              *)

\* What a contract's instructions never touch: the jump destinations are those of its
\* own code, and return data comes from its own calls.
Placed(m) ==
  /\ m.bitmap = setCode(m.code)
  /\ ~m.called => m.returnData = << >>
  /\ CallsPaid => tt64 + CallMost <= GasWord \/ "EIP150" \in m.config

Frame(m) ==
  /\ Resting(m) /\ Placed(m)
  /\ m.sp > StackSize => m.stop
  /\ ~m.stop => m.ip >= 0

LEMMA RestingExit ==
  ASSUME NEW m, Resting(m), NEW n, NEW F, SameBut(m, n, F), F \subseteq {"stop", "err"},
         n.stop, n.stop \in BOOLEAN
  PROVE  Resting(n)
<1>1. SameBut(m, n, {"stop", "err"})
  BY SameButMore
<1>2. n.slots = m.slots /\ n.sp = m.sp /\ n.ip = m.ip /\ n.code = m.code
  BY <1>1 DEF SameBut, Fields
<1>3. Loose(n)
  BY <1>2 DEF Resting, Loose
<1>4. MemoryOK(n)
  BY <1>1, MemoryKept DEF Resting
<1>5. GasOK(n)
  BY <1>1, GasKept DEF Resting
<1>6. ContractOK(n)
  BY <1>1, ContractKept DEF Resting
<1> QED
  BY <1>1, <1>3, <1>4, <1>5, <1>6 DEF Resting, SameBut

LEMMA Stepping ==
  ASSUME NEW m, Resting(m), Placed(m)
  PROVE  Frame(stepped(m)) /\ SameBut(m, stepped(m), {"ip", "stop", "err"})
<1> DEFINE n == stepped(m)
<1>1. m.sp \in Nat /\ m.ip \in Int /\ m.ip >= -1 /\ m.stop \in BOOLEAN /\ Len(m.code) \in Nat
      /\ StackSize \in Nat
  BY WordNat, MachineConstants DEF Resting, Loose, ContractOK, IsCode
<1>2. CASE m.sp > StackSize
  <2>1. n = exit(m, "errStackOverflow")
    BY <1>2 DEF stepped
  <2>2. SameBut(m, n, {"stop", "err"}) /\ n.stop /\ n.stop \in BOOLEAN
    BY <2>1, Exits DEF Resting
  <2> HIDE DEF n
  <2>3. Resting(n)
    BY <2>2, RestingExit
  <2>4. /\ n.bitmap = m.bitmap /\ n.code = m.code /\ n.called = m.called
        /\ n.returnData = m.returnData /\ n.config = m.config
    BY <2>2 DEF SameBut, Fields
  <2>5. SameBut(m, n, {"ip", "stop", "err"})
    BY <2>2, SameButMore
  <2> QED
    BY <2>2, <2>3, <2>4, <2>5 DEF Frame, Placed, n
<1>3. CASE ~(m.sp > StackSize)
  <2>1. n = [m EXCEPT !.ip = m.ip + 1]
    BY <1>3 DEF stepped
  <2> HIDE DEF n
  <2>2. SameBut(m, n, {"ip"}) /\ n.ip = m.ip + 1
    BY <2>1, Moves DEF Resting
  <2>3. /\ n.bitmap = m.bitmap /\ n.code = m.code /\ n.called = m.called /\ n.value = m.value
        /\ n.returnData = m.returnData /\ n.config = m.config /\ n.slots = m.slots
        /\ n.sp = m.sp /\ n.stop = m.stop /\ n.input = m.input /\ n.ret = m.ret
    BY <2>2 DEF SameBut, Fields
  <2>4. Loose(n)
    <3>1. n.ip >= m.ip
      BY <1>1, <2>2
    <3>2. m.ip >= Len(m.code) => n.ip >= Len(n.code)
      BY <1>1, <2>2, <2>3
    <3> QED
      BY <2>3, <3>2 DEF Resting, Loose
  <2>5. MemoryOK(n) /\ GasOK(n)
    BY <2>2, <2>3, MemoryKept, GasKept DEF Resting
  <2>6. ContractOK(n)
    BY <1>1, <2>2, <2>3 DEF Resting, ContractOK
  <2>7. SameBut(m, n, {"ip", "stop", "err"})
    BY <2>2, SameButMore
  <2> QED
    BY <1>1, <1>3, <2>2, <2>3, <2>4, <2>5, <2>6, <2>7 DEF Frame, Placed, Resting, SameBut, n
<1> QED
  BY <1>2, <1>3

LEMMA PlacedKept ==
  ASSUME NEW m, NEW n, NEW F, SameBut(m, n, F), Placed(m),
         F \cap {"bitmap", "code", "called", "returnData", "config"} = {}
  PROVE  Placed(n)
<1>1. /\ n.bitmap = m.bitmap /\ n.code = m.code /\ n.called = m.called
      /\ n.returnData = m.returnData /\ n.config = m.config
  BY DEF SameBut, Fields
<1> QED
  BY <1>1 DEF Placed

\* A whole turn of the loop: the instruction is paid, works, and is stepped over.
LEMMA Turn ==
  ASSUME NEW m, Frame(m), NEW c, SameBut(m, c, {"gas", "spent"}), NEW n, Leaves(c, n)
  PROVE  Frame(stepped(n)) /\ stepped(n).given = m.given
<1>1. SameBut(m, n, {"gas", "spent"} \cup Work)
  BY SameButTrans DEF Leaves
<1>2. Placed(n)
  <2>1. ({"gas", "spent"} \cup Work) \cap {"bitmap", "code", "called", "returnData", "config"} = {}
    BY DEF Work
  <2> QED
    BY <1>1, <2>1, PlacedKept DEF Frame
<1>3. n.given = m.given
  BY <1>1 DEF SameBut, Fields, Work
<1>4. Frame(stepped(n)) /\ SameBut(n, stepped(n), {"ip", "stop", "err"})
  BY <1>2, Stepping DEF Leaves
<1>5. stepped(n).given = n.given
  BY <1>4 DEF SameBut, Fields
<1> QED
  BY <1>3, <1>4, <1>5

-----------------------------------------------------------------------------
(* The invariant.                                                          *)

\* Between a contract and the one that it called: the caller is in the middle of its
\* code, and the gas that it passed on is still out of its own.
Lent(m, n) ==
  CallsPaid /\ m.given < 3 * GasRoot =>
    m.gas + n.given + m.spent + dueFor(m.len \div WordBytes) <= m.given

Waiting(m, n) == ~m.stop /\ m.ip < Len(m.code) /\ m.called /\ Lent(m, n)

FramesOK(fs) ==
  /\ \E S : fs \in Seq(S)
  /\ \A i \in 1 .. Len(fs) : Frame(fs[i])
  /\ \A i \in 1 .. Len(fs) - 1 : Waiting(fs[i], fs[i + 1])

\* A machine in the pool: nothing of the last contract but its slots, its return data
\* and the length of its memory.
Pooled(m) ==
  /\ Shaped(m)
  /\ m.slots \in Seq(Nat) /\ m.memory \in Seq(Octets)
  /\ \A i \in DOMAIN m.memory : m.memory[i] = 0
  /\ \A f \in Fields \ {"slots", "memory", "returnData"} : m[f] = newState[f]

Inv ==
  /\ runs \in 0 .. MaxRuns /\ panicked \in BOOLEAN /\ buf \in Seq(Octets)
  /\ FramesOK(frames)
  /\ \A m \in pool : Pooled(m)

LEMMA FramesLength == ASSUME NEW fs, FramesOK(fs) PROVE Len(fs) \in Nat /\ (fs # << >> <=> Len(fs) >= 1)
<1>1. PICK S : fs \in Seq(S)
  BY DEF FramesOK
<1> QED
  BY <1>1

LEMMA LastReplaced ==
  ASSUME NEW fs, FramesOK(fs), fs # << >>, NEW n, Frame(n), n.given = fs[Len(fs)].given
  PROVE  FramesOK([fs EXCEPT ![Len(fs)] = n])
<1> DEFINE L == Len(fs)
           gs == [fs EXCEPT ![L] = n]
<1>1. PICK S : fs \in Seq(S)
  BY DEF FramesOK
<1>2. L \in Nat /\ L >= 1
  BY FramesLength
<1>3. fs \in Seq(S \cup {n}) /\ n \in S \cup {n} /\ L \in 1 .. L
  BY <1>1, <1>2
<1>4. gs \in Seq(S \cup {n}) /\ Len(gs) = L
      /\ \A j \in 1 .. L : gs[j] = IF j = L THEN n ELSE fs[j]
  BY <1>3, ExceptSeq
<1> HIDE DEF gs
<1>5. \A i \in 1 .. L : Frame(gs[i])
  BY <1>4 DEF FramesOK
<1>6. ASSUME NEW i \in 1 .. L - 1 PROVE Waiting(gs[i], gs[i + 1])
  <2>1. Waiting(fs[i], fs[i + 1])
    BY <1>6 DEF FramesOK
  <2>2. gs[i] = fs[i] /\ gs[i + 1].given = fs[i + 1].given
    BY <1>2, <1>4
  <2> QED
    BY <2>1, <2>2 DEF Waiting, Lent
<1>7. FramesOK(gs)
  BY <1>4, <1>5, <1>6 DEF FramesOK
<1> QED
  BY <1>7 DEF gs

LEMMA FrameAdded ==
  ASSUME NEW fs, FramesOK(fs), fs # << >>, NEW n, Frame(n), Waiting(fs[Len(fs)], n)
  PROVE  FramesOK(Append(fs, n))
<1> DEFINE L == Len(fs)
           gs == Append(fs, n)
<1>1. PICK S : fs \in Seq(S)
  BY DEF FramesOK
<1>2. L \in Nat /\ L >= 1
  BY FramesLength
<1>3. fs \in Seq(S \cup {n}) /\ n \in S \cup {n}
  BY <1>1
<1>4. gs \in Seq(S \cup {n}) /\ Len(gs) = L + 1 /\ gs[L + 1] = n
      /\ \A j \in 1 .. L : gs[j] = fs[j]
  BY <1>3, AppendProperties
<1> HIDE DEF gs
<1>5. \A i \in 1 .. L + 1 : Frame(gs[i])
  BY <1>2, <1>4 DEF FramesOK
<1>6. ASSUME NEW i \in 1 .. L PROVE Waiting(gs[i], gs[i + 1])
  <2>1. CASE i = L
    BY <1>4, <2>1
  <2>2. CASE i # L
    <3>1. i \in 1 .. L - 1 /\ i + 1 \in 1 .. L
      BY <1>2, <2>2
    <3> QED
      BY <1>4, <3>1 DEF FramesOK
  <2> QED
    BY <2>1, <2>2
<1>7. FramesOK(gs)
  BY <1>2, <1>4, <1>5, <1>6 DEF FramesOK
<1> QED
  BY <1>7 DEF gs

LEMMA LastRemoved ==
  ASSUME NEW fs, FramesOK(fs), Len(fs) > 1
  PROVE  LET gs == SubSeq(fs, 1, Len(fs) - 1) IN
         FramesOK(gs) /\ Len(gs) = Len(fs) - 1 /\ \A i \in 1 .. Len(fs) - 1 : gs[i] = fs[i]
<1> DEFINE L == Len(fs)
           gs == SubSeq(fs, 1, L - 1)
<1>1. PICK S : fs \in Seq(S)
  BY DEF FramesOK
<1>2. L \in Nat /\ L > 1
  BY FramesLength
<1>3. gs \in Seq(S) /\ Len(gs) = L - 1 /\ \A i \in 1 .. L - 1 : gs[i] = fs[i]
  BY <1>1, <1>2
<1> HIDE DEF gs
<1>4. \A i \in 1 .. L - 1 : Frame(gs[i])
  BY <1>2, <1>3 DEF FramesOK
<1>5. ASSUME NEW i \in 1 .. (L - 1) - 1 PROVE Waiting(gs[i], gs[i + 1])
  <2>1. i \in 1 .. L - 1 /\ i + 1 \in 1 .. L - 1
    BY <1>2
  <2> QED
    BY <1>3, <2>1 DEF FramesOK
<1>6. FramesOK(gs)
  BY <1>3, <1>4, <1>5 DEF FramesOK
<1> QED
  BY <1>3, <1>6 DEF gs

LEMMA Running ==
  ASSUME Inv, inLoop
  PROVE  frames # << >> /\ Frame(running) /\ ~running.stop
<1>1. frames # << >> /\ ~running.stop
  BY DEF inLoop
<1>2. Len(frames) \in 1 .. Len(frames)
  BY <1>1, FramesLength DEF Inv
<1> QED
  BY <1>1, <1>2 DEF Inv, FramesOK, running

LEMMA Continues ==
  ASSUME Inv, inLoop, NEW n, Frame(n), n.given = running.given, continue(n)
  PROVE  Inv'
<1>1. frames' = [frames EXCEPT ![Len(frames)] = n]
      /\ UNCHANGED <<pool, runs, panicked, buf>>
  BY DEF continue
<1>2. FramesOK([frames EXCEPT ![Len(frames)] = n])
  BY Running, LastReplaced DEF Inv, running
<1>3. FramesOK(frames)'
  <2>1. \A fs : FramesOK(fs) /\ frames' = fs => FramesOK(frames)'
    BY DEF FramesOK
  <2> QED
    BY <1>1, <1>2, <2>1
<1> QED
  BY <1>1, <1>3 DEF Inv

LEMMA TakesAre ==
  /\ \A op \in Binary \cup Unary \cup QueryOps \cup {"CALLDATALOAD", "MLOAD", "POP", "JUMP"} : Takes(op) = 1
  /\ \A op \in {"MSTORE", "MSTORE8", "JUMPI", "SHA3", "RETURN", "REVERT"} : Takes(op) = 2
  /\ \A op \in Ternary \cup {"CALLDATACOPY", "CODECOPY", "RETURNDATACOPY"} : Takes(op) = 3
  /\ Takes("EXTCODECOPY") = 4
  /\ \A op \in DOMAIN CallOps : Takes(op) = CallOps[op]
<1> USE DEF Binary, Unary, Ternary, QueryOps
<1>1. DOMAIN CallOps = {"CALL", "CALLCODE", "DELEGATECALL", "STATICCALL"}
  BY DEF CallOps
<1>2. \A op \in Binary \cup Unary \cup QueryOps \cup {"CALLDATALOAD", "MLOAD", "POP", "JUMP"} : Takes(op) = 1
  BY <1>1 DEF Takes
<1>3. \A op \in {"MSTORE", "MSTORE8", "JUMPI", "SHA3", "RETURN", "REVERT"} : Takes(op) = 2
  BY <1>1 DEF Takes
<1>4. \A op \in Ternary \cup {"CALLDATACOPY", "CODECOPY", "RETURNDATACOPY"} : Takes(op) = 3
  BY <1>1 DEF Takes
<1>5. Takes("EXTCODECOPY") = 4
  BY <1>1 DEF Takes
<1>6. \A op \in DOMAIN CallOps : Takes(op) = CallOps[op]
  BY <1>1 DEF Takes
<1> QED
  BY <1>2, <1>3, <1>4, <1>5, <1>6

\* The running machine as an instruction finds it.
LEMMA Finds ==
  ASSUME Inv, inCode, affordable(running)
  PROVE  LET c == charged(running)
             op == opOf(running)
         IN  /\ Frame(running) /\ Sound(running) /\ Sound(c) /\ ~c.stop
             /\ SameBut(running, c, {"gas", "spent"}) /\ c.gas <= running.gas
             /\ c.sp >= Takes(op) /\ c.ip \in 0 .. Len(c.code) - 1
             /\ c.sp \in Nat
<1> DEFINE c == charged(running)
           op == opOf(running)
<1>1. Frame(running) /\ ~running.stop /\ running.ip < Len(running.code)
  BY Running DEF inCode
<1>2. Sound(running)
  BY <1>1, Wakes DEF Frame
<1>3. op \in DOMAIN dispatchTable /\ running.sp >= dispatchTable[op].stack
      /\ running.gas >= dispatchTable[op].gas
  BY DEF affordable
<1>4. Sound(c) /\ SameBut(running, c, {"gas", "spent"}) /\ c.gas <= running.gas
  BY <1>2, <1>3, Charging
<1> HIDE DEF c
<1>5. c.stop = running.stop /\ c.sp = running.sp /\ c.ip = running.ip /\ c.code = running.code
  BY <1>4 DEF SameBut, Fields
<1>6. c.ip \in 0 .. Len(c.code) - 1
  BY <1>1, <1>5, WordNat DEF Frame, Resting, ContractOK, IsCode
<1>7. running.sp \in Nat
  BY <1>2, Depth
<1>8. Takes(op) <= dispatchTable[op].stack /\ dispatchTable[op].stack \in Nat
  BY <1>3, TableRows
<1>9. Takes(op) \in Nat
  <2>1. \A o \in DOMAIN CallOps : CallOps[o] \in Nat
    BY DEF CallOps
  <2> QED
    BY <2>1 DEF Takes
<1> HIDE DEF op
<1>10. c.sp >= Takes(op)
  BY <1>3, <1>5, <1>7, <1>8, <1>9
<1> QED
  BY <1>1, <1>2, <1>4, <1>5, <1>6, <1>7, <1>10 DEF c, op

LEMMA Instructed ==
  ASSUME Inv, inCode, affordable(running), NEW x, Leaves(charged(running), x),
         continue(stepped(IF enabled(running, opOf(running)) THEN x
                          ELSE exit(charged(running), "errOpCodeNotFound")))
  PROVE  Inv'
<1> DEFINE c == charged(running)
           e == exit(c, "errOpCodeNotFound")
           n == IF enabled(running, opOf(running)) THEN x ELSE e
<1>1. Frame(running) /\ Sound(c) /\ SameBut(running, c, {"gas", "spent"})
  BY Finds
<1>2. Leaves(c, e)
  BY <1>1, WorksExit, WorksLeaves
<1>3. Leaves(c, n)
  BY <1>2
<1> HIDE DEF n, c
<1>4. Frame(stepped(n)) /\ stepped(n).given = running.given
  BY <1>1, <1>3, Turn
<1>5. continue(stepped(n))
  BY DEF n, c
<1> QED
  BY <1>4, <1>5, Continues DEF inCode

LEMMA InstructedSoundly ==
  ASSUME Inv, inCode, affordable(running), NEW x, Works(charged(running), x),
         continue(stepped(IF enabled(running, opOf(running)) THEN x
                          ELSE exit(charged(running), "errOpCodeNotFound")))
  PROVE  Inv'
  BY Instructed, WorksLeaves

LEMMA ComputeKeeps == ASSUME Inv, Compute PROVE Inv'
<1> DEFINE c == charged(running)
           op == opOf(running)
<1>1. CASE Instruction(Unary, unary)
  <2>1. inCode /\ op \in Unary /\ affordable(running)
        /\ continue(stepped(IF enabled(running, op) THEN unary(c, op) ELSE exit(c, "errOpCodeNotFound")))
    BY <1>1 DEF Instruction
  <2>2. Works(c, unary(c, op))
    BY <2>1, Finds, TakesAre, WorksUnary
  <2> QED
    BY <2>1, <2>2, InstructedSoundly
<1>2. CASE Instruction(Binary, binary)
  <2>1. inCode /\ op \in Binary /\ affordable(running)
        /\ continue(stepped(IF enabled(running, op) THEN binary(c, op) ELSE exit(c, "errOpCodeNotFound")))
    BY <1>2 DEF Instruction
  <2>2. Works(c, binary(c, op))
    BY <2>1, Finds, TakesAre, WorksBinary
  <2> QED
    BY <2>1, <2>2, InstructedSoundly
<1>3. CASE Instruction(Ternary, ternary)
  <2>1. inCode /\ op \in Ternary /\ affordable(running)
        /\ continue(stepped(IF enabled(running, op) THEN ternary(c, op) ELSE exit(c, "errOpCodeNotFound")))
    BY <1>3 DEF Instruction
  <2>2. Works(c, ternary(c, op))
    BY <2>1, Finds, TakesAre, WorksTernary
  <2> QED
    BY <2>1, <2>2, InstructedSoundly
<1> QED
  BY <1>1, <1>2, <1>3 DEF Compute

LEMMA StackMovesKeep == ASSUME Inv, StackMoves PROVE Inv'
<1> DEFINE c == charged(running)
           op == opOf(running)
<1>1. CASE Instruction({"POP"}, LAMBDA m, o : pop(m, 1))
  <2>1. inCode /\ op \in {"POP"} /\ affordable(running)
        /\ continue(stepped(IF enabled(running, op) THEN pop(c, 1) ELSE exit(c, "errOpCodeNotFound")))
    BY <1>1 DEF Instruction
  <2>2. Works(c, pop(c, 1))
    BY <2>1, Finds, TakesAre, WorksPop
  <2> QED
    BY <2>1, <2>2, InstructedSoundly
<1>2. CASE Instruction(DOMAIN PushOps, LAMBDA m, o : opPush(m, PushOps[o]))
  <2>1. inCode /\ op \in DOMAIN PushOps /\ affordable(running)
        /\ continue(stepped(IF enabled(running, op) THEN opPush(c, PushOps[op]) ELSE exit(c, "errOpCodeNotFound")))
    BY <1>2 DEF Instruction
  <2>2. PushOps[op] \in Nat /\ PushOps[op] <= WordBytes
    BY <2>1, MachineConstants, WordConstants DEF PushOps
  <2>3. Leaves(c, opPush(c, PushOps[op]))
    BY <2>1, <2>2, Finds, LeavesPush
  <2> QED
    BY <2>1, <2>3, Instructed
<1>3. CASE Instruction(DOMAIN DupOps, LAMBDA m, o : opDup(m, DupOps[o]))
  <2>1. inCode /\ op \in DOMAIN DupOps /\ affordable(running)
        /\ continue(stepped(IF enabled(running, op) THEN opDup(c, DupOps[op]) ELSE exit(c, "errOpCodeNotFound")))
    BY <1>3 DEF Instruction
  <2>2. DupOps[op] \in Nat /\ DupOps[op] >= 1
    BY <2>1 DEF DupOps
  <2>3. Works(c, opDup(c, DupOps[op]))
    BY <2>1, <2>2, Finds, WorksDup
  <2> QED
    BY <2>1, <2>3, InstructedSoundly
<1>4. CASE Instruction(DOMAIN SwapOps, LAMBDA m, o : opSwap(m, SwapOps[o]))
  <2>1. inCode /\ op \in DOMAIN SwapOps /\ affordable(running)
        /\ continue(stepped(IF enabled(running, op) THEN opSwap(c, SwapOps[op]) ELSE exit(c, "errOpCodeNotFound")))
    BY <1>4 DEF Instruction
  <2>2. SwapOps[op] \in Nat /\ SwapOps[op] >= 1
    BY <2>1 DEF SwapOps
  <2>3. Works(c, opSwap(c, SwapOps[op]))
    BY <2>1, <2>2, Finds, WorksSwap
  <2> QED
    BY <2>1, <2>3, InstructedSoundly
<1> QED
  BY <1>1, <1>2, <1>3, <1>4 DEF StackMoves

LEMMA ContextKeeps == ASSUME Inv, Hosted, Context PROVE Inv'
<1> DEFINE c == charged(running)
           op == opOf(running)
<1>1. CASE Instruction(EnvOps \cup SizeOps, LAMBDA m, o : push(m, context(m, o)))
  <2>1. inCode /\ op \in EnvOps \cup SizeOps /\ affordable(running)
        /\ continue(stepped(IF enabled(running, op) THEN push(c, context(c, op)) ELSE exit(c, "errOpCodeNotFound")))
    BY <1>1 DEF Instruction
  <2>2. context(c, op) \in Word
    BY <2>1, Finds, Contexts
  <2>3. Works(c, push(c, context(c, op)))
    BY <2>1, <2>2, Finds, WorksPush
  <2> QED
    BY <2>1, <2>3, InstructedSoundly
<1>2. CASE Instruction(QueryOps, query)
  <2>1. inCode /\ op \in QueryOps /\ affordable(running)
        /\ continue(stepped(IF enabled(running, op) THEN query(c, op) ELSE exit(c, "errOpCodeNotFound")))
    BY <1>2 DEF Instruction
  <2>2. Works(c, query(c, op))
    BY <2>1, Finds, TakesAre, WorksQuery
  <2> QED
    BY <2>1, <2>2, InstructedSoundly
<1>3. CASE Instruction({"CALLDATALOAD"}, LAMBDA m, o : opCallDataLoad(m))
  <2>1. inCode /\ op \in {"CALLDATALOAD"} /\ affordable(running)
        /\ continue(stepped(IF enabled(running, op) THEN opCallDataLoad(c) ELSE exit(c, "errOpCodeNotFound")))
    BY <1>3 DEF Instruction
  <2>2. Works(c, opCallDataLoad(c))
    BY <2>1, Finds, TakesAre, WorksCallDataLoad
  <2> QED
    BY <2>1, <2>2, InstructedSoundly
<1> QED
  BY <1>1, <1>2, <1>3 DEF Context

LEMMA MemoryKeeps == ASSUME Inv, Hosted, Memory PROVE Inv'
<1> DEFINE c == charged(running)
           op == opOf(running)
<1>1. CASE Instruction({"MLOAD"}, LAMBDA m, o : opMload(m))
  <2>1. /\ inCode /\ op \in {"MLOAD"} /\ affordable(running)
        /\ continue(stepped(IF enabled(running, op) THEN opMload(c)
                            ELSE exit(c, "errOpCodeNotFound")))
    BY <1>1 DEF Instruction
  <2>8. Works(c, opMload(c))
    BY <2>1, Finds, TakesAre, WorksMload
  <2> QED
    BY <2>1, <2>8, InstructedSoundly
<1>2. CASE Instruction({"MSTORE"}, LAMBDA m, o : opMStore(m))
  <2>1. /\ inCode /\ op \in {"MSTORE"} /\ affordable(running)
        /\ continue(stepped(IF enabled(running, op) THEN opMStore(c)
                            ELSE exit(c, "errOpCodeNotFound")))
    BY <1>2 DEF Instruction
  <2>8. Works(c, opMStore(c))
    BY <2>1, Finds, TakesAre, WorksMStore
  <2> QED
    BY <2>1, <2>8, InstructedSoundly
<1>3. CASE Instruction({"MSTORE8"}, LAMBDA m, o : opMStore8(m))
  <2>1. /\ inCode /\ op \in {"MSTORE8"} /\ affordable(running)
        /\ continue(stepped(IF enabled(running, op) THEN opMStore8(c)
                            ELSE exit(c, "errOpCodeNotFound")))
    BY <1>3 DEF Instruction
  <2>8. Works(c, opMStore8(c))
    BY <2>1, Finds, TakesAre, WorksMStore
  <2> QED
    BY <2>1, <2>8, InstructedSoundly
<1>4. CASE Instruction({"SHA3"}, LAMBDA m, o : opSha3(m))
  <2>1. /\ inCode /\ op \in {"SHA3"} /\ affordable(running)
        /\ continue(stepped(IF enabled(running, op) THEN opSha3(c)
                            ELSE exit(c, "errOpCodeNotFound")))
    BY <1>4 DEF Instruction
  <2>8. Works(c, opSha3(c))
    BY <2>1, Finds, TakesAre, WorksSha3
  <2> QED
    BY <2>1, <2>8, InstructedSoundly
<1>5. CASE Instruction(CopyOps, opCopy)
  <2>1. /\ inCode /\ op \in CopyOps /\ affordable(running)
        /\ continue(stepped(IF enabled(running, op) THEN opCopy(c, op)
                            ELSE exit(c, "errOpCodeNotFound")))
    BY <1>5 DEF Instruction
  <2>2. Takes(op) = IF op = "EXTCODECOPY" THEN 4 ELSE 3
    BY <2>1, TakesAre DEF CopyOps
  <2>8. Works(c, opCopy(c, op))
    BY <2>1, Finds, TakesAre, <2>2, WorksCopy
  <2> QED
    BY <2>1, <2>8, InstructedSoundly
<1> QED
  BY <1>1, <1>2, <1>3, <1>4, <1>5 DEF Memory

LEMMA JumpsKeep == ASSUME Inv, Jumps PROVE Inv'
<1> DEFINE c == charged(running)
           op == opOf(running)
<1>1. CASE Instruction({"JUMP"}, LAMBDA m, o : opJump(m))
  <2>1. /\ inCode /\ op \in {"JUMP"} /\ affordable(running)
        /\ continue(stepped(IF enabled(running, op) THEN opJump(c)
                            ELSE exit(c, "errOpCodeNotFound")))
    BY <1>1 DEF Instruction
  <2>8. Works(c, opJump(c))
    BY <2>1, Finds, TakesAre, WorksJump
  <2> QED
    BY <2>1, <2>8, InstructedSoundly
<1>2. CASE Instruction({"JUMPI"}, LAMBDA m, o : opJumpi(m))
  <2>1. /\ inCode /\ op \in {"JUMPI"} /\ affordable(running)
        /\ continue(stepped(IF enabled(running, op) THEN opJumpi(c)
                            ELSE exit(c, "errOpCodeNotFound")))
    BY <1>2 DEF Instruction
  <2>8. Works(c, opJumpi(c))
    BY <2>1, Finds, TakesAre, WorksJumpi
  <2> QED
    BY <2>1, <2>8, InstructedSoundly
<1>3. CASE Instruction({"JUMPDEST"}, LAMBDA m, o : m)
  <2>1. /\ inCode /\ op \in {"JUMPDEST"} /\ affordable(running)
        /\ continue(stepped(IF enabled(running, op) THEN c
                            ELSE exit(c, "errOpCodeNotFound")))
    BY <1>3 DEF Instruction
  <2>8. Works(c, c)
    BY <2>1, Finds, TakesAre, WorksSelf
  <2> QED
    BY <2>1, <2>8, InstructedSoundly
<1> QED
  BY <1>1, <1>2, <1>3 DEF Jumps

LEMMA EndingsKeep == ASSUME Inv, Endings PROVE Inv'
<1> DEFINE c == charged(running)
           op == opOf(running)
<1>1. CASE Instruction({"STOP"}, LAMBDA m, o : halt(m))
  <2>1. /\ inCode /\ op \in {"STOP"} /\ affordable(running)
        /\ continue(stepped(IF enabled(running, op) THEN halt(c)
                            ELSE exit(c, "errOpCodeNotFound")))
    BY <1>1 DEF Instruction
  <2>8. Works(c, halt(c))
    BY <2>1, Finds, TakesAre, WorksHalt
  <2> QED
    BY <2>1, <2>8, InstructedSoundly
<1>2. CASE Instruction({"RETURN", "REVERT"}, opHalt)
  <2>1. /\ inCode /\ op \in {"RETURN", "REVERT"} /\ affordable(running)
        /\ continue(stepped(IF enabled(running, op) THEN opHalt(c, op)
                            ELSE exit(c, "errOpCodeNotFound")))
    BY <1>2 DEF Instruction
  <2>8. Works(c, opHalt(c, op))
    BY <2>1, Finds, TakesAre, WorksHalting
  <2> QED
    BY <2>1, <2>8, InstructedSoundly
<1> QED
  BY <1>1, <1>2 DEF Endings

LEMMA LogKeeps == ASSUME Inv, Log PROVE Inv'
<1> DEFINE c == charged(running)
           op == opOf(running)
<1>1. /\ inCode /\ op \in DOMAIN LogOps /\ affordable(running)
      /\ continue(stepped(IF enabled(running, op) THEN opLog(c, LogOps[op])
                          ELSE exit(c, "errOpCodeNotFound")))
  BY DEF Instruction, Log
<1>2. LogOps[op] \in Nat
  BY <1>1 DEF LogOps
<1>3. Works(c, opLog(c, LogOps[op]))
  BY <1>1, <1>2, Finds, WorksLog
<1> QED
  BY <1>1, <1>3, InstructedSoundly

\* A machine that stops where it stands.
LEMMA Stops ==
  ASSUME Inv, inLoop, NEW n, SameBut(running, n, {"stop", "err"}), n.stop, n.stop \in BOOLEAN,
         continue(n)
  PROVE  Inv'
<1>1. Frame(running)
  BY Running
<1>2. Resting(n)
  BY <1>1, RestingExit DEF Frame
<1>3. Placed(n)
  BY <1>1, PlacedKept DEF Frame
<1>4. n.given = running.given
  BY DEF SameBut, Fields
<1> QED
  BY <1>2, <1>3, <1>4, Continues DEF Frame

LEMMA EndOfCodeKeeps == ASSUME Inv, EndOfCode PROVE Inv'
<1>1. Shaped(running)
  BY Running DEF EndOfCode, Frame, Resting
<1>2. SameBut(running, halt(running), {"stop", "err"})
  BY <1>1, Halting, SameButMore
<1> QED
  BY <1>1, <1>2, Halting, Stops DEF EndOfCode

LEMMA FaultKeeps == ASSUME Inv, Fault PROVE Inv'
<1>1. Shaped(running) /\ inLoop
  BY Running DEF Fault, inCode, Frame, Resting
<1>2. PICK e : continue(exit(running, e))
  BY DEF Fault
<1> QED
  BY <1>1, <1>2, Exits, Stops

-----------------------------------------------------------------------------
(* The pool.                                                               *)

LEMMA NewPooled == Pooled(newState)
<1>1. newState.slots = << >> /\ newState.memory = << >>
  BY DEF newState
<1> QED
  BY <1>1, NewShaped DEF Pooled

LEMMA Resets ==
  ASSUME NEW m, Resting(m)
  PROVE  Pooled(reset(m))
<1> DEFINE zeroed == [i \in DOMAIN m.memory |-> IF i <= m.len THEN 0 ELSE m.memory[i]]
           n == reset(m)
<1>1. n = [newState EXCEPT !.slots = m.slots, !.returnData = m.returnData, !.memory = zeroed]
  BY DEF reset
<1>2. \A i \in DOMAIN zeroed : zeroed[i] = 0
  BY DEF Resting, MemoryOK
<1>3. zeroed \in Seq(Octets)
  <2>1. m.memory \in Seq(Octets)
    BY DEF Resting, MemoryOK
  <2>2. zeroed = [i \in 1 .. Len(m.memory) |-> zeroed[i]] /\ Len(m.memory) \in Nat
        /\ DOMAIN zeroed = 1 .. Len(m.memory)
    BY <2>1
  <2>3. \A i \in 1 .. Len(m.memory) : zeroed[i] \in Octets
    BY <1>2, <2>2, Zero
  <2> HIDE DEF zeroed
  <2> QED
    BY <2>2, <2>3, Array
<1> HIDE DEF zeroed, n
<1>4. /\ SameBut(newState, n, {"slots", "memory", "returnData"})
      /\ n.slots = m.slots /\ n.memory = zeroed
  BY <1>1, NewShaped DEF SameBut, Shaped, Fields
<1>5. m.slots \in Seq(Nat)
  BY DEF Resting, Loose
<1>6. Pooled(n)
  BY <1>2, <1>3, <1>4, <1>5 DEF Pooled, SameBut
<1> QED
  BY <1>6 DEF n

\* What EVM.Run makes of a machine from the pool.
Loadable(c) ==
  /\ IsCode(c.code) /\ c.input \in Bytes /\ c.gas \in 0 .. GasWord - 1
  /\ c.value \in Word \cup {NilValue}
  /\ CallsPaid => tt64 + CallMost <= GasWord \/ "EIP150" \in c.config

LEMMA Loads ==
  ASSUME NEW s, Pooled(s), NEW c, Loadable(c)
  PROVE  Frame(loaded(s, c)) /\ loaded(s, c).given = c.gas
<1> DEFINE n == loaded(s, c)
           set == {"returnData", "code", "gas", "given", "value", "static", "input",
                   "config", "bitmap"}
<1>1. Shaped(s)
  BY DEF Pooled
<1>2. /\ SameBut(s, n, set)
      /\ n.returnData = << >> /\ n.code = c.code /\ n.gas = c.gas /\ n.given = c.gas
      /\ n.value = c.value /\ n.input = c.input /\ n.config = c.config
      /\ n.bitmap = s.bitmap \cup setCode(c.code)
  BY <1>1 DEF Shaped, SameBut, Fields, loaded
<1>3. /\ s.ip = 0 /\ s.sp = 0 /\ s.len = 0 /\ s.lastGasCost = 0 /\ s.bitmap = {}
      /\ s.ret = << >> /\ s.stop = FALSE /\ s.spent = 0 /\ s.called = FALSE
      /\ s.out = <<0, 0>>
  BY DEF Pooled, Fields, newState
<1> HIDE DEF n
<1>4. /\ n.ip = 0 /\ n.sp = 0 /\ n.len = 0 /\ n.lastGasCost = 0 /\ n.stop = FALSE
      /\ n.ret = << >> /\ n.spent = 0 /\ n.called = FALSE /\ n.out = <<0, 0>>
      /\ n.slots = s.slots /\ n.memory = s.memory
  BY <1>2, <1>3 DEF SameBut, Fields
<1>5. s.slots \in Seq(Nat) /\ s.memory \in Seq(Octets) /\ \A i \in DOMAIN s.memory : s.memory[i] = 0
  BY DEF Pooled
<1>6. << >> \in Bytes
  <2>1. << >> \in Seq(Octets) /\ Len(<< >>) = 0
    OBVIOUS
  <2> QED
    BY <2>1, BytesAre, Zero
<1>7. Loose(n)
  BY <1>4, <1>5 DEF Loose
<1>8. MemoryOK(n)
  <2>1. 0 = 0 * WordBytes /\ 0 <= 2 * MemLimit + WordBytes - 1
    BY WordConstants, MachineConstants
  <2> QED
    BY <1>4, <1>5, <2>1 DEF MemoryOK
<1>9. GasOK(n)
  <2>1. dueFor(0) = 0 /\ 0 \div WordBytes = 0
    BY MachineConstants, WordConstants DEF dueFor
  <2>2. c.gas \in Nat
    BY GasWords DEF Loadable
  <2> QED
    BY <1>2, <1>4, <2>1, <2>2 DEF GasOK, Paid, Loadable
<1>10. ContractOK(n)
  <2>1. n.stop \in BOOLEAN /\ n.ip \in Int /\ n.ip >= -1
    <3>1. n.stop \in BOOLEAN
      BY <1>4, Zenon
    <3>2. n.ip \in Int /\ n.ip >= -1
      BY <1>4
    <3> QED
      BY <3>1, <3>2
  <2>2. IsCode(n.code) /\ n.input \in Bytes /\ n.value \in Word \cup {NilValue}
    BY <1>2 DEF Loadable
  <2>3. n.returnData \in Bytes /\ n.ret \in Bytes
    BY <1>2, <1>4, <1>6
  <2> QED
    BY <2>1, <2>2, <2>3 DEF ContractOK
<1>11. Placed(n)
  BY <1>2, <1>3 DEF Placed, Loadable
<1>12. ~(n.sp > StackSize) /\ n.ip >= 0
  BY <1>4, MachineConstants
<1>13. Frame(n)
  BY <1>2, <1>7, <1>8, <1>9, <1>10, <1>11, <1>12 DEF Frame, Resting, SameBut
<1> QED
  BY <1>2, <1>13 DEF n

LEMMA Initially == ASSUME Init PROVE Inv
<1>1. runs \in 0 .. MaxRuns /\ panicked \in BOOLEAN /\ buf \in Seq(Octets)
  <2>1. runs \in 0 .. MaxRuns
    BY MachineConstants DEF Init
  <2>2. panicked \in BOOLEAN
    BY DEF Init
  <2>3. buf \in Seq(Octets)
    BY DEF Init
  <2> QED
    BY <2>1, <2>2, <2>3
<1>2. FramesOK(frames)
  <2>1. frames = << >> /\ Len(frames) = 0 /\ frames \in Seq({})
    BY DEF Init
  <2> QED
    BY <2>1 DEF FramesOK
<1> QED
  BY <1>1, <1>2 DEF Inv, Init

LEMMA FromPool == ASSUME Inv, NEW s \in pool \cup {newState} PROVE Pooled(s)
  BY NewPooled DEF Inv

LEMMA StartKeeps == ASSUME Inv, Start PROVE Inv'
<1>1. PICK c \in Programs(runs + 1), s \in pool \cup {newState} :
        frames' = <<loaded(s, c)>> /\ pool' = pool \ {s}
  BY DEF Start
<1>2. runs + 1 \in 1 .. MaxRuns /\ runs' = runs + 1 /\ UNCHANGED <<panicked, buf>>
  BY MachineConstants DEF Start, Inv
<1>3. IsContract(c)
  BY <1>2, Deployed
<1>4. Loadable(c)
  BY <1>2, <1>3 DEF IsContract, Loadable, CallsPaid
<1> DEFINE n == loaded(s, c)
<1>5. Frame(n)
  BY <1>4, FromPool, Loads
<1> HIDE DEF n
<1>6. FramesOK(<<n>>)
  <2> DEFINE gs == <<n>>
  <2>1. gs \in Seq({n}) /\ Len(gs) = 1 /\ gs[1] = n
    OBVIOUS
  <2> HIDE DEF gs
  <2>2. (\A i \in 1 .. Len(gs) : i = 1) /\ ~ \E i \in 1 .. Len(gs) - 1 : TRUE
    BY <2>1
  <2>3. FramesOK(gs)
    BY <1>5, <2>1, <2>2 DEF FramesOK
  <2> QED
    BY <2>3 DEF gs
<1>7. FramesOK(frames)'
  BY <1>1, <1>6 DEF FramesOK, n
<1> QED
  BY <1>1, <1>2, <1>7 DEF Inv

LEMMA LeaveKeeps == ASSUME Inv, Leave PROVE Inv'
<1>1. frames' = << >> /\ pool' = pool \cup {reset(running)} /\ UNCHANGED <<runs, panicked, buf>>
  BY DEF Leave
<1>2. Resting(running)
  <2>1. 1 \in 1 .. Len(frames) /\ running = frames[1]
    BY DEF Leave, running
  <2> QED
    BY <2>1 DEF Inv, FramesOK, Frame
<1>3. Pooled(reset(running))
  BY <1>2, Resets
<1>4. FramesOK(<< >>)
  <2>1. << >> \in Seq({}) /\ Len(<< >>) = 0
    OBVIOUS
  <2> QED
    BY <2>1 DEF FramesOK
<1>5. FramesOK(frames)'
  BY <1>1, <1>4 DEF FramesOK
<1> QED
  BY <1>1, <1>3, <1>5 DEF Inv

-----------------------------------------------------------------------------
(* The precompiled contracts return bytes, and give no gas.                *)

LEMMA Lesser ==
  ASSUME NEW a \in Nat, NEW b \in Nat
  PROVE  Min({a, b}) = IF a <= b THEN a ELSE b
<1>1. \E x \in {a, b} : \A y \in {a, b} : x <= y
  OBVIOUS
<1>2. Min({a, b}) \in {a, b} /\ \A y \in {a, b} : Min({a, b}) <= y
  BY <1>1 DEF Min
<1> QED
  BY <1>2

LEMMA Greater ==
  ASSUME NEW a \in Nat, NEW b \in Nat
  PROVE  Max({a, b}) = IF a >= b THEN a ELSE b
<1>1. \E x \in {a, b} : \A y \in {a, b} : x >= y
  OBVIOUS
<1>2. Max({a, b}) \in {a, b} /\ \A y \in {a, b} : Max({a, b}) >= y
  BY <1>1 DEF Max
<1> QED
  BY <1>2

LEMMA Gets ==
  ASSUME NEW b \in Seq(Octets), NEW input \in Seq(Octets), NEW size \in Nat
  PROVE  LET g == get(b, input, size) IN
         /\ g.buf \in Seq(Octets) /\ g.val \in Seq(Octets) /\ g.input \in Seq(Octets)
         /\ Len(g.val) = size
<1> DEFINE long == extendByteSlice(b, size)
           full == filled(long, input, size, size)
           g == get(b, input, size)
<1>1. /\ g.buf = full /\ g.val = SubSeq(full, 1, size)
      /\ g.input = SubSeq(input, size + 1, Len(input))
  BY DEF get, taken
<1>2. long \in Seq(Octets) /\ Len(long) >= size
  BY ExtendByteSlice
<1> HIDE DEF long, g
<1>3. \A i \in DOMAIN full : full[i] \in Octets
  <2>1. Len(input) \in Nat /\ \A i \in 1 .. Len(input) : input[i] \in Octets
    OBVIOUS
  <2>2. DOMAIN full = 1 .. Len(long) /\ \A i \in 1 .. Len(long) : long[i] \in Octets
    BY <1>2 DEF filled
  <2>3. Min({size, Len(input)}) \in Nat /\ Min({size, Len(input)}) <= Len(input)
    BY <2>1, Lesser
  <2>4. \A i \in 1 .. Len(long) : i <= Min({size, Len(input)}) => i \in 1 .. Len(input)
    BY <2>1, <2>3
  <2> QED
    BY <2>1, <2>2, <2>4, Zero DEF filled
<1>4. full = [i \in 1 .. Len(long) |-> full[i]] /\ DOMAIN full = 1 .. Len(long) /\ Len(long) \in Nat
  BY <1>2 DEF filled
<1> HIDE DEF full
<1>5. full \in Seq(Octets) /\ Len(full) >= size
  BY <1>2, <1>3, <1>4, Array
<1>6. SubSeq(full, 1, size) \in Seq(Octets) /\ Len(SubSeq(full, 1, size)) = size
  BY <1>5, Slice
<1>7. SubSeq(input, size + 1, Len(input)) \in Seq(Octets)
  <2>1. size + 1 \in Nat \ {0} /\ Len(input) \in Nat /\ Len(input) <= Len(input)
    OBVIOUS
  <2> QED
    BY <2>1, Slice
<1> QED
  BY <1>1, <1>5, <1>6, <1>7 DEF g

LEMMA GetsAll ==
  ASSUME NEW b \in Seq(Octets), NEW input \in Seq(Octets), NEW sizes \in Seq(Nat)
  PROVE  LET r == getAll(b, input, sizes) IN
         /\ r.buf \in Seq(Octets) /\ r.input \in Seq(Octets)
         /\ \A k \in 1 .. Len(sizes) : r.vals[k] \in Seq(Octets)
<1> DEFINE n == Len(sizes)
           Reads(i) == {r \in [buf : Seq(Octets), input : Seq(Octets), vals : Seq(Seq(Octets))] :
                          Len(r.vals) = i}
           S == [i \in 0 .. n |-> Reads(i)]
           start == [buf |-> b, input |-> input, vals |-> << >>]
           turn(i, r) == getNext(r, sizes[i])
           G == [i \in 1 .. n |-> [r \in Reads(i - 1) |-> turn(i, r)]]
           back == [i \in 1 .. n |-> i - 1]
           All(f) == f = [i \in 0 .. n |-> IF i = 0 THEN start ELSE turn(i, f[i - 1])]
<1>1. n \in Nat /\ \A i \in 1 .. n : sizes[i] \in Nat
  OBVIOUS
<1>2. start \in Reads(0)
  <2>1. << >> \in Seq(Seq(Octets)) /\ Len(<< >>) = 0
    OBVIOUS
  <2> QED
    BY <2>1
<1>3. ASSUME NEW i \in 1 .. n, NEW r \in Reads(i - 1)
      PROVE  turn(i, r) \in Reads(i)
  <2> DEFINE g == get(r.buf, r.input, sizes[i])
  <2>1. r.buf \in Seq(Octets) /\ r.input \in Seq(Octets) /\ r.vals \in Seq(Seq(Octets))
        /\ Len(r.vals) = i - 1
    OBVIOUS
  <2>2. g.buf \in Seq(Octets) /\ g.val \in Seq(Octets) /\ g.input \in Seq(Octets)
    BY <1>1, <2>1, Gets
  <2>3. turn(i, r) = [buf |-> g.buf, input |-> g.input, vals |-> Append(r.vals, g.val)]
    BY DEF getNext, next
  <2> HIDE DEF g
  <2>4. Append(r.vals, g.val) \in Seq(Seq(Octets)) /\ Len(Append(r.vals, g.val)) = i
    BY <1>1, <2>1, <2>2, AppendProperties
  <2> QED
    BY <2>2, <2>3, <2>4
<1> HIDE DEF n, turn, Reads, start
<1>6. \A i \in 1 .. n : back[i] = i - 1
  OBVIOUS
<1>7. \A i \in 0 .. n : S[i] = Reads(i)
  OBVIOUS
<1>8. \A i \in 1 .. n : \A r \in Reads(i - 1) : G[i][r] = turn(i, r)
  OBVIOUS
<1> HIDE DEF S, G, back
<1>9. \A i \in 1 .. n : i - 1 \in 0 .. i - 1 /\ i - 1 \in 0 .. n /\ i \in 0 .. n /\ i # 0
  BY <1>1
<1>10. GoesBack(back, n) /\ LeadsOn(G, back, n, S)
  <2>1. GoesBack(back, n)
    BY <1>6, <1>9 DEF GoesBack
  <2>2. LeadsOn(G, back, n, S)
    BY <1>3, <1>6, <1>7, <1>8, <1>9 DEF LeadsOn
  <2> QED
    BY <2>1, <2>2
<1>11. start \in S[0]
  BY <1>1, <1>2, <1>7
<1>12. PICK g : Loops(g, n, start, back, G) /\ Within(g, n, S)
  BY <1>1, <1>10, <1>11, Recursion
<1>13. All(g)
  <2>1. ASSUME NEW i \in 0 .. n, i # 0
        PROVE  G[i][g[back[i]]] = turn(i, g[i - 1])
    <3>1. i \in 1 .. n
      BY <1>1, <2>1
    <3>2. g[i - 1] \in Reads(i - 1)
      BY <1>7, <1>9, <1>12, <3>1 DEF Within
    <3> QED
      BY <1>6, <1>8, <3>1, <3>2
  <2> QED
    BY <1>12, <2>1 DEF Loops
<1>14. PICK f : All(f) /\ getAll(b, input, sizes) = f[n]
  <2>1. getAll(b, input, sizes) = (CHOOSE f : All(f))[n]
    BY Zenon DEF getAll, start, turn, n
  <2> HIDE DEF All
  <2>2. All(CHOOSE f : All(f))
    BY <1>13
  <2> QED
    BY <2>1, <2>2
<1>15. f[0] \in S[0] /\ \A i \in 1 .. n : f[back[i]] \in S[back[i]] => f[i] \in S[i]
  <2>1. f[0] = start
    BY <1>1, <1>14
  <2>2. \A i \in 1 .. n : f[i] = turn(i, f[i - 1])
    BY <1>9, <1>14
  <2> QED
    BY <1>3, <1>6, <1>7, <1>9, <1>11, <2>1, <2>2
<1>16. Within(f, n, S)
  BY <1>1, <1>10, <1>15, Invariably
<1>17. f[n] \in Reads(n)
  BY <1>1, <1>7, <1>16 DEF Within
<1> DEFINE r == f[n]
<1>18. r.buf \in Seq(Octets) /\ r.input \in Seq(Octets) /\ r.vals \in Seq(Seq(Octets)) /\ Len(r.vals) = n
  BY <1>17 DEF Reads
<1> HIDE DEF r
<1>19. \A k \in 1 .. n : r.vals[k] \in Seq(Octets)
  BY <1>18
<1> QED
  BY <1>14, <1>18, <1>19 DEF n, r

LEMMA Powering ==
  ASSUME NEW x \in Nat, NEW n \in Nat, NEW z \in Nat \ {0}
  PROVE  expMod(x, n, z) \in Nat
<1> DEFINE S == [i \in 0 .. n |-> Nat]
           start == 1 % z
           turn(i, h) == (((h * h) % z) * (IF i % 2 = 1 THEN x % z ELSE 1)) % z
           G == [i \in 1 .. n |-> [h \in Nat |-> turn(i, h)]]
           back == [i \in 1 .. n |-> i \div 2]
           Exp(f) == f = [i \in 0 .. n |-> IF i = 0 THEN start ELSE turn(i, f[i \div 2])]
<1>1. start \in Nat
  OBVIOUS
<1>2. ASSUME NEW i, NEW h \in Nat PROVE turn(i, h) \in Nat
  <2>1. \A a \in Nat : a % z \in Nat
    OBVIOUS
  <2>2. h * h \in Nat /\ (IF i % 2 = 1 THEN x % z ELSE 1) \in Nat
    BY <2>1
  <2>3. \A a \in Nat, c \in Nat : a * c \in Nat
    OBVIOUS
  <2> DEFINE s == (h * h) % z
             t == IF i % 2 = 1 THEN x % z ELSE 1
  <2>4. s \in Nat /\ t \in Nat
    BY <2>1, <2>2
  <2>5. turn(i, h) = (s * t) % z
    OBVIOUS
  <2> HIDE DEF s, t, turn
  <2> QED
    BY <2>1, <2>3, <2>4, <2>5
<1>3. \A i \in 1 .. n : i \div 2 \in 0 .. i - 1 /\ i \div 2 \in 0 .. n
  OBVIOUS
<1> HIDE DEF turn, start
<1>4. \A i \in 1 .. n : back[i] = i \div 2
  OBVIOUS
<1>5. \A i \in 0 .. n : S[i] = Nat
  OBVIOUS
<1>6. \A i \in 1 .. n : \A h \in Nat : G[i][h] = turn(i, h)
  OBVIOUS
<1> HIDE DEF S, G, back
<1>7. GoesBack(back, n)
  BY <1>3, <1>4 DEF GoesBack
<1>8. LeadsOn(G, back, n, S)
  <2>1. \A i \in 1 .. n : S[i] = Nat /\ S[back[i]] = Nat
    BY <1>3, <1>4, <1>5
  <2> HIDE DEF Exp
  <2>2. ASSUME NEW i \in 1 .. n, NEW h \in S[back[i]]
        PROVE  G[i][h] \in S[i]
    <3>1. h \in Nat /\ S[i] = Nat
      BY <2>1, <2>2
    <3>2. G[i][h] = turn(i, h)
      BY <1>6, <3>1
    <3> QED
      BY <1>2, <3>1, <3>2
  <2> QED
    BY <2>2 DEF LeadsOn
<1>9. start \in S[0]
  BY <1>1, <1>5
<1>10. PICK g : Loops(g, n, start, back, G) /\ Within(g, n, S)
  BY <1>7, <1>8, <1>9, Recursion
<1>11. Exp(g)
  <2>1. ASSUME NEW i \in 0 .. n, i # 0
        PROVE  G[i][g[back[i]]] = turn(i, g[i \div 2])
    <3>1. i \in 1 .. n
      BY <2>1
    <3>2. g[i \div 2] \in Nat
      BY <1>3, <1>5, <1>10, <3>1 DEF Within
    <3> QED
      BY <1>4, <1>6, <3>1, <3>2
  <2> QED
    BY <1>10, <2>1 DEF Loops
<1>12. PICK f : Exp(f) /\ expMod(x, n, z) = f[n]
  <2>1. expMod(x, n, z) = (CHOOSE f : Exp(f))[n]
    BY Zenon DEF expMod, start, turn
  <2> HIDE DEF Exp
  <2>2. Exp(CHOOSE f : Exp(f))
    BY <1>11
  <2> QED
    BY <2>1, <2>2
<1>13. f[0] \in S[0] /\ \A i \in 1 .. n : f[back[i]] \in S[back[i]] => f[i] \in S[i]
  <2>1. f[0] = start
    BY <1>12
  <2>2. \A i \in 1 .. n : f[i] = turn(i, f[i \div 2])
    BY <1>12
  <2>3. \A i \in 1 .. n : S[i] = Nat /\ S[back[i]] = Nat
    BY <1>3, <1>4, <1>5
  <2> QED
    BY <1>2, <1>4, <1>9, <2>1, <2>2, <2>3
<1>14. Within(f, n, S)
  BY <1>7, <1>13, Invariably
<1> QED
  BY <1>5, <1>12, <1>14 DEF Within

LEMMA BytesOf ==
  ASSUME NEW x \in Nat, NEW n \in Nat
  PROVE  bytesOf(x, n) \in Seq(Octets) /\ Len(bytesOf(x, n)) = n
<1>1. ASSUME NEW i \in 1 .. n PROVE bytesOf(x, n)[i] \in Octets
  <2>1. CASE n - i >= WordBytes
    BY <2>1, Zero DEF bytesOf
  <2>2. CASE ~(n - i >= WordBytes)
    <3>1. n - i \in 0 .. WordBytes /\ n - i \in Nat
      BY <2>2, WordConstants
    <3> DEFINE k == n - i
    <3>2. k \in Nat /\ k <= WordBytes
      BY <3>1, WordConstants
    <3>3. Byte ^ k = 2 ^ (ByteBits * k)
      BY <3>1, PowersOfTwo
    <3> HIDE DEF k
    <3>4. ByteBits * k \in 0 .. WordBits + ByteBits
      <4>1. \A b \in Nat, w \in Nat, j \in Nat : j <= w => b * j \in Nat /\ b * j <= b * w
        OBVIOUS
      <4>2. ByteBits * k \in Nat /\ ByteBits * k <= WordBits
        BY <3>2, <4>1, WordConstants DEF WordBits
      <4> QED
        BY <4>2, Width, WordConstants
    <3>5. Byte ^ k \in Nat \ {0}
      BY <3>3, <3>4, Powers
    <3>6. (x \div Byte ^ k) % Byte \in 0 .. Byte - 1
      BY <3>5, Division, Widths
    <3> QED
      BY <2>2, <3>6 DEF bytesOf, Octets, k
  <2> QED
    BY <2>1, <2>2
<1>2. bytesOf(x, n) = [i \in 1 .. n |-> bytesOf(x, n)[i]]
  BY DEF bytesOf
<1> QED
  BY <1>1, <1>2, Array

LEMMA LeftPad ==
  ASSUME NEW b \in Seq(Octets), NEW n \in Nat
  PROVE  leftPad(b, n) \in Seq(Octets) /\ Len(leftPad(b, n)) = IF Len(b) > n THEN Len(b) ELSE n
<1>1. CASE Len(b) > n
  BY <1>1 DEF leftPad
<1>2. CASE ~(Len(b) > n)
  <2> DEFINE zeros == [i \in 1 .. n - Len(b) |-> 0]
  <2>1. n - Len(b) \in Nat
    BY <1>2
  <2>2. zeros \in Seq(Octets) /\ Len(zeros) = n - Len(b)
    <3>1. zeros = [i \in 1 .. n - Len(b) |-> zeros[i]] /\ \A i \in 1 .. n - Len(b) : zeros[i] \in Octets
      BY Zero
    <3> HIDE DEF zeros
    <3> QED
      BY <2>1, <3>1, Array
  <2>3. leftPad(b, n) = zeros \o b
    BY <1>2 DEF leftPad
  <2> HIDE DEF zeros
  <2>4. zeros \o b \in Seq(Octets) /\ Len(zeros \o b) = Len(zeros) + Len(b)
    BY <2>2, Joined
  <2> QED
    BY <1>2, <2>1, <2>2, <2>3, <2>4
<1> QED
  BY <1>1, <1>2

LEMMA PadsToWord ==
  ASSUME NEW b \in Bytes, NEW n \in Word
  PROVE  leftPad(b, n) \in Bytes
<1>1. n \in Nat /\ b \in Seq(Octets) /\ Len(b) \in Word
  BY WordNat, BytesAre
<1>2. leftPad(b, n) \in Seq(Octets) /\ Len(leftPad(b, n)) = IF Len(b) > n THEN Len(b) ELSE n
  BY <1>1, LeftPad
<1> QED
  BY <1>1, <1>2, BytesAre

LEMMA WordLength == WordBytes \in Word /\ << >> \in Bytes
<1>1. WordBytes \in Word
  BY MachineConstants, WordConstants, Widths DEF Word
<1>2. << >> \in Seq(Octets) /\ Len(<< >>) = 0
  OBVIOUS
<1> QED
  BY <1>1, <1>2, BytesAre, Zero

\* What a precompiled contract leaves: bytes, and a buffer of bytes.
Result(r) == r.ret \in Bytes /\ r.buf \in Seq(Octets)

LEMMA Results ==
  ASSUME NEW ok, NEW ret \in Bytes, NEW b \in Seq(Octets)
  PROVE  Result(result(ok, ret, b)) /\ result(ok, ret, b).ok = ok
  BY DEF Result, result

LEMMA Scaled ==
  ASSUME NEW a \in Nat, NEW b \in Nat \ {0}
  PROVE  scaled(a, b) \in Nat
<1>1. a * b \in Nat
  OBVIOUS
<1>2. (a * b) \div 20 \in Nat
  BY <1>1
<1>3. GasWord - 1 \in Nat
  BY GasWords
<1> QED
  BY <1>2, <1>3 DEF scaled

LEMMA Complexities == ASSUME NEW x \in Nat PROVE multComplexity(x) \in Nat
<1>1. x * x \in Nat
  OBVIOUS
<1>2. (x * x) \div 4 \in Nat /\ (x * x) \div 16 \in Nat
  BY <1>1
<1> DEFINE q == (x * x) \div 4
           r == (x * x) \div 16
<1>3. q \in Nat /\ r \in Nat
  BY <1>2
<1>4. multComplexity(x) = IF x <= 64 THEN x * x
                          ELSE IF x <= 1024 THEN q + 96 * x - 3072 ELSE r + 480 * x - 199680
  BY SMT DEF multComplexity
<1> HIDE DEF q, r
<1>5. x > 64 => q + 96 * x - 3072 \in Nat
  BY <1>3, SMT
<1>6. x > 1024 => r + 480 * x - 199680 \in Nat
  BY <1>3, SMT
<1> QED
  BY <1>1, <1>4, <1>5, <1>6, SMT

\* Where the three lengths of modExp are read.
LEMMA LengthsAre ==
  ASSUME NEW b \in Seq(Octets), NEW input \in Seq(Octets)
  PROVE  LET l == lengths(b, input) IN
         /\ l.base \in Nat /\ l.exponent \in Nat /\ l.modulus \in Nat
         /\ l.buf \in Seq(Octets) /\ l.input \in Seq(Octets)
<1> DEFINE sizes == <<WordBytes, WordBytes, WordBytes>>
           r == getAll(b, input, sizes)
           l == lengths(b, input)
<1>1. sizes \in Seq(Nat) /\ Len(sizes) = 3
  BY WordConstants
<1>2. /\ l.base = fromBytes(r.vals[1]) /\ l.exponent = fromBytes(r.vals[2])
      /\ l.modulus = fromBytes(r.vals[3]) /\ l.buf = r.buf /\ l.input = r.input
  BY DEF lengths, lengthsOf
<1> HIDE DEF sizes, l
<1>3. r.buf \in Seq(Octets) /\ r.input \in Seq(Octets)
      /\ \A k \in 1 .. 3 : r.vals[k] \in Seq(Octets)
  BY <1>1, GetsAll
<1> HIDE DEF r
<1>4. \A k \in 1 .. 3 : fromBytes(r.vals[k]) \in Nat
  BY <1>3, FromBytes DEF Octets
<1> QED
  BY <1>2, <1>3, <1>4 DEF l

LEMMA LowWords == ASSUME NEW x \in Nat PROVE Uint64(x) \in Nat /\ Uint64(x) \in Word
<1>1. tt64 \in Nat \ {0} /\ tt64 <= tt256 /\ tt256 \in Nat
  BY Widths
<1>2. x % tt64 \in 0 .. tt64 - 1
  BY <1>1
<1> QED
  BY <1>1, <1>2 DEF Uint64, Word

LEMMA ModExpGas ==
  ASSUME NEW b \in Seq(Octets), NEW input \in Seq(Octets)
  PROVE  modExpGas(b, input).gas \in Nat /\ modExpGas(b, input).buf \in Seq(Octets)
<1> DEFINE l == lengths(b, input)
           bLen == Uint64(l.base)
           read == bLen < Len(l.input)
           upto == Min({l.exponent, WordBytes})
           rest == SubSeq(l.input, bLen + 1, Len(l.input))
           h == get(l.buf, rest, upto)
           head == IF read THEN fromBytes(h.val) ELSE 0
           adjusted == adjustedExponentLength(l.exponent, head)
           x == Max({l.modulus, l.base})
           y == Max({adjusted, 1})
           c == modExpGas(b, input)
<1>1. c.gas = scaled(multComplexity(x), y) /\ c.buf = IF read THEN h.buf ELSE l.buf
  BY DEF modExpGas, modExpCost
<1>2. /\ l.base \in Nat /\ l.exponent \in Nat /\ l.modulus \in Nat
      /\ l.buf \in Seq(Octets) /\ l.input \in Seq(Octets)
  BY LengthsAre
<1> HIDE DEF l, c
<1>3. bLen \in Nat
  BY <1>2, LowWords
<1>4. upto \in Nat /\ upto <= WordBytes
  <2>1. l.exponent \in Nat /\ WordBytes \in Nat
    BY <1>2, WordConstants
  <2>2. upto = IF l.exponent <= WordBytes THEN l.exponent ELSE WordBytes
    BY ONLY <2>1, Lesser, Zenon DEF upto
  <2> HIDE DEF upto
  <2> QED
    BY <2>1, <2>2
<1> HIDE DEF bLen, upto
<1>5. rest \in Seq(Octets)
  <2>1. bLen + 1 \in Nat \ {0} /\ Len(l.input) \in Nat /\ Len(l.input) <= Len(l.input)
    BY <1>2, <1>3
  <2> QED
    BY <1>2, <2>1, Slice
<1> HIDE DEF rest
<1>6. h.buf \in Seq(Octets) /\ h.val \in Seq(Octets) /\ Len(h.val) <= WordBytes
  BY <1>2, <1>4, <1>5, Gets
<1> HIDE DEF h
<1>7. head \in Word
  BY <1>6, FromBytes, Zero DEF Octets
<1> HIDE DEF head
<1>8. adjusted \in Nat
  <2> DEFINE bits == IF head = 0 THEN 0 ELSE bitLen(head) - 1
  <2>1. bits \in Nat
    BY <1>7, BitLen, Width
  <2>2. adjusted = IF l.exponent <= WordBytes THEN bits
                   ELSE (l.exponent - WordBytes) * ByteBits + bits
    BY DEF adjustedExponentLength
  <2>3. ~(l.exponent <= WordBytes) => (l.exponent - WordBytes) * ByteBits \in Nat
    <3>1. ~(l.exponent <= WordBytes) => l.exponent - WordBytes \in Nat
      BY <1>2, WordConstants
    <3>2. \A u \in Nat, v \in Nat : u * v \in Nat
      OBVIOUS
    <3> QED
      BY <3>1, <3>2, WordConstants
  <2> HIDE DEF bits, adjusted
  <2> QED
    BY <2>1, <2>2, <2>3
<1> HIDE DEF adjusted
<1>9. x \in Nat /\ y \in Nat \ {0}
  <2>1. l.modulus \in Nat /\ l.base \in Nat /\ adjusted \in Nat /\ 1 \in Nat
    BY <1>2, <1>8
  <2>2. x = IF l.modulus >= l.base THEN l.modulus ELSE l.base
    BY ONLY <2>1, Greater, Zenon DEF x
  <2>3. y = IF adjusted >= 1 THEN adjusted ELSE 1
    BY ONLY <2>1, Greater, Zenon DEF y
  <2> HIDE DEF x, y
  <2> QED
    BY <2>1, <2>2, <2>3
<1> HIDE DEF x, y
<1>10. scaled(multComplexity(x), y) \in Nat
  BY <1>9, Complexities, Scaled
<1>11. c.buf \in Seq(Octets)
  BY <1>1, <1>2, <1>6
<1> QED
  BY <1>1, <1>10, <1>11 DEF c

LEMMA ModExpRun ==
  ASSUME NEW b \in Seq(Octets), NEW input \in Seq(Octets)
  PROVE  Result(modExpRun(b, input))
<1> DEFINE l == lengths(b, input)
           bs == Uint64(l.base)
           es == Uint64(l.exponent)
           ms == Uint64(l.modulus)
           sizes == <<bs, es, ms>>
           r == getAll(l.buf, l.input, sizes)
           z == fromBytes(r.vals[3])
           x == fromBytes(r.vals[1])
           e == fromBytes(r.vals[2])
           n == modExpRun(b, input)
           bytes == IF z = 0 THEN << >> ELSE bytesOf(expMod(x, e, z), ms)
<1>1. n = IF bs = 0 /\ ms = 0 THEN result(TRUE, << >>, l.buf)
          ELSE result(TRUE, leftPad(bytes, ms), r.buf)
  BY DEF modExpRun, modExpLengths, modExpOf, modExpResult
<1>2. /\ l.base \in Nat /\ l.exponent \in Nat /\ l.modulus \in Nat
      /\ l.buf \in Seq(Octets) /\ l.input \in Seq(Octets)
  BY LengthsAre
<1> HIDE DEF l, n
<1>3. bs \in Nat /\ es \in Nat /\ ms \in Word /\ ms \in Nat
  BY <1>2, LowWords
<1> HIDE DEF bs, es, ms
<1>4. sizes \in Seq(Nat) /\ Len(sizes) = 3
  BY <1>3
<1> HIDE DEF sizes
<1>5. r.buf \in Seq(Octets) /\ \A k \in 1 .. 3 : r.vals[k] \in Seq(Octets)
  BY <1>2, <1>4, GetsAll
<1> HIDE DEF r
<1>6. x \in Nat /\ e \in Nat /\ z \in Nat
  BY <1>5, FromBytes DEF Octets
<1> HIDE DEF x, e, z
<1>7. bytes \in Bytes
  <2>1. CASE z = 0
    BY <2>1, WordLength
  <2>2. CASE z # 0
    <3>1. expMod(x, e, z) \in Nat
      BY <1>6, <2>2, Powering
    <3>2. bytesOf(expMod(x, e, z), ms) \in Seq(Octets) /\ Len(bytesOf(expMod(x, e, z), ms)) = ms
      BY <1>3, <3>1, BytesOf
    <3> QED
      BY <1>3, <2>2, <3>2, BytesAre
  <2> QED
    BY <2>1, <2>2
<1> HIDE DEF bytes
<1>8. leftPad(bytes, ms) \in Bytes
  BY <1>3, <1>7, PadsToWord
<1>9. Result(n)
  BY <1>1, <1>2, <1>5, <1>8, Results, WordLength
<1> QED
  BY <1>9 DEF n

LEMMA PairingRun ==
  ASSUME NEW b \in Seq(Octets), NEW input \in Seq(Octets), Hosted
  PROVE  Result(bn256PairingRun(b, input))
<1> DEFINE n == 2 * (Len(input) \div (6 * WordBytes))
           Oks == {TRUE} \cup {Valid("bn256Pairing", v) : v \in Seq(Octets)}
           Pieces == [ok : Oks, buf : Seq(Octets), input : Seq(Octets)]
           S == [i \in 0 .. n |-> Pieces]
           start == [ok |-> TRUE, buf |-> b, input |-> input]
           turn(i, p) ==
             LET g == get(p.buf, p.input, (IF i % 2 = 1 THEN 2 ELSE 4) * WordBytes)
             IN IF ~p.ok THEN p
                ELSE [ok |-> Valid("bn256Pairing", g.val), buf |-> g.buf, input |-> g.input]
           G == [i \in 1 .. n |-> [p \in Pieces |-> turn(i, p)]]
           back == [i \in 1 .. n |-> i - 1]
           Pairs(f) == f = [i \in 0 .. n |-> IF i = 0 THEN start ELSE turn(i, f[i - 1])]
<1>1. n \in Nat
  <2>1. 6 * WordBytes \in Nat \ {0} /\ Len(input) \in Nat
    BY WordConstants
  <2>2. Len(input) \div (6 * WordBytes) \in Nat
    BY <2>1, Division
  <2> QED
    BY <2>2
<1>2. start \in Pieces
  OBVIOUS
<1>3. ASSUME NEW i, NEW p \in Pieces PROVE turn(i, p) \in Pieces
  <2> DEFINE size == (IF i % 2 = 1 THEN 2 ELSE 4) * WordBytes
             g == get(p.buf, p.input, size)
  <2>1. size \in Nat
    BY WordConstants
  <2>2. p.buf \in Seq(Octets) /\ p.input \in Seq(Octets)
    OBVIOUS
  <2>3. turn(i, p) = IF ~p.ok THEN p
                     ELSE [ok |-> Valid("bn256Pairing", g.val), buf |-> g.buf, input |-> g.input]
    OBVIOUS
  <2> HIDE DEF size, turn
  <2>4. g.buf \in Seq(Octets) /\ g.val \in Seq(Octets) /\ g.input \in Seq(Octets)
    BY <2>1, <2>2, Gets
  <2> HIDE DEF g
  <2>5. Valid("bn256Pairing", g.val) \in Oks
    BY <2>4
  <2> HIDE DEF Oks
  <2> QED
    BY <2>3, <2>4, <2>5
<1> HIDE DEF n, turn, Pieces, Oks, start
<1>6. \A i \in 1 .. n : back[i] = i - 1
  OBVIOUS
<1>7. \A i \in 0 .. n : S[i] = Pieces
  OBVIOUS
<1>8. \A i \in 1 .. n : \A p \in Pieces : G[i][p] = turn(i, p)
  OBVIOUS
<1> HIDE DEF S, G, back
<1>9. \A i \in 1 .. n : i - 1 \in 0 .. i - 1 /\ i - 1 \in 0 .. n /\ i \in 0 .. n /\ i # 0
  BY <1>1
<1>10. GoesBack(back, n) /\ LeadsOn(G, back, n, S)
  <2>1. GoesBack(back, n)
    BY <1>6, <1>9 DEF GoesBack
  <2>2. LeadsOn(G, back, n, S)
    BY <1>3, <1>6, <1>7, <1>8, <1>9 DEF LeadsOn
  <2> QED
    BY <2>1, <2>2
<1>11. start \in S[0]
  BY <1>1, <1>2, <1>7
<1>12. PICK g : Loops(g, n, start, back, G) /\ Within(g, n, S)
  BY <1>1, <1>10, <1>11, Recursion
<1>13. Pairs(g)
  <2>1. ASSUME NEW i \in 0 .. n, i # 0
        PROVE  G[i][g[back[i]]] = turn(i, g[i - 1])
    <3>1. i \in 1 .. n
      BY <1>1, <2>1
    <3>2. g[i - 1] \in Pieces
      BY <1>7, <1>9, <1>12, <3>1 DEF Within
    <3> QED
      BY <1>6, <1>8, <3>1, <3>2
  <2> QED
    BY <1>12, <2>1 DEF Loops
<1> DEFINE f == CHOOSE h : Pairs(h)
           end == f[n]
<1>14. Pairs(f)
  <2> HIDE DEF Pairs
  <2> QED
    BY <1>13
<1>15. bn256PairingRun(b, input) =
         IF Len(input) = 0 THEN result(TRUE, bytesOf(1, WordBytes), b)
         ELSE IF Len(input) % (6 * WordBytes) # 0 THEN result(FALSE, << >>, b)
         ELSE result(end.ok, IF end.ok THEN Digest("bn256Pairing", input) ELSE << >>, end.buf)
  BY Zenon DEF bn256PairingRun, start, turn, n
<1> HIDE DEF f
<1>16. f[0] \in S[0] /\ \A i \in 1 .. n : f[back[i]] \in S[back[i]] => f[i] \in S[i]
  <2>1. f[0] = start
    BY <1>1, <1>14
  <2>2. \A i \in 1 .. n : f[i] = turn(i, f[i - 1])
    BY <1>9, <1>14
  <2> QED
    BY <1>3, <1>6, <1>7, <1>9, <1>11, <2>1, <2>2
<1>17. Within(f, n, S)
  BY <1>1, <1>10, <1>16, Invariably
<1>18. end.buf \in Seq(Octets)
  <2>1. f[n] \in Pieces
    BY <1>1, <1>7, <1>17 DEF Within
  <2> QED
    BY <2>1 DEF Pieces
<1> HIDE DEF end
<1>19. Digest("bn256Pairing", input) \in Bytes /\ bytesOf(1, WordBytes) \in Bytes /\ << >> \in Bytes
  <2>1. bytesOf(1, WordBytes) \in Seq(Octets) /\ Len(bytesOf(1, WordBytes)) = WordBytes
    BY BytesOf, WordConstants
  <2>2. bytesOf(1, WordBytes) \in Bytes /\ << >> \in Bytes
    BY <2>1, WordLength, BytesAre
  <2>3. "bn256Pairing" \in Names
    BY DEF Names
  <2>4. Digest("bn256Pairing", input) \in Bytes
    BY <2>3 DEF Hosted
  <2> QED
    BY <2>2, <2>4
<1> DEFINE ret == IF end.ok THEN Digest("bn256Pairing", input) ELSE << >>
<1>20. ret \in Bytes
  BY <1>19
<1>21. \/ bn256PairingRun(b, input) = result(TRUE, bytesOf(1, WordBytes), b)
       \/ bn256PairingRun(b, input) = result(FALSE, << >>, b)
       \/ bn256PairingRun(b, input) = result(end.ok, ret, end.buf)
  BY <1>15, Zenon
<1> HIDE DEF ret
<1>22. /\ Result(result(TRUE, bytesOf(1, WordBytes), b)) /\ Result(result(FALSE, << >>, b))
       /\ Result(result(end.ok, ret, end.buf))
  BY <1>18, <1>19, <1>20, Results
<1> QED
  BY <1>21, <1>22, Zenon

LEMMA EcrecoverRun ==
  ASSUME NEW b \in Seq(Octets), NEW input \in Seq(Octets), Hosted
  PROVE  Result(ecrecoverRun(b, input))
<1> DEFINE g == get(b, input, 4 * WordBytes)
           d == Digest("ecrecover", g.val)
<1>1. 4 * WordBytes \in Nat
  BY WordConstants
<1>2. g.buf \in Seq(Octets) /\ g.val \in Seq(Octets)
  BY <1>1, Gets
<1> HIDE DEF g
<1>3. d \in Bytes
  <2>1. "ecrecover" \in Names
    BY DEF Names
  <2> QED
    BY <1>2, <2>1 DEF Hosted
<1>4. leftPad(d, WordBytes) \in Bytes /\ << >> \in Bytes
  BY <1>3, PadsToWord, WordLength
<1>5. Result(result(TRUE, << >>, g.buf)) /\ Result(result(TRUE, leftPad(d, WordBytes), g.buf))
  BY <1>2, <1>4, Results
<1>6. \/ ecrecoverRun(b, input) = result(TRUE, << >>, g.buf)
      \/ ecrecoverRun(b, input) = result(TRUE, leftPad(d, WordBytes), g.buf)
  BY DEF ecrecoverRun, g
<1> QED
  BY <1>5, <1>6

LEMMA Bn256Run ==
  ASSUME NEW name \in Names, NEW b \in Seq(Octets), NEW input \in Seq(Octets),
         NEW second \in Nat, Hosted
  PROVE  Result(bn256Run(name, b, input, second))
<1> DEFINE p == get(b, input, 2 * WordBytes)
           q == get(p.buf, p.input, second)
           d == Digest(name, p.val \o q.val)
<1>1. 2 * WordBytes \in Nat
  BY WordConstants
<1>2. p.buf \in Seq(Octets) /\ p.val \in Seq(Octets) /\ p.input \in Seq(Octets)
  BY <1>1, Gets
<1>3. \/ bn256Run(name, b, input, second) = result(FALSE, << >>, p.buf)
      \/ bn256Run(name, b, input, second) = result(FALSE, << >>, q.buf)
      \/ bn256Run(name, b, input, second) = result(TRUE, d, q.buf)
  BY DEF bn256Run
<1> HIDE DEF p
<1>4. q.buf \in Seq(Octets) /\ q.val \in Seq(Octets)
  BY <1>2, Gets
<1> HIDE DEF q
<1>5. p.val \o q.val \in Seq(Octets)
  BY <1>2, <1>4, Joined
<1>6. d \in Bytes
  BY <1>5 DEF Hosted
<1> HIDE DEF d
<1> QED
  BY <1>2, <1>3, <1>4, <1>6, Results, WordLength, ZenonT(60)

LEMMA ContractNames == \A a \in DOMAIN contracts : contracts[a] \in Names
  BY DEF contracts, Names

LEMMA Runs ==
  ASSUME NEW name \in Names, NEW b \in Seq(Octets), NEW input \in Bytes, Hosted
  PROVE  Result(runOf(name, b, input))
<1>1. input \in Seq(Octets) /\ WordBytes \in Nat /\ 2 * WordBytes \in Nat
  BY BytesAre, WordConstants
<1>3. Digest(name, input) \in Bytes
  BY <1>1 DEF Hosted
<1>4. leftPad(Digest(name, input), WordBytes) \in Bytes
  BY <1>3, PadsToWord, WordLength
<1>5. CASE name \in {"ecrecover", "bn256Pairing", "modExp"}
  BY <1>1, <1>5, EcrecoverRun, PairingRun, ModExpRun DEF runOf
<1>6. CASE name \in {"identity", "sha256h", "ripemd160h"}
  BY <1>3, <1>4, <1>6, Results DEF runOf
<1>7. CASE name \in {"bn256Add", "bn256Mul"}
  <2>1. Result(bn256Run(name, b, input, 2 * WordBytes)) /\ Result(bn256Run(name, b, input, WordBytes))
    BY <1>1, Bn256Run
  <2> QED
    BY <1>7, <2>1 DEF runOf
<1>8. CASE name = "blake2f"
  <2>1. Result(result(FALSE, << >>, b)) /\ Result(result(TRUE, Digest("blake2f", input), b))
    BY <1>3, <1>8, Results, WordLength
  <2>2. runOf(name, b, input) = blake2fRun(b, input)
    BY <1>8 DEF runOf
  <2> QED
    BY <2>1, <2>2 DEF blake2fRun
<1> QED
  BY <1>5, <1>6, <1>7, <1>8 DEF Names

LEMMA Gases ==
  ASSUME NEW name \in Names, NEW b \in Seq(Octets), NEW input \in Bytes, NEW config
  PROVE  gasOf(name, b, input, config).gas \in Nat /\ gasOf(name, b, input, config).buf \in Seq(Octets)
<1>1. input \in Seq(Octets) /\ Len(input) \in Nat
  BY BytesAre, WordNat
<1>2. wordsOf(Len(input)) \in Nat
  BY <1>1, WordsOf
<1>3. Len(input) \div (6 * WordBytes) \in Nat
  <2>1. 6 * WordBytes \in Nat \ {0}
    BY WordConstants
  <2> QED
    BY <1>1, <2>1, Division
<1>4. CASE name \in {"sha256h", "ripemd160h", "identity"}
  <2> DEFINE k == wordsOf(Len(input))
  <2>1. /\ name = "sha256h" => gasOf(name, b, input, config) = [gas |-> 60 + k * 12, buf |-> b]
        /\ name = "ripemd160h" => gasOf(name, b, input, config) = [gas |-> 600 + k * 120, buf |-> b]
        /\ name = "identity" => gasOf(name, b, input, config) = [gas |-> 15 + k * 3, buf |-> b]
    BY <1>4, SMT DEF gasOf, baseGasCalc
  <2>2. k \in Nat
    BY <1>2
  <2> HIDE DEF k
  <2>3. 60 + k * 12 \in Nat /\ 600 + k * 120 \in Nat /\ 15 + k * 3 \in Nat
    BY <2>2
  <2> QED
    BY <1>4, <2>1, <2>3
<1>5. CASE name = "modExp"
  BY <1>1, <1>5, ModExpGas DEF gasOf
<1>6. CASE name \in {"ecrecover", "bn256Add", "bn256Mul"}
  <2>1. gasOf(name, b, input, config) \in
          {[gas |-> 3000, buf |-> b], [gas |-> 150, buf |-> b], [gas |-> 500, buf |-> b],
           [gas |-> 6000, buf |-> b], [gas |-> 40000, buf |-> b]}
    BY <1>6, SMT DEF gasOf
  <2> QED
    BY <2>1, SMT
<1>7. CASE name = "bn256Pairing"
  <2> DEFINE k == Len(input) \div (6 * WordBytes)
  <2>1. gasOf(name, b, input, config) =
          [gas |-> (IF "Istanbul" \in config THEN 45000 ELSE 100000)
                   + (IF "Istanbul" \in config THEN 34000 ELSE 80000) * k,
           buf |-> b]
    BY <1>7, SMT DEF gasOf
  <2> HIDE DEF k
  <2>2. k \in Nat
    BY <1>3 DEF k
  <2> QED
    BY <2>1, <2>2, SMT
<1>8. CASE name = "blake2f"
  <2>1. Len(input) = BlakeLen => fromBytes(SubSeq(input, 1, 4)) \in Nat
    <3>1. Len(input) = BlakeLen => SubSeq(input, 1, 4) \in Seq(Octets)
      BY <1>1, Slice, BlakeLength
    <3> QED
      BY <3>1, FromBytes DEF Octets
  <2>2. gasOf(name, b, input, config) =
          [gas |-> IF Len(input) # BlakeLen THEN 0 ELSE fromBytes(SubSeq(input, 1, 4)), buf |-> b]
    BY <1>8 DEF gasOf
  <2> QED
    BY <2>1, <2>2
<1> QED
  BY <1>4, <1>5, <1>6, <1>7, <1>8 DEF Names

\* A precompiled contract answers with bytes and gives back no more gas than it got.
LEMMA PrecompiledRun ==
  ASSUME NEW name \in Names, NEW b \in Seq(Octets), NEW input \in Bytes, NEW gas \in Nat,
         NEW config, Hosted
  PROVE  LET r == Run(name, b, input, gas, config) IN
         r.ret \in Bytes /\ r.buf \in Seq(Octets) /\ r.gas \in Nat /\ r.gas <= gas
<1> DEFINE c == gasOf(name, b, input, config)
           s == runOf(name, c.buf, input)
           r == Run(name, b, input, gas, config)
<1>1. c.gas \in Nat /\ c.buf \in Seq(Octets)
  BY Gases
<1>2. r = IF gas < c.gas THEN [err |-> "errOutOfGas", ret |-> << >>, gas |-> 0, buf |-> c.buf]
          ELSE outcome(s, gas - c.gas)
  BY DEF Run, runFor
<1> HIDE DEF c, r
<1>3. s.ret \in Bytes /\ s.buf \in Seq(Octets)
  BY <1>1, Runs DEF Result
<1> HIDE DEF s
<1>4. CASE gas < c.gas
  BY <1>1, <1>2, <1>4, WordLength DEF r
<1>5. CASE ~(gas < c.gas)
  <2>1. r = outcome(s, gas - c.gas)
    BY <1>2, <1>5
  <2>2. outcome(s, gas - c.gas).ret \in Bytes /\ outcome(s, gas - c.gas).buf \in Seq(Octets)
    BY <1>3, WordLength DEF outcome
  <2>3. outcome(s, gas - c.gas).gas \in {0, gas - c.gas}
    BY DEF outcome
  <2> QED
    BY <1>1, <1>5, <2>1, <2>2, <2>3 DEF r
<1> QED
  BY <1>4, <1>5

-----------------------------------------------------------------------------
(* RETURNDATACOPY.                                                         *)

\* The running machine, paid for its instruction, becomes x and the loop goes on.
LEMMA Goes ==
  ASSUME Inv, inCode, NEW c, Sound(c), SameBut(running, c, {"gas", "spent"}), NEW x, Leaves(c, x),
         continue(stepped(x))
  PROVE  Inv'
<1>1. Frame(running)
  BY Running DEF inCode
<1>2. Frame(stepped(x)) /\ stepped(x).given = running.given
  BY <1>1, Turn
<1> QED
  BY <1>2, Continues DEF inCode

\* The process stops: the machines stay as they are.
LEMMA Panics == ASSUME Inv, panic PROVE Inv'
<1>1. panicked' = TRUE /\ UNCHANGED <<pool, runs, buf>>
  BY DEF panic
<1>2. frames' = frames
  BY DEF panic
<1>3. FramesOK(frames)'
  <2>1. \A fs : FramesOK(fs) /\ frames' = fs => FramesOK(frames)'
    BY DEF FramesOK
  <2> QED
    BY <1>2, <2>1 DEF Inv
<1>4. panicked' \in BOOLEAN
  BY <1>1, Zenon
<1>5. (runs \in 0 .. MaxRuns)' /\ (buf \in Seq(Octets))' /\ (\A m \in pool : Pooled(m))'
  BY <1>1 DEF Inv
<1> QED
  BY <1>3, <1>4, <1>5 DEF Inv

LEMMA ReturnDataCopyKeeps == ASSUME Inv, ReturnDataCopy PROVE Inv'
<1> DEFINE c == charged(running)
           o == peekAt(c, 1)
           from == peekAt(c, 2)
           size == peekAt(c, 3)
           end == from + size
           q == copyTo(pop(c, 3), o, size, 0)
           p == IF ~enabled(c, "RETURNDATACOPY") THEN exit(c, "errOpCodeNotFound")
                ELSE IF q.stop THEN q
                ELSE IF end >= tt64 \/ Len(q.returnData) < end
                     THEN exit(q, "errReturnDataOutOfBounds") ELSE q
           piece == SubSeq(p.returnData, from + 1, end)
<1>1. /\ inCode /\ opOf(running) = "RETURNDATACOPY" /\ affordable(running)
      /\ \/ p.stop /\ continue(stepped(p))
         \/ panic
         \/ ~p.stop /\ continue(stepped(store(p, o, piece)))
  BY Zenon DEF ReturnDataCopy, then
<1>2. Takes("RETURNDATACOPY") = 3
  BY TakesAre
<1>3. /\ Sound(c) /\ ~c.stop /\ SameBut(running, c, {"gas", "spent"}) /\ c.sp >= 3
      /\ c.sp \in Nat
  BY <1>1, <1>2, Finds
<1> HIDE DEF c
<1>4. o \in Nat /\ from \in Nat /\ size \in Nat
  BY <1>3, Peeks, WordNat
<1> HIDE DEF o, from, size
<1>5. Works(c, pop(c, 3)) /\ Sound(pop(c, 3)) /\ ~pop(c, 3).stop
  BY <1>3, WorksPop DEF Works
<1>6. Works(pop(c, 3), q) /\ (~q.stop => size = 0 \/ o + size <= q.len)
  BY <1>4, <1>5, WorksCopyTo
<1>7. Works(c, q) /\ Sound(q)
  BY <1>3, <1>5, <1>6, WorksTrans DEF Works
<1> HIDE DEF q
<1>8. Works(c, exit(c, "errOpCodeNotFound")) /\ exit(c, "errOpCodeNotFound").stop
  BY <1>3, WorksExit
<1>9. Works(q, exit(q, "errReturnDataOutOfBounds")) /\ exit(q, "errReturnDataOutOfBounds").stop
  BY <1>7, WorksExit
<1>10. Works(c, exit(q, "errReturnDataOutOfBounds"))
  BY <1>3, <1>7, <1>9, WorksTrans
<1>11. Works(c, p)
  BY <1>7, <1>8, <1>10
<1>12. ~p.stop => p = q /\ Len(p.returnData) >= end
  <2>1. Len(q.returnData) \in Nat /\ end \in Nat
    BY <1>4, <1>7, BytesAre, WordNat DEF Sound, ContractOK
  <2> HIDE DEF end
  <2> QED
    BY <1>8, <1>9, <2>1
<1> HIDE DEF p
<1>13. CASE p.stop /\ continue(stepped(p))
  BY <1>1, <1>3, <1>11, <1>13, Goes, WorksLeaves
<1>14. CASE panic
  BY <1>14, Panics
<1>15. CASE ~p.stop /\ continue(stepped(store(p, o, piece)))
  <2>1. p.returnData \in Seq(Octets) /\ Sound(p)
    BY <1>11, BytesAre DEF Works, Sound, ContractOK
  <2>2. from + 1 \in Nat \ {0} /\ end \in Nat /\ end <= Len(p.returnData)
    <3>1. Len(p.returnData) \in Nat
      BY <2>1
    <3> QED
      BY <1>4, <1>12, <1>15, <3>1
  <2>3. piece \in Seq(Octets) /\ Len(piece) = IF from + 1 <= end THEN end - (from + 1) + 1 ELSE 0
    BY <2>1, <2>2, Slice
  <2> HIDE DEF piece
  <2>4. Len(piece) = size
    BY <1>4, <2>3
  <2>5. Len(piece) = 0 \/ o + Len(piece) <= p.len
    BY <1>6, <1>12, <1>15, <2>4
  <2>6. Works(p, store(p, o, piece))
    BY <1>4, <2>1, <2>3, <2>5, WorksStore
  <2>7. Works(c, store(p, o, piece))
    BY <1>3, <1>11, <2>6, WorksTrans
  <2> QED
    BY <1>1, <1>3, <1>15, <2>7, Goes, WorksLeaves
<1> QED
  BY <1>1, <1>13, <1>14, <1>15

-----------------------------------------------------------------------------
(* Calls.                                                                  *)

\* The gas counter goes up, by no more than had gone out of it.
LEMMA SoundRefund ==
  ASSUME NEW m, Sound(m), NEW g \in Nat,
         CallsPaid /\ m.given < 3 * GasRoot =>
           m.gas + g + m.spent + dueFor(m.len \div WordBytes) <= m.given
  PROVE  LET n == [m EXCEPT !.gas = (m.gas + g) % GasWord]
         IN  Sound(n) /\ SameBut(m, n, {"gas"}) /\ n.stop = m.stop
<1> DEFINE n == [m EXCEPT !.gas = (m.gas + g) % GasWord]
<1>1. SameBut(m, n, {"gas"}) /\ n.gas = (m.gas + g) % GasWord
  BY Refunds DEF Sound
<1> HIDE DEF n
<1>2. /\ n.stop = m.stop /\ n.lastGasCost = m.lastGasCost /\ n.given = m.given
      /\ n.spent = m.spent /\ n.len = m.len
  BY <1>1 DEF SameBut, Fields
<1>3. StackOK(n) /\ MemoryOK(n) /\ ContractOK(n)
  BY <1>1, <1>2, StackKept, MemoryKept, ContractKept DEF Sound, ContractOK
<1>4. m.gas \in Nat /\ m.lastGasCost \in Nat /\ m.given \in Nat /\ m.spent \in Nat
  BY GasWords DEF Sound, GasOK
<1>5. n.gas \in 0 .. GasWord - 1 /\ n.gas <= m.gas + g
  <2>1. m.gas + g \in Nat
    BY <1>4
  <2>2. (m.gas + g) % GasWord \in 0 .. m.gas + g /\ (m.gas + g) % GasWord < GasWord
    BY <2>1, GasWords, Division
  <2> QED
    BY <1>1, <2>1, <2>2, GasWords
<1>6. Paid(n)
  <2>1. ASSUME CallsPaid, n.given < 3 * GasRoot
        PROVE  /\ n.gas + n.spent + dueFor(n.len \div WordBytes) <= n.given
               /\ ~n.stop => n.lastGasCost = dueFor(n.len \div WordBytes)
    <3>1. m.gas + g + m.spent + dueFor(m.len \div WordBytes) <= m.given
          /\ (~m.stop => m.lastGasCost = dueFor(m.len \div WordBytes))
      BY <1>2, <2>1 DEF Sound, GasOK, Paid
    <3>2. dueFor(m.len \div WordBytes) \in Nat
      BY Due, MemoryWords DEF Sound
    <3> QED
      BY <1>2, <1>4, <1>5, <3>1, <3>2
  <2> QED
    BY <2>1 DEF Paid
<1>7. Sound(n)
  BY <1>1, <1>2, <1>3, <1>4, <1>5, <1>6 DEF Sound, SameBut, GasOK
<1> QED
  BY <1>1, <1>2, <1>7 DEF n

LEMMA SoundClear ==
  ASSUME NEW m, Sound(m), NEW b \in Bytes
  PROVE  LET n == [m EXCEPT !.returnData = b]
         IN  Sound(n) /\ SameBut(m, n, {"returnData"}) /\ n.returnData = b
<1> DEFINE n == [m EXCEPT !.returnData = b]
<1>1. SameBut(m, n, {"returnData"}) /\ n.returnData = b
  BY Clears DEF Sound
<1> HIDE DEF n
<1>2. /\ n.stop = m.stop /\ n.code = m.code /\ n.input = m.input /\ n.ip = m.ip
      /\ n.ret = m.ret /\ n.value = m.value
  BY <1>1 DEF SameBut, Fields
<1>3. StackOK(n) /\ MemoryOK(n) /\ GasOK(n)
  BY <1>1, <1>2, StackKept, MemoryKept, GasKept DEF Sound
<1>4. ContractOK(n)
  BY <1>1, <1>2 DEF Sound, ContractOK
<1>5. Sound(n)
  BY <1>1, <1>3, <1>4 DEF Sound, SameBut
<1> QED
  BY <1>1, <1>5 DEF n

\* The words of a call.
ArgsOK(a) ==
  /\ a.gas \in Word /\ a.value \in Word \cup {NilValue}
  /\ a.inOffset \in Nat /\ a.inSize \in Nat /\ a.retOffset \in Nat /\ a.retSize \in Nat

LEMMA Args ==
  ASSUME NEW m, Sound(m), NEW op \in DOMAIN CallOps, m.sp >= CallOps[op]
  PROVE  ArgsOK(callArgs(m, op))
<1> DEFINE k == IF op \in {"CALL", "CALLCODE"} THEN 1 ELSE 0
           a == callArgs(m, op)
<1>1. op \in {"CALL", "CALLCODE", "DELEGATECALL", "STATICCALL"}
  BY DEF CallOps
<1>2. m.sp \in Nat /\ k \in {0, 1} /\ m.sp >= k + 6
  <2>1. CallOps[op] = k + 6
    BY <1>1 DEF CallOps
  <2> QED
    BY <2>1, Depth
<1>3. /\ a.gas = peekAt(m, 1) /\ a.value \in {peekAt(m, 3), NilValue}
      /\ a.inOffset = peekAt(m, k + 3) /\ a.inSize = peekAt(m, k + 4)
      /\ a.retOffset = peekAt(m, k + 5) /\ a.retSize = peekAt(m, k + 6)
  BY DEF callArgs
<1> HIDE DEF k, a
<1>4. /\ k + 3 \in Nat /\ 1 <= k + 3 /\ k + 3 <= m.sp
      /\ k + 4 \in Nat /\ 1 <= k + 4 /\ k + 4 <= m.sp
      /\ k + 5 \in Nat /\ 1 <= k + 5 /\ k + 5 <= m.sp
      /\ k + 6 \in Nat /\ 1 <= k + 6 /\ k + 6 <= m.sp
      /\ 1 <= m.sp /\ 3 <= m.sp
  BY <1>2
<1>5. /\ peekAt(m, 1) \in Word /\ peekAt(m, 3) \in Word /\ peekAt(m, k + 3) \in Word
      /\ peekAt(m, k + 4) \in Word /\ peekAt(m, k + 5) \in Word /\ peekAt(m, k + 6) \in Word
  BY <1>4, Peeks
<1>6. ArgsOK(a)
  BY <1>3, <1>5, WordNat DEF ArgsOK
<1> QED
  BY <1>6 DEF a

\* The ranges of a call have been paid for, and lie in the memory.
LEMMA WorksSized ==
  ASSUME NEW m, Sound(m), ~m.stop, NEW op \in DOMAIN CallOps, m.sp >= CallOps[op],
         NEW a, ArgsOK(a)
  PROVE  LET z == sizedCall(m, a, op) IN
         /\ Works(m, z)
         /\ ~z.stop =>
              /\ z.sp <= m.sp /\ z.ip = m.ip
              /\ a.inSize = 0 \/ (a.inOffset + a.inSize <= z.len /\ a.inSize <= MemLimit)
              /\ a.retSize = 0 \/ ( /\ a.retOffset + a.retSize <= z.len
                                    /\ a.retOffset < tt64 /\ a.retSize < tt64)
<1> DEFINE e == exit(m, callRefusal(m, a, op))
           d == pop(m, CallOps[op])
           p == checkMemory(d, a.inOffset, a.inSize)
           q == checkMemory(p, a.retOffset, a.retSize)
           z == sizedCall(m, a, op)
<1>1. z = IF callRefusal(m, a, op) # "" THEN e ELSE IF p.stop THEN p ELSE q
  BY DEF sizedCall, then
<1>2. Works(m, e) /\ e.stop
  BY WorksExit
<1>3. CallOps[op] \in Nat
  BY DEF CallOps
<1>4. Works(m, d) /\ Sound(d) /\ ~d.stop /\ d.sp <= m.sp /\ d.ip = m.ip
  <2>1. Works(m, d) /\ d.stop = m.stop /\ d.sp = m.sp - CallOps[op]
    BY <1>3, WorksPop
  <2>2. d.ip = m.ip
    BY Pops DEF Sound, SameBut, Fields
  <2> QED
    BY <1>3, <2>1, <2>2, Depth DEF Works
<1> HIDE DEF d
<1>5. /\ Works(d, p) /\ Sound(p) /\ p.sp = d.sp /\ p.ip = d.ip
      /\ ~p.stop => a.inSize = 0 \/ (a.inOffset + a.inSize <= p.len /\ a.inSize <= MemLimit)
  BY <1>4, WorksCheck DEF ArgsOK, Works
<1>6. Works(m, p)
  BY <1>4, <1>5, WorksTrans
<1> HIDE DEF p
<1>7. CASE ~p.stop
  <2>1. /\ Works(p, q) /\ q.sp = p.sp /\ q.ip = p.ip
        /\ ~q.stop => \/ a.retSize = 0
                      \/ /\ a.retOffset + a.retSize <= q.len
                         /\ a.retOffset < tt64 /\ a.retSize < tt64
    BY <1>5, <1>7, WorksCheck DEF ArgsOK
  <2>2. Works(m, q)
    BY <1>6, <2>1, WorksTrans
  <2> HIDE DEF q
  <2>3. q.len >= p.len /\ q.len \in Nat /\ p.len \in Nat
    BY <1>5, <2>1 DEF Works, Sound, MemoryOK
  <2>4. a.inSize = 0 \/ (a.inOffset + a.inSize <= q.len /\ a.inSize <= MemLimit)
    BY <1>5, <1>7, <2>3 DEF ArgsOK
  <2>5. z = e \/ z = q
    BY <1>1, <1>7
  <2> HIDE DEF e, z
  <2> QED
    BY <1>2, <1>4, <1>5, <2>1, <2>2, <2>4, <2>5 DEF z
<1>8. CASE p.stop
  <2>1. z = e \/ z = p
    BY <1>1, <1>8
  <2> HIDE DEF e, z
  <2> QED
    BY <1>2, <1>6, <1>8, <2>1 DEF z
<1>9. p.stop \in BOOLEAN
  BY <1>5, Depth
<1> QED
  BY <1>7, <1>8, <1>9

\* What a call costs besides the gas that it passes on; a stipend is less than what
\* is paid for it.
LEMMA CallGas ==
  ASSUME NEW m, NEW a, NEW op
  PROVE  /\ callGas(m, a, op) \in Nat /\ callGas(m, a, op) <= CallMost
         /\ transfersValue(a) => callGas(m, a, op) >= 9000
<1> DEFINE base == IF active(m, "EIP150") THEN 700 ELSE 40
           made == IF makesAccount(m, a, op) THEN 25000 ELSE 0
           sent == IF transfersValue(a) THEN 9000 ELSE 0
<1>1. base \in {700, 40}
  OBVIOUS
<1>2. made \in {25000, 0}
  OBVIOUS
<1>3. sent \in {9000, 0} /\ (transfersValue(a) => sent = 9000)
  OBVIOUS
<1>4. callGas(m, a, op) = base + made + sent
  BY DEF callGas
<1> HIDE DEF base, made, sent
<1>5. base + made + sent \in Nat /\ base + made + sent <= 34700
  BY <1>1, <1>2, <1>3, SMT
<1>6. transfersValue(a) => base + made + sent >= 9000
  BY <1>1, <1>2, <1>3, SMT
<1> QED
  BY <1>4, <1>5, <1>6 DEF CallMost

LEMMA Passed ==
  ASSUME NEW m, Sound(m), NEW a, ArgsOK(a), NEW cost \in Nat
  PROVE  passedGas(m, a, cost) \in Nat
<1> DEFINE available == (m.gas - cost) % GasWord
           most == available - available \div 64
<1>1. m.gas \in Nat /\ a.gas \in Nat
  BY GasWords, WordNat DEF Sound, GasOK, ArgsOK
<1>2. available \in Nat
  BY <1>1, GasWords
<1> HIDE DEF available
<1>3. most \in Nat
  BY <1>2
<1> HIDE DEF most
<1>4. passedGas(m, a, cost) \in {most, a.gas}
  BY DEF passedGas, most, available
<1> QED
  BY <1>1, <1>3, <1>4

\* Numbers: what is left after a call that passes g on, where the cost and the gas
\* passed on do not wrap around.
LEMMA PassesOn ==
  ASSUME NEW word \in Nat, NEW gas \in Nat, gas < word, NEW cost \in Nat, NEW g \in Nat,
         cost + g < word, (cost + g) % word <= gas
  PROVE  (cost + g) % word = cost + g /\ cost + g <= gas
<1>1. cost + g \in 0 .. word - 1
  OBVIOUS
<1>2. \A x \in 0 .. word - 1 : x % word = x
  OBVIOUS
<1> QED
  BY <1>1, <1>2

\* All but one 64th: there is not enough for the cost, and the sum shows it, since the
\* 64th that is kept back is more than the cost.
LEMMA KeepsBack ==
  ASSUME NEW word \in Nat, word > 65 * CallMost, NEW gas \in Nat, gas < word,
         NEW cost \in Nat, cost <= CallMost, NEW g \in Nat,
         g <= ((gas - cost) % word) - ((gas - cost) % word) \div 64,
         (cost + g) % word <= gas
  PROVE  (cost + g) % word = cost + g /\ cost + g <= gas
<1> DEFINE avail == (gas - cost) % word
<1>1. word \in Nat \ {0}
  BY SMT DEF CallMost
<1>2. CASE gas >= cost
  <2>1. gas - cost \in 0 .. word - 1
    BY <1>1, <1>2
  <2>2. avail = gas - cost
    BY <1>1, <2>1
  <2>3. avail \div 64 >= 0
    BY <2>1, <2>2
  <2>4. g <= avail - avail \div 64
    OBVIOUS
  <2> HIDE DEF avail
  <2>5. cost + g < word
    BY <1>2, <2>1, <2>2, <2>3, <2>4
  <2> QED
    BY <1>1, <2>5, PassesOn
<1>3. CASE gas < cost
  <2>1. gas - cost + word \in 0 .. word - 1
    BY <1>1, <1>3, SMT DEF CallMost
  <2>2. avail = gas - cost + word
    BY <1>1, <1>3, <2>1
  <2>3. g <= avail - avail \div 64
    OBVIOUS
  <2> HIDE DEF avail
  <2>4. avail \div 64 >= 34700
    BY <1>1, <1>3, <2>1, <2>2, SMT DEF CallMost
  <2>5. cost + g < word
    BY <1>3, <2>1, <2>2, <2>3, <2>4, SMT DEF CallMost
  <2> QED
    BY <1>1, <2>5, PassesOn
<1> QED
  BY <1>2, <1>3

\* A call that has paid: the gas that it passes on, with the stipend, is out of the
\* caller's.
LEMMA WorksPaid ==
  ASSUME NEW m, Sound(m), NEW op, NEW a, ArgsOK(a),
         CallsPaid => tt64 + CallMost <= GasWord \/ "EIP150" \in m.config
  PROVE  LET p == paidCall(m, a, op)
             c == callee(m, a, op)
         IN  /\ Works(m, p)
             /\ c.gas \in 0 .. GasWord - 1
             /\ ~p.stop => SameBut(m, p, {"gas"})
             /\ ~p.stop /\ CallsPaid => p.gas + c.gas <= m.gas
<1> DEFINE cost == callGas(m, a, op)
           g == passedGas(m, a, cost)
           total == (cost + g) % GasWord
           stipend == IF transfersValue(a) THEN 2300 ELSE 0
           named == ~active(m, "EIP150") /\ a.gas >= tt64
           e == exit(m, "errOutOfGas")
           q == consumeGas(m, total)
           p == paidCall(m, a, op)
           c == callee(m, a, op)
<1>1. p = IF named THEN e ELSE q
  BY DEF paidCall
<1>2. c.gas = (g + stipend) % GasWord
  BY DEF callee
<1>3. cost \in Nat /\ cost <= CallMost /\ (transfersValue(a) => cost >= 9000)
  BY CallGas
<1>4. stipend \in {0, 2300} /\ (transfersValue(a) <=> stipend = 2300)
  BY SMT
<1>5. GasWord \in Nat \ {0} /\ GasWord > 65 * CallMost
  BY GasWords, MachineConstants
<1>6. m.gas \in Nat /\ m.gas < GasWord
  BY <1>5 DEF Sound, GasOK
<1> HIDE DEF c, p, cost
<1>7. g \in Nat
  BY <1>3, Passed
<1>8. active(m, "EIP150") =>
        g <= ((m.gas - cost) % GasWord) - ((m.gas - cost) % GasWord) \div 64
  <2>1. SUFFICES ASSUME active(m, "EIP150")
                 PROVE  g <= ((m.gas - cost) % GasWord) - ((m.gas - cost) % GasWord) \div 64
    OBVIOUS
  <2> DEFINE most == ((m.gas - cost) % GasWord) - ((m.gas - cost) % GasWord) \div 64
  <2>2. g = IF a.gas >= tt64 \/ most < a.gas THEN most ELSE a.gas
    BY <2>1 DEF passedGas
  <2>3. (m.gas - cost) % GasWord \in Nat
    BY <1>3, <1>5, <1>6
  <2>4. most \in Int /\ a.gas \in Nat
    BY <2>3, WordNat DEF ArgsOK
  <2> HIDE DEF most, g
  <2>5. g <= most
    BY <2>2, <2>4, Widths
  <2> QED
    BY <2>5 DEF most
<1>9. ~active(m, "EIP150") => g = a.gas
  BY DEF passedGas
<1> HIDE DEF g, stipend
<1>10. total \in Nat
  BY <1>3, <1>5, <1>7
<1>11. c.gas \in 0 .. GasWord - 1 /\ c.gas <= g + stipend
  <2>1. g + stipend \in Nat
    BY <1>4, <1>7, SMT
  <2> QED
    BY <1>2, <1>5, <2>1, Division
<1>12. Works(m, e) /\ e.stop
  BY WorksExit
<1>13. Works(m, q) /\ (~q.stop => q.gas = m.gas - total /\ ~m.stop)
  BY <1>10, WorksConsume
<1>14. ~q.stop => ~(m.gas < total) /\ SameBut(m, q, {"gas"})
  <2>1. /\ m.gas < total => q.stop
        /\ ~(m.gas < total) => SameBut(m, q, {"gas"})
    BY Consumes DEF Sound
  <2> QED
    BY <2>1
<1>15. ASSUME ~p.stop, CallsPaid
       PROVE  p.gas + c.gas <= m.gas
  <2>1. ~named /\ p = q /\ ~q.stop
    BY <1>1, <1>12, <1>15
  <2>2. total <= m.gas /\ p.gas = m.gas - total
    BY <1>6, <1>10, <1>13, <1>14, <2>1
  <2>3. total = cost + g
    <3>1. CASE active(m, "EIP150")
      <4>1. g <= ((m.gas - cost) % GasWord) - ((m.gas - cost) % GasWord) \div 64
        BY <1>8, <2>1, <3>1
      <4>2. GasWord \in Nat /\ (cost + g) % GasWord <= m.gas
        BY <1>5, <2>2
      <4>3. (cost + g) % GasWord = cost + g
        BY <1>3, <1>5, <1>6, <1>7, <4>1, <4>2, KeepsBack
      <4> QED
        BY <4>3
    <3>2. CASE ~active(m, "EIP150")
      <4>1. a.gas \in Nat /\ tt64 \in Nat /\ a.gas < tt64
        BY <2>1, <3>2, WordNat, Widths DEF ArgsOK
      <4>2. tt64 + CallMost <= GasWord
        BY <1>15, <3>2 DEF active
      <4>3. CallMost \in Nat
        BY SMT DEF CallMost
      <4>4. cost + g < GasWord
        BY <1>3, <1>5, <1>9, <3>2, <4>1, <4>2, <4>3
      <4>5. (cost + g) % GasWord = cost + g
        BY <1>3, <1>5, <1>7, <4>4
      <4> QED
        BY <4>5
    <3> QED
      BY <3>1, <3>2
  <2> HIDE DEF total
  <2>4. stipend <= cost
    BY <1>3, <1>4, SMT
  <2>5. c.gas \in Int /\ stipend \in Int
    BY <1>4, <1>5, <1>11, SMT
  <2> QED
    BY <1>3, <1>6, <1>7, <1>11, <2>2, <2>3, <2>4, <2>5
<1>16. Works(m, p)
  BY <1>1, <1>12, <1>13
<1>17. ~p.stop => SameBut(m, p, {"gas"})
  BY <1>1, <1>12, <1>14
<1> QED
  BY <1>11, <1>15, <1>16, <1>17 DEF p, c

\* The contract that a call runs.
LEMMA Callee ==
  ASSUME NEW m, Sound(m), NEW op, NEW a, ArgsOK(a),
         CallsPaid => tt64 + CallMost <= GasWord \/ "EIP150" \in m.config,
         a.inSize = 0 \/ (a.inOffset + a.inSize <= m.len /\ a.inSize <= MemLimit)
  PROVE  Loadable(callee(m, a, op))
<1> DEFINE c == callee(m, a, op)
<1>1. /\ c.code = codeAt(a.address) /\ c.value \in {m.value, a.value} /\ c.config = m.config
      /\ c.input = bytesAt(m, a.inOffset, a.inSize)
  BY DEF callee
<1>2. c.gas \in 0 .. GasWord - 1
  BY WorksPaid
<1> HIDE DEF c
<1>3. IsCode(c.code)
  BY <1>1, CodeAt
<1>4. c.input \in Bytes
  <2>1. a.inOffset \in Nat /\ a.inSize \in Nat /\ a.inSize <= MemLimit
    BY MachineConstants DEF ArgsOK
  <2> QED
    BY <1>1, <2>1, BytesAt
<1>5. c.value \in Word \cup {NilValue}
  BY <1>1 DEF Sound, ContractOK, ArgsOK
<1> QED
  BY <1>1, <1>2, <1>3, <1>4, <1>5 DEF Loadable, c

\* The caller while its call runs.
LEMMA Calling ==
  ASSUME NEW m, Sound(m), NEW a, ArgsOK(a),
         a.retSize = 0 \/ ( /\ a.retOffset + a.retSize <= m.len
                            /\ a.retOffset < tt64 /\ a.retSize < tt64)
  PROVE  LET n == calling(m, a)
         IN  Sound(n) /\ SameBut(m, n, {"called", "out"}) /\ n.called
<1> DEFINE n == calling(m, a)
<1>1. /\ SameBut(m, n, {"called", "out"}) /\ n.called
      /\ n.out = <<Uint64(a.retOffset), Uint64(a.retSize)>>
  BY DEF Sound, Shaped, SameBut, Fields, calling
<1> HIDE DEF n
<1>2. n.memory = m.memory /\ n.len = m.len /\ n.stop = m.stop
  BY <1>1 DEF SameBut, Fields
<1>3. StackOK(n) /\ GasOK(n) /\ ContractOK(n)
  BY <1>1, <1>2, StackKept, GasKept, ContractKept DEF Sound, ContractOK
<1>4. n.out[1] = Uint64(a.retOffset) /\ n.out[2] = Uint64(a.retSize)
  BY <1>1
<1>5. /\ Uint64(a.retOffset) \in Nat /\ Uint64(a.retSize) \in Nat
      /\ a.retSize = 0 => Uint64(a.retSize) = 0
      /\ a.retOffset < tt64 => Uint64(a.retOffset) = a.retOffset
      /\ a.retSize < tt64 => Uint64(a.retSize) = a.retSize
  BY Widths DEF Uint64, ArgsOK
<1>6. MemoryOK(n)
  BY <1>2, <1>4, <1>5 DEF Sound, MemoryOK, ArgsOK
<1>7. Sound(n)
  BY <1>1, <1>3, <1>6 DEF Sound, SameBut
<1> QED
  BY <1>1, <1>7 DEF n

\* The caller when its call is over.
LEMMA Answered ==
  ASSUME NEW m, Sound(m), NEW r, r.ret \in Bytes, r.gas \in Nat,
         CallsPaid /\ m.given < 3 * GasRoot =>
           m.gas + r.gas + m.spent + dueFor(m.len \div WordBytes) <= m.given
  PROVE  LET n == answered(m, r)
         IN  Sound(n) /\ SameBut(m, n, {"sp", "slots", "memory", "gas", "returnData"})
<1> DEFINE k == IF copies(r) THEN Min({m.out[2], Len(r.ret)}) ELSE 0
           piece == SubSeq(r.ret, 1, k)
           d == push(m, truth(r.err = ""))
           s == store(d, m.out[1], piece)
           u == [s EXCEPT !.gas = (s.gas + gasLeft(r)) % GasWord]
           n == answered(m, r)
<1>1. n = [s EXCEPT !.gas = (s.gas + gasLeft(r)) % GasWord, !.returnData = r.ret]
  BY DEF answered
<1>2. m.out[1] \in Nat /\ m.out[2] \in Nat /\ m.len \in Nat
      /\ (m.out[2] = 0 \/ m.out[1] + m.out[2] <= m.len)
  BY DEF Sound, MemoryOK
<1>3. r.ret \in Seq(Octets) /\ Len(r.ret) \in Nat
  BY BytesAre, WordNat
<1>4. k \in Nat /\ k <= m.out[2] /\ k <= Len(r.ret)
  <2> DEFINE x == m.out[2]
             y == Len(r.ret)
  <2>1. x \in Nat /\ y \in Nat
    BY <1>2, <1>3
  <2>2. k = IF copies(r) THEN Min({x, y}) ELSE 0
    OBVIOUS
  <2> HIDE DEF x, y, k
  <2>3. Min({x, y}) = IF x <= y THEN x ELSE y
    BY <2>1, Lesser
  <2>4. k \in Nat /\ k <= x /\ k <= y
    BY <2>1, <2>2, <2>3
  <2> QED
    BY <2>4 DEF x, y
<1> HIDE DEF k
<1>5. piece \in Seq(Octets) /\ Len(piece) = k
  <2>1. 1 \in Nat \ {0}
    OBVIOUS
  <2>2. piece \in Seq(Octets) /\ Len(piece) = IF 1 <= k THEN k - 1 + 1 ELSE 0
    BY <1>3, <1>4, <2>1, Slice
  <2> HIDE DEF piece
  <2> QED
    BY <1>4, <2>2
<1>6. Sound(d) /\ SameBut(m, d, {"sp", "slots"}) /\ d.len = m.len
  <2>1. truth(r.err = "") \in Word
    <3>1. (r.err = "") \in BOOLEAN
      BY Zenon
    <3> QED
      BY <3>1, Truth
  <2>2. Works(m, d)
    BY <2>1, WorksPush
  <2>3. SameBut(m, d, {"sp", "slots"})
    BY Pushes DEF Sound
  <2> HIDE DEF d
  <2> QED
    BY <2>2, <2>3 DEF Works, SameBut, Fields
<1> HIDE DEF d, piece
<1>7. Sound(s) /\ SameBut(d, s, {"memory"})
  <2>1. Len(piece) = 0 \/ m.out[1] + Len(piece) <= d.len
    BY <1>2, <1>4, <1>5, <1>6
  <2>2. Works(d, s)
    BY <1>2, <1>5, <1>6, <2>1, WorksStore
  <2>3. SameBut(d, s, {"memory"})
    BY <1>6, Stores DEF Sound
  <2> QED
    BY <2>2, <2>3 DEF Works
<1> HIDE DEF s
<1>8. SameBut(m, s, {"sp", "slots", "memory"})
  <2>1. SameBut(m, s, {"sp", "slots"} \cup {"memory"})
    BY <1>6, <1>7, SameButTrans
  <2> QED
    BY <2>1, SameButMore
<1>9. s.gas = m.gas /\ s.spent = m.spent /\ s.len = m.len /\ s.given = m.given
  BY <1>8 DEF SameBut, Fields
<1>10. gasLeft(r) \in Nat /\ gasLeft(r) <= r.gas
  <2>1. gasLeft(r) = r.gas \/ gasLeft(r) = 0
    BY Zenon DEF gasLeft
  <2> QED
    BY <2>1
<1>11. CallsPaid /\ s.given < 3 * GasRoot =>
         s.gas + gasLeft(r) + s.spent + dueFor(s.len \div WordBytes) <= s.given
  <2>1. m.gas \in Nat /\ m.spent \in Nat /\ m.given \in Nat /\ dueFor(m.len \div WordBytes) \in Nat
    BY Due, MemoryWords, GasWords DEF Sound, GasOK
  <2> QED
    BY <1>9, <1>10, <2>1
<1>12. Sound(u) /\ SameBut(s, u, {"gas"})
  BY <1>7, <1>10, <1>11, SoundRefund
<1>13. n = [u EXCEPT !.returnData = r.ret]
  BY <1>1
<1> HIDE DEF u, n
<1>14. Sound(n) /\ SameBut(u, n, {"returnData"})
  BY <1>12, <1>13, SoundClear
<1>15. SameBut(m, n, ({"sp", "slots", "memory"} \cup {"gas"}) \cup {"returnData"})
  BY <1>8, <1>12, <1>14, SameButTrans
<1>16. SameBut(m, n, {"sp", "slots", "memory", "gas", "returnData"})
  BY <1>15, SameButMore
<1> QED
  BY <1>14, <1>16 DEF n

\* A running machine in the middle of its code that has made a call goes on.
LEMMA CallerStays ==
  ASSUME NEW m, Frame(m), ~m.stop, NEW n, NEW F, SameBut(m, n, F), Resting(n),
         F \cap {"bitmap", "code", "config", "given"} = {},
         n.called \/ n.returnData = << >>
  PROVE  Placed(n) /\ n.given = m.given /\ Frame(stepped(n)) /\ stepped(n).given = m.given
<1>1. n.bitmap = m.bitmap /\ n.code = m.code /\ n.config = m.config /\ n.given = m.given
  BY DEF SameBut, Fields
<1>2. Placed(n)
  BY <1>1 DEF Frame, Placed
<1>3. Frame(stepped(n)) /\ SameBut(n, stepped(n), {"ip", "stop", "err"})
  BY <1>2, Stepping
<1>4. stepped(n).given = n.given
  BY <1>3 DEF SameBut, Fields
<1> QED
  BY <1>1, <1>2, <1>3, <1>4

\* The machine that is running becomes n, and so does the rest.
LEMMA LastBecomes ==
  ASSUME Inv, inLoop, NEW n, Frame(n), n.given = running.given,
         frames' = [frames EXCEPT ![Len(frames)] = n]
  PROVE  FramesOK(frames)'
<1>1. FramesOK([frames EXCEPT ![Len(frames)] = n])
  BY Running, LastReplaced DEF Inv, running
<1>2. \A fs : FramesOK(fs) /\ frames' = fs => FramesOK(frames)'
  BY DEF FramesOK
<1> QED
  BY <1>1, <1>2

\* What a call starts from: it is paid for, and so are its ranges; its return data is
\* empty.  If it is let in, the callee's gas is out of the caller's.
LEMMA CallBegins ==
  ASSUME Inv, inCode, affordable(running), opOf(running) \in DOMAIN CallOps
  PROVE  LET op == opOf(running)
             a == callArgs(running, op)
             start == [charged(running) EXCEPT !.returnData = << >>]
             sized == sizedCall(start, a, op)
             paid == IF sized.stop THEN sized ELSE paidCall(sized, a, op)
             c == callee(sized, a, op)
         IN  /\ Frame(running) /\ ~running.stop /\ ArgsOK(a)
             /\ Sound(paid) /\ paid.returnData = << >>
             /\ SameBut(running, paid, Work \cup {"gas", "spent", "returnData"})
             /\ ~paid.stop =>
                  /\ paid.ip = running.ip /\ paid.sp <= running.sp
                  /\ a.retSize = 0 \/ ( /\ a.retOffset + a.retSize <= paid.len
                                        /\ a.retOffset < tt64 /\ a.retSize < tt64)
                  /\ Loadable(c)
                  /\ CallsPaid /\ paid.given < 3 * GasRoot =>
                       paid.gas + c.gas + paid.spent + dueFor(paid.len \div WordBytes) <= paid.given
<1> DEFINE op == opOf(running)
           a == callArgs(running, op)
           before == charged(running)
           start == [before EXCEPT !.returnData = << >>]
           sized == sizedCall(start, a, op)
           bought == paidCall(sized, a, op)
           paid == IF sized.stop THEN sized ELSE bought
           c == callee(sized, a, op)
           change == Work \cup {"gas", "spent", "returnData"}
<1>1. Takes(op) = CallOps[op]
  BY TakesAre
<1>2. /\ Frame(running) /\ ~running.stop /\ Sound(running) /\ Sound(before) /\ ~before.stop
      /\ SameBut(running, before, {"gas", "spent"}) /\ before.sp >= CallOps[op]
  BY <1>1, Finds, Running DEF inCode
<1> HIDE DEF before
<1>3. before.sp = running.sp /\ before.ip = running.ip /\ before.config = running.config
  BY <1>2 DEF SameBut, Fields
<1>4. ArgsOK(a)
  BY <1>2, <1>3, Args
<1>5. Sound(start) /\ SameBut(before, start, {"returnData"}) /\ start.returnData = << >>
  BY <1>2, WordLength, SoundClear
<1> HIDE DEF start
<1>6. start.sp = before.sp /\ start.ip = before.ip /\ start.stop = before.stop
      /\ start.config = before.config
  BY <1>5 DEF SameBut, Fields
<1> HIDE DEF a
<1>7. /\ Works(start, sized) /\ Sound(sized)
      /\ ~sized.stop =>
           /\ sized.sp <= start.sp /\ sized.ip = start.ip
           /\ a.inSize = 0 \/ (a.inOffset + a.inSize <= sized.len /\ a.inSize <= MemLimit)
           /\ a.retSize = 0 \/ ( /\ a.retOffset + a.retSize <= sized.len
                                 /\ a.retOffset < tt64 /\ a.retSize < tt64)
  BY <1>2, <1>4, <1>5, <1>6, WorksSized DEF Works
<1>8. sized.config = running.config /\ sized.returnData = << >>
  BY <1>3, <1>5, <1>6, <1>7 DEF Works, SameBut, Fields, Work
<1> HIDE DEF sized
<1>9. CallsPaid => tt64 + CallMost <= GasWord \/ "EIP150" \in sized.config
  BY <1>2, <1>8 DEF Frame, Placed
<1>10. /\ Works(sized, bought)
       /\ ~bought.stop => SameBut(sized, bought, {"gas"})
       /\ c.gas \in 0 .. GasWord - 1
       /\ ~bought.stop /\ CallsPaid => bought.gas + c.gas <= sized.gas
  BY <1>4, <1>7, <1>9, WorksPaid
<1>11. ~sized.stop => Loadable(c)
  BY <1>4, <1>7, <1>9, Callee
<1> HIDE DEF bought, c
<1>12. Works(start, paid) /\ Sound(paid)
  <2>1. Works(start, bought)
    BY <1>5, <1>7, <1>10, WorksTrans
  <2> QED
    BY <1>7, <2>1 DEF Works
<1>13. paid.returnData = << >>
  BY <1>5, <1>12 DEF Works, SameBut, Fields, Work
<1>14. SameBut(running, paid, change)
  <2>1. SameBut(running, start, {"gas", "spent"} \cup {"returnData"})
    BY <1>2, <1>5, SameButTrans
  <2>2. SameBut(running, paid, ({"gas", "spent"} \cup {"returnData"}) \cup Work)
    BY <1>12, <2>1, SameButTrans DEF Works
  <2>3. ({"gas", "spent"} \cup {"returnData"}) \cup Work \subseteq change
    OBVIOUS
  <2> HIDE DEF change, paid
  <2> QED
    BY <2>2, <2>3, SameButMore
<1>15. ASSUME ~paid.stop
       PROVE  /\ paid.ip = running.ip /\ paid.sp <= running.sp
              /\ a.retSize = 0 \/ ( /\ a.retOffset + a.retSize <= paid.len
                                    /\ a.retOffset < tt64 /\ a.retSize < tt64)
              /\ Loadable(c)
              /\ CallsPaid /\ paid.given < 3 * GasRoot =>
                   paid.gas + c.gas + paid.spent + dueFor(paid.len \div WordBytes) <= paid.given
  <2>1. ~sized.stop /\ paid = bought
    BY <1>15
  <2>2. SameBut(sized, paid, {"gas"})
    BY <1>10, <1>15, <2>1
  <2> HIDE DEF paid
  <2>3. /\ paid.ip = sized.ip /\ paid.sp = sized.sp /\ paid.len = sized.len
        /\ paid.spent = sized.spent /\ paid.given = sized.given
    BY <2>2 DEF SameBut, Fields
  <2>4. CallsPaid => paid.gas + c.gas <= sized.gas
    BY <1>10, <1>15, <2>1
  <2>5. ASSUME CallsPaid, paid.given < 3 * GasRoot
        PROVE  paid.gas + c.gas + paid.spent + dueFor(paid.len \div WordBytes) <= paid.given
    <3>1. sized.gas + sized.spent + dueFor(sized.len \div WordBytes) <= sized.given
      BY <1>7, <2>3, <2>5 DEF Sound, GasOK, Paid
    <3>2. /\ sized.gas \in Int /\ sized.spent \in Int /\ sized.given \in Int
          /\ paid.gas \in Int /\ c.gas \in Int
      BY <1>7, <1>10, <1>12 DEF Sound, GasOK
    <3>3. dueFor(sized.len \div WordBytes) \in Nat
      BY <1>7, Due, MemoryWords DEF Sound
    <3> QED
      BY <2>3, <2>4, <2>5, <3>1, <3>2, <3>3
  <2> QED
    BY <1>3, <1>6, <1>7, <1>11, <2>1, <2>3, <2>5
<1> QED
  BY <1>2, <1>4, <1>12, <1>13, <1>14, <1>15 DEF c, bought, sized, start, a, before

LEMMA CallKeeps == ASSUME Inv, Hosted, Call PROVE Inv'
<1> DEFINE op == opOf(running)
           a == callArgs(running, op)
           start == [charged(running) EXCEPT !.returnData = << >>]
           sized == sizedCall(start, a, op)
           paid == IF sized.stop THEN sized ELSE paidCall(sized, a, op)
           c == callee(sized, a, op)
           refunded == [paid EXCEPT !.gas = (paid.gas + c.gas) % GasWord]
           poor == push(refunded, 0)
           k == calling(paid, a)
           name == contracts[a.address]
           r == Run(name, buf, c.input, c.gas, c.config)
           change == Work \cup {"gas", "spent", "returnData"}
<1>1. /\ inCode /\ affordable(running) /\ op \in DOMAIN CallOps
      /\ \/ paid.stop /\ continue(stepped(paid))
         \/ ~paid.stop /\ continue(stepped(poor))
         \/ ~paid.stop /\ CanRun(a.address, c.config) /\ CallPrecompiled(k, r)
         \/ ~paid.stop /\ CallContract(k, c)
  BY Zenon DEF Call, then
<1>2. /\ Frame(running) /\ ~running.stop /\ ArgsOK(a)
      /\ Sound(paid) /\ paid.returnData = << >>
      /\ SameBut(running, paid, change)
      /\ ~paid.stop =>
           /\ paid.ip = running.ip /\ paid.sp <= running.sp
           /\ a.retSize = 0 \/ ( /\ a.retOffset + a.retSize <= paid.len
                                 /\ a.retOffset < tt64 /\ a.retSize < tt64)
           /\ Loadable(c)
           /\ CallsPaid /\ paid.given < 3 * GasRoot =>
                paid.gas + c.gas + paid.spent + dueFor(paid.len \div WordBytes) <= paid.given
  BY <1>1, CallBegins
<1> HIDE DEF paid, c, a, op
<1>3. inLoop
  BY <1>1 DEF inCode
<1>4. change \cap {"bitmap", "code", "config", "given"} = {}
  BY DEF Work
<1>5. CASE paid.stop /\ continue(stepped(paid))
  <2>1. Frame(stepped(paid)) /\ stepped(paid).given = running.given
    BY <1>2, <1>4, CallerStays, Rests
  <2> QED
    BY <1>3, <1>5, <2>1, Continues
<1>6. CASE ~paid.stop /\ continue(stepped(poor))
  <2>1. c.gas \in Nat
    BY <1>2, <1>6, GasWords DEF Loadable
  <2>2. Sound(refunded) /\ SameBut(paid, refunded, {"gas"})
    BY <1>2, <1>6, <2>1, SoundRefund
  <2> HIDE DEF refunded
  <2>3. Works(refunded, poor) /\ SameBut(refunded, poor, {"sp", "slots"})
    BY <2>2, WorksPush, Zero, Pushes DEF Sound
  <2> HIDE DEF poor
  <2>4. Resting(poor)
    BY <2>3, Rests DEF Works
  <2>5. SameBut(running, poor, change)
    <3>1. SameBut(running, poor, (change \cup {"gas"}) \cup {"sp", "slots"})
      BY <1>2, <2>2, <2>3, SameButTrans
    <3>2. (change \cup {"gas"}) \cup {"sp", "slots"} \subseteq change
      BY DEF Work
    <3> QED
      BY <3>1, <3>2, SameButMore
  <2>6. poor.returnData = << >>
    BY <1>2, <2>2, <2>3 DEF SameBut, Fields
  <2>7. Frame(stepped(poor)) /\ stepped(poor).given = running.given
    BY <1>2, <1>4, <2>4, <2>5, <2>6, CallerStays
  <2> QED
    BY <1>3, <1>6, <2>7, Continues
<1>7. ASSUME ~paid.stop
      PROVE  /\ Sound(k) /\ SameBut(paid, k, {"called", "out"}) /\ k.called
             /\ SameBut(running, k, change \cup {"called", "out"})
             /\ (change \cup {"called", "out"}) \cap {"bitmap", "code", "config", "given"} = {}
  <2>1. Sound(k) /\ SameBut(paid, k, {"called", "out"}) /\ k.called
    BY <1>2, <1>7, Calling
  <2> HIDE DEF k
  <2>2. SameBut(running, k, change \cup {"called", "out"})
    BY <1>2, <2>1, SameButTrans
  <2>3. (change \cup {"called", "out"}) \cap {"bitmap", "code", "config", "given"} = {}
    BY DEF Work
  <2> QED
    BY <2>1, <2>2, <2>3
<1> HIDE DEF k, change
<1>8. ASSUME ~paid.stop
      PROVE  /\ k.gas = paid.gas /\ k.spent = paid.spent /\ k.given = paid.given
             /\ k.len = paid.len /\ k.ip = paid.ip /\ k.sp = paid.sp /\ k.stop = paid.stop
  BY <1>7, <1>8 DEF SameBut, Fields
<1>9. CASE ~paid.stop /\ CanRun(a.address, c.config) /\ CallPrecompiled(k, r)
  <2>1. name \in Names
    BY <1>9, ContractNames DEF CanRun
  <2>2. c.input \in Bytes /\ c.gas \in Nat
    BY <1>2, <1>9, GasWords DEF Loadable
  <2> HIDE DEF name
  <2>3. r.ret \in Bytes /\ r.buf \in Seq(Octets) /\ r.gas \in Nat /\ r.gas <= c.gas
    BY <2>1, <2>2, PrecompiledRun DEF Inv
  <2> HIDE DEF r
  <2>4. /\ buf' = r.buf /\ UNCHANGED <<pool, runs>>
        /\ \/ panicked' = TRUE /\ frames' = frames
           \/ /\ frames' = [frames EXCEPT ![Len(frames)] = stepped(answered(k, r))]
              /\ panicked' = panicked
    BY <1>9, Zenon DEF CallPrecompiled
  <2> DEFINE n == answered(k, r)
             more == {"sp", "slots", "memory", "gas", "returnData"}
  <2>5. CallsPaid /\ k.given < 3 * GasRoot =>
          k.gas + r.gas + k.spent + dueFor(k.len \div WordBytes) <= k.given
    <3>1. k.gas \in Int /\ k.spent \in Int /\ k.given \in Int /\ dueFor(k.len \div WordBytes) \in Int
      BY <1>7, <1>9, Due, MemoryWords DEF Sound, GasOK
    <3> QED
      BY <1>2, <1>8, <1>9, <2>2, <2>3, <3>1
  <2>6. Sound(n) /\ SameBut(k, n, more)
    BY <1>7, <1>9, <2>3, <2>5, Answered
  <2> HIDE DEF n
  <2>7. n.called
    BY <1>7, <1>9, <2>6 DEF SameBut, Fields
  <2>8. SameBut(running, n, (change \cup {"called", "out"}) \cup more)
    BY <1>7, <1>9, <2>6, SameButTrans
  <2>9. ((change \cup {"called", "out"}) \cup more) \cap {"bitmap", "code", "config", "given"} = {}
    BY <1>7, <1>9
  <2> HIDE DEF more
  <2>10. Frame(stepped(n)) /\ stepped(n).given = running.given
    BY <1>2, <2>6, <2>7, <2>8, <2>9, CallerStays, Rests
  <2>11. FramesOK(frames)'
    <3>1. CASE frames' = frames
      <4>1. \A fs : FramesOK(fs) /\ frames' = fs => FramesOK(frames)'
        BY DEF FramesOK
      <4> QED
        BY <3>1, <4>1 DEF Inv
    <3>2. CASE frames' = [frames EXCEPT ![Len(frames)] = stepped(n)]
      BY <1>3, <2>10, <3>2, LastBecomes
    <3> QED
      BY <2>4, <3>1, <3>2 DEF n
  <2>12. panicked' \in BOOLEAN
    BY <2>4, Zenon DEF Inv
  <2>13. (runs \in 0 .. MaxRuns)' /\ (buf \in Seq(Octets))' /\ (\A m \in pool : Pooled(m))'
    BY <2>3, <2>4 DEF Inv
  <2> QED
    BY <2>11, <2>12, <2>13 DEF Inv
<1>10. CASE ~paid.stop /\ CallContract(k, c)
  <2>1. PICK s \in pool \cup {newState} :
          /\ frames' = Append([frames EXCEPT ![Len(frames)] = k], loaded(s, c))
          /\ pool' = pool \ {s} /\ UNCHANGED <<runs, panicked, buf>>
    BY <1>10 DEF CallContract
  <2> DEFINE n == loaded(s, c)
             gs == [frames EXCEPT ![Len(frames)] = k]
  <2>2. Frame(n) /\ n.given = c.gas
    BY <1>2, <1>10, FromPool, Loads
  <2> HIDE DEF n
  <2>3. Placed(k) /\ k.given = running.given
    BY <1>2, <1>7, <1>10, CallerStays, Rests
  <2>4. ~(k.sp > StackSize) /\ ~k.stop /\ k.ip >= 0 /\ k.ip < Len(k.code)
    <3>1. ~(running.sp > StackSize) /\ running.ip >= 0
      BY <1>2 DEF Frame
    <3>2. k.sp \in Nat /\ running.sp \in Nat /\ StackSize \in Nat
      BY <1>2, <1>7, <1>10, Depth, MachineConstants DEF Frame, Resting, Loose
    <3>3. k.code = running.code
      BY <1>7, <1>10 DEF SameBut, Fields
    <3> QED
      BY <1>1, <1>2, <1>8, <1>10, <3>1, <3>2, <3>3 DEF inCode
  <2>5. Frame(k)
    BY <1>7, <1>10, <2>3, <2>4, Rests DEF Frame
  <2>6. FramesOK(frames) /\ frames # << >>
    BY <1>3 DEF Inv, inLoop
  <2>7. FramesOK(gs)
    BY <2>3, <2>5, <2>6, LastReplaced DEF running
  <2>8. gs # << >> /\ gs[Len(gs)] = k
    <3>1. PICK S : frames \in Seq(S)
      BY <2>6 DEF FramesOK
    <3> DEFINE L == Len(frames)
    <3>2. frames \in Seq(S \cup {k}) /\ k \in S \cup {k} /\ L \in 1 .. L /\ L \in Nat
      BY <2>6, <3>1, FramesLength
    <3>3. Len(gs) = L /\ gs[L] = k
      BY <3>2, ExceptSeq
    <3> HIDE DEF gs
    <3>4. gs # << >>
      BY <2>7, <3>2, <3>3, FramesLength
    <3> QED
      BY <3>3, <3>4
  <2> HIDE DEF gs
  <2>9. Lent(k, n)
    BY <1>2, <1>8, <1>10, <2>2 DEF Lent
  <2>10. Waiting(k, n)
    BY <1>7, <1>10, <2>4, <2>9 DEF Waiting
  <2>11. FramesOK(Append(gs, n))
    BY <2>2, <2>7, <2>8, <2>10, FrameAdded
  <2>12. FramesOK(frames)'
    <3>1. \A fs : FramesOK(fs) /\ frames' = fs => FramesOK(frames)'
      BY DEF FramesOK
    <3> QED
      BY <2>1, <2>11, <3>1 DEF gs, n
  <2> QED
    BY <2>1, <2>12 DEF Inv
<1> QED
  BY <1>1, <1>5, <1>6, <1>9, <1>10

LEMMA ReturnKeeps == ASSUME Inv, Return PROVE Inv'
<1> DEFINE L == Len(frames)
           gs == SubSeq(frames, 1, L - 1)
           m == frames[L - 1]
           r == frames[L]
           n == answered(m, r)
<1>1. L > 1 /\ r.stop /\ FramesOK(frames) /\ L \in Nat
  BY FramesLength DEF Return, Inv, running
<1>2. \/ panic
      \/ /\ frames' = [gs EXCEPT ![L - 1] = stepped(n)]
         /\ pool' = pool \cup {reset(r)}
         /\ UNCHANGED <<runs, panicked, buf>>
  BY Zenon DEF Return, running
<1>3. CASE panic
  BY <1>3, Panics
<1>4. CASE /\ frames' = [gs EXCEPT ![L - 1] = stepped(n)]
           /\ pool' = pool \cup {reset(r)}
           /\ UNCHANGED <<runs, panicked, buf>>
  <2>1. FramesOK(gs) /\ Len(gs) = L - 1 /\ gs[L - 1] = m
    <3>1. L - 1 \in 1 .. L - 1
      BY <1>1
    <3> QED
      BY <1>1, <3>1, LastRemoved
  <2>2. Frame(m) /\ Frame(r) /\ Waiting(m, r)
    <3>1. L - 1 \in 1 .. L /\ L \in 1 .. L /\ L - 1 \in 1 .. L - 1 /\ (L - 1) + 1 = L
      BY <1>1
    <3>2. Waiting(frames[L - 1], frames[(L - 1) + 1])
      BY <1>1, <3>1 DEF FramesOK
    <3> QED
      BY <1>1, <3>1, <3>2 DEF FramesOK
  <2> HIDE DEF m, r, gs
  <2>3. Sound(m) /\ ~m.stop /\ m.called
    BY <2>2, Wakes DEF Waiting, Frame
  <2>4. r.ret \in Bytes /\ r.gas \in Nat /\ Resting(r)
    BY <2>2, GasWords DEF Frame, Resting, ContractOK, GasOK
  <2>5. ASSUME CallsPaid, m.given < 3 * GasRoot
        PROVE  m.gas + r.gas + m.spent + dueFor(m.len \div WordBytes) <= m.given
    <3>1. m.gas + r.given + m.spent + dueFor(m.len \div WordBytes) <= m.given
      BY <2>2, <2>5 DEF Waiting, Lent
    <3>2. /\ m.gas \in Nat /\ m.spent \in Nat /\ m.given \in Nat
          /\ dueFor(m.len \div WordBytes) \in Nat
      BY <2>3, Due, MemoryWords, GasWords DEF Sound, GasOK
    <3>3. /\ r.given \in Nat /\ r.spent \in Nat /\ dueFor(r.len \div WordBytes) \in Nat
      BY <2>4, Due, MemoryWords DEF Resting, GasOK
    <3>4. r.given < 3 * GasRoot
      BY <2>5, <3>1, <3>2, <3>3, GasWords
    <3>5. r.gas + r.spent + dueFor(r.len \div WordBytes) <= r.given
      BY <2>4, <2>5, <3>4 DEF Resting, GasOK, Paid
    <3> QED
      BY <2>4, <3>1, <3>2, <3>3, <3>5
  <2> DEFINE more == {"sp", "slots", "memory", "gas", "returnData"}
  <2>6. Sound(n) /\ SameBut(m, n, more)
    BY <2>3, <2>4, <2>5, Answered
  <2> HIDE DEF n
  <2>7. n.called
    BY <2>3, <2>6 DEF SameBut, Fields
  <2>8. more \cap {"bitmap", "code", "config", "given"} = {}
    OBVIOUS
  <2> HIDE DEF more
  <2>9. Frame(stepped(n)) /\ stepped(n).given = m.given
    BY <2>2, <2>3, <2>6, <2>7, <2>8, CallerStays, Rests
  <2>10. gs # << >>
    BY <1>1, <2>1, FramesLength
  <2>11. FramesOK([gs EXCEPT ![L - 1] = stepped(n)])
    BY <2>1, <2>9, <2>10, LastReplaced
  <2>12. FramesOK(frames)'
    <3>1. \A fs : FramesOK(fs) /\ frames' = fs => FramesOK(frames)'
      BY DEF FramesOK
    <3> QED
      BY <1>4, <2>11, <3>1
  <2>13. Pooled(reset(r))
    BY <2>4, Resets
  <2> QED
    BY <1>4, <2>12, <2>13 DEF Inv
<1> QED
  BY <1>2, <1>3, <1>4

-----------------------------------------------------------------------------
(* The invariant holds, and what follows from it.                          *)

LEMMA NextKeeps == ASSUME Inv, Hosted, [Next]_vars PROVE Inv'
<1>1. CASE Next
  BY <1>1, StartKeeps, EndOfCodeKeeps, FaultKeeps, ComputeKeeps, StackMovesKeep, ContextKeeps,
     MemoryKeeps, JumpsKeep, EndingsKeep, LogKeeps, ReturnDataCopyKeeps, CallKeeps, ReturnKeeps,
     LeaveKeeps DEF Next
<1>2. CASE UNCHANGED vars
  <2>1. UNCHANGED <<pool, runs, panicked, buf>> /\ frames' = frames
    BY <1>2 DEF vars
  <2>2. FramesOK(frames)'
    <3>1. \A fs : FramesOK(fs) /\ frames' = fs => FramesOK(frames)'
      BY DEF FramesOK
    <3> QED
      BY <2>1, <3>1 DEF Inv
  <2> QED
    BY <2>1, <2>2 DEF Inv
<1> QED
  BY <1>1, <1>2

\* Every machine, in use or in the pool, has what TypeOK and CleanBeyond ask for.
LEMMA MachinesOK ==
  ASSUME Inv, NEW m \in Machines
  PROVE  /\ m.slots \in Seq(Nat) /\ m.sp \in 0 .. Len(m.slots)
         /\ m.sp > StackSize => m.stop
         /\ \A i \in 1 .. m.sp : m.slots[i] \in Word \/ (i = m.sp /\ m.ip >= Len(m.code))
         /\ m.memory \in Seq(Octets) /\ m.len \in 0 .. Len(m.memory) /\ m.len % WordBytes = 0
         /\ \A i \in DOMAIN m.memory : i > m.len => m.memory[i] = 0
         /\ m.gas \in 0 .. GasWord - 1
<1>1. CASE m \in pool
  <2>1. /\ Pooled(m) /\ m.slots \in Seq(Nat) /\ m.memory \in Seq(Octets)
        /\ \A i \in DOMAIN m.memory : m.memory[i] = 0
    BY <1>1 DEF Inv, Pooled
  <2>2. m.sp = 0 /\ m.len = 0 /\ m.gas = 0
    BY <2>1 DEF Pooled, Fields, newState
  <2>3. 0 % WordBytes = 0 /\ StackSize \in Nat /\ 0 \in 0 .. GasWord - 1
    BY WordConstants, MachineConstants, GasWords
  <2> QED
    BY <2>1, <2>2, <2>3
<1>2. CASE \E i \in DOMAIN frames : m = frames[i]
  <2>1. PICK S : frames \in Seq(S)
    BY DEF Inv, FramesOK
  <2>2. Frame(m)
    BY <1>2, <2>1 DEF Inv, FramesOK
  <2>3. m.len % WordBytes = 0
    BY <2>2, MemoryWords DEF Frame, Resting
  <2> QED
    BY <2>2, <2>3 DEF Frame, Resting, Loose, MemoryOK, GasOK
<1> QED
  BY <1>1, <1>2 DEF Machines

LEMMA OctetsIn == ASSUME NEW b \in Seq(Octets) PROVE \A i \in DOMAIN b : b[i] \in 0 .. Byte - 1
<1>1. \A i \in DOMAIN b : b[i] \in Octets
  OBVIOUS
<1> QED
  BY <1>1 DEF Octets

LEMMA InvTypeOK == Inv => TypeOK
<1> SUFFICES ASSUME Inv PROVE TypeOK
  OBVIOUS
<1>1. runs \in 0 .. MaxRuns /\ panicked \in BOOLEAN
  BY DEF Inv
<1>2. \A i \in DOMAIN buf : buf[i] \in 0 .. Byte - 1
  BY OctetsIn DEF Inv
<1>3. ASSUME NEW m \in Machines
      PROVE  /\ m.sp \in 0 .. Len(m.slots)
             /\ m.sp > StackSize => m.stop
             /\ \A i \in 1 .. m.sp : m.slots[i] \in Word \/ (i = m.sp /\ m.ip >= Len(m.code))
             /\ m.len \in 0 .. Len(m.memory) /\ m.len % WordBytes = 0
             /\ \A i \in DOMAIN m.memory : m.memory[i] \in 0 .. Byte - 1
             /\ m.gas \in 0 .. GasWord - 1
  <2>1. \A i \in DOMAIN m.memory : m.memory[i] \in 0 .. Byte - 1
    <3>1. m.memory \in Seq(Octets)
      BY MachinesOK
    <3> QED
      BY <3>1, OctetsIn
  <2> QED
    BY <2>1, MachinesOK
<1> QED
  BY <1>1, <1>2, <1>3 DEF TypeOK

LEMMA InvCleanBeyond == Inv => CleanBeyond
  BY MachinesOK DEF CleanBeyond

LEMMA FramesAre == ASSUME Inv, NEW i \in DOMAIN frames PROVE Frame(frames[i])
<1>1. PICK S : frames \in Seq(S)
  BY DEF Inv, FramesOK
<1> QED
  BY <1>1 DEF Inv, FramesOK

LEMMA InvNoForeignReturnData == Inv => NoForeignReturnData
  BY FramesAre DEF NoForeignReturnData, Frame, Placed

LEMMA InvMemoryPaid == Inv /\ CallsPaid => MemoryPaid
<1> SUFFICES ASSUME Inv, CallsPaid, NEW i \in DOMAIN frames, frames[i].given < 3 * GasRoot
             PROVE  LET m == frames[i]
                        w == m.len \div WordBytes
                    IN  m.gas + m.spent + 3 * w + (w * w) \div QuadDivisor <= m.given
  BY DEF MemoryPaid
<1> DEFINE m == frames[i]
           w == m.len \div WordBytes
           quad == (w * w) \div QuadDivisor
<1>1. Resting(m)
  BY FramesAre DEF Frame
<1>2. m.gas + m.spent + dueFor(w) <= m.given
  BY <1>1 DEF Resting, GasOK, Paid
<1>3. dueFor(w) = 3 * w + quad
  BY DEF dueFor
<1>4. w \in Nat /\ m.gas \in Int /\ m.spent \in Int
  BY <1>1, MemoryWords DEF Resting, GasOK
<1>5. quad \in Int
  <2>1. w * w \in Nat
    BY <1>4
  <2> QED
    BY <2>1, MachineConstants, Division
<1> HIDE DEF m, w, quad
<1>6. m.gas + m.spent + 3 * w + quad <= m.given
  BY <1>2, <1>3, <1>4, <1>5
<1> QED
  BY <1>6 DEF m, w, quad

\* The invariant of the loop, the calls and the pool (state.Run, opCall, EVM.Run,
\* releaseState): whatever the contracts, the host and the widths are.
THEOREM Invariant == ASSUME Hosted PROVE Spec => []Inv
<1>1. Init => Inv
  BY Initially
<1>2. Inv /\ [Next]_vars => Inv'
  BY NextKeeps
<1> QED
  BY <1>1, <1>2, PTL DEF Spec

\* TypeOK, of every machine in use and in the pool: the stack counts its slots and
\* holds words, never more than StackSize while the machine runs (state.push1 and the
\* check after each instruction), memory is whole words of bytes (extendByteSlice),
\* and gas counters do not leave their width (consumeGas, opCall).
THEOREM MachineType == ASSUME Hosted PROVE Spec => []TypeOK
<1>1. Spec => []Inv
  BY Invariant
<1> QED
  BY <1>1, InvTypeOK, PTL

\* MemoryPaid: the memory of every contract has been paid from the contract's own gas,
\* quadratic part included, though checkMemory charges differences to lastGasCost and
\* calls pay for their ranges, pass gas on and get some back.
THEOREM MemoryIsPaid == ASSUME Hosted, CallsPaid PROVE Spec => []MemoryPaid
<1>1. Spec => []Inv
  BY Invariant
<1>2. Inv => MemoryPaid
  BY InvMemoryPaid
<1> QED
  BY <1>1, <1>2, PTL

\* CleanBeyond: what state.reset and extendByteSlice leave behind the length of a memory
\* is zero, so no contract reads what an earlier one wrote on its machine.
THEOREM MemoryIsClean == ASSUME Hosted PROVE Spec => []CleanBeyond
<1>1. Spec => []Inv
  BY Invariant
<1> QED
  BY <1>1, InvCleanBeyond, PTL

\* NoForeignReturnData: reset leaves the return data in the machine, but EVM.Run empties
\* it, and after that only the contract's own calls fill it.
THEOREM ReturnDataIsOwn == ASSUME Hosted PROVE Spec => []NoForeignReturnData
<1>1. Spec => []Inv
  BY Invariant
<1> QED
  BY <1>1, InvNoForeignReturnData, PTL

-----------------------------------------------------------------------------
(* Jumps: what setCode marks is an instruction.                            *)

LEMMA PushBytes ==
  ASSUME NEW code, NEW i
  PROVE  pushBytes(code, i) \in Nat
<1>1. \A op \in DOMAIN PushOps : PushOps[op] \in Nat
  BY WordConstants DEF PushOps
<1> QED
  BY <1>1 DEF pushBytes

\* How many bytes of a push are still to come: a function, and what it is.
Remaining(code, left) ==
  left = [p \in 0 .. Len(code) |->
            IF p = 0 THEN 0
            ELSE IF left[p - 1] > 0 THEN left[p - 1] - 1 ELSE pushBytes(code, p)]

\* How the loop of setCode advances.
Advancing(code, at) ==
  at = [turn \in 0 .. Len(code) |->
          IF turn = 0 THEN 0
          ELSE IF at[turn - 1] >= Len(code) THEN at[turn - 1]
               ELSE at[turn - 1] + (1 + pushBytes(code, at[turn - 1] + 1))]

LEMMA RemainingExists ==
  ASSUME NEW code, Len(code) \in Nat
  PROVE  /\ \E left : Remaining(code, left)
         /\ \A left : Remaining(code, left) => \A p \in 0 .. Len(code) : left[p] \in Nat
<1> DEFINE n == Len(code)
           S == [p \in 0 .. n |-> Nat]
           turn(p, u) == IF u > 0 THEN u - 1 ELSE pushBytes(code, p)
           G == [p \in 1 .. n |-> [u \in Nat |-> turn(p, u)]]
           back == [p \in 1 .. n |-> p - 1]
<1>1. ASSUME NEW p, NEW u \in Nat PROVE turn(p, u) \in Nat
  BY PushBytes
<1>2. \A f : Remaining(code, f) <=> f = [p \in 0 .. n |-> IF p = 0 THEN 0 ELSE turn(p, f[p - 1])]
  BY DEF Remaining
<1> HIDE DEF n, turn
<1>3. \A p \in 1 .. n : back[p] = p - 1
  OBVIOUS
<1>10. \A p \in 0 .. n : S[p] = Nat
  OBVIOUS
<1>11. \A p \in 1 .. n : \A u \in Nat : G[p][u] = turn(p, u)
  OBVIOUS
<1> HIDE DEF S, G, back
<1>4. n \in Nat
  BY DEF n
<1>5. \A p \in 1 .. n : p - 1 \in 0 .. p - 1 /\ p - 1 \in 0 .. n /\ p \in 0 .. n /\ p # 0
  BY <1>4
<1>6. GoesBack(back, n) /\ LeadsOn(G, back, n, S) /\ 0 \in S[0]
  <2>1. GoesBack(back, n)
    BY <1>3, <1>5 DEF GoesBack
  <2>2. \A p \in 1 .. n : S[p] = Nat /\ S[back[p]] = Nat
    BY <1>3, <1>5, <1>10
  <2>3. ASSUME NEW p \in 1 .. n, NEW u \in S[back[p]] PROVE G[p][u] \in S[p]
    <3>1. u \in Nat
      BY <2>2
    <3>2. G[p][u] = turn(p, u)
      BY <1>11, <3>1
    <3> QED
      BY <1>1, <2>2, <3>1, <3>2
  <2>4. LeadsOn(G, back, n, S)
    BY <2>3 DEF LeadsOn
  <2> QED
    BY <1>4, <1>10, <2>1, <2>4
<1>7. PICK g : Loops(g, n, 0, back, G) /\ Within(g, n, S)
  BY <1>4, <1>6, Recursion
<1>8. g = [p \in 0 .. n |-> IF p = 0 THEN 0 ELSE turn(p, g[p - 1])]
  <2>1. ASSUME NEW p \in 0 .. n, p # 0 PROVE G[p][g[back[p]]] = turn(p, g[p - 1])
    <3>1. p \in 1 .. n
      BY <1>4, <2>1
    <3>2. g[p - 1] \in Nat
      BY <1>5, <1>7, <1>10, <3>1 DEF Within
    <3> QED
      BY <1>3, <1>11, <3>1, <3>2
  <2> QED
    BY <1>7, <2>1 DEF Loops
<1>9. ASSUME NEW f, f = [p \in 0 .. n |-> IF p = 0 THEN 0 ELSE turn(p, f[p - 1])]
      PROVE  \A p \in 0 .. n : f[p] \in Nat
  <2>1. f[0] = 0 /\ \A p \in 1 .. n : f[p] = turn(p, f[p - 1])
    BY <1>4, <1>5, <1>9
  <2>2. \A p \in 1 .. n : S[p] = Nat /\ S[back[p]] = Nat
    BY <1>3, <1>5, <1>10
  <2>3. f[0] \in S[0] /\ \A p \in 1 .. n : f[back[p]] \in S[back[p]] => f[p] \in S[p]
    BY <1>1, <1>3, <1>6, <2>1, <2>2
  <2>4. Within(f, n, S)
    BY <1>4, <1>6, <2>3, Invariably
  <2> QED
    BY <1>10, <2>4 DEF Within
<1> QED
  BY <1>2, <1>8, <1>9 DEF n

LEMMA AdvancingExists ==
  ASSUME NEW code, Len(code) \in Nat
  PROVE  \E at : Advancing(code, at)
<1> DEFINE n == Len(code)
           S == [p \in 0 .. n |-> Nat]
           turn(i) == IF i >= n THEN i ELSE i + (1 + pushBytes(code, i + 1))
           G == [p \in 1 .. n |-> [u \in Nat |-> turn(u)]]
           back == [p \in 1 .. n |-> p - 1]
<1>1. ASSUME NEW u \in Nat PROVE turn(u) \in Nat
  <2>1. pushBytes(code, u + 1) \in Nat
    BY PushBytes
  <2> QED
    BY <2>1
<1>2. \A f : Advancing(code, f) <=> f = [p \in 0 .. n |-> IF p = 0 THEN 0 ELSE turn(f[p - 1])]
  BY DEF Advancing
<1> HIDE DEF n, turn
<1>3. \A p \in 1 .. n : back[p] = p - 1
  OBVIOUS
<1>10. \A p \in 0 .. n : S[p] = Nat
  OBVIOUS
<1>11. \A p \in 1 .. n : \A u \in Nat : G[p][u] = turn(u)
  OBVIOUS
<1> HIDE DEF S, G, back
<1>4. n \in Nat
  BY DEF n
<1>5. \A p \in 1 .. n : p - 1 \in 0 .. p - 1 /\ p - 1 \in 0 .. n /\ p \in 0 .. n /\ p # 0
  BY <1>4
<1>6. GoesBack(back, n) /\ LeadsOn(G, back, n, S) /\ 0 \in S[0]
  <2>1. GoesBack(back, n)
    BY <1>3, <1>5 DEF GoesBack
  <2>2. \A p \in 1 .. n : S[p] = Nat /\ S[back[p]] = Nat
    BY <1>3, <1>5, <1>10
  <2>3. ASSUME NEW p \in 1 .. n, NEW u \in S[back[p]] PROVE G[p][u] \in S[p]
    <3>1. u \in Nat
      BY <2>2
    <3>2. G[p][u] = turn(u)
      BY <1>11, <3>1
    <3> QED
      BY <1>1, <2>2, <3>1, <3>2
  <2>4. LeadsOn(G, back, n, S)
    BY <2>3 DEF LeadsOn
  <2> QED
    BY <1>4, <1>10, <2>1, <2>4
<1>7. PICK g : Loops(g, n, 0, back, G) /\ Within(g, n, S)
  BY <1>4, <1>6, Recursion
<1>8. g = [p \in 0 .. n |-> IF p = 0 THEN 0 ELSE turn(g[p - 1])]
  <2>1. ASSUME NEW p \in 0 .. n, p # 0 PROVE G[p][g[back[p]]] = turn(g[p - 1])
    <3>1. p \in 1 .. n
      BY <1>4, <2>1
    <3>2. g[p - 1] \in Nat
      BY <1>5, <1>7, <1>10, <3>1 DEF Within
    <3> QED
      BY <1>3, <1>11, <3>1, <3>2
  <2> QED
    BY <1>7, <2>1 DEF Loops
<1> QED
  BY <1>2, <1>8 DEF n

\* From an instruction at i, the data of a push runs out just before i + 1 + its length.
LEMMA RunsOut ==
  ASSUME NEW code, Len(code) \in Nat, NEW left, Remaining(code, left),
         NEW i \in Nat, left[i] = 0, i + (1 + pushBytes(code, i + 1)) < Len(code)
  PROVE  left[i + (1 + pushBytes(code, i + 1))] = 0
<1> DEFINE n == Len(code)
           k == pushBytes(code, i + 1)
           end == i + (1 + k)
           ToCome(p) == {u \in Nat : p \in i + 1 .. end => u = end - p}
           S == [p \in 0 .. n |-> ToCome(p)]
           back == [p \in 1 .. n |-> p - 1]
<1>1. k \in Nat /\ n \in Nat /\ end \in 0 .. n /\ i \in 0 .. n
  BY PushBytes
<1>2. \A p \in 0 .. n : left[p] \in Nat
  BY RemainingExists
<1>3. \A p \in 1 .. n : left[p] = IF left[p - 1] > 0 THEN left[p - 1] - 1 ELSE pushBytes(code, p)
  <2>1. \A p \in 1 .. n : p \in 0 .. n /\ p # 0
    BY <1>1
  <2> HIDE DEF n
  <2> QED
    BY <2>1 DEF Remaining, n
<1>4. pushBytes(code, i + 1) = k
  OBVIOUS
<1> HIDE DEF k
<1>5. ASSUME NEW p \in 1 .. n, left[p - 1] \in ToCome(p - 1)
      PROVE  left[p] \in ToCome(p)
  <2>1. SUFFICES ASSUME p \in i + 1 .. end PROVE left[p] = end - p
    BY <1>1, <1>2
  <2>2. CASE p = i + 1
    <3>1. left[p] = pushBytes(code, p)
      BY <1>1, <1>3, <2>2
    <3> QED
      BY <1>1, <1>4, <2>2, <3>1
  <2>3. CASE p # i + 1
    <3>1. p - 1 \in i + 1 .. end /\ end - (p - 1) > 0
      BY <1>1, <2>1, <2>3
    <3>2. left[p - 1] = end - (p - 1)
      BY <1>5, <3>1
    <3> QED
      BY <1>1, <1>3, <3>1, <3>2
  <2> QED
    BY <2>2, <2>3
<1>6. left[0] \in ToCome(0)
  BY <1>1, <1>2
<1> HIDE DEF ToCome, end
<1>7. /\ \A p \in 1 .. n : back[p] = p - 1 /\ p - 1 \in 0 .. p - 1 /\ p - 1 \in 0 .. n /\ p \in 0 .. n
      /\ \A p \in 0 .. n : S[p] = ToCome(p)
  BY <1>1
<1> HIDE DEF S, back, n
<1>8. GoesBack(back, n)
  BY <1>7 DEF GoesBack
<1>9. left[0] \in S[0] /\ \A p \in 1 .. n : left[back[p]] \in S[back[p]] => left[p] \in S[p]
  <2>1. 0 \in 0 .. n
    BY <1>1
  <2> QED
    BY <1>5, <1>6, <1>7, <2>1
<1>10. Within(left, n, S)
  BY <1>1, <1>8, <1>9, Invariably
<1>11. left[end] \in ToCome(end)
  BY <1>1, <1>7, <1>10 DEF Within
<1>12. end \in i + 1 .. end /\ end - end = 0
  BY <1>1 DEF end
<1>13. left[end] = 0
  BY <1>11, <1>12 DEF ToCome
<1> QED
  BY <1>4, <1>13 DEF end

\* Every turn of the loop stands at an instruction, until it is past the end.
LEMMA StandsAtStarts ==
  ASSUME NEW code, Len(code) \in Nat, NEW left, Remaining(code, left), NEW at, Advancing(code, at),
         NEW t \in 0 .. Len(code), at[t] < Len(code)
  PROVE  at[t] \in Nat /\ left[at[t]] = 0
<1> DEFINE n == Len(code)
           Starts == {i \in Nat : i < n => left[i] = 0}
           S == [p \in 0 .. n |-> Starts]
           back == [p \in 1 .. n |-> p - 1]
<1>1. n \in Nat /\ 0 \in 0 .. n /\ \A p \in 1 .. n : p - 1 \in 0 .. p - 1 /\ p - 1 \in 0 .. n /\ p \in 0 .. n /\ p # 0
  OBVIOUS
<1>2. at[0] = 0 /\ \A p \in 1 .. n : at[p] = IF at[p - 1] >= n THEN at[p - 1]
                                             ELSE at[p - 1] + (1 + pushBytes(code, at[p - 1] + 1))
  <2> HIDE DEF n
  <2> QED
    BY <1>1 DEF Advancing, n
<1>3. left[0] = 0
  <2> HIDE DEF n
  <2> QED
    BY <1>1 DEF Remaining, n
<1>4. ASSUME NEW i \in Starts, ~(i >= n)
      PROVE  i + (1 + pushBytes(code, i + 1)) \in Starts
  <2>1. i \in Nat /\ left[i] = 0
    BY <1>1, <1>4
  <2>2. pushBytes(code, i + 1) \in Nat
    BY PushBytes
  <2>3. i + (1 + pushBytes(code, i + 1)) < n => left[i + (1 + pushBytes(code, i + 1))] = 0
    BY <2>1, RunsOut
  <2> QED
    BY <2>1, <2>2, <2>3
<1>5. 0 \in Starts
  BY <1>3
<1> HIDE DEF Starts
<1>6. /\ \A p \in 1 .. n : back[p] = p - 1
      /\ \A p \in 0 .. n : S[p] = Starts
  OBVIOUS
<1> HIDE DEF S, back
<1>7. GoesBack(back, n)
  BY <1>1, <1>6 DEF GoesBack
<1>8. at[0] \in S[0] /\ \A p \in 1 .. n : at[back[p]] \in S[back[p]] => at[p] \in S[p]
  <2>1. \A p \in 1 .. n : S[p] = Starts /\ S[back[p]] = Starts
    BY <1>1, <1>6
  <2> QED
    BY <1>1, <1>2, <1>4, <1>5, <1>6, <2>1
<1>9. Within(at, n, S)
  BY <1>1, <1>7, <1>8, Invariably
<1>10. at[t] \in Starts
  BY <1>6, <1>9 DEF Within
<1> QED
  BY <1>10 DEF Starts

LEMMA MarkedStarts ==
  ASSUME NEW code, Len(code) \in Nat, NEW p \in setCode(code)
  PROVE  /\ p \in Nat /\ p < Len(code) /\ code[p + 1].op = "JUMPDEST"
         /\ p \in InstructionStarts(code)
<1> DEFINE at == CHOOSE f : Advancing(code, f)
           left == CHOOSE f : Remaining(code, f)
<1>1. setCode(code) = {q \in {at[turn] : turn \in 0 .. Len(code)} :
                         q < Len(code) /\ code[q + 1].op = "JUMPDEST"}
  BY Zenon DEF setCode, marked, Advancing
<1>2. InstructionStarts(code) = {q \in 0 .. Len(code) - 1 : left[q] = 0}
  BY Zenon DEF InstructionStarts, Remaining
<1>3. Advancing(code, at) /\ Remaining(code, left)
  BY AdvancingExists, RemainingExists
<1> HIDE DEF at, left
<1>4. PICK t \in 0 .. Len(code) : p = at[t]
  BY <1>1
<1>5. p < Len(code) /\ code[p + 1].op = "JUMPDEST"
  BY <1>1
<1>6. p \in Nat /\ left[p] = 0
  BY <1>3, <1>4, <1>5, StandsAtStarts
<1> QED
  BY <1>2, <1>5, <1>6

LEMMA StoppedStays ==
  ASSUME NEW m, Shaped(m), NEW e
  PROVE  stepped(exit(m, e)).stop
<1>1. exit(m, e).stop /\ Shaped(exit(m, e))
  BY Exits DEF SameBut
<1> DEFINE n == exit(m, e)
<1> HIDE DEF n
<1>2. exit(n, "errStackOverflow").stop
  BY <1>1, Exits DEF n
<1>3. [n EXCEPT !.ip = n.ip + 1].stop
  BY <1>1 DEF Shaped, Fields, n
<1>4. stepped(n).stop
  BY <1>2, <1>3 DEF stepped
<1> QED
  BY <1>4 DEF n

\* A jump that goes through lands on an instruction, a JUMPDEST.
LEMMA JumpLands ==
  ASSUME NEW m, Sound(m), m.bitmap = setCode(m.code), NEW dest \in Nat,
         ~stepped(jumpTo(m, dest)).stop
  PROVE  LET n == stepped(jumpTo(m, dest))
         IN  n.ip \in InstructionStarts(n.code) /\ opOf(n) = "JUMPDEST"
<1> DEFINE p == jumpTo(m, dest)
           n == stepped(p)
<1>1. Shaped(m) /\ Len(m.code) \in Nat
  BY WordNat DEF Sound, ContractOK, IsCode
<1>2. validJumpdest(m, dest)
  <2>1. SUFFICES ASSUME ~validJumpdest(m, dest) PROVE FALSE
    OBVIOUS
  <2>2. p = exit(m, "errInvalidJump")
    BY <2>1 DEF jumpTo
  <2> QED
    BY <1>1, <2>2, StoppedStays
<1>3. p = [m EXCEPT !.ip = dest - 1]
  BY <1>2 DEF jumpTo
<1>4. ~n.stop
  OBVIOUS
<1> HIDE DEF p
<1>5. SameBut(m, p, {"ip"}) /\ p.ip = dest - 1
  BY <1>1, <1>3, Moves
<1>6. n = [p EXCEPT !.ip = p.ip + 1]
  <2>1. exit(p, "errStackOverflow").stop
    BY <1>5, Exits DEF SameBut
  <2> QED
    BY <1>4, <2>1 DEF stepped
<1> HIDE DEF n
<1>7. SameBut(p, n, {"ip"}) /\ n.ip = p.ip + 1
  BY <1>5, <1>6, Moves DEF SameBut
<1>8. n.ip = dest /\ n.code = m.code
  BY <1>5, <1>7 DEF SameBut, Fields
<1>9. dest \in setCode(m.code)
  BY <1>2 DEF validJumpdest
<1>10. dest \in InstructionStarts(m.code) /\ m.code[dest + 1].op = "JUMPDEST"
  BY <1>1, <1>9, MarkedStarts
<1>11. n.ip \in InstructionStarts(n.code) /\ opOf(n) = "JUMPDEST"
  BY <1>8, <1>10 DEF opOf
<1> QED
  BY <1>11 DEF n, p

LEMMA LastIs ==
  ASSUME Inv, inLoop, NEW x, continue(x)
  PROVE  frames'[Len(frames')] = x
<1> DEFINE L == Len(frames)
           gs == [frames EXCEPT ![L] = x]
<1>1. FramesOK(frames) /\ frames # << >> /\ frames' = gs
  BY DEF Inv, inLoop, continue
<1>2. PICK S : frames \in Seq(S)
  BY <1>1 DEF FramesOK
<1>3. frames \in Seq(S \cup {x}) /\ x \in S \cup {x} /\ L \in 1 .. L
  BY <1>1, <1>2, FramesLength
<1>4. Len(gs) = L /\ gs[L] = x
  BY <1>3, ExceptSeq
<1> HIDE DEF gs
<1> QED
  BY <1>1, <1>4

\* Which actions an instruction belongs to.
LEMMA OnlyJumps ==
  ASSUME Inv, Next, inCode, opOf(running) \in {"JUMP", "JUMPI"}
  PROVE  EndOfCode \/ Fault \/ Jumps
<1> DEFINE op == opOf(running)
<1>1. frames # << >> /\ ~running.stop
  BY DEF inCode, inLoop
<1>2. ~Start /\ ~Return /\ ~Leave
  BY <1>1 DEF Start, Return, Leave
<1>3. /\ Compute => op \in Unary \cup Binary \cup Ternary
      /\ StackMoves => op \in {"POP"} \cup DOMAIN PushOps \cup DOMAIN DupOps \cup DOMAIN SwapOps
      /\ Context => op \in EnvOps \cup SizeOps \cup QueryOps \cup {"CALLDATALOAD"}
      /\ Memory => op \in {"MLOAD", "MSTORE", "MSTORE8", "SHA3"} \cup CopyOps
      /\ Endings => op \in {"STOP", "RETURN", "REVERT"}
      /\ Log => op \in DOMAIN LogOps
  BY DEF Compute, StackMoves, Context, Memory, Endings, Log, Instruction
<1>4. /\ ReturnDataCopy => op = "RETURNDATACOPY"
      /\ Call => op \in DOMAIN CallOps
  BY Zenon DEF ReturnDataCopy, Call
<1>5. op \in {"JUMP", "JUMPI"}
  OBVIOUS
<1> HIDE DEF op
<1>6. op \notin Unary \cup Binary \cup Ternary
  BY <1>5 DEF Unary, Binary, Ternary
<1>7. /\ op \notin {"POP"} \cup DOMAIN PushOps \cup DOMAIN DupOps \cup DOMAIN SwapOps
      /\ op \notin DOMAIN LogOps /\ op \notin DOMAIN CallOps
  BY <1>5 DEF PushOps, DupOps, SwapOps, LogOps, CallOps
<1>8. /\ op \notin EnvOps \cup SizeOps \cup QueryOps \cup {"CALLDATALOAD"}
      /\ op \notin {"MLOAD", "MSTORE", "MSTORE8", "SHA3"} \cup CopyOps
      /\ op \notin {"STOP", "RETURN", "REVERT"} /\ op # "RETURNDATACOPY"
  BY <1>5 DEF EnvOps, SizeOps, QueryOps, CopyOps
<1> QED
  BY <1>2, <1>3, <1>4, <1>6, <1>7, <1>8 DEF Next

LEMMA JumpsLandHere ==
  ASSUME Inv, Next, inCode, opOf(running) \in {"JUMP", "JUMPI"},
         ~frames'[Len(frames')].stop, frames'[Len(frames')].ip # running.ip + 1
  PROVE  LET n == frames'[Len(frames')]
         IN  n.ip \in InstructionStarts(n.code) /\ opOf(n) = "JUMPDEST"
<1> DEFINE n == frames'[Len(frames')]
           c == charged(running)
           op == opOf(running)
           dest == peekAt(c, 1)
<1>1. inLoop
  BY DEF inCode
<1>2. Frame(running) /\ Shaped(running)
  BY <1>1, Running DEF Frame, Resting
<1>3. ~EndOfCode
  <2>1. SUFFICES ASSUME EndOfCode PROVE FALSE
    OBVIOUS
  <2>2. n = halt(running)
    BY <1>1, <2>1, LastIs DEF EndOfCode
  <2> QED
    BY <1>2, <2>2, Halting
<1>4. ~Fault
  <2>1. SUFFICES ASSUME Fault PROVE FALSE
    OBVIOUS
  <2>2. PICK e : continue(exit(running, e))
    BY <2>1 DEF Fault
  <2>3. n = exit(running, e)
    BY <1>1, <2>2, LastIs
  <2> QED
    BY <1>2, <2>3, Exits
<1>5. Jumps /\ affordable(running)
  <2>1. Jumps
    BY <1>3, <1>4, OnlyJumps
  <2> QED
    BY <2>1 DEF Jumps, Instruction
<1>6. \/ op = "JUMP" /\ continue(stepped(IF enabled(running, op) THEN opJump(c)
                                         ELSE exit(c, "errOpCodeNotFound")))
      \/ op = "JUMPI" /\ continue(stepped(IF enabled(running, op) THEN opJumpi(c)
                                          ELSE exit(c, "errOpCodeNotFound")))
  BY <1>5 DEF Jumps, Instruction
<1>7. /\ Sound(c) /\ SameBut(running, c, {"gas", "spent"}) /\ c.sp >= Takes(op)
      /\ c.sp \in Nat
  BY <1>5, Finds
<1>8. Takes("JUMP") = 1 /\ Takes("JUMPI") = 2
  BY TakesAre
<1>9. c.sp >= 1 /\ (op = "JUMPI" => c.sp >= 2)
  BY <1>6, <1>7, <1>8
<1> HIDE DEF c
<1>10. c.bitmap = setCode(c.code) /\ c.ip = running.ip
  BY <1>2, <1>7 DEF Frame, Placed, SameBut, Fields
<1>11. dest \in Nat
  BY <1>7, <1>9, Peeks, WordNat
<1>12. ~n.stop /\ n.ip # running.ip + 1
  OBVIOUS
<1>13. stepped(exit(c, "errOpCodeNotFound")).stop
  BY <1>7, StoppedStays DEF Sound
<1> HIDE DEF n, op, dest
<1>14. ASSUME NEW k \in {1, 2}, c.sp >= k
       PROVE  Sound(pop(c, k)) /\ SameBut(c, pop(c, k), {"sp"})
              /\ pop(c, k).bitmap = setCode(pop(c, k).code)
  <2>1. Sound(pop(c, k))
    BY <1>7, <1>14, WorksPop DEF Works
  <2>2. SameBut(c, pop(c, k), {"sp"})
    BY <1>7, Pops DEF Sound
  <2>3. pop(c, k).bitmap = c.bitmap /\ pop(c, k).code = c.code
    BY <2>2 DEF SameBut, Fields
  <2> QED
    BY <1>10, <2>1, <2>2, <2>3
<1>15. ASSUME NEW k \in {1, 2}, c.sp >= k, n = stepped(jumpTo(pop(c, k), dest))
       PROVE  n.ip \in InstructionStarts(n.code) /\ opOf(n) = "JUMPDEST"
  BY <1>11, <1>12, <1>14, <1>15, JumpLands
<1>16. CASE op = "JUMP" /\ continue(stepped(IF enabled(running, op) THEN opJump(c)
                                            ELSE exit(c, "errOpCodeNotFound")))
  <2>1. n = stepped(IF enabled(running, op) THEN opJump(c) ELSE exit(c, "errOpCodeNotFound"))
    BY <1>1, <1>16, LastIs DEF n
  <2>2. n = stepped(jumpTo(pop(c, 1), dest))
    BY <1>12, <1>13, <2>1 DEF opJump, dest
  <2> QED
    BY <1>9, <1>15, <2>2 DEF n
<1>17. CASE op = "JUMPI" /\ continue(stepped(IF enabled(running, op) THEN opJumpi(c)
                                             ELSE exit(c, "errOpCodeNotFound")))
  <2>1. n = stepped(IF enabled(running, op) THEN opJumpi(c) ELSE exit(c, "errOpCodeNotFound"))
    BY <1>1, <1>17, LastIs DEF n
  <2>2. n = stepped(opJumpi(c))
    BY <1>12, <1>13, <2>1
  <2>3. n # stepped(pop(c, 2))
    <3>1. Shaped(pop(c, 2)) /\ pop(c, 2).ip = running.ip
      BY <1>9, <1>10, <1>14, <1>17 DEF SameBut, Fields
    <3> DEFINE q == pop(c, 2)
    <3>2. exit(q, "errStackOverflow").stop
      BY <3>1, Exits
    <3>3. [q EXCEPT !.ip = q.ip + 1].ip = q.ip + 1
      BY <3>1, Moves
    <3> HIDE DEF q
    <3>4. stepped(q).stop \/ stepped(q).ip = q.ip + 1
      BY <3>2, <3>3 DEF stepped
    <3> QED
      BY <1>12, <3>1, <3>4 DEF q
  <2>4. n = stepped(jumpTo(pop(c, 2), dest))
    BY <2>2, <2>3 DEF opJumpi, dest
  <2> QED
    BY <1>9, <1>15, <1>17, <2>4 DEF n
<1> QED
  BY <1>6, <1>16, <1>17 DEF n, op, c

\* JumpsLand: a jump that opJump or opJumpi takes lands on a JUMPDEST that is an
\* instruction of the running code: bitmap.setCode steps over the data of pushes, and
\* the bitmap of a machine is that of its own code alone, whatever ran on it before.
THEOREM JumpsAreToInstructions == ASSUME Hosted PROVE Spec => JumpsLand
<1>1. Spec => []Inv
  BY Invariant
<1>2. Inv /\ [Next]_vars =>
        [LET m == running
             n == frames'[Len(frames')]
         IN (inCode /\ opOf(m) \in {"JUMP", "JUMPI"} /\ Len(frames') = Len(frames)
             /\ ~n.stop /\ n.ip # m.ip + 1)
            => /\ n.ip \in InstructionStarts(n.code)
               /\ opOf(n) = "JUMPDEST"]_vars
  BY JumpsLandHere
<1> QED
  BY <1>1, <1>2, PTL DEF Spec, JumpsLand
=============================================================================

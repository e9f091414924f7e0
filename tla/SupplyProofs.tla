---------------------------- MODULE SupplyProofs ----------------------------
(***************************************************************************)
(* Proofs about what Transition counts: gas is divided among the calls and *)
(* never made, the block's gas stays within its limit, ether is moved and  *)
(* never minted, and a failed transaction only pays its fee.  Sums over    *)
(* accounts and frames are handled by counting: Total(f) is the            *)
(* cardinality of a set with f[x] cells for each x, so the theorems on     *)
(* finite sets do the work of an induction.                                *)
(***************************************************************************)
EXTENDS CallProofs, FunctionTheorems, WellFoundedInduction

-----------------------------------------------------------------------------
(* Sums.                                                                   *)

\* Every set of natural numbers has a least one.
LEMMA Least ==
  ASSUME NEW T, T \subseteq Nat, T # {}
  PROVE  \E x \in T : \A y \in T : x <= y
  <1> DEFINE R == OpToRel(<, Nat)
  <1>1. IsWellFoundedOn(R, Nat)
    BY NatLessThanWellFounded
  <1>2. \A x \in Nat, y \in Nat : <<y, x>> \in R <=> y < x
    BY DEF OpToRel
  <1> HIDE DEF R
  <1>3. PICK x \in T : \A y \in T : ~ (<<y, x>> \in R)
    BY <1>1, WFMin
  <1>4. ASSUME NEW y \in T PROVE x <= y
    <2>1. ~ (y < x) BY <1>2, <1>3
    <2> QED BY <2>1
  <1> QED BY <1>4

\* One cell for each unit of f at each point of T.
Cells(f, T) == UNION {{x} \X (1 .. f[x]) : x \in T}

LEMMA CellsFinite ==
  ASSUME NEW D, IsFiniteSet(D), NEW f \in [D -> Nat], NEW T, T \subseteq D
  PROVE  IsFiniteSet(Cells(f, T))
  <1> DEFINE col == [x \in T |-> {x} \X (1 .. f[x])]
             cols == {{x} \X (1 .. f[x]) : x \in T}
  <1>1. IsFiniteSet(T)
    BY FS_Subset
  <1>2. col \in Surjection(T, cols)
    BY DEF Surjection
  <1>3. IsFiniteSet(cols)
    <2> HIDE DEF col, cols
    <2> QED BY <1>1, <1>2, FS_Surjection
  <1>4. ASSUME NEW x \in T PROVE IsFiniteSet({x} \X (1 .. f[x]))
    <2>1. IsFiniteSet(1 .. f[x])
      BY FS_Interval
    <2>2. IsFiniteSet({x})
      BY FS_Singleton
    <2> QED BY <2>1, <2>2, FS_Product
  <1>5. \A c \in cols : IsFiniteSet(c)
    BY <1>4
  <1>6. IsFiniteSet(UNION cols)
    <2> HIDE DEF cols
    <2> QED BY <1>3, <1>5, FS_UNION
  <1> QED BY <1>6 DEF Cells

\* The cells, with those of one point set apart.
LEMMA CellsSplit ==
  ASSUME NEW D, IsFiniteSet(D), NEW f \in [D -> Nat], NEW T, T \subseteq D,
         NEW x \in T
  PROVE  /\ Cardinality(Cells(f, T)) = f[x] + Cardinality(Cells(f, T \ {x}))
         /\ Cardinality(Cells(f, T \ {x})) \in Nat
  <1> DEFINE col == {x} \X (1 .. f[x])
             rest == Cells(f, T \ {x})
  <1>1. IsFiniteSet(rest) /\ Cardinality(rest) \in Nat
    <2>1. T \ {x} \subseteq D OBVIOUS
    <2>2. IsFiniteSet(rest) BY <2>1, CellsFinite
    <2> QED BY <2>2, FS_CardinalityType
  <1>2. IsFiniteSet(col) /\ Cardinality(col) = f[x]
    <2>0. f[x] \in Nat OBVIOUS
    <2>1. IsFiniteSet(1 .. f[x]) /\ Cardinality(1 .. f[x]) = f[x]
      BY <2>0, FS_Interval
    <2>2. IsFiniteSet({x}) /\ Cardinality({x}) = 1
      BY FS_Singleton
    <2>3. IsFiniteSet(col) /\ Cardinality(col) = Cardinality({x}) * Cardinality(1 .. f[x])
      BY <2>1, <2>2, FS_Product, Zenon
    <2> QED BY <2>0, <2>1, <2>2, <2>3
  <1>3. Cells(f, T) = col \cup rest
    <2>1. \A p : p \in Cells(f, T) <=> \E y \in T : p \in {y} \X (1 .. f[y])
      BY Zenon DEF Cells
    <2>2. \A p : p \in rest <=> \E y \in T \ {x} : p \in {y} \X (1 .. f[y])
      BY Zenon DEF Cells
    <2> HIDE DEF rest
    <2> QED BY <2>1, <2>2, Zenon
  <1>4. col \cap rest = {}
    <2>2. \A p : p \in rest => \E y \in T \ {x} : p \in {y} \X (1 .. f[y])
      BY Zenon DEF Cells
    <2> HIDE DEF rest
    <2>3. ASSUME NEW p \in col, p \in rest PROVE FALSE
      <3>1. p[1] = x OBVIOUS
      <3>2. PICK y \in T \ {x} : p \in {y} \X (1 .. f[y])
        BY <2>2, <2>3
      <3>3. p[1] = y BY <3>2
      <3> QED BY <3>1, <3>3
    <2> QED BY <2>3
  <1> HIDE DEF col, rest
  <1>5. Cardinality(col \cup rest) = Cardinality(col) + Cardinality(rest) - Cardinality(col \cap rest)
    BY <1>1, <1>2, FS_Union
  <1>6. Cardinality(col \cap rest) = 0
    BY <1>4, FS_EmptySet
  <1> QED BY <1>1, <1>2, <1>3, <1>5, <1>6 DEF rest

\* What the library's fold computes, by its definition.
LEMMA TotalUnfolds ==
  ASSUME NEW f
  PROVE  \E it : /\ Total(f) = it[DOMAIN f]
                 /\ it = CHOOSE i : i = [s \in SUBSET DOMAIN f |->
                            IF s = {} THEN 0
                            ELSE f[CHOOSE x \in s : TRUE]
                                   + i[s \ {CHOOSE x \in s : TRUE}]]
  BY Zenon DEF Total, MapThenSumSet, MapThenFoldSet

\* A sum counts cells.  The number of cells satisfies the equation that the fold
\* is chosen by, and no other function does: take a smallest set on which two
\* of them differ.
LEMMA TotalCells ==
  ASSUME NEW D, IsFiniteSet(D), NEW f \in [D -> Nat]
  PROVE  Total(f) = Cardinality(Cells(f, D))
  <1> DEFINE some(s) == CHOOSE x \in s : TRUE
             size == [s \in SUBSET D |-> Cardinality(Cells(f, s))]
             Sums(i) == i = [s \in SUBSET D |->
                               IF s = {} THEN 0 ELSE f[some(s)] + i[s \ {some(s)}]]
  <1>1. \A s : s # {} => some(s) \in s
    OBVIOUS
  <1>2. PICK it : Total(f) = it[D] /\ it = CHOOSE i : Sums(i)
    <2>1. DOMAIN f = D OBVIOUS
    <2> QED BY <2>1, TotalUnfolds, Zenon
  <1>3. Sums(size)
    <2>1. ASSUME NEW s \in SUBSET D
          PROVE  size[s] = IF s = {} THEN 0 ELSE f[some(s)] + size[s \ {some(s)}]
      <3>1. CASE s = {}
        <4>1. Cells(f, s) = {} BY <3>1 DEF Cells
        <4> QED BY <3>1, <4>1, FS_EmptySet
      <3>2. CASE s # {}
        <4>1. some(s) \in s BY <1>1, <3>2
        <4>2. s \ {some(s)} \in SUBSET D OBVIOUS
        <4> HIDE DEF some
        <4>3. Cardinality(Cells(f, s)) = f[some(s)] + Cardinality(Cells(f, s \ {some(s)}))
          BY <4>1, CellsSplit
        <4>4. size[s] = Cardinality(Cells(f, s)) /\ size[s \ {some(s)}] = Cardinality(Cells(f, s \ {some(s)}))
          BY <4>2
        <4> HIDE DEF size
        <4> QED BY <3>2, <4>3, <4>4, Zenon
      <3> QED BY <3>1, <3>2
    <2>2. size = [s \in SUBSET D |-> size[s]]
      OBVIOUS
    <2> HIDE DEF size, some
    <2>3. [s \in SUBSET D |-> size[s]] = [s \in SUBSET D |-> IF s = {} THEN 0 ELSE f[some(s)] + size[s \ {some(s)}]]
      BY <2>1, Zenon
    <2> QED BY <2>2, <2>3, Zenon
  <1>4. Sums(it)
    <2> HIDE DEF Sums, size
    <2> QED BY <1>2, <1>3, Zenon
  <1>5. ASSUME NEW s \in SUBSET D, s # {}
        PROVE  it[s] = f[some(s)] + it[s \ {some(s)}]
    <2> HIDE DEF some
    <2> QED BY <1>4, <1>5, Zenon
  <1>6. ASSUME NEW s \in SUBSET D, s # {}
        PROVE  size[s] = f[some(s)] + size[s \ {some(s)}]
    <2> HIDE DEF some, size
    <2> QED BY <1>3, <1>6, Zenon
  <1>7. it[{}] = 0 /\ size[{}] = 0
    <2>1. {} \in SUBSET D OBVIOUS
    <2> HIDE DEF some, size
    <2>2. it[{}] = 0 BY <1>4, <2>1, Zenon
    <2>3. size[{}] = 0 BY <1>3, <2>1, Zenon
    <2> QED BY <2>2, <2>3
  <1> DEFINE bad == {s \in SUBSET D : it[s] # size[s]}
             sizes == {Cardinality(s) : s \in bad}
  <1>8. ASSUME NEW s \in SUBSET D PROVE IsFiniteSet(s) /\ Cardinality(s) \in Nat
    BY FS_Subset, FS_CardinalityType
  <1>9. bad = {}
    <2>1. SUFFICES ASSUME bad # {} PROVE FALSE
      OBVIOUS
    <2>2. sizes \subseteq Nat /\ sizes # {}
      <3> HIDE DEF size
      <3> QED BY <1>8, <2>1
    <2>3. PICK n \in sizes : \A m \in sizes : n <= m
      <3> HIDE DEF sizes
      <3> QED BY <2>2, Least
    <2>4. PICK s \in bad : n = Cardinality(s)
      OBVIOUS
    <2>5. s \in SUBSET D /\ it[s] # size[s]
      OBVIOUS
    <2>6. s # {}
      <3> HIDE DEF size
      <3> QED BY <1>7, <2>5
    <2>7. some(s) \in s /\ s \ {some(s)} \in SUBSET D
      BY <1>1, <2>5, <2>6
    <2>8. Cardinality(s \ {some(s)}) = Cardinality(s) - 1
      <3> HIDE DEF some
      <3> QED BY <1>8, <2>5, <2>7, FS_RemoveElement
    <2>9. s \ {some(s)} \notin bad
      <3>1. ASSUME s \ {some(s)} \in bad PROVE FALSE
        <4>1. Cardinality(s \ {some(s)}) \in sizes
          <5> HIDE DEF bad, some
          <5> QED BY <3>1
        <4>2. n <= Cardinality(s \ {some(s)})
          <5> HIDE DEF sizes, some
          <5> QED BY <2>3, <4>1
        <4> HIDE DEF some
        <4> QED BY <1>8, <2>4, <2>5, <2>8, <4>2
      <3> QED BY <3>1
    <2>10. it[s \ {some(s)}] = size[s \ {some(s)}]
      <3> HIDE DEF some, size
      <3> QED BY <2>7, <2>9
    <2> HIDE DEF some, size, bad, sizes
    <2> QED BY <1>5, <1>6, <2>5, <2>6, <2>10, Zenon
  <1>10. it[D] = size[D]
    <2>1. D \in SUBSET D OBVIOUS
    <2> HIDE DEF size
    <2> QED BY <1>9, <2>1
  <1> QED BY <1>2, <1>10

\* The sum, with one of its terms set apart.
LEMMA TotalSplit ==
  ASSUME NEW D, IsFiniteSet(D), NEW f \in [D -> Nat], NEW x \in D
  PROVE  /\ Total(f) = f[x] + Cardinality(Cells(f, D \ {x}))
         /\ Cardinality(Cells(f, D \ {x})) \in Nat
  BY TotalCells, CellsSplit

LEMMA TotalType ==
  ASSUME NEW D, IsFiniteSet(D), NEW f \in [D -> Nat]
  PROVE  Total(f) \in Nat
  <1>1. IsFiniteSet(Cells(f, D))
    BY CellsFinite
  <1> QED BY <1>1, TotalCells, FS_CardinalityType

LEMMA SameCells ==
  ASSUME NEW f, NEW g, NEW T, \A x \in T : f[x] = g[x]
  PROVE  Cells(f, T) = Cells(g, T)
  <1>1. \A p : p \in Cells(f, T) <=> \E y \in T : p \in {y} \X (1 .. f[y])
    BY Zenon DEF Cells
  <1>2. \A p : p \in Cells(g, T) <=> \E y \in T : p \in {y} \X (1 .. g[y])
    BY Zenon DEF Cells
  <1>3. \A p : p \in Cells(f, T) <=> p \in Cells(g, T)
    BY <1>1, <1>2, Zenon
  <1> QED BY <1>3

\* One term changes, and the sum changes by as much.
LEMMA TotalChange ==
  ASSUME NEW D, IsFiniteSet(D), NEW f \in [D -> Nat], NEW g \in [D -> Nat],
         NEW x \in D, \A y \in D : y # x => f[y] = g[y]
  PROVE  Total(f) + g[x] = Total(g) + f[x]
  <1>1. Cells(f, D \ {x}) = Cells(g, D \ {x})
    <2>1. \A y \in D \ {x} : f[y] = g[y] OBVIOUS
    <2> QED BY <2>1, SameCells, Zenon
  <1>2. f[x] \in Nat /\ g[x] \in Nat
    OBVIOUS
  <1>3. Total(f) = f[x] + Cardinality(Cells(f, D \ {x})) /\ Cardinality(Cells(f, D \ {x})) \in Nat
    BY TotalSplit
  <1>4. Total(g) = g[x] + Cardinality(Cells(g, D \ {x})) /\ Cardinality(Cells(g, D \ {x})) \in Nat
    BY TotalSplit
  <1> QED BY <1>1, <1>2, <1>3, <1>4

\* No term grows, and neither does the sum.
LEMMA TotalLess ==
  ASSUME NEW D, IsFiniteSet(D), NEW f \in [D -> Nat], NEW g \in [D -> Nat],
         \A x \in D : f[x] <= g[x]
  PROVE  Total(f) <= Total(g)
  <1>1. ASSUME NEW x \in D
        PROVE  {x} \X (1 .. f[x]) \subseteq {x} \X (1 .. g[x])
    <2>1. f[x] \in Nat /\ g[x] \in Nat /\ f[x] <= g[x]
      OBVIOUS
    <2>2. 1 .. f[x] \subseteq 1 .. g[x]
      BY <2>1
    <2> QED
      BY <2>2
  <1>2. Cells(f, D) \subseteq Cells(g, D)
    <2>1. \A p : p \in Cells(f, D) <=> \E y \in D : p \in {y} \X (1 .. f[y])
      BY Zenon DEF Cells
    <2>2. \A p : p \in Cells(g, D) <=> \E y \in D : p \in {y} \X (1 .. g[y])
      BY Zenon DEF Cells
    <2>3. ASSUME NEW p \in Cells(f, D)
          PROVE  p \in Cells(g, D)
      <3>1. PICK y \in D : p \in {y} \X (1 .. f[y])
        BY <2>1
      <3>2. p \in {y} \X (1 .. g[y])
        BY <1>1, <3>1
      <3> QED
        BY <2>2, <3>2
    <2> QED
      BY <2>3
  <1>3. IsFiniteSet(Cells(g, D))
    BY CellsFinite
  <1>4. Cardinality(Cells(f, D)) <= Cardinality(Cells(g, D))
    BY <1>2, <1>3, FS_Subset
  <1> QED
    BY <1>4, TotalCells

\* The sum over nothing.
LEMMA TotalEmpty ==
  ASSUME NEW f \in [{} -> Nat]
  PROVE  Total(f) = 0
  <1>1. Cells(f, {}) = {}
    BY DEF Cells
  <1> QED
    BY <1>1, TotalCells, FS_EmptySet

\* A sequence of terms gets one more.
LEMMA TotalLonger ==
  ASSUME NEW n \in Nat, NEW f \in [1 .. n + 1 -> Nat], NEW g \in [1 .. n -> Nat],
         \A i \in 1 .. n : f[i] = g[i]
  PROVE  Total(f) = f[n + 1] + Total(g)
  <1>1. IsFiniteSet(1 .. n + 1) /\ IsFiniteSet(1 .. n) /\ n + 1 \in 1 .. n + 1
    BY FS_Interval
  <1>2. Total(f) = f[n + 1] + Cardinality(Cells(f, (1 .. n + 1) \ {n + 1}))
    BY <1>1, TotalSplit
  <1>3. (1 .. n + 1) \ {n + 1} = 1 .. n
    OBVIOUS
  <1>4. Total(g) = Cardinality(Cells(g, 1 .. n))
    BY <1>1, TotalCells
  <1>5. Cells(f, 1 .. n) = Cells(g, 1 .. n)
    BY SameCells, ZenonT(60)
  <1> QED
    BY <1>2, <1>3, <1>4, <1>5

-----------------------------------------------------------------------------
(* The gas of the frames.                                                  *)

\* The gas that the frames q hold together.
Held(q) == Total([i \in DOMAIN q |-> q[i].gas])

\* The gas of the frames, as a function on their positions.
LEMMA HeldGas ==
  ASSUME NEW q \in Seq(Frames)
  PROVE  /\ DOMAIN q = 1 .. Len(q) /\ Len(q) \in Nat /\ IsFiniteSet(1 .. Len(q))
         /\ [i \in DOMAIN q |-> q[i].gas] \in [1 .. Len(q) -> Nat]
         /\ Held(q) \in Nat
  <1> DEFINE g == [i \in DOMAIN q |-> q[i].gas]
  <1>1. DOMAIN q = 1 .. Len(q) /\ Len(q) \in Nat
    BY LenProperties
  <1>2. IsFiniteSet(1 .. Len(q))
    BY <1>1, FS_Interval
  <1>3. ASSUME NEW i \in 1 .. Len(q)
        PROVE  q[i].gas \in Nat
    <2>1. q[i] \in Frames
      BY <1>1, ElementOfSeq
    <2> QED
      BY <2>1, TxnConstants DEF Frames
  <1>4. g \in [1 .. Len(q) -> Nat]
    BY <1>1, <1>3
  <1> HIDE DEF g
  <1>5. Total(g) \in Nat
    BY <1>2, <1>4, TotalType
  <1> QED
    BY <1>1, <1>2, <1>4, <1>5 DEF Held, g

\* The topmost frame gets other gas.
LEMMA HeldSet ==
  ASSUME NEW q \in Seq(Frames), q # << >>, NEW g \in Gas
  PROVE  /\ Held(setGas(q, g)) + q[Len(q)].gas = Held(q) + g
         /\ q[Len(q)].gas <= Held(q)
         /\ q[Len(q)].gas \in Gas
  <1> DEFINE p == setGas(q, g)
             n == Len(q)
             f == [i \in DOMAIN q |-> q[i].gas]
             h == [i \in DOMAIN p |-> p[i].gas]
  <1>1. /\ p \in Seq(Frames) /\ Len(p) = n
        /\ p[n] = [q[n] EXCEPT !.gas = g]
        /\ \A i \in 1 .. n - 1 : p[i] = q[i]
    BY SetGas
  <1> HIDE DEF p
  <1>2. n \in Nat /\ n \in 1 .. n /\ q[n] \in Frames
    OBVIOUS
  <1>3. q[n].gas \in Gas /\ p[n].gas = g
    BY <1>1, <1>2 DEF Frames, Gas
  <1>4. /\ DOMAIN q = 1 .. n /\ IsFiniteSet(1 .. n) /\ f \in [1 .. n -> Nat]
        /\ Held(q) \in Nat
    BY HeldGas
  <1>5. DOMAIN p = 1 .. n /\ h \in [1 .. n -> Nat] /\ Held(p) \in Nat
    <2>1. /\ DOMAIN p = 1 .. Len(p) /\ h \in [1 .. Len(p) -> Nat] /\ Held(p) \in Nat
      BY <1>1, HeldGas
    <2> QED
      BY <1>1, <2>1
  <1>6. f[n] = q[n].gas /\ h[n] = g
    BY <1>2, <1>3, <1>4, <1>5
  <1>7. ASSUME NEW i \in 1 .. n, i # n
        PROVE  f[i] = h[i]
    <2>1. i \in 1 .. n - 1
      BY <1>2, <1>7
    <2> QED
      BY <1>1, <1>4, <1>5, <2>1
  <1>8. Held(q) = Total(f) /\ Held(p) = Total(h)
    BY DEF Held
  <1> HIDE DEF f, h, n
  <1>9. Total(f) + h[n] = Total(h) + f[n]
    BY <1>2, <1>4, <1>5, <1>7, TotalChange, ZenonT(60)
  <1>10. f[n] <= Total(f)
    <2>1. /\ Total(f) = f[n] + Cardinality(Cells(f, (1 .. n) \ {n}))
          /\ Cardinality(Cells(f, (1 .. n) \ {n})) \in Nat
      BY <1>2, <1>4, TotalSplit
    <2>2. f[n] \in Nat
      BY <1>2, <1>4
    <2> QED
      BY <2>1, <2>2
  <1>11. f[n] \in Nat /\ g \in Nat
    BY <1>2, <1>4, TxnConstants DEF Gas
  <1>12. Held(p) + q[n].gas = Held(q) + g
    BY <1>4, <1>5, <1>6, <1>8, <1>9, <1>11
  <1> QED
    BY <1>3, <1>6, <1>8, <1>10, <1>12 DEF p, n

\* A frame is pushed.
LEMMA HeldAppend ==
  ASSUME NEW q \in Seq(Frames), NEW x \in Frames
  PROVE  Held(Append(q, x)) = Held(q) + x.gas
  <1> DEFINE p == Append(q, x)
             n == Len(q)
             f == [i \in DOMAIN q |-> q[i].gas]
             h == [i \in DOMAIN p |-> p[i].gas]
  <1>1. /\ p \in Seq(Frames) /\ Len(p) = n + 1 /\ p[n + 1] = x
        /\ \A i \in 1 .. n : p[i] = q[i]
    BY AppendProperties
  <1> HIDE DEF p
  <1>2. /\ DOMAIN q = 1 .. n /\ f \in [1 .. n -> Nat] /\ n \in Nat
        /\ Held(q) \in Nat
    BY HeldGas
  <1>3. /\ DOMAIN p = 1 .. n + 1 /\ h \in [1 .. n + 1 -> Nat]
        /\ IsFiniteSet(1 .. n + 1)
    <2>1. /\ DOMAIN p = 1 .. Len(p) /\ h \in [1 .. Len(p) -> Nat]
          /\ IsFiniteSet(1 .. Len(p))
      BY <1>1, HeldGas
    <2> QED
      BY <1>1, <2>1
  <1>4. n + 1 \in 1 .. n + 1 /\ (1 .. n + 1) \ {n + 1} = 1 .. n
    BY <1>2
  <1>5. h[n + 1] = x.gas
    BY <1>1, <1>3, <1>4
  <1>6. \A i \in 1 .. n : h[i] = f[i]
    BY <1>1, <1>2, <1>3
  <1>7. Held(q) = Total(f) /\ Held(p) = Total(h)
    BY DEF Held
  <1> HIDE DEF f, h, n
  <1>8. Total(h) = h[n + 1] + Total(f)
    BY <1>2, <1>3, <1>6, TotalLonger
  <1>9. x.gas \in Nat
    BY TxnConstants DEF Frames
  <1> QED
    BY <1>2, <1>5, <1>7, <1>8, <1>9 DEF p

\* The running frame returns.
LEMMA HeldCallers ==
  ASSUME frames \in Seq(Frames), frames # << >>
  PROVE  Held(frames) = Held(callers) + running.gas
  <1>1. /\ running \in Frames /\ callers \in Seq(Frames)
        /\ Len(callers) = Len(frames) - 1 /\ Len(frames) \in Nat \ {0}
        /\ \A i \in 1 .. Len(frames) - 1 : callers[i] = frames[i]
    BY Topmost
  <1>2. Append(callers, running) = frames
    <2> DEFINE p == Append(callers, running)
    <2>1. /\ p \in Seq(Frames) /\ Len(p) = Len(frames)
          /\ \A i \in 1 .. Len(frames) : p[i] = frames[i]
      BY <1>1, AppendProperties DEF running
    <2> HIDE DEF p
    <2>2. p = frames
      BY <2>1, SeqEqual
    <2> QED
      BY <2>2 DEF p
  <1> QED
    BY <1>1, <1>2, HeldAppend

-----------------------------------------------------------------------------
(* Gas.                                                                    *)

\* What the sender bought beyond the intrinsic cost.
Bought == msg.gas - intrinsicGas(msg).cost

LEMMA BoughtType ==
  ASSUME TypeInv, msg # NoMsg
  PROVE  Bought \in Gas /\ Bought <= msg.gas /\ msg.gas \in Gas
  <1>1. msg \in Messages /\ intrinsicGas(msg).cost <= msg.gas
    BY DEF TypeInv, TypeOK, Started
  <1>2. msg.gas \in Gas
    BY <1>1 DEF Messages, Gas
  <1>3. intrinsicGas(msg).cost \in Nat
    BY <1>1, IntrinsicType
  <1> HIDE DEF Bought
  <1>4. Bought = msg.gas - intrinsicGas(msg).cost
    BY DEF Bought
  <1> QED
    BY <1>1, <1>2, <1>3, <1>4, TxnConstants DEF Gas

\* The strengthening of GasNeverMinted and PoolBounded: neither is inductive
\* without the other's bound, for the code's additions are modulo Word.
GasInv == TypeInv /\ GasNeverMinted /\ PoolBounded

LEMMA MintedHeld ==
  GasNeverMinted <=> (frames # << >> => Held(frames) <= Bought)
  BY Zenon DEF GasNeverMinted, Held, Bought

\* A caller and its callee share the caller's gas (EIP-150's 63/64 rule, or the
\* creation's).
LEMMA CallingGas ==
  ASSUME CreationsStay, Forks["EIP150"], TypeInv, GasNeverMinted, msg # NoMsg,
         NEW below \in Seq(Frames), NEW c \in Calls, Calling(below, c)
  PROVE  Held(below) + c.gas <= Bought
  <1>1. frames \in Seq(Frames) /\ c.gas \in Gas
    BY DEF TypeInv, TypeOK, Calls
  <1>2. Bought \in Gas
    BY BoughtType
  <1>3. CASE frames = << >> /\ below = << >> /\ c = topmost(msg)
    <2>1. c.gas = Bought
      BY <1>3, TopmostCall DEF Bought
    <2>2. Held(below) = 0
      <3>1. [i \in DOMAIN below |-> below[i].gas] \in [{} -> Nat]
        <4>1. DOMAIN below = {}
          BY <1>3
        <4> QED
          BY <4>1
      <3> QED
        BY <3>1, TotalEmpty DEF Held
    <2> QED
      BY <1>2, <2>1, <2>2, TxnConstants DEF Gas
  <1>4. ASSUME frames # << >>, NEW g \in Gas, below = setGas(frames, g), Outgoing(c, g)
        PROVE  Held(below) + c.gas <= Bought
    <2>1. Held(frames) <= Bought
      BY <1>4, MintedHeld
    <2>2. g + c.gas <= running.gas
      BY <1>4 DEF Outgoing
    <2>3. /\ Held(below) + running.gas = Held(frames) + g /\ running.gas \in Gas
      BY <1>1, <1>4, HeldSet DEF running
    <2>4. Held(below) \in Nat /\ Held(frames) \in Nat
      BY <1>1, HeldGas
    <2> QED
      BY <1>1, <1>2, <2>1, <2>2, <2>3, <2>4, TxnConstants DEF Gas
  <1> QED
    BY <1>3, <1>4 DEF Calling

\* What a call gives back was the caller's.
LEMMA HandsGas ==
  ASSUME CreationsStay, Forks["EIP150"], TypeInv, GasNeverMinted,
         NEW below \in Seq(Frames), NEW op \in CallOps, NEW r \in Results,
         Hands(below, op, r)
  PROVE  Held(below) + r.gasLeft <= Bought
  <1>1. frames \in Seq(Frames) /\ tree \in Trees /\ msg # NoMsg /\ r.gasLeft \in Gas
    BY DEF TypeInv, TypeOK, Hands, Results
  <1>2. Bought \in Gas
    BY <1>1, BoughtType
  <1>3. Held(below) \in Nat /\ Held(frames) \in Nat
    BY <1>1, HeldGas
  <1>4. frames # << >> => Held(frames) <= Bought
    BY MintedHeld
  <1>5. CASE Ended(below, op, r)
    <2>1. /\ frames # << >> /\ below = callers
          /\ \E t \in Trees, res \in Runs :
               res.gasLeft <= running.gas /\ r = leave(running, t, res)
      BY <1>5 DEF Ended
    <2>2. PICK t \in Trees, res \in Runs :
            res.gasLeft <= running.gas /\ r = leave(running, t, res)
      BY <2>1
    <2>3. running \in Frames /\ running.gas \in Gas
      BY <1>1, <2>1, Topmost
    <2>4. r.gasLeft <= res.gasLeft
      BY <2>2, <2>3, LeaveType
    <2>5. res.gasLeft \in Gas
      BY DEF Runs
    <2>6. Held(frames) = Held(below) + running.gas
      BY <1>1, <2>1, HeldCallers
    <2>7. Held(frames) <= Bought
      BY <1>4, <2>1
    <2>8. res.gasLeft <= running.gas
      BY <2>2
    <2> QED
      BY <1>1, <1>2, <1>3, <2>3, <2>4, <2>5, <2>6, <2>7, <2>8, TxnConstants DEF Gas
  <1>6. CASE Failed(below, op, r)
    <2>1. PICK c \in Calls : LET e == enter(tree, c, Len(below) + 1) IN
                             /\ Calling(below, c)
                             /\ r = result(e.err, e.gasLeft, e.tree)
      BY <1>6 DEF Failed
    <2>2. r.gasLeft = enter(tree, c, Len(below) + 1).gasLeft
      BY <2>1, Zenon DEF result
    <2>3. enter(tree, c, Len(below) + 1).gasLeft <= c.gas
      BY <1>1, DepthType, EnterType
    <2>4. Held(below) + c.gas <= Bought
      BY <1>1, <2>1, CallingGas
    <2>5. c.gas \in Gas
      BY DEF Calls
    <2>6. r.gasLeft <= c.gas
      BY <2>2, <2>3
    <2> QED
      BY <1>1, <1>2, <1>3, <2>4, <2>5, <2>6, TxnConstants DEF Gas
  <1>7. CASE Unpaid(below, op, r)
    <2>1. PICK g \in Gas, given \in Gas : /\ below = setGas(frames, g)
                                          /\ r = result("bad", given, tree)
                                          /\ g + given <= running.gas
      BY <1>7 DEF Unpaid
    <2>2. frames # << >>
      BY <1>7 DEF Unpaid
    <2>3. r.gasLeft = given
      BY <2>1, Zenon DEF result
    <2>4. Held(below) + running.gas = Held(frames) + g /\ running.gas \in Gas
      BY <1>1, <2>1, <2>2, HeldSet DEF running
    <2>5. Held(frames) <= Bought
      BY <1>4, <2>2
    <2>6. g + given <= running.gas
      BY <2>1
    <2> QED
      BY <1>1, <1>2, <1>3, <2>3, <2>4, <2>5, <2>6, TxnConstants DEF Gas
  <1> QED
    BY <1>5, <1>6, <1>7 DEF Hands

\* The caller gets back the gas left over.
LEMMA ReturnBelow ==
  ASSUME NEW below, below # << >>, NEW op, NEW r, Return(below, op, r)
  PROVE  /\ frames' = setGas(below, (below[Len(below)].gas + r.gasLeft) % Word)
         /\ gasPool' = gasPool /\ totalGas' = totalGas /\ msg' = msg
  <1>1. frames' = setGas(below, (below[Len(below)].gas + r.gasLeft) % Word)
    BY ReturnForm
  <1>2. msg' = msg
    BY ReturnForm
  <1>3. gasPool' = gasPool
    BY ReturnForm
  <1>4. totalGas' = totalGas
    BY ReturnForm
  <1> QED
    BY <1>1, <1>2, <1>3, <1>4

\* The end of a transaction shares out the gas it bought, and neither the pool's
\* counter nor the block's wraps.
LEMMA HandsSettles ==
  ASSUME CreationsStay, Forks["EIP150"], GasInv,
         NEW below \in Seq(Frames), NEW op \in CallOps, NEW r \in Results,
         Hands(below, op, r), below = << >>
  PROVE  \E left \in Gas, used \in Gas :
           /\ left + used = msg.gas
           /\ gasPool' = gasPool + left /\ totalGas' = totalGas + used
           /\ frames' = << >> /\ msg' = NoMsg
  <1>1. /\ TypeInv /\ GasNeverMinted /\ msg # NoMsg /\ Return(below, op, r)
        /\ gasPool \in Gas /\ totalGas \in Gas /\ r.gasLeft \in Gas /\ r.tree \in Trees
        /\ gasPool + totalGas + msg.gas <= GasLimit
    BY DEF GasInv, TypeInv, TypeOK, Hands, Results, PoolBounded, BlockGas, Gas
  <1>2. Held(below) + r.gasLeft <= Bought /\ Held(below) \in Nat
    BY <1>1, HandsGas, HeldGas
  <1>3. Bought \in Gas /\ Bought <= msg.gas /\ msg.gas \in Gas
    BY <1>1, BoughtType
  <1>4. Settle(r.tree, r.err, r.gasLeft)
    BY <1>1, ReturnForm
  <1>5. PICK left \in Gas, used \in Gas :
          /\ r.gasLeft <= msg.gas => left + used = msg.gas
          /\ gasPool' = (gasPool + left) % Word
          /\ totalGas' = (totalGas + used) % Word
          /\ frames' = << >>
          /\ msg' = NoMsg
    BY <1>1, <1>4, SettleForm
  <1>6. left + used = msg.gas
    BY <1>1, <1>2, <1>3, <1>5, SMTT(60) DEF Gas
  <1>7. GasLimit < Word /\ GasLimit \in Nat /\ Word \in Nat
    BY BlockConstants, TxnConstants
  <1>8. gasPool' = gasPool + left /\ totalGas' = totalGas + used
    <2>1. gasPool + left \in 0 .. Word - 1 /\ totalGas + used \in 0 .. Word - 1
      BY <1>1, <1>3, <1>6, <1>7 DEF Gas
    <2>2. \A x \in 0 .. Word - 1 : x % Word = x
      BY <1>7
    <2> QED
      BY <1>5, <2>1, <2>2
  <1> QED
    BY <1>5, <1>6, <1>8

\* A return adds up: the caller's counter does not wrap, and neither do the
\* pool's and the block's.
LEMMA HandsKeeps ==
  ASSUME CreationsStay, Forks["EIP150"], GasInv,
         NEW below \in Seq(Frames), NEW op \in CallOps, NEW r \in Results,
         Hands(below, op, r)
  PROVE  GasNeverMinted' /\ PoolBounded'
  <1>1. /\ TypeInv /\ GasNeverMinted /\ msg # NoMsg /\ Return(below, op, r)
        /\ gasPool \in Gas /\ totalGas \in Gas /\ r.gasLeft \in Gas /\ r.tree \in Trees
        /\ gasPool + totalGas + msg.gas <= GasLimit
    BY DEF GasInv, TypeInv, TypeOK, Hands, Results, PoolBounded, BlockGas, Gas
  <1>2. Held(below) + r.gasLeft <= Bought /\ Held(below) \in Nat
    BY <1>1, HandsGas, HeldGas
  <1>3. Bought \in Gas /\ Bought <= msg.gas /\ msg.gas \in Gas
    BY <1>1, BoughtType
  <1>4. CASE below = << >>
    <2>1. PICK left \in Gas, used \in Gas :
            /\ left + used = msg.gas
            /\ gasPool' = gasPool + left /\ totalGas' = totalGas + used
            /\ frames' = << >> /\ msg' = NoMsg
      BY <1>4, HandsSettles
    <2>2. left \in Nat /\ used \in Nat /\ gasPool \in Nat /\ totalGas \in Nat
      BY <1>1, TxnConstants DEF Gas
    <2>3. gasPool' + totalGas' + 0 <= GasLimit
      BY <1>1, <2>1, <2>2
    <2> QED
      BY <2>1, <2>3 DEF GasNeverMinted, PoolBounded, BlockGas
  <1>5. CASE below # << >>
    <2> DEFINE top == below[Len(below)].gas
               g == (top + r.gasLeft) % Word
    <2>1. /\ frames' = setGas(below, g)
          /\ gasPool' = gasPool /\ totalGas' = totalGas /\ msg' = msg
      BY <1>1, <1>5, ReturnBelow
    <2>2. top \in Gas /\ top <= Held(below)
      BY <1>1, <1>5, HeldSet
    <2>3. g = top + r.gasLeft /\ g \in Gas
      <3>1. top + r.gasLeft \in Gas
        <4>1. \A x \in Nat, y \in Nat, h \in Nat, b \in Gas :
                x <= h /\ h + y <= b => x + y \in Gas
          BY TxnConstants DEF Gas
        <4>2. top \in Nat /\ r.gasLeft \in Nat
          BY <1>1, <2>2, TxnConstants DEF Gas
        <4> HIDE DEF top
        <4> QED
          BY <1>2, <1>3, <2>2, <4>1, <4>2, Zenon
      <3>2. \A x \in Gas : x % Word = x
        BY TxnConstants DEF Gas
      <3> QED
        BY <3>1, <3>2
    <2>4. Held(frames') + top = Held(below) + g
      BY <1>5, <2>1, <2>3, HeldSet
    <2>5. Held(frames') \in Nat
      BY <1>5, <2>1, <2>3, SetGas, HeldGas
    <2> HIDE DEF g, top
    <2>6. Held(frames') <= Bought
      BY <1>1, <1>2, <1>3, <2>2, <2>3, <2>4, <2>5, TxnConstants, SMTT(60) DEF Gas
    <2>8. GasNeverMinted'
      BY <2>1, <2>6, Zenon DEF GasNeverMinted, Held, Bought
    <2>9. PoolBounded'
      BY <2>1 DEF GasInv, PoolBounded, BlockGas
    <2> QED
      BY <2>8, <2>9
  <1> QED
    BY <1>4, <1>5

LEMMA GasInit == Init => GasInv
  <1> SUFFICES ASSUME Init PROVE GasInv
    OBVIOUS
  <1>1. TypeInv
    BY TypeInit
  <1>2. frames = << >> /\ gasPool = GasLimit /\ totalGas = 0 /\ msg = NoMsg
    BY DEF Init
  <1>3. GasLimit + 0 + 0 <= GasLimit
    BY BlockConstants, TxnConstants
  <1> QED
    BY <1>1, <1>2, <1>3 DEF GasInv, GasNeverMinted, PoolBounded, BlockGas

\* The pool pays for a transaction when it is accepted, and for one that is
\* rejected late.
LEMMA CheckedGas ==
  ASSUME GasInv, msg = NoMsg, NEW m \in Transactions
  PROVE  /\ gasPool \in Nat /\ totalGas \in Nat /\ m.gas \in Nat /\ m # NoMsg
         /\ gasPool + totalGas <= GasLimit /\ frames = << >>
         /\ preCheck(m) \in LateErrors \cup {""} => m.gas <= gasPool
  <1>1. m \in Messages /\ m # NoMsg
    BY BlockConstants
  <1>2. gasPool \in Nat /\ totalGas \in Nat /\ m.gas \in Nat
    <2>1. gasPool \in 0 .. Word - 1 /\ totalGas \in 0 .. Word - 1
      BY DEF GasInv, TypeInv, TypeOK
    <2>2. m.gas \in 0 .. Word - 1
      BY <1>1 DEF Messages
    <2> QED
      BY <2>1, <2>2, TxnConstants
  <1>3. gasPool + totalGas + 0 <= GasLimit
    BY DEF GasInv, PoolBounded, BlockGas
  <1>4. frames = << >>
    BY DEF GasInv, TypeInv, Started
  <1>5. preCheck(m) \in LateErrors \cup {""} => ~(gasPool < m.gas)
    BY <1>1, Checked
  <1>6. GasLimit \in Nat
    BY BlockConstants, TxnConstants
  <1>7. gasPool + totalGas <= GasLimit
    BY <1>2, <1>3, <1>6
  <1>8. ~(gasPool < m.gas) => m.gas <= gasPool
    BY <1>2
  <1> QED
    BY <1>1, <1>2, <1>4, <1>5, <1>7, <1>8

LEMMA GasNext ==
  ASSUME CreationsStay, Forks["EIP150"], GasInv, [Next]_vars
  PROVE  GasInv'
  <1>1. TypeInv /\ TypeInv'
    BY TypeNext DEF GasInv
  <1>2. CASE UNCHANGED vars
    BY <1>1, <1>2 DEF vars, GasInv, GasNeverMinted, PoolBounded, BlockGas
  <1>3. ASSUME NEW m \in Transactions, Accept(m)
        PROVE  GasNeverMinted' /\ PoolBounded'
    <2>1. /\ msg = NoMsg /\ preCheck(m) = ""
          /\ gasPool' = gasPool - m.gas /\ msg' = m
          /\ totalGas' = totalGas /\ frames' = frames
      BY <1>3 DEF Accept
    <2>2. /\ gasPool \in Nat /\ totalGas \in Nat /\ m.gas \in Nat /\ m # NoMsg
          /\ gasPool + totalGas <= GasLimit /\ frames = << >>
          /\ m.gas <= gasPool
      BY <2>1, CheckedGas
    <2>3. gasPool - m.gas + totalGas + m.gas <= GasLimit
      BY <2>2, BlockConstants, TxnConstants
    <2>4. frames' = << >>
      BY <2>1, <2>2
    <2> QED
      BY <2>1, <2>2, <2>3, <2>4 DEF GasNeverMinted, PoolBounded, BlockGas
  <1>4. ASSUME NEW m \in Transactions, Reject(m)
        PROVE  GasNeverMinted' /\ PoolBounded'
    <2>1. /\ msg = NoMsg
          /\ \/ gasPool' = gasPool
             \/ preCheck(m) \in LateErrors /\ gasPool' = gasPool - m.gas
          /\ msg' = msg /\ totalGas' = totalGas /\ frames' = frames
      BY <1>4, Zenon DEF Reject
    <2>2. /\ gasPool \in Nat /\ totalGas \in Nat /\ m.gas \in Nat
          /\ gasPool + totalGas <= GasLimit /\ frames = << >>
          /\ preCheck(m) \in LateErrors => m.gas <= gasPool
      BY <2>1, CheckedGas
    <2>3. gasPool' + totalGas' + 0 <= GasLimit
      BY <2>1, <2>2, BlockConstants, TxnConstants
    <2>4. frames' = << >> /\ msg' = NoMsg
      BY <2>1, <2>2
    <2> QED
      BY <2>3, <2>4 DEF GasNeverMinted, PoolBounded, BlockGas
  <1>5. ASSUME NEW t \in Trees, NEW g \in Gas, frames # << >>, Goes(t, g)
        PROVE  GasNeverMinted' /\ PoolBounded'
    <2>1. /\ frames' = setGas(frames, g) /\ g <= running.gas
          /\ gasPool' = gasPool /\ totalGas' = totalGas /\ msg' = msg
      BY <1>5 DEF Goes, block
    <2>2. frames \in Seq(Frames) /\ msg # NoMsg
      BY <1>1, <1>5 DEF TypeInv, TypeOK, Started
    <2>3. Held(frames') + running.gas = Held(frames) + g /\ running.gas \in Gas
      BY <1>5, <2>1, <2>2, HeldSet DEF running
    <2>4. Held(frames) <= Bought /\ Bought \in Gas
      BY <1>1, <1>5, <2>2, MintedHeld, BoughtType DEF GasInv
    <2>5. Held(frames) \in Nat /\ Held(frames') \in Nat
      BY <1>5, <2>1, <2>2, SetGas, HeldGas
    <2>6. Held(frames') <= Bought
      BY <2>1, <2>3, <2>4, <2>5, TxnConstants DEF Gas
    <2>7. GasNeverMinted'
      BY <2>1, <2>6, Zenon DEF GasNeverMinted, Held, Bought
    <2> QED
      BY <2>1, <2>7 DEF GasInv, PoolBounded, BlockGas
  <1>6. ASSUME NEW below \in Seq(Frames), NEW c \in Calls, Enters(below, c)
        PROVE  GasNeverMinted' /\ PoolBounded'
    <2> DEFINE f == frameOf(c, enter(tree, c, Len(below) + 1).snapshot)
    <2>1. /\ Calling(below, c) /\ frames' = Append(below, f)
          /\ gasPool' = gasPool /\ totalGas' = totalGas /\ msg' = msg
      BY <1>6 DEF Enters
    <2>2. f \in Frames
      BY <1>1, DepthType, EnterType, FrameType DEF TypeInv, TypeOK
    <2>3. f.gas = c.gas
      BY DEF frameOf
    <2> HIDE DEF f
    <2>4. msg # NoMsg
      BY <1>1, <2>1 DEF Calling, TypeInv, Started
    <2>5. Held(below) + c.gas <= Bought
      BY <1>1, <2>1, <2>4, CallingGas DEF GasInv
    <2>6. Held(frames') <= Bought
      BY <2>1, <2>2, <2>3, <2>5, HeldAppend
    <2>7. GasNeverMinted'
      BY <2>1, <2>6, Zenon DEF GasNeverMinted, Held, Bought
    <2> QED
      BY <2>1, <2>7 DEF GasInv, PoolBounded, BlockGas
  <1>7. CASE Step
    <2>1. Transacts
      BY <1>1, <1>7, TransactForm
    <2> QED
      BY <1>1, <1>5, <1>6, <2>1, HandsKeeps DEF Transacts, GasInv
  <1> QED
    BY <1>1, <1>2, <1>3, <1>4, <1>7 DEF Next, GasInv

LEMMA GasAlways ==
  ASSUME CreationsStay, Forks["EIP150"]
  PROVE  Spec => []GasInv
  <1>1. Init => GasInv
    BY GasInit
  <1>2. GasInv /\ [Next]_vars => GasInv'
    BY GasNext
  <1> QED
    BY <1>1, <1>2, PTL DEF Spec

\* GasNeverMinted, since EIP-150: whatever calls and creations the contracts
\* nest, opCall's and opCreate's shares, the stipend of a value transfer and
\* the gas handed back add up to no more than the sender bought, and no gas
\* counter wraps.  (Before EIP-150 opCall does mint gas: the run Tx_mint.)
THEOREM GasIsNeverMinted ==
  ASSUME CreationsStay, Forks["EIP150"]
  PROVE  Spec => []GasNeverMinted
  <1>1. GasInv => GasNeverMinted
    BY DEF GasInv
  <1>2. Spec => []GasInv
    BY GasAlways
  <1> QED
    BY <1>1, <1>2, PTL

\* The gas that a step takes from the block, if it takes any.
LEMMA PoolKept ==
  ASSUME CreationsStay, Forks["EIP150"], GasInv, [Next]_vars
  PROVE  BlockGas' # BlockGas =>
           /\ msg = NoMsg /\ msg' = NoMsg
           /\ last'.op = "REJECTED" /\ last'.err \in LateErrors
           /\ BlockGas' = BlockGas - last'.used
  <1>1. TypeInv /\ gasPool \in Nat /\ totalGas \in Nat
    <2>1. gasPool \in 0 .. Word - 1 /\ totalGas \in 0 .. Word - 1
      BY DEF GasInv, TypeInv, TypeOK
    <2> QED
      BY <2>1, TxnConstants DEF GasInv
  <1>2. ASSUME gasPool' = gasPool, totalGas' = totalGas, msg' = msg
        PROVE  BlockGas' = BlockGas
    BY <1>2 DEF BlockGas
  <1>3. CASE UNCHANGED vars
    BY <1>2, <1>3 DEF vars
  <1>4. ASSUME NEW m \in Transactions, Accept(m)
        PROVE  BlockGas' = BlockGas
    <2>1. /\ msg = NoMsg /\ gasPool' = gasPool - m.gas /\ msg' = m
          /\ totalGas' = totalGas
      BY <1>4 DEF Accept
    <2>2. m.gas \in Nat /\ m # NoMsg
      BY <2>1, CheckedGas
    <2> QED
      BY <1>1, <2>1, <2>2 DEF BlockGas
  <1>5. ASSUME NEW m \in Transactions, Reject(m), BlockGas' # BlockGas
        PROVE  /\ msg = NoMsg /\ msg' = NoMsg
               /\ last'.op = "REJECTED" /\ last'.err \in LateErrors
               /\ BlockGas' = BlockGas - last'.used
    <2>1. /\ msg = NoMsg /\ msg' = msg /\ totalGas' = totalGas
          /\ \/ gasPool' = gasPool
             \/ /\ preCheck(m) \in LateErrors
                /\ gasPool' = gasPool - m.gas
                /\ last' = [NoResult EXCEPT !.op = "REJECTED", !.err = preCheck(m),
                                            !.used = m.gas]
      BY <1>5, Zenon DEF Reject
    <2>2. gasPool' # gasPool
      BY <1>2, <1>5, <2>1
    <2>3. last'.op = "REJECTED" /\ last'.err = preCheck(m) /\ last'.used = m.gas
      BY <2>1, <2>2 DEF NoResult
    <2>4. m.gas \in Nat
      BY <2>1, CheckedGas
    <2> QED
      BY <1>1, <2>1, <2>2, <2>3, <2>4 DEF BlockGas
  <1>6. ASSUME NEW t \in Trees, NEW g \in Gas, Goes(t, g)
        PROVE  BlockGas' = BlockGas
    BY <1>2, <1>6 DEF Goes, block
  <1>7. ASSUME NEW below \in Seq(Frames), NEW c \in Calls, Enters(below, c)
        PROVE  BlockGas' = BlockGas
    BY <1>2, <1>7 DEF Enters
  <1>8. ASSUME NEW below \in Seq(Frames), NEW op \in CallOps, NEW r \in Results,
               Hands(below, op, r)
        PROVE  BlockGas' = BlockGas
    <2>1. CASE below = << >>
      <3>1. PICK left \in Gas, used \in Gas :
              /\ left + used = msg.gas
              /\ gasPool' = gasPool + left /\ totalGas' = totalGas + used
              /\ frames' = << >> /\ msg' = NoMsg
        BY <1>8, <2>1, HandsSettles
      <3>2. msg # NoMsg
        BY <1>8 DEF Hands
      <3>3. left \in Nat /\ used \in Nat
        BY TxnConstants DEF Gas
      <3> QED
        BY <1>1, <3>1, <3>2, <3>3 DEF BlockGas
    <2>2. CASE below # << >>
      <3>1. Return(below, op, r)
        BY <1>8 DEF Hands
      <3> QED
        BY <1>2, <2>2, <3>1, ReturnBelow
    <2> QED
      BY <2>1, <2>2
  <1>9. CASE Step
    <2>1. Transacts
      BY <1>1, <1>9, TransactForm
    <2> QED
      BY <1>6, <1>7, <1>8, <2>1 DEF Transacts
  <1> QED
    BY <1>3, <1>4, <1>5, <1>9 DEF Next

\* PoolConserved, since EIP-150: the gas a transaction bought is used or goes back
\* to the pool, whatever it called, created, refunded or failed in; only a
\* rejection after preCheck took the gas loses any.
THEOREM PoolIsConserved ==
  ASSUME CreationsStay, Forks["EIP150"]
  PROVE  Spec => PoolConserved
  <1>1. GasInv /\ [Next]_vars =>
          [BlockGas' # BlockGas =>
             /\ msg = NoMsg /\ msg' = NoMsg
             /\ last'.op = "REJECTED" /\ last'.err \in LateErrors
             /\ BlockGas' = BlockGas - last'.used]_vars
    BY PoolKept, Zenon
  <1>2. Spec => []GasInv
    BY GasAlways
  <1> QED
    BY <1>1, <1>2, PTL DEF Spec, PoolConserved

\* PoolBounded, since EIP-150: the pool, the gas used so far and the gas of the
\* running transaction stay within TxContext.GasLimit through every acceptance,
\* rejection, refund and settlement.
THEOREM PoolIsBounded ==
  ASSUME CreationsStay, Forks["EIP150"]
  PROVE  Spec => []PoolBounded
  <1>1. GasInv => PoolBounded
    BY DEF GasInv
  <1>2. Spec => []GasInv
    BY GasAlways
  <1> QED
    BY <1>1, <1>2, PTL

-----------------------------------------------------------------------------
(* Ether: what each operation does to the balances.                        *)

Balances(t) == [a \in Addrs |-> GetBalance(Base, t, a)]

\* No account is marked for destruction.
Live(t) == \A a \in Addrs : ~objectOrNew(Base, t, a).suicide

\* The state u is worth what t is, and destroys no account that t does not.
SameWorth(t, u) == Worth(u) = Worth(t) /\ (Live(t) => Live(u))

LEMMA WorthType ==
  ASSUME NEW t \in Trees
  PROVE  /\ Balances(t) \in [Addrs -> Nat]
         /\ Worth(t) = Total(Balances(t))
         /\ Worth(t) \in Nat
  <1>1. Balances(t) \in [Addrs -> Nat]
    BY ReadType DEF Balances
  <1>2. Total(Balances(t)) \in Nat
    BY <1>1, TotalType, TxnConstants
  <1>3. Worth(t) = Total(Balances(t))
    BY Zenon DEF Worth, Balances
  <1> QED
    BY <1>1, <1>2, <1>3

\* Every address reads the same object, or one with the same balance.
LEMMA WorthSame ==
  ASSUME NEW t \in Trees, NEW u \in Trees,
         \A x \in Addrs : objectOrNew(Base, u, x) = objectOrNew(Base, t, x)
  PROVE  SameWorth(t, u)
  <1>1. Balances(u) = Balances(t)
    BY DEF Balances, GetBalance
  <1>2. Live(t) => Live(u)
    BY DEF Live
  <1> QED
    BY <1>1, <1>2, WorthType DEF SameWorth

\* One account gets a new object.
LEMMA WorthField ==
  ASSUME NEW t \in Trees, NEW u \in Trees, NEW a \in Addrs, NEW p,
         p.suicide => objectOrNew(Base, t, a).suicide,
         \A x \in Addrs : objectOrNew(Base, u, x) =
                            IF x = a THEN p ELSE objectOrNew(Base, t, x)
  PROVE  /\ Worth(t) + p.balance = Worth(u) + objectOrNew(Base, t, a).balance
         /\ Live(t) => Live(u)
  <1>1. Balances(u)[a] = p.balance /\ Balances(t)[a] = objectOrNew(Base, t, a).balance
    BY DEF Balances, GetBalance
  <1>2. \A x \in Addrs : x # a => Balances(t)[x] = Balances(u)[x]
    BY DEF Balances, GetBalance
  <1>3. /\ Balances(t) \in [Addrs -> Nat] /\ Worth(t) = Total(Balances(t))
        /\ Balances(u) \in [Addrs -> Nat] /\ Worth(u) = Total(Balances(u))
    BY WorthType
  <1>4. Total(Balances(t)) + Balances(u)[a] = Total(Balances(u)) + Balances(t)[a]
    BY <1>2, <1>3, TotalChange, TxnConstants
  <1>5. Live(t) => Live(u)
    BY DEF Live
  <1> QED
    BY <1>1, <1>3, <1>4, <1>5

\* The writers that move no ether.
LEMMA WriterWorth ==
  ASSUME NEW t \in Trees, NEW a \in Addrs
  PROVE  /\ SameWorth(t, TouchAccount(Base, t, a))
         /\ SameWorth(t, IncrNonce(Base, t, a))
         /\ SameWorth(t, CreateAccount(Base, t, a))
         /\ SameWorth(t, EmitLog(t, a))
         /\ SameWorth(t, DropLogs(t))
         /\ \A k \in Keys, v \in Vals : SameWorth(t, SetStorage(Base, t, a, k, v))
         /\ \A c \in Codes : SameWorth(t, SetCode(Base, t, a, c))
  <1> DEFINE o == objectOrNew(Base, t, a)
  <1>1. o \in Objects /\ o.balance \in Nat /\ o.nonce \in Nat
    BY ObjectType, BlockConstants DEF Objects
  <1>2. ASSUME NEW u \in Trees, NEW p, p.balance = o.balance, p.suicide => o.suicide,
               \A x \in Addrs : objectOrNew(Base, u, x) =
                                  IF x = a THEN p ELSE objectOrNew(Base, t, x)
        PROVE  SameWorth(t, u)
    <2>1. Worth(t) + p.balance = Worth(u) + o.balance /\ (Live(t) => Live(u))
      BY <1>2, WorthField
    <2>2. Worth(t) \in Nat /\ Worth(u) \in Nat
      BY WorthType
    <2> QED
      BY <1>1, <1>2, <2>1, <2>2 DEF SameWorth
  <1>3. /\ SameWorth(t, TouchAccount(Base, t, a)) /\ SameWorth(t, EmitLog(t, a))
        /\ SameWorth(t, DropLogs(t))
    <2>1. \A x \in Addrs :
            /\ objectOrNew(Base, TouchAccount(Base, t, a), x) = objectOrNew(Base, t, x)
            /\ objectOrNew(Base, EmitLog(t, a), x) = objectOrNew(Base, t, x)
            /\ objectOrNew(Base, DropLogs(t), x) = objectOrNew(Base, t, x)
      BY WriterReads, BlockConstants
    <2>2. /\ TouchAccount(Base, t, a) \in Trees /\ EmitLog(t, a) \in Trees
          /\ DropLogs(t) \in Trees
      BY WriterType, BlockConstants
    <2> QED
      BY <2>1, <2>2, WorthSame
  <1>4. SameWorth(t, IncrNonce(Base, t, a))
    <2> DEFINE p == [o EXCEPT !.nonce = o.nonce + 1]
               u == IncrNonce(Base, t, a)
    <2>0. u \in Trees
      BY WriterType, BlockConstants
    <2>1. \A x \in Addrs :
            objectOrNew(Base, u, x) = IF x = a THEN p ELSE objectOrNew(Base, t, x)
      BY WriterReads, BlockConstants
    <2>2. p.balance = o.balance /\ (p.suicide => o.suicide)
      <3> HIDE DEF o
      <3> QED
        BY <1>1 DEF Objects
    <2> HIDE DEF p, u
    <2>3. SameWorth(t, u)
      BY <1>2, <2>0, <2>1, <2>2
    <2> QED
      BY <2>3 DEF u
  <1>5. SameWorth(t, CreateAccount(Base, t, a))
    <2> DEFINE p == [newStateObject EXCEPT !.balance = o.balance]
               u == CreateAccount(Base, t, a)
    <2>0. u \in Trees
      BY WriterType, BlockConstants
    <2>1. \A x \in Addrs :
            objectOrNew(Base, u, x) = IF x = a THEN p ELSE objectOrNew(Base, t, x)
      BY WriterReads, BlockConstants
    <2>2. p.balance = o.balance /\ ~p.suicide
      <3>1. newStateObject \in Objects /\ ~newStateObject.suicide
        BY NewObjectType DEF newStateObject
      <3> HIDE DEF o
      <3> QED
        BY <3>1 DEF Objects
    <2> HIDE DEF p, u
    <2>3. SameWorth(t, u)
      BY <1>2, <2>0, <2>1, <2>2
    <2> QED
      BY <2>3 DEF u
  <1>6. ASSUME NEW k \in Keys, NEW v \in Vals
        PROVE  SameWorth(t, SetStorage(Base, t, a, k, v))
    <2> DEFINE p == [o EXCEPT !.slots[k] = v]
               u == SetStorage(Base, t, a, k, v)
    <2>0. u \in Trees
      BY SetStorageType, BlockConstants
    <2>1. CASE u = t
      BY <2>1 DEF SameWorth
    <2>2. CASE u.objs = SetState(Base, t, a, k, v).objs
      <3>1. \A x \in Addrs :
              objectOrNew(Base, u, x) = IF x = a THEN p ELSE objectOrNew(Base, t, x)
        <4>1. \A x : objectOrNew(Base, u, x) = objectOrNew(Base, SetState(Base, t, a, k, v), x)
          BY <2>2, SameObjects
        <4>2. \A x \in Addrs : objectOrNew(Base, SetState(Base, t, a, k, v), x) =
                IF x = a THEN p ELSE objectOrNew(Base, t, x)
          BY WriterReads, BlockConstants
        <4> QED
          BY <4>1, <4>2
      <3>2. p.balance = o.balance /\ (p.suicide => o.suicide)
        <4> HIDE DEF o
        <4> QED
          BY <1>1 DEF Objects
      <3> HIDE DEF p, u
      <3>3. SameWorth(t, u)
        BY <1>2, <2>0, <3>1, <3>2
      <3> QED
        BY <3>3 DEF u
    <2> QED
      BY <2>1, <2>2, SetStorageForm, BlockConstants
  <1>7. ASSUME NEW c \in Codes
        PROVE  SameWorth(t, SetCode(Base, t, a, c))
    <2> DEFINE p == [o EXCEPT !.codeHash = c, !.dirtyCode = TRUE, !.code = c]
               u == SetCode(Base, t, a, c)
    <2>1. u = insert(t, a, p)
      BY DEF SetCode
    <2>2. u \in Trees
      BY WriterType, BlockConstants
    <2>3. ~o.deleted
      BY NotDeleted, BlockConstants
    <2>4. /\ p \in Objects /\ ~p.deleted
          /\ p.balance = o.balance /\ (p.suicide => o.suicide)
      <3> HIDE DEF o
      <3> QED
        BY <1>1, <2>3 DEF Objects
    <2> HIDE DEF p, u, o
    <2>5. \A x \in Addrs :
            objectOrNew(Base, u, x) = IF x = a THEN p ELSE objectOrNew(Base, t, x)
      BY <2>1, <2>4, Upsert, BlockConstants
    <2>6. SameWorth(t, u)
      BY <1>2, <2>2, <2>4, <2>5
    <2> QED
      BY <2>6 DEF u
  <1> QED
    BY <1>3, <1>4, <1>5, <1>6, <1>7

\* The writers that pay and charge.
LEMMA PaidWorth ==
  ASSUME NEW t \in Trees, NEW a \in Addrs, NEW n \in Nat
  PROVE  /\ Worth(AddBalance(Base, t, a, n)) = Worth(t) + n
         /\ Live(t) => Live(AddBalance(Base, t, a, n))
         /\ ~NotEnoughFunds(Base, t, a, n) =>
              /\ Worth(SubBalance(Base, t, a, n)) + n = Worth(t)
              /\ Live(t) => Live(SubBalance(Base, t, a, n))
  <1> DEFINE o == objectOrNew(Base, t, a)
  <1>1. o \in Objects /\ o.balance \in Nat
    BY ObjectType, BlockConstants DEF Objects
  <1>2. Worth(t) \in Nat
    BY WorthType
  <1>3. ASSUME NEW u \in Trees, NEW y \in Int,
               \A x \in Addrs : objectOrNew(Base, u, x) =
                 IF x = a THEN [o EXCEPT !.balance = y] ELSE objectOrNew(Base, t, x)
        PROVE  Worth(t) + y = Worth(u) + o.balance /\ (Live(t) => Live(u))
    <2> DEFINE p == [o EXCEPT !.balance = y]
    <2>1. p.balance = y /\ (p.suicide => o.suicide)
      <3> HIDE DEF o
      <3> QED
        BY <1>1 DEF Objects
    <2>2. \A x \in Addrs :
            objectOrNew(Base, u, x) = IF x = a THEN p ELSE objectOrNew(Base, t, x)
      BY <1>3
    <2> HIDE DEF p
    <2> QED
      BY <2>1, <2>2, WorthField
  <1>4. /\ Worth(AddBalance(Base, t, a, n)) = Worth(t) + n
        /\ Live(t) => Live(AddBalance(Base, t, a, n))
    <2> DEFINE u == AddBalance(Base, t, a, n)
    <2>1. u \in Trees
      BY WriterType, BlockConstants
    <2>2. \A x \in Addrs : objectOrNew(Base, u, x) =
            IF x = a THEN [o EXCEPT !.balance = o.balance + n] ELSE objectOrNew(Base, t, x)
      BY WriterReads, BlockConstants
    <2>3. o.balance + n \in Int
      BY <1>1
    <2> HIDE DEF u, o
    <2>4. Worth(t) + (o.balance + n) = Worth(u) + o.balance /\ (Live(t) => Live(u))
      BY <1>3, <2>1, <2>2, <2>3
    <2>5. Worth(u) \in Nat
      BY <2>1, WorthType
    <2> QED
      BY <1>1, <1>2, <2>4, <2>5 DEF u
  <1>5. ASSUME ~NotEnoughFunds(Base, t, a, n)
        PROVE  /\ Worth(SubBalance(Base, t, a, n)) + n = Worth(t)
               /\ Live(t) => Live(SubBalance(Base, t, a, n))
    <2> DEFINE u == SubBalance(Base, t, a, n)
    <2>1. CASE n = 0
      BY <1>2, <2>1 DEF SubBalance
    <2>2. CASE n # 0
      <3>1. u \in Trees
        BY WriterType, BlockConstants
      <3>2. \A x \in Addrs : objectOrNew(Base, u, x) =
              IF x = a THEN [o EXCEPT !.balance = o.balance - n] ELSE objectOrNew(Base, t, x)
        BY <1>5, <2>2, WriterReads, BlockConstants
      <3>3. o.balance - n \in Int
        BY <1>1
      <3> HIDE DEF u, o
      <3>4. Worth(t) + (o.balance - n) = Worth(u) + o.balance /\ (Live(t) => Live(u))
        BY <1>3, <3>1, <3>2, <3>3
      <3>5. Worth(u) \in Nat
        BY <3>1, WorthType
      <3> QED
        BY <1>1, <1>2, <3>4, <3>5 DEF u
    <2> QED
      BY <2>1, <2>2
  <1> QED
    BY <1>4, <1>5

LEMMA SameWorthTwice ==
  ASSUME NEW t, NEW u, NEW v, SameWorth(t, u), SameWorth(u, v)
  PROVE  SameWorth(t, v)
  BY DEF SameWorth

\* A transfer that its sender can pay, to itself too.
LEMMA TransferWorth ==
  ASSUME NEW t \in Trees, NEW a \in Addrs, NEW b \in Addrs, NEW n \in Nat,
         ~NotEnoughFunds(Base, t, a, n)
  PROVE  SameWorth(t, transfer(t, a, b, n))
  <1> DEFINE u == SubBalance(Base, t, a, n)
  <1>1. u \in Trees /\ Worth(u) + n = Worth(t) /\ (Live(t) => Live(u))
    BY WriterType, PaidWorth, BlockConstants
  <1> HIDE DEF u
  <1>2. /\ Worth(AddBalance(Base, u, b, n)) = Worth(u) + n
        /\ Live(u) => Live(AddBalance(Base, u, b, n))
    BY <1>1, PaidWorth
  <1> QED
    BY <1>1, <1>2 DEF SameWorth, transfer, u

\* Entering a call moves ether, or leaves it where it is.
LEMMA EnterWorth ==
  ASSUME NEW t \in Trees, NEW c \in Calls, NEW d \in Nat
  PROVE  /\ SameWorth(t, enter(t, c, d).tree)
         /\ SameWorth(t, enter(t, c, d).snapshot)
  <1> DEFINE touched == TouchAccount(Base, t, c.address)
             bumped == IncrNonce(Base, t, c.caller)
             made == CreateAccount(Base, bumped, c.address)
             named == IncrNonce(Base, made, c.address)
             forced == IF Forks["EIP158"] THEN named ELSE bumped
             called == transfer(touched, c.caller, c.address, c.value)
             paid == transfer(forced, c.caller, c.address, c.value)
  <1>1. c.caller \in Addrs /\ c.address \in Addrs /\ c.value \in Nat
    BY DEF Calls
  <1>2. /\ touched \in Trees /\ SameWorth(t, touched)
        /\ bumped \in Trees /\ SameWorth(t, bumped)
    BY <1>1, WriterType, WriterWorth, BlockConstants
  <1> HIDE DEF touched, bumped
  <1>3. made \in Trees /\ SameWorth(bumped, made)
    BY <1>1, <1>2, WriterType, WriterWorth, BlockConstants
  <1> HIDE DEF made
  <1>4. named \in Trees /\ SameWorth(made, named)
    BY <1>1, <1>3, WriterType, WriterWorth, BlockConstants
  <1> HIDE DEF named
  <1>5. forced \in Trees /\ SameWorth(t, forced)
    BY <1>2, <1>3, <1>4, SameWorthTwice
  <1> HIDE DEF forced
  <1>6. ~NotEnoughFunds(Base, touched, c.caller, c.value) => SameWorth(t, called)
    BY <1>1, <1>2, TransferWorth, SameWorthTwice
  <1>7. ~NotEnoughFunds(Base, forced, c.caller, c.value) => SameWorth(t, paid)
    BY <1>1, <1>5, TransferWorth, SameWorthTwice
  <1>8. SameWorth(t, t)
    BY DEF SameWorth
  <1>9. CASE c.type = "Create"
    <2> DEFINE e == enter(t, c, d)
    <2>1. \/ e.tree = t /\ e.snapshot = t
          \/ e.tree \in {bumped, forced} /\ e.snapshot = bumped
          \/ /\ ~NotEnoughFunds(Base, forced, c.caller, c.value)
             /\ e.tree = paid /\ e.snapshot = bumped
      BY <1>9 DEF enter, enterCreate, bumped, made, named, forced
    <2> HIDE DEF paid
    <2> HIDE DEF e
    <2>2. SameWorth(t, e.tree) /\ SameWorth(t, e.snapshot)
      BY <1>2, <1>5, <1>7, <1>8, <2>1
    <2> QED
      BY <2>2 DEF e
  <1>10. CASE c.type # "Create"
    <2> DEFINE e == enter(t, c, d)
    <2>1. /\ e.snapshot = t
          /\ \/ e.tree = t
             \/ e.tree = touched
             \/ /\ ~NotEnoughFunds(Base, touched, c.caller, c.value)
                /\ e.tree = called
      BY <1>10 DEF enter, enterCall, touched
    <2> HIDE DEF called, e
    <2> QED
      BY <1>2, <1>6, <1>8, <2>1 DEF e
  <1> QED
    BY <1>9, <1>10

\* SELFDESTRUCT moves ether or burns it.
LEMMA SelfdestructWorth ==
  ASSUME NEW t \in Trees, NEW a \in Addrs, NEW b \in Addrs
  PROVE  Worth(Selfdestruct(Base, t, a, b)) <= Worth(t)
  <1> DEFINE r == IF HasSuicided(Base, t, a) THEN t ELSE AddRefund(t, 24000)
             n == GetBalance(Base, r, a)
             p == AddBalance(Base, r, b, n)
             s == Suicide(Base, p, a)
  <1>1. r \in Trees /\ r.objs = t.objs
    BY RefundType
  <1> HIDE DEF r
  <1>2. Worth(r) = Worth(t)
    <2>1. \A x \in Addrs : objectOrNew(Base, r, x) = objectOrNew(Base, t, x)
      BY <1>1, SameObjects
    <2> QED
      BY <1>1, <2>1, WorthSame DEF SameWorth
  <1>3. n \in Nat
    BY <1>1, ReadType
  <1>4. p \in Trees /\ Worth(p) = Worth(r) + n
    BY <1>1, <1>3, WriterType, PaidWorth, BlockConstants
  <1>5. GetBalance(Base, p, a) >= n
    <2> DEFINE o == objectOrNew(Base, r, b)
    <2>1. objectOrNew(Base, p, a) =
            IF a = b THEN [o EXCEPT !.balance = o.balance + n] ELSE objectOrNew(Base, r, a)
      BY <1>1, <1>3, WriterReads, BlockConstants
    <2>2. o \in Objects /\ o.balance \in Nat
      BY <1>1, ObjectType, BlockConstants DEF Objects
    <2>3. n = objectOrNew(Base, r, a).balance
      BY DEF GetBalance
    <2> HIDE DEF o, n, p
    <2>4. [o EXCEPT !.balance = o.balance + n].balance = o.balance + n
      BY <2>2 DEF Objects
    <2> QED
      BY <1>3, <2>1, <2>2, <2>3, <2>4 DEF GetBalance
  <1> HIDE DEF p, n
  <1>6. s \in Trees
    BY <1>4, WriterType, BlockConstants
  <1>7. \/ Worth(p) = Worth(s) + GetBalance(Base, p, a)
        \/ s = p /\ GetBalance(Base, p, a) = 0
    <2>1. CASE ~Exist(Base, p, a)
      BY <2>1 DEF Suicide, GetBalance, objectOrNew, newStateObject
    <2>2. CASE Exist(Base, p, a)
      <3> DEFINE o == objectOrNew(Base, p, a)
                 q == [o EXCEPT !.suicide = TRUE, !.balance = 0]
      <3>1. o \in Objects /\ ~o.deleted
        BY <1>4, ObjectType, NotDeleted, BlockConstants
      <3>2. s = insert(p, a, q)
        BY <2>2, Zenon DEF Suicide, objectOrNew
      <3>3. q \in Objects /\ ~q.deleted /\ q.balance = 0
        <4> HIDE DEF o
        <4> QED
          BY <3>1 DEF Objects
      <3> HIDE DEF q
      <3>4. \A x \in Addrs :
              objectOrNew(Base, s, x) = IF x = a THEN q ELSE objectOrNew(Base, p, x)
        BY <1>4, <3>2, <3>3, Upsert, BlockConstants
      <3> HIDE DEF s
      <3>5. Balances(s)[a] = 0 /\ Balances(p)[a] = GetBalance(Base, p, a)
        BY <3>3, <3>4 DEF Balances, GetBalance
      <3>6. \A x \in Addrs : x # a => Balances(p)[x] = Balances(s)[x]
        BY <3>4 DEF Balances, GetBalance
      <3>7. /\ Balances(p) \in [Addrs -> Nat] /\ Worth(p) = Total(Balances(p))
            /\ Balances(s) \in [Addrs -> Nat] /\ Worth(s) = Total(Balances(s))
        BY <1>4, <1>6, WorthType
      <3>8. Total(Balances(p)) + Balances(s)[a] = Total(Balances(s)) + Balances(p)[a]
        BY <3>6, <3>7, TotalChange, TxnConstants
      <3>9. Worth(p) \in Nat /\ Worth(s) \in Nat
        BY <1>4, <1>6, WorthType
      <3>10. GetBalance(Base, p, a) \in Nat
        BY <1>4, ReadType
      <3>11. Worth(p) + 0 = Worth(s) + GetBalance(Base, p, a)
        BY <3>5, <3>7, <3>8
      <3> QED
        BY <3>9, <3>10, <3>11
    <2> QED
      BY <2>1, <2>2
  <1>8. /\ Worth(t) \in Nat /\ Worth(s) \in Nat
        /\ GetBalance(Base, p, a) \in Nat
    BY <1>4, <1>6, WorthType, ReadType
  <1>9. Worth(s) <= Worth(t)
    BY <1>2, <1>3, <1>4, <1>5, <1>7, <1>8
  <1> QED
    BY <1>9 DEF Selfdestruct, s, p, n, r

\* Closing a transaction burns what destroyed accounts still own; with none
\* destroyed it only deletes accounts that own nothing.
LEMMA CleanWorth ==
  ASSUME NEW t \in Trees, NEW d \in BOOLEAN
  PROVE  LET u == CleanDeleteObjects(t, d) IN
         /\ Worth(u) <= Worth(t)
         /\ Live(t) => Worth(u) = Worth(t) /\ Live(u)
  <1> DEFINE u == CleanDeleteObjects(t, d)
             gone(x) == t.objs[x] # NoObject
                        /\ (t.objs[x].suicide \/ (isEmpty(t.objs[x]) /\ d))
  <1>1. u \in Trees
    BY EndType, BlockConstants
  <1>2. \A x \in Addrs :
          /\ gone(x) => objectOrNew(Base, u, x) = newStateObject
          /\ ~gone(x) => objectOrNew(Base, u, x) = objectOrNew(Base, t, x)
    BY CleanReads, BlockConstants
  <1>3. newStateObject.balance = 0 /\ ~newStateObject.suicide
    BY DEF newStateObject
  <1>4. ASSUME NEW x \in Addrs, Live(t), gone(x)
        PROVE  objectOrNew(Base, t, x).balance = 0
    <2>1. CASE t.objs[x].deleted
      BY <1>3, <1>4, <2>1 DEF objectOrNew, Exist, getStateObject
    <2>2. CASE ~t.objs[x].deleted
      <3>1. objectOrNew(Base, t, x) = t.objs[x]
        BY <1>4, <2>2 DEF objectOrNew, Exist, getStateObject
      <3>2. ~t.objs[x].suicide
        BY <1>4, <3>1 DEF Live
      <3> QED
        BY <1>4, <3>1, <3>2 DEF isEmpty
    <2> QED
      BY <2>1, <2>2
  <1> HIDE DEF u, gone
  <1>5. /\ Balances(t) \in [Addrs -> Nat] /\ Worth(t) = Total(Balances(t))
        /\ Balances(u) \in [Addrs -> Nat] /\ Worth(u) = Total(Balances(u))
    BY <1>1, WorthType
  <1>6. ASSUME NEW x \in Addrs
        PROVE  Balances(u)[x] <= Balances(t)[x]
    <2>1. /\ Balances(u)[x] = objectOrNew(Base, u, x).balance
          /\ Balances(t)[x] = objectOrNew(Base, t, x).balance
      BY DEF Balances, GetBalance
    <2>2. Balances(t)[x] \in Nat
      BY <1>5
    <2> QED
      BY <1>2, <1>3, <2>1, <2>2
  <1>7. Worth(u) <= Worth(t)
    BY <1>5, <1>6, TotalLess, TxnConstants
  <1>8. ASSUME Live(t)
        PROVE  Worth(u) = Worth(t) /\ Live(u)
    <2>1. \A x \in Addrs : objectOrNew(Base, u, x).balance = objectOrNew(Base, t, x).balance
      BY <1>2, <1>3, <1>4, <1>8
    <2>2. Balances(u) = Balances(t)
      BY <2>1 DEF Balances, GetBalance
    <2>3. Live(u)
      BY <1>2, <1>3, <1>8 DEF Live
    <2> QED
      BY <1>5, <2>2, <2>3
  <1> QED
    BY <1>7, <1>8 DEF u

\* The settlement pays out what the sender bought, to the sender and the
\* coinbase.
LEMMA SettledWorth ==
  ASSUME TypeInv, msg # NoMsg, NEW t \in Trees, NEW left \in Gas, NEW used \in Gas,
         left + used = msg.gas
  PROVE  /\ Worth(settled(t, left, used)) <= Worth(t) + msg.gas * msg.gasPrice
         /\ Live(t) => /\ Worth(settled(t, left, used)) = Worth(t) + msg.gas * msg.gasPrice
                       /\ Live(settled(t, left, used))
  <1> DEFINE repaid == AddBalance(Base, t, msg.from, left * msg.gasPrice)
             paid == AddBalance(Base, repaid, Coinbase, used * msg.gasPrice)
             dropped == DropLogs(paid)
             d == Forks["Byzantium"] \/ Forks["EIP158"]
             u == CleanDeleteObjects(dropped, d)
  <1>1. msg.gasPrice \in Nat /\ msg.from \in Addrs /\ Coinbase \in Addrs
    BY BlockConstants DEF TypeInv, TypeOK, Messages
  <1>2. /\ left * msg.gasPrice \in Nat /\ used * msg.gasPrice \in Nat
        /\ left * msg.gasPrice + used * msg.gasPrice = msg.gas * msg.gasPrice
    <2>1. left \in Nat /\ used \in Nat
      BY TxnConstants DEF Gas
    <2>2. \A x \in Nat, y \in Nat, z \in Nat :
            x * z \in Nat /\ y * z \in Nat /\ x * z + y * z = (x + y) * z
      OBVIOUS
    <2> QED
      BY <1>1, <2>1, <2>2
  <1>3. /\ repaid \in Trees /\ Worth(repaid) = Worth(t) + left * msg.gasPrice
        /\ Live(t) => Live(repaid)
    BY <1>1, <1>2, WriterType, PaidWorth, BlockConstants
  <1> HIDE DEF repaid
  <1>4. /\ paid \in Trees /\ Worth(paid) = Worth(repaid) + used * msg.gasPrice
        /\ Live(repaid) => Live(paid)
    BY <1>1, <1>2, <1>3, WriterType, PaidWorth, BlockConstants
  <1> HIDE DEF paid
  <1>5. dropped \in Trees /\ SameWorth(paid, dropped)
    BY <1>1, <1>4, WriterType, WriterWorth, BlockConstants
  <1>6. d \in BOOLEAN
    OBVIOUS
  <1> HIDE DEF d, dropped
  <1>7. Worth(u) <= Worth(dropped) /\ (Live(dropped) => Worth(u) = Worth(dropped) /\ Live(u))
    BY <1>5, <1>6, CleanWorth
  <1>8. settled(t, left, used) = u
    BY Zenon DEF settled, dropped, paid, repaid, d
  <1>9. Worth(t) \in Nat
    BY WorthType
  <1>10. Worth(dropped) = Worth(t) + msg.gas * msg.gasPrice /\ (Live(t) => Live(dropped))
    BY <1>2, <1>3, <1>4, <1>5, <1>9 DEF SameWorth
  <1> HIDE DEF u
  <1> QED
    BY <1>7, <1>8, <1>10


-----------------------------------------------------------------------------
(* The supply.                                                             *)

\* What the sender of the running transaction paid up front, and nobody has yet.
Escrow == IF msg = NoMsg THEN 0 ELSE msg.gas * msg.gasPrice

\* A state the block may be in, or go back to, while n is in escrow; d if a
\* contract was destroyed.
Sound(t, n, d) ==
  /\ Worth(t) + n <= Worth(NewTree)
  /\ ~d => Worth(t) + n = Worth(NewTree) /\ Live(t)

\* A frame that gives way to such a state.
Backed(n, d) == {f \in Frames : Sound(f.snapshot, n, d)}

\* The strengthening of SupplyConserved: it holds of the snapshots too, for a
\* failing call goes back to them, and no account is marked for destruction
\* unless a SELFDESTRUCT ran.  The gas bounds are what the settlement needs to
\* pay out no more than was bought.
SupplyInv ==
  /\ GasInv
  /\ Sound(tree, Escrow, destroyed)
  /\ frames \in Seq(Backed(Escrow, destroyed))

LEMMA EscrowType ==
  ASSUME TypeInv
  PROVE  Escrow \in Nat
  <1>1. msg # NoMsg => msg.gas \in Nat /\ msg.gasPrice \in Nat
    <2>1. msg # NoMsg => msg.gas \in 0 .. Word - 1 /\ msg.gasPrice \in Nat
      BY DEF TypeInv, TypeOK, Messages
    <2> QED
      BY <2>1, TxnConstants
  <1>2. \A x \in Nat, y \in Nat : x * y \in Nat
    OBVIOUS
  <1> QED
    BY <1>1, <1>2 DEF Escrow

LEMMA SoundKept ==
  ASSUME NEW t, NEW u, NEW n, NEW d, Sound(t, n, d), SameWorth(t, u)
  PROVE  Sound(u, n, d)
  BY DEF Sound, SameWorth

\* A destruction asks less of a state.
LEMMA SoundLess ==
  ASSUME NEW t, NEW n, NEW d, NEW e, Sound(t, n, d), d => e
  PROVE  Sound(t, n, e)
  BY DEF Sound

\* What a call leaves is a state the block may be in.
LEMMA HandsSound ==
  ASSUME SupplyInv, NEW below \in Seq(Frames), NEW op \in CallOps, NEW r \in Results,
         Hands(below, op, r)
  PROVE  Sound(r.tree, Escrow, destroyed') /\ (destroyed => destroyed')
  <1> DEFINE n == Escrow
  <1>1. TypeInv /\ tree \in Trees /\ frames \in Seq(Frames) /\ Sound(tree, n, destroyed)
    BY DEF SupplyInv, GasInv, TypeInv, TypeOK
  <1>2. n \in Nat
    BY <1>1, EscrowType
  <1> HIDE DEF n
  <1>3. CASE Ended(below, op, r)
    <2>1. PICK t \in Trees, res \in Runs : RanTo(t) /\ r = leave(running, t, res)
      BY <1>3 DEF Ended
    <2>2. frames # << >>
      BY <1>3 DEF Ended
    <2>3. running \in Backed(n, destroyed)
      <3>1. frames \in Seq(Backed(n, destroyed)) /\ Len(frames) \in 1 .. Len(frames)
        BY <1>1, <2>2 DEF SupplyInv, n
      <3> QED
        BY <3>1 DEF running
    <2>4. running \in Frames /\ Sound(running.snapshot, n, destroyed)
      BY <2>3 DEF Backed
    <2>5. running.address \in Addrs /\ res.ret \in Codes
      BY <2>4 DEF Frames, Runs
    <2>6. Sound(t, n, destroyed') /\ (destroyed => destroyed')
      <3>1. CASE t = tree /\ destroyed' = destroyed
        BY <1>1, <3>1
      <3>2. ASSUME NEW b \in Targets, destroyed',
                   t = Selfdestruct(Base, tree, running.address, b)
            PROVE  Sound(t, n, destroyed') /\ (destroyed => destroyed')
        <4>1. b \in Addrs
          BY BlockConstants
        <4>2. Worth(t) <= Worth(tree)
          BY <1>1, <2>5, <3>2, <4>1, SelfdestructWorth
        <4>3. Worth(t) \in Nat /\ Worth(tree) \in Nat /\ Worth(NewTree) \in Nat
          BY <1>1, WorthType, NewTreeType
        <4>4. Worth(tree) + n <= Worth(NewTree)
          BY <1>1 DEF Sound
        <4>5. Worth(t) + n <= Worth(NewTree)
          BY <1>2, <4>2, <4>3, <4>4
        <4> QED
          BY <3>2, <4>5 DEF Sound
      <3> QED
        BY <2>1, <3>1, <3>2 DEF RanTo
    <2> DEFINE s == SetCode(Base, t, running.address, res.ret)
    <2>7. Sound(s, n, destroyed')
      <3>1. SameWorth(t, s)
        BY <2>5, WriterWorth
      <3> HIDE DEF s
      <3> QED
        BY <2>6, <3>1, SoundKept
    <2>8. r.tree = running.snapshot \/ r.tree = t \/ r.tree = s
      BY <2>1, <2>4, LeaveTree
    <2>9. Sound(running.snapshot, n, destroyed')
      BY <2>4, <2>6, SoundLess
    <2> HIDE DEF s
    <2> QED
      BY <2>6, <2>7, <2>8, <2>9 DEF n
  <1>4. CASE Failed(below, op, r)
    <2>1. PICK c \in Calls : LET e == enter(tree, c, Len(below) + 1) IN
                             /\ destroyed' = destroyed
                             /\ r = result(e.err, e.gasLeft, e.tree)
      BY <1>4 DEF Failed
    <2>2. r.tree = enter(tree, c, Len(below) + 1).tree
      BY <2>1, Zenon DEF result
    <2>3. SameWorth(tree, r.tree)
      BY <1>1, <2>2, DepthType, EnterWorth
    <2>4. Sound(r.tree, n, destroyed)
      BY <1>1, <2>3, SoundKept
    <2> QED
      BY <2>1, <2>4 DEF n
  <1>5. CASE Unpaid(below, op, r)
    <2>1. PICK given \in Gas : r = result("bad", given, tree)
      BY <1>5 DEF Unpaid
    <2>2. r.tree = tree
      BY <2>1, Zenon DEF result
    <2> QED
      BY <1>1, <1>5, <2>2 DEF Unpaid, n
  <1> QED
    BY <1>3, <1>4, <1>5 DEF Hands


\* So is the state after a step of a transaction, until its settlement pays out
\* the escrow.
LEMMA TransactSound ==
  ASSUME CreationsStay, Forks["EIP150"], SupplyInv, Transacts
  PROVE  /\ Sound(tree', Escrow', destroyed')
         /\ destroyed => destroyed'
         /\ frames' = << >> \/ msg' = msg
  <1>1. TypeInv /\ tree \in Trees /\ frames \in Seq(Frames) /\ Sound(tree, Escrow, destroyed)
    BY DEF SupplyInv, GasInv, TypeInv, TypeOK
  <1>2. msg' = msg => Escrow' = Escrow
    BY DEF Escrow
  <1>3. ASSUME NEW t \in Trees, NEW g \in Gas, frames # << >>, Goes(t, g)
        PROVE  Sound(tree', Escrow', destroyed') /\ destroyed' = destroyed /\ msg' = msg
    <2>1. Wrote(t) /\ tree' = t /\ msg' = msg /\ destroyed' = destroyed
      BY <1>3 DEF Goes, block
    <2>2. running.address \in Addrs
      BY <1>1, <1>3, Topmost DEF Frames
    <2>3. SameWorth(tree, t)
      <3>1. CASE t = tree
        BY <3>1 DEF SameWorth
      <3>2. ASSUME NEW k \in Keys, NEW v \in Vals,
                   t = SetStorage(Base, tree, running.address, k, v)
            PROVE  SameWorth(tree, t)
        BY <1>1, <2>2, <3>2, WriterWorth
      <3>3. CASE t = EmitLog(tree, running.address)
        BY <1>1, <2>2, <3>3, WriterWorth
      <3> QED
        BY <2>1, <3>1, <3>2, <3>3 DEF Wrote
    <2>4. Sound(t, Escrow, destroyed)
      BY <1>1, <2>3, SoundKept
    <2> QED
      BY <1>2, <2>1, <2>4
  <1>4. ASSUME NEW below \in Seq(Frames), NEW op \in CallOps, NEW r \in Results,
               Hands(below, op, r)
        PROVE  /\ Sound(tree', Escrow', destroyed')
               /\ destroyed => destroyed'
               /\ frames' = << >> \/ msg' = msg
    <2>1. Sound(r.tree, Escrow, destroyed') /\ (destroyed => destroyed')
      BY <1>4, HandsSound
    <2>2. Return(below, op, r) /\ msg # NoMsg /\ r.tree \in Trees /\ r.gasLeft \in Gas
      BY <1>4 DEF Hands, Results
    <2>3. CASE below = << >>
      <3>1. Settle(r.tree, r.err, r.gasLeft)
        BY <2>2, <2>3, ReturnForm
      <3>2. PICK left \in Gas, used \in Gas :
              /\ r.gasLeft <= msg.gas => left + used = msg.gas
              /\ tree' = settled(r.tree, left, used)
              /\ frames' = << >>
              /\ msg' = NoMsg
        BY <1>1, <2>2, <3>1, SettleForm
      <3>3. r.gasLeft <= msg.gas
        <4>1. Held(below) + r.gasLeft <= Bought /\ Held(below) \in Nat
          BY <1>1, <1>4, HandsGas, HeldGas DEF SupplyInv, GasInv
        <4>2. Bought \in Gas /\ Bought <= msg.gas /\ msg.gas \in Gas
          BY <1>1, <2>2, BoughtType
        <4> QED
          BY <2>2, <4>1, <4>2, TxnConstants DEF Gas
      <3>4. /\ Worth(tree') <= Worth(r.tree) + msg.gas * msg.gasPrice
            /\ Live(r.tree) => /\ Worth(tree') = Worth(r.tree) + msg.gas * msg.gasPrice
                               /\ Live(tree')
        BY <1>1, <2>2, <3>2, <3>3, SettledWorth
      <3>5. Escrow' = 0 /\ Escrow = msg.gas * msg.gasPrice
        BY <2>2, <3>2 DEF Escrow
      <3>6. /\ Worth(tree') <= Worth(r.tree) + Escrow
            /\ Live(r.tree) => Worth(tree') = Worth(r.tree) + Escrow /\ Live(tree')
        BY <3>4, <3>5
      <3>7. Worth(tree') \in Nat /\ Worth(r.tree) \in Nat /\ Worth(NewTree) \in Nat
        <4>1. tree' \in Trees
          BY <1>1, <2>2, <3>1, SettleType DEF Results
        <4> QED
          BY <2>2, <4>1, WorthType, NewTreeType
      <3>8. Escrow \in Nat
        BY <1>1, EscrowType
      <3>9. /\ Worth(r.tree) + Escrow <= Worth(NewTree)
            /\ ~destroyed' => Worth(r.tree) + Escrow = Worth(NewTree) /\ Live(r.tree)
        BY <2>1 DEF Sound
      <3>10. /\ Worth(tree') + 0 <= Worth(NewTree)
             /\ ~destroyed' => Worth(tree') + 0 = Worth(NewTree) /\ Live(tree')
        BY <3>6, <3>7, <3>8, <3>9
      <3>11. Sound(tree', Escrow', destroyed')
        BY <3>5, <3>10 DEF Sound
      <3> QED
        BY <2>1, <3>2, <3>11
    <2>4. CASE below # << >>
      <3>1. tree' = r.tree
        BY <2>2, <2>4, ReturnForm
      <3>2. msg' = msg
        BY <2>2, <2>4, ReturnForm
      <3> QED
        BY <1>2, <2>1, <3>1, <3>2
    <2> QED
      BY <2>3, <2>4
  <1>5. ASSUME NEW below \in Seq(Frames), NEW c \in Calls, Enters(below, c)
        PROVE  Sound(tree', Escrow', destroyed') /\ destroyed' = destroyed /\ msg' = msg
    <2>1. /\ tree' = enter(tree, c, Len(below) + 1).tree
          /\ msg' = msg /\ destroyed' = destroyed
      BY <1>5 DEF Enters
    <2>2. SameWorth(tree, tree')
      BY <1>1, <2>1, DepthType, EnterWorth
    <2>3. Sound(tree', Escrow, destroyed)
      BY <1>1, <2>2, SoundKept
    <2> QED
      BY <1>2, <2>1, <2>3
  <1> QED
    BY <1>3, <1>4, <1>5 DEF Transacts


LEMMA SupplyInit == Init => SupplyInv
  <1> SUFFICES ASSUME Init PROVE SupplyInv
    OBVIOUS
  <1>1. GasInv
    BY GasInit
  <1>2. frames = << >> /\ msg = NoMsg /\ tree = NewTree
    BY DEF Init
  <1>3. Escrow = 0
    BY <1>2 DEF Escrow
  <1>4. Live(NewTree)
    <2> SUFFICES ASSUME NEW a \in Addrs
                 PROVE  ~objectOrNew(Base, NewTree, a).suicide
      BY DEF Live
    <2>1. NewTree.objs[a] = NoObject
      BY DEF NewTree
    <2>2. objectOrNew(Base, NewTree, a) = newStateObject
            \/ objectOrNew(Base, NewTree, a) = objectOf(Base[a])
      BY <2>1 DEF objectOrNew, Exist, getStateObject
    <2>3. ~newStateObject.suicide /\ ~objectOf(Base[a]).suicide
      BY Zenon DEF newStateObject, objectOf
    <2> QED
      BY <2>2, <2>3
  <1>5. Worth(NewTree) + 0 = Worth(NewTree)
    BY WorthType, NewTreeType
  <1>6. Worth(NewTree) + 0 <= Worth(NewTree)
    BY WorthType, NewTreeType
  <1>7. Sound(tree, Escrow, destroyed)
    BY <1>2, <1>3, <1>4, <1>5, <1>6 DEF Sound
  <1>8. frames \in Seq(Backed(Escrow, destroyed))
    BY <1>2, EmptySeq
  <1> QED
    BY <1>1, <1>7, <1>8 DEF SupplyInv

\* Buying the gas puts it in escrow.
LEMMA AcceptSound ==
  ASSUME SupplyInv, NEW m \in Transactions, Accept(m)
  PROVE  Sound(tree', Escrow', destroyed') /\ frames' = << >>
  <1> DEFINE n == upfrontGasCost(m)
             bought == SubBalance(Base, tree, m.from, n)
             bumped == IncrNonce(Base, bought, m.from)
  <1>1. m \in Messages /\ m # NoMsg /\ tree \in Trees /\ TypeInv
    BY BlockConstants DEF SupplyInv, GasInv, TypeInv, TypeOK
  <1>2. m.from \in Addrs /\ n \in Nat
    BY <1>1, TxnConstants DEF Messages, upfrontGasCost
  <1>3. /\ msg = NoMsg /\ preCheck(m) = "" /\ msg' = m /\ frames' = frames
        /\ tree' = IF m.to = Creation THEN bought ELSE bumped
        /\ destroyed' = destroyed
    BY DEF Accept
  <1>4. frames = << >>
    BY <1>1, <1>3 DEF TypeInv, Started
  <1>5. Escrow = 0 /\ Escrow' = n
    BY <1>1, <1>3 DEF Escrow, upfrontGasCost
  <1>6. ~NotEnoughFunds(Base, tree, m.from, n)
    BY <1>1, <1>3, Checked
  <1> HIDE DEF n
  <1>7. /\ bought \in Trees /\ Worth(bought) + n = Worth(tree)
        /\ Live(tree) => Live(bought)
    BY <1>1, <1>2, <1>6, WriterType, PaidWorth, BlockConstants
  <1>8. /\ Worth(tree) + 0 <= Worth(NewTree)
        /\ ~destroyed => Worth(tree) + 0 = Worth(NewTree) /\ Live(tree)
    BY <1>5 DEF SupplyInv, Sound
  <1>9. Worth(tree) \in Nat
    BY <1>1, WorthType
  <1>10. Worth(tree) + 0 = Worth(tree)
    BY <1>9
  <1> HIDE DEF bought
  <1>11. Sound(bought, n, destroyed)
    BY <1>7, <1>8, <1>10 DEF Sound
  <1>12. Sound(bumped, n, destroyed)
    <2>1. SameWorth(bought, bumped)
      BY <1>2, <1>7, WriterWorth
    <2> HIDE DEF bumped
    <2> QED
      BY <1>11, <2>1, SoundKept
  <1> HIDE DEF bumped
  <1> QED
    BY <1>3, <1>4, <1>5, <1>11, <1>12

LEMMA SupplyNext ==
  ASSUME CreationsStay, Forks["EIP150"], SupplyInv, [Next]_vars
  PROVE  SupplyInv'
  <1>1. GasInv /\ GasInv' /\ TypeInv
    BY GasNext DEF SupplyInv, GasInv
  <1>2. ASSUME UNCHANGED <<tree, msg, frames, destroyed>>
        PROVE  SupplyInv'
    <2>1. Escrow' = Escrow
      BY <1>2 DEF Escrow
    <2> QED
      BY <1>1, <1>2, <2>1, Zenon DEF SupplyInv
  <1>3. ASSUME NEW m \in Transactions, Accept(m)
        PROVE  SupplyInv'
    <2>1. Sound(tree', Escrow', destroyed') /\ frames' = << >>
      BY <1>3, AcceptSound
    <2>2. frames' \in Seq(Backed(Escrow', destroyed'))
      BY <2>1, EmptySeq
    <2> QED
      BY <1>1, <2>1, <2>2, Zenon DEF SupplyInv
  <1>4. CASE Step
    <2> DEFINE n == Escrow
               G == Backed(n, destroyed')
    <2>1. Transacts
      BY <1>1, <1>4, TransactForm
    <2>2. /\ Sound(tree', Escrow', destroyed')
          /\ destroyed => destroyed'
          /\ frames' = << >> \/ msg' = msg
      BY <2>1, TransactSound
    <2> HIDE DEF n
    <2>3. frames' \in Seq(G)
      <3>1. ASSUME NEW f \in G, NEW g \in Gas
            PROVE  [f EXCEPT !.gas = g] \in G
        <4> DEFINE h == [f EXCEPT !.gas = g]
        <4>1. f \in Frames /\ Sound(f.snapshot, n, destroyed')
          BY DEF Backed
        <4>2. h \in Frames /\ h.snapshot = f.snapshot
          BY <4>1 DEF Frames, Gas
        <4> HIDE DEF h
        <4>3. h \in G
          BY <4>1, <4>2 DEF Backed
        <4> QED
          BY <4>3 DEF h
      <3>2. ASSUME NEW below \in Seq(Frames), NEW c \in Calls, Enters(below, c)
            PROVE  frameOf(c, enter(tree, c, Len(below) + 1).snapshot) \in G
        <4> DEFINE s == enter(tree, c, Len(below) + 1).snapshot
                   f == frameOf(c, s)
        <4>1. s \in Trees /\ SameWorth(tree, s)
          BY <1>1, DepthType, EnterType, EnterWorth DEF TypeInv, TypeOK
        <4>2. Sound(tree, n, destroyed)
          BY DEF SupplyInv, n
        <4> HIDE DEF s
        <4>3. Sound(s, n, destroyed)
          BY <4>1, <4>2, SoundKept
        <4>4. Sound(s, n, destroyed')
          BY <2>2, <4>3, SoundLess
        <4>5. f \in Frames /\ f.snapshot = s
          BY <4>1, FrameType DEF frameOf
        <4> HIDE DEF f
        <4>6. f \in G
          BY <4>4, <4>5 DEF Backed
        <4> QED
          BY <4>6 DEF f, s
      <3>3. G \in SUBSET Frames
        BY DEF Backed
      <3>4. frames \in Seq(G)
        <4>1. Backed(n, destroyed) \subseteq G
          BY <2>2, SoundLess DEF Backed
        <4>2. frames \in Seq(Backed(n, destroyed))
          BY DEF SupplyInv, n
        <4> HIDE DEF G
        <4> QED
          BY <4>1, <4>2, SeqMonotonic
      <3> HIDE DEF G
      <3> QED
        BY <2>1, <3>1, <3>2, <3>3, <3>4, StepFrames
    <2>4. frames' \in Seq(Backed(Escrow', destroyed'))
      <3>1. CASE frames' = << >>
        BY <3>1, EmptySeq
      <3>2. CASE msg' = msg
        <4>1. Escrow' = Escrow
          BY <3>2 DEF Escrow
        <4> QED
          BY <2>3, <4>1 DEF n
      <3> QED
        BY <2>2, <3>1, <3>2
    <2> QED
      BY <1>1, <2>2, <2>4, Zenon DEF SupplyInv
  <1>5. ASSUME NEW m \in Transactions, Reject(m)
        PROVE  UNCHANGED <<tree, msg, frames, destroyed>>
    BY <1>5, Zenon DEF Reject
  <1>6. UNCHANGED vars => UNCHANGED <<tree, msg, frames, destroyed>>
    BY DEF vars
  <1> QED
    BY <1>2, <1>3, <1>4, <1>5, <1>6 DEF Next

\* SupplyConserved: transfers, fees, refunds and reverts move ether between
\* accounts and never mint it, whatever the contracts do; none is lost unless a
\* SELFDESTRUCT ran.  EIP-150's gas rule is needed: without it a call can hand
\* on more gas than its frame has, and the settlement then pays for it.
THEOREM SupplyIsConserved ==
  ASSUME CreationsStay, Forks["EIP150"]
  PROVE  Spec => []SupplyConserved
  <1>1. Init => SupplyInv
    BY SupplyInit
  <1>2. SupplyInv /\ [Next]_vars => SupplyInv'
    BY SupplyNext
  <1>3. SupplyInv => SupplyConserved
    BY DEF SupplyInv, Sound, Escrow, SupplyConserved, Supply
  <1> QED
    BY <1>1, <1>2, <1>3, PTL DEF Spec

-----------------------------------------------------------------------------
(* A failed transaction only pays its fee.                                 *)

\* The coinbase's account in the snapshot, if it is empty, has no storage.  The
\* fee touches the coinbase, and where empty accounts are cleared that would
\* drop the storage of one that is empty but for it.
CoinbaseBare ==
  Base[Coinbase] # NoAccount /\ isEmpty(objectOf(Base[Coinbase])) =>
    Base[Coinbase].root = EmptyStateHash

\* The state t after the sender of m bought the gas, and after its nonce moved on.
bought(t, m) == SubBalance(Base, t, m.from, upfrontGasCost(m))
accepted(t, m) == IncrNonce(Base, bought(t, m), m.from)

\* The state t after the sender of the running transaction got back left gas and
\* the coinbase the fee.
paid(t, left, used) ==
  DropLogs(AddBalance(Base, AddBalance(Base, t, msg.from, left * msg.gasPrice),
                      Coinbase, used * msg.gasPrice))

\* The bottom frame's snapshot, which a failed transaction goes back to, is the
\* state after the purchase of the gas and the nonce, and nothing else.
FeeInv ==
  /\ CallInv /\ GasInv
  /\ msg = NoMsg => Swept(tree)
  /\ msg # NoMsg =>
       /\ Swept(txStart)
       /\ ~NotEnoughFunds(Base, txStart, msg.from, upfrontGasCost(msg))
       /\ frames = << >> => tree = IF msg.to = Creation THEN bought(txStart, msg)
                                                        ELSE accepted(txStart, msg)
       /\ frames # << >> => frames[1].snapshot = accepted(txStart, msg)

\* Two objects that differ in their nonces and balances at most.
Alike(o, p) ==
  /\ p.root = o.root /\ p.slots = o.slots
  /\ p.codeHash = o.codeHash /\ p.code = o.code /\ p.dirtyCode = o.dirtyCode
  /\ p.suicide = o.suicide

\* They read the same but for those.
LEMMA AlikeReads ==
  ASSUME NEW t \in Trees, NEW u \in Trees, NEW a \in Addrs,
         Alike(objectOrNew(Base, t, a), objectOrNew(Base, u, a))
  PROVE  /\ GetCode(Base, Codes, u, a) = GetCode(Base, Codes, t, a)
         /\ \A k \in Keys : GetState(Base, u, a, k) = GetState(Base, t, a, k)
  <1> DEFINE o == objectOrNew(Base, t, a)
             p == objectOrNew(Base, u, a)
  <1>1. Alike(o, p)
    OBVIOUS
  <1>2. GetCode(Base, Codes, u, a) = GetCode(Base, Codes, t, a)
    BY <1>1 DEF GetCode, Alike
  <1>3. \A k \in Keys : /\ GetState(Base, u, a, k) = storageOf(p)[k]
                        /\ GetState(Base, t, a, k) = storageOf(o)[k]
    BY SlotReads, BlockConstants
  <1> HIDE DEF o, p
  <1>4. storageOf(p) = storageOf(o)
    BY <1>1 DEF storageOf, Alike
  <1> QED
    BY <1>2, <1>3, <1>4

\* Writing an object that differs in its nonce and balance at most.
LEMMA AlikeInserted ==
  ASSUME NEW t \in Trees, NEW a \in Addrs, NEW p \in Objects, ~p.deleted
  PROVE  LET u == insert(t, a, p) IN
         /\ u \in Trees /\ u.logs = t.logs
         /\ u.objs[a] = p /\ objectOrNew(Base, u, a) = p /\ p # NoObject
         /\ \A x \in Addrs \ {a} : u.objs[x] = t.objs[x]
  BY InsertType, Upsert, BlockConstants, TxnConstants

\* A new balance or nonce.
LEMMA AlikeFields ==
  ASSUME NEW o \in Objects, ~o.deleted, NEW n \in Nat
  PROVE  LET p == [o EXCEPT !.balance = n]
             q == [o EXCEPT !.nonce = n]
         IN /\ p \in Objects /\ ~p.deleted /\ Alike(o, p)
            /\ p.nonce = o.nonce /\ p.balance = n
            /\ q \in Objects /\ ~q.deleted /\ Alike(o, q)
            /\ q.nonce = n /\ q.balance = o.balance
  BY DEF Objects, Alike

LEMMA AddedReads ==
  ASSUME NEW t \in Trees, NEW a \in Addrs, NEW n \in Nat
  PROVE  LET o == objectOrNew(Base, t, a)
             u == AddBalance(Base, t, a, n)
             p == u.objs[a]
         IN /\ u \in Trees /\ u.logs = t.logs
            /\ p = objectOrNew(Base, u, a) /\ p # NoObject /\ ~p.deleted
            /\ Alike(o, p) /\ p.nonce = o.nonce /\ p.balance = o.balance + n
            /\ \A x \in Addrs \ {a} : u.objs[x] = t.objs[x]
  <1> DEFINE o == objectOrNew(Base, t, a)
             p == [o EXCEPT !.balance = o.balance + n]
  <1>1. o \in Objects /\ ~o.deleted
    BY ObjectType, NotDeleted, BlockConstants
  <1>2. AddBalance(Base, t, a, n) = insert(t, a, p)
    BY DEF AddBalance
  <1> HIDE DEF o
  <1>3. o.balance + n \in Nat
    BY <1>1 DEF Objects
  <1>4. /\ p \in Objects /\ ~p.deleted /\ Alike(o, p)
        /\ p.nonce = o.nonce /\ p.balance = o.balance + n
    BY <1>1, <1>3, AlikeFields
  <1> HIDE DEF p
  <1> QED
    BY <1>2, <1>4, AlikeInserted DEF o

LEMMA BumpedReads ==
  ASSUME NEW t \in Trees, NEW a \in Addrs
  PROVE  LET o == objectOrNew(Base, t, a)
             u == IncrNonce(Base, t, a)
             p == u.objs[a]
         IN /\ u \in Trees /\ u.logs = t.logs
            /\ p = objectOrNew(Base, u, a) /\ p # NoObject /\ ~p.deleted
            /\ Alike(o, p) /\ p.nonce = o.nonce + 1 /\ p.balance = o.balance
            /\ \A x \in Addrs \ {a} : u.objs[x] = t.objs[x]
  <1> DEFINE o == objectOrNew(Base, t, a)
             p == [o EXCEPT !.nonce = o.nonce + 1]
  <1>1. o \in Objects /\ ~o.deleted
    BY ObjectType, NotDeleted, BlockConstants
  <1>2. IncrNonce(Base, t, a) = insert(t, a, p)
    BY DEF IncrNonce
  <1> HIDE DEF o
  <1>3. o.nonce + 1 \in Nat
    BY <1>1 DEF Objects
  <1>4. /\ p \in Objects /\ ~p.deleted /\ Alike(o, p)
        /\ p.nonce = o.nonce + 1 /\ p.balance = o.balance
    BY <1>1, <1>3, AlikeFields
  <1> HIDE DEF p
  <1> QED
    BY <1>2, <1>4, AlikeInserted DEF o

LEMMA SubbedReads ==
  ASSUME NEW t \in Trees, NEW a \in Addrs, NEW n \in Nat,
         ~NotEnoughFunds(Base, t, a, n)
  PROVE  LET o == objectOrNew(Base, t, a)
             u == SubBalance(Base, t, a, n)
             p == objectOrNew(Base, u, a)
         IN /\ u \in Trees /\ u.logs = t.logs
            /\ Alike(o, p) /\ p.nonce = o.nonce /\ p.balance = o.balance - n
            /\ \A x \in Addrs \ {a} : u.objs[x] = t.objs[x]
  <1> DEFINE o == objectOrNew(Base, t, a)
             p == [o EXCEPT !.balance = o.balance - n]
  <1>1. o \in Objects /\ ~o.deleted
    BY ObjectType, NotDeleted, BlockConstants
  <1>2. SubBalance(Base, t, a, n) = IF n = 0 THEN t ELSE insert(t, a, p)
    BY DEF SubBalance
  <1>3. n = 0 \/ ~(o.balance < n)
    BY DEF NotEnoughFunds, GetBalance
  <1> HIDE DEF o
  <1>4. CASE n = 0
    <2>1. o.balance - n = o.balance
      BY <1>1, <1>4 DEF Objects
    <2>2. Alike(o, o)
      BY DEF Alike
    <2> QED
      BY <1>2, <1>4, <2>1, <2>2 DEF o
  <1>5. CASE n # 0
    <2>1. o.balance - n \in Nat
      BY <1>1, <1>3, <1>5 DEF Objects
    <2>2. /\ p \in Objects /\ ~p.deleted /\ Alike(o, p)
          /\ p.nonce = o.nonce /\ p.balance = o.balance - n
      BY <1>1, <2>1, AlikeFields
    <2> HIDE DEF p
    <2> QED
      BY <1>2, <1>5, <2>2, AlikeInserted DEF o
  <1> QED
    BY <1>4, <1>5

LEMMA AlikeTwice ==
  ASSUME NEW o, NEW p, NEW q, Alike(o, p), Alike(p, q)
  PROVE  Alike(o, q)
  BY DEF Alike

\* Accepting the transaction m takes the price of its gas and bumps the nonce.
LEMMA AcceptedReads ==
  ASSUME NEW t \in Trees, NEW m \in Messages,
         ~NotEnoughFunds(Base, t, m.from, upfrontGasCost(m))
  PROVE  LET u == accepted(t, m)
             o == objectOrNew(Base, t, m.from)
             p == u.objs[m.from]
         IN /\ u \in Trees /\ u.logs = t.logs
            /\ p = objectOrNew(Base, u, m.from) /\ p # NoObject /\ ~p.deleted
            /\ Alike(o, p)
            /\ p.nonce = o.nonce + 1
            /\ p.balance = o.balance - m.gas * m.gasPrice
            /\ \A x \in Addrs \ {m.from} : u.objs[x] = t.objs[x]
  <1> DEFINE a == m.from
             n == upfrontGasCost(m)
             s == SubBalance(Base, t, a, n)
             u == IncrNonce(Base, s, a)
             o == objectOrNew(Base, t, a)
             q == objectOrNew(Base, s, a)
             p == u.objs[a]
  <1>1. a \in Addrs /\ n \in Nat /\ n = m.gas * m.gasPrice
    BY TxnConstants DEF Messages, upfrontGasCost
  <1>2. accepted(t, m) = u
    BY DEF accepted, bought
  <1>3. ~NotEnoughFunds(Base, t, a, n)
    OBVIOUS
  <1> HIDE DEF a, n
  <1>4. /\ s \in Trees /\ s.logs = t.logs /\ Alike(o, q)
        /\ q.nonce = o.nonce /\ q.balance = o.balance - n
        /\ \A x \in Addrs \ {a} : s.objs[x] = t.objs[x]
    BY <1>1, <1>3, SubbedReads
  <1> HIDE DEF s, o
  <1>5. /\ u \in Trees /\ u.logs = s.logs
        /\ p = objectOrNew(Base, u, a) /\ p # NoObject /\ ~p.deleted
        /\ Alike(q, p) /\ p.nonce = q.nonce + 1 /\ p.balance = q.balance
        /\ \A x \in Addrs \ {a} : u.objs[x] = s.objs[x]
    BY <1>1, <1>4, BumpedReads
  <1> HIDE DEF u, q, p
  <1>6. /\ u \in Trees /\ u.logs = t.logs
        /\ p = objectOrNew(Base, u, a) /\ p # NoObject /\ ~p.deleted
        /\ Alike(o, p) /\ p.nonce = o.nonce + 1 /\ p.balance = o.balance - n
        /\ \A x \in Addrs \ {a} : u.objs[x] = t.objs[x]
    BY <1>4, <1>5, AlikeTwice
  <1> QED
    BY <1>1, <1>2, <1>6, Zenon DEF a, o, p

\* Paying the fee changes two balances.
LEMMA PaidReads ==
  ASSUME TypeInv, msg # NoMsg, NEW t \in Trees, NEW left \in Gas, NEW used \in Gas
  PROVE  LET u == paid(t, left, used) IN
         /\ u \in Trees
         /\ \A a \in Addrs :
              LET o == objectOrNew(Base, t, a)
                  p == objectOrNew(Base, u, a)
              IN /\ Alike(o, p) /\ p.nonce = o.nonce
                 /\ p.balance = o.balance
                      + (IF a = msg.from THEN left * msg.gasPrice ELSE 0)
                      + (IF a = Coinbase THEN used * msg.gasPrice ELSE 0)
                 /\ IF a \in {msg.from, Coinbase}
                    THEN p = u.objs[a] /\ p # NoObject /\ ~p.deleted
                    ELSE u.objs[a] = t.objs[a]
  <1> DEFINE b == left * msg.gasPrice
             c == used * msg.gasPrice
             f == msg.from
             s == AddBalance(Base, t, f, b)
             v == AddBalance(Base, s, Coinbase, c)
             u == DropLogs(v)
             of == objectOrNew(Base, t, f)
             sf == s.objs[f]
             sc == objectOrNew(Base, s, Coinbase)
             vc == v.objs[Coinbase]
  <1>1. f \in Addrs /\ Coinbase \in Addrs /\ msg.gasPrice \in Nat
    BY BlockConstants DEF TypeInv, TypeOK, Messages
  <1>2. b \in Nat /\ c \in Nat
    BY <1>1, TxnConstants DEF Gas
  <1>3. paid(t, left, used) = u
    BY DEF paid
  <1> HIDE DEF b, c, f
  <1>4. /\ s \in Trees /\ s.logs = t.logs
        /\ sf = objectOrNew(Base, s, f) /\ sf # NoObject /\ ~sf.deleted
        /\ Alike(of, sf) /\ sf.nonce = of.nonce /\ sf.balance = of.balance + b
        /\ \A x \in Addrs \ {f} : s.objs[x] = t.objs[x]
    BY <1>1, <1>2, AddedReads
  <1> HIDE DEF s, sf, of
  <1>5. /\ v \in Trees /\ v.logs = s.logs
        /\ vc = objectOrNew(Base, v, Coinbase) /\ vc # NoObject /\ ~vc.deleted
        /\ Alike(sc, vc) /\ vc.nonce = sc.nonce /\ vc.balance = sc.balance + c
        /\ \A x \in Addrs \ {Coinbase} : v.objs[x] = s.objs[x]
    BY <1>1, <1>2, <1>4, AddedReads
  <1> HIDE DEF v, sc, vc
  <1>6. u \in Trees /\ u.objs = v.objs
    BY <1>1, <1>5, WriterType, BlockConstants DEF DropLogs, Trees
  <1> HIDE DEF u
  <1>7. ASSUME NEW a \in Addrs
        PROVE  LET o == objectOrNew(Base, t, a)
                   p == objectOrNew(Base, u, a)
               IN /\ Alike(o, p) /\ p.nonce = o.nonce
                  /\ p.balance = o.balance + (IF a = f THEN b ELSE 0)
                                           + (IF a = Coinbase THEN c ELSE 0)
                  /\ IF a \in {f, Coinbase}
                     THEN p = u.objs[a] /\ p # NoObject /\ ~p.deleted
                     ELSE u.objs[a] = t.objs[a]
    <2> DEFINE o == objectOrNew(Base, t, a)
               q == objectOrNew(Base, s, a)
               p == objectOrNew(Base, u, a)
    <2>1. p = objectOrNew(Base, v, a)
      BY <1>6, SameObjects
    <2>2. o.balance \in Nat
      BY ObjectType, BlockConstants DEF Objects
    <2>3. \A x : Alike(x, x)
      BY DEF Alike
    <2>4. /\ Alike(o, q) /\ q.nonce = o.nonce
          /\ q.balance = o.balance + (IF a = f THEN b ELSE 0)
          /\ IF a = f THEN q = s.objs[a] /\ q # NoObject /\ ~q.deleted
                             ELSE s.objs[a] = t.objs[a]
      <3>1. CASE a = f
        BY <1>4, <3>1 DEF of, sf
      <3>2. CASE a # f
        <4>1. s.objs[a] = t.objs[a]
          BY <1>4, <3>2
        <4>2. q = o
          BY <4>1, SameEntry
        <4> HIDE DEF q, o
        <4> QED
          BY <2>2, <2>3, <3>2, <4>1, <4>2
      <3> QED
        BY <3>1, <3>2
    <2>5. q.balance \in Nat
      BY <1>4, ObjectType, BlockConstants DEF Objects
    <2>6. /\ Alike(q, p) /\ p.nonce = q.nonce
          /\ p.balance = q.balance + (IF a = Coinbase THEN c ELSE 0)
          /\ IF a = Coinbase THEN p = v.objs[a] /\ p # NoObject /\ ~p.deleted
                             ELSE v.objs[a] = s.objs[a]
      <3>1. CASE a = Coinbase
        BY <1>5, <2>1, <3>1 DEF sc, vc
      <3>2. CASE a # Coinbase
        <4>1. v.objs[a] = s.objs[a]
          BY <1>5, <3>2
        <4>2. p = q
          BY <2>1, <4>1, SameEntry
        <4> HIDE DEF p, q
        <4> QED
          BY <2>3, <2>5, <3>2, <4>1, <4>2
      <3> QED
        BY <3>1, <3>2
    <2>7. a # Coinbase /\ a = f => p = u.objs[a]
      BY <1>6, <2>1, <2>4, <2>6, SameEntry
    <2> HIDE DEF o, q, p
    <2>8. Alike(o, p)
      BY <2>4, <2>6, AlikeTwice
    <2>9. p.balance = o.balance + (IF a = f THEN b ELSE 0)
                                + (IF a = Coinbase THEN c ELSE 0)
      BY <2>4, <2>6
    <2>10. IF a \in {f, Coinbase}
           THEN p = u.objs[a] /\ p # NoObject /\ ~p.deleted
           ELSE u.objs[a] = t.objs[a]
      <3>1. CASE a = Coinbase
        BY <1>6, <2>6, <3>1
      <3>2. CASE a # Coinbase /\ a # f
        BY <1>6, <2>4, <2>6, <3>2
      <3>3. CASE a # Coinbase /\ a = f
        <4>1. u.objs[a] = q
          BY <1>6, <2>4, <2>6, <3>3
        <4>2. q # NoObject /\ ~q.deleted
          BY <2>4, <3>3
        <4> QED
          BY <2>7, <3>3, <4>1, <4>2
      <3> QED
        BY <3>1, <3>2, <3>3
    <2> QED
      BY <2>4, <2>6, <2>8, <2>9, <2>10 DEF o, p
  <1> QED
    BY <1>3, <1>6, <1>7, Zenon DEF b, c, f

\* Closing a transaction sweeps the state.
LEMMA SettledSwept ==
  ASSUME TypeInv, msg # NoMsg, NEW t \in Trees, NEW left \in Gas, NEW used \in Gas
  PROVE  Swept(settled(t, left, used))
  <1> DEFINE u == paid(t, left, used)
             v == CleanDeleteObjects(u, Clearing)
  <1>1. settled(t, left, used) = v
    BY Zenon DEF settled, paid, Clearing
  <1>2. u \in Trees /\ u.logs = << >>
    <2>1. u \in Trees
      BY PaidReads
    <2>2. \A w : DropLogs(w) = [w EXCEPT !.logs = << >>]
      BY DEF DropLogs
    <2>3. PICK w : u = [w EXCEPT !.logs = << >>]
      BY <2>2 DEF paid
    <2> HIDE DEF u
    <2>4. "logs" \in DOMAIN u /\ DOMAIN u = DOMAIN w
      BY <2>1, <2>3 DEF Trees
    <2> QED
      BY <2>1, <2>3, <2>4
  <1> HIDE DEF u
  <1>3. /\ v.logs = << >> /\ v.refund = 0
        /\ \A a \in Addrs : LET o == u.objs[a] IN
             v.objs[a] = IF o # NoObject /\ (o.suicide \/ (isEmpty(o) /\ Clearing))
                         THEN [o EXCEPT !.deleted = TRUE] ELSE o
    BY <1>2 DEF CleanDeleteObjects, Trees
  <1> HIDE DEF v
  <1>4. ASSUME NEW a \in Addrs, v.objs[a] # NoObject, ~v.objs[a].deleted
        PROVE  ~v.objs[a].suicide /\ (Clearing => ~isEmpty(v.objs[a]))
    <2> DEFINE o == u.objs[a]
               gone == o # NoObject /\ (o.suicide \/ (isEmpty(o) /\ Clearing))
    <2>1. o \in Objects \cup {NoObject}
      BY <1>2 DEF Trees
    <2>2. v.objs[a] = IF gone THEN [o EXCEPT !.deleted = TRUE] ELSE o
      BY <1>3
    <2>3. gone => [o EXCEPT !.deleted = TRUE].deleted
      BY <2>1 DEF Objects
    <2>4. ~gone
      BY <1>4, <2>2, <2>3
    <2> QED
      BY <1>4, <2>2, <2>4
  <1> QED
    BY <1>1, <1>3, <1>4 DEF Swept

\* An account that the snapshot has without storage, or does not have, reads as
\* an empty one once it is deleted.
LEMMA BareAlike ==
  /\ Alike(newStateObject, newStateObject)
  /\ \A acc \in Accounts : isEmpty(objectOf(acc)) /\ acc.root = EmptyStateHash =>
                           Alike(objectOf(acc), newStateObject)
  <1>1. Alike(newStateObject, newStateObject)
    BY DEF Alike
  <1>2. ASSUME NEW acc \in Accounts, isEmpty(objectOf(acc)), acc.root = EmptyStateHash
        PROVE  Alike(objectOf(acc), newStateObject)
    BY <1>2 DEF Alike, objectOf, newStateObject, isEmpty
  <1> QED
    BY <1>1, <1>2

\* What a failed transaction leaves of an account: fee more or less.
LEMMA FailedReads ==
  ASSUME CoinbaseBare, TypeInv, msg # NoMsg, NEW t \in Trees, Swept(t),
         ~NotEnoughFunds(Base, t, msg.from, upfrontGasCost(msg)),
         NEW left \in Gas, NEW used \in Gas, left + used = msg.gas, NEW a \in Addrs
  PROVE  LET u == settled(accepted(t, msg), left, used)
             o == objectOrNew(Base, t, a)
             p == objectOrNew(Base, u, a)
             fee == used * msg.gasPrice
         IN /\ Alike(o, p)
            /\ p.nonce = o.nonce + (IF a = msg.from THEN 1 ELSE 0)
            /\ p.balance = o.balance - (IF a = msg.from THEN fee ELSE 0)
                                     + (IF a = Coinbase THEN fee ELSE 0)
  <1> DEFINE f == msg.from
             fee == used * msg.gasPrice
             back == left * msg.gasPrice
             cost == msg.gas * msg.gasPrice
             s == accepted(t, msg)
             v == paid(s, left, used)
             u == CleanDeleteObjects(v, Clearing)
             o == objectOrNew(Base, t, a)
             r == objectOrNew(Base, s, a)
             q == objectOrNew(Base, v, a)
             p == objectOrNew(Base, u, a)
             e == v.objs[a]
             gone == e # NoObject /\ (e.suicide \/ (isEmpty(e) /\ Clearing))
  <1>1. /\ msg \in Messages /\ f \in Addrs /\ msg.gasPrice \in Nat
        /\ Coinbase \in Addrs
    BY BlockConstants DEF TypeInv, TypeOK, Messages
  <1>2. fee \in Nat /\ back \in Nat /\ cost = back + fee
    <2>1. left \in Nat /\ used \in Nat
      BY TxnConstants DEF Gas
    <2>2. \A x \in Nat, y \in Nat, z \in Nat : (x + y) * z = x * z + y * z
      OBVIOUS
    <2>3. \A x \in Nat, y \in Nat : x * y \in Nat
      OBVIOUS
    <2> QED
      BY <1>1, <2>1, <2>2, <2>3
  <1>3. settled(s, left, used) = u
    BY Zenon DEF settled, paid, Clearing
  <1>4. o \in Objects
    BY ObjectType, BlockConstants
  <1>5. \A x, y, z : Alike(x, x) /\ (Alike(x, y) /\ Alike(y, z) => Alike(x, z))
    BY DEF Alike
  <1>6. /\ s \in Trees /\ Alike(o, r)
        /\ r.nonce = o.nonce + (IF a = f THEN 1 ELSE 0)
        /\ r.balance = o.balance - (IF a = f THEN cost ELSE 0)
        /\ a # f => s.objs[a] = t.objs[a]
    <2> DEFINE of == objectOrNew(Base, t, f)
               sf == s.objs[f]
    <2>1. /\ s \in Trees /\ sf = objectOrNew(Base, s, f) /\ Alike(of, sf)
          /\ sf.nonce = of.nonce + 1 /\ sf.balance = of.balance - cost
          /\ \A x \in Addrs \ {f} : s.objs[x] = t.objs[x]
      BY <1>1, AcceptedReads
    <2> HIDE DEF s, sf, of, cost, f
    <2>2. CASE a = f
      BY <2>1, <2>2 DEF of
    <2>3. CASE a # f
      <3>1. s.objs[a] = t.objs[a]
        BY <2>1, <2>3
      <3>2. r = o
        BY <3>1, SameEntry
      <3>3. o.balance \in Int /\ o.nonce \in Int
        BY <1>4 DEF Objects
      <3> HIDE DEF r, o
      <3> QED
        BY <1>5, <2>1, <2>3, <3>1, <3>2, <3>3
    <2> QED
      BY <2>2, <2>3
  <1> HIDE DEF s
  <1>7. /\ v \in Trees /\ Alike(r, q) /\ q.nonce = r.nonce
        /\ q.balance = r.balance + (IF a = f THEN back ELSE 0)
                                 + (IF a = Coinbase THEN fee ELSE 0)
        /\ IF a \in {f, Coinbase} THEN q = e /\ e # NoObject /\ ~e.deleted
                                  ELSE e = s.objs[a]
    <2>1. /\ v \in Trees
          /\ \A x \in Addrs :
               LET y == objectOrNew(Base, s, x)
                   z == objectOrNew(Base, v, x)
               IN /\ Alike(y, z) /\ z.nonce = y.nonce
                  /\ z.balance = y.balance + (IF x = f THEN back ELSE 0)
                                           + (IF x = Coinbase THEN fee ELSE 0)
                  /\ IF x \in {f, Coinbase} THEN z = v.objs[x] /\ z # NoObject /\ ~z.deleted
                                            ELSE v.objs[x] = s.objs[x]
      BY <1>6, PaidReads, ZenonT(60)
    <2> HIDE DEF f, back, fee, v
    <2> QED
      BY <2>1
  <1> HIDE DEF v, r, cost, back, fee
  <1>8. /\ Alike(o, q)
        /\ q.nonce = o.nonce + (IF a = f THEN 1 ELSE 0)
        /\ q.balance = o.balance - (IF a = f THEN fee ELSE 0)
                                 + (IF a = Coinbase THEN fee ELSE 0)
    <2>1. o.balance \in Nat /\ o.nonce \in Nat
      BY <1>4 DEF Objects
    <2>2. Alike(o, q)
      BY <1>5, <1>6, <1>7
    <2> HIDE DEF o, q
    <2> QED
      BY <1>2, <1>6, <1>7, <2>1, <2>2
  <1>9. /\ gone => p = newStateObject
        /\ ~gone => p = q
    <2>1. Clearing \in BOOLEAN
      BY DEF Clearing
    <2> QED
      BY <1>7, <2>1, CleanReads, BlockConstants
  <1>10. ASSUME gone
         PROVE  /\ Alike(o, newStateObject) /\ q.nonce = 0 /\ q.balance = 0
    <2>1. t.objs[a] # NoObject /\ ~t.objs[a].deleted =>
            o = t.objs[a] /\ ~o.suicide /\ (Clearing => ~isEmpty(o))
      BY DEF Swept, objectOrNew, Exist, getStateObject
    <2>2. ~(t.objs[a] # NoObject /\ ~t.objs[a].deleted) =>
            \/ o = newStateObject
            \/ /\ Base[a] # NoAccount /\ o = objectOf(Base[a])
      BY DEF objectOrNew, Exist, getStateObject
    <2>3. ~newStateObject.suicide /\ \A acc : ~objectOf(acc).suicide
      BY DEF newStateObject, objectOf
    <2>4. CASE a \notin {f, Coinbase}
      <3>1. e = t.objs[a]
        BY <1>6, <1>7, <2>4
      <3>2. e.deleted
        BY <1>10, <2>1, <3>1
      <3>3. o = newStateObject
        BY <3>1, <3>2, <1>10 DEF objectOrNew, Exist, getStateObject
      <3>4. newStateObject.nonce = 0 /\ newStateObject.balance = 0
        BY DEF newStateObject
      <3> HIDE DEF o, q
      <3> QED
        BY <1>5, <1>8, <2>4, <3>3, <3>4
    <2>5. CASE a \in {f, Coinbase}
      <3>1. q = e
        BY <1>7, <2>5
      <3>2. q.suicide = o.suicide /\ q.codeHash = o.codeHash
        BY <1>8 DEF Alike
      <3>3. ~o.suicide
        BY <2>1, <2>2, <2>3
      <3>4. isEmpty(q) /\ Clearing
        BY <1>10, <3>1, <3>2, <3>3
      <3>5. q.nonce = 0 /\ q.balance = 0 /\ q.codeHash = EmptyCode
        BY <3>4 DEF isEmpty
      <3>6. o.balance \in Nat /\ o.nonce \in Nat
        BY <1>4 DEF Objects
      <3>7. a # f /\ a = Coinbase
        <4> HIDE DEF o, q
        <4> QED
          BY <1>8, <2>5, <3>5, <3>6
      <3>8. o.nonce = 0 /\ o.balance = 0
        <4> HIDE DEF o, q, f
        <4>1. q.nonce = o.nonce + 0 /\ q.balance = o.balance - 0 + fee
          BY <1>8, <3>7
        <4>2. \A x \in Nat, y \in Nat : x - 0 + y = 0 => x = 0
          OBVIOUS
        <4>3. fee \in Nat
          BY <1>2
        <4>4. o.balance - 0 + fee = 0 /\ o.nonce + 0 = 0
          BY <3>5, <4>1
        <4>5. o.balance = 0
          BY <3>6, <4>2, <4>3, <4>4
        <4> QED
          BY <3>6, <4>4, <4>5
      <3>9. isEmpty(o)
        BY <3>2, <3>5, <3>8 DEF isEmpty
      <3>10. ~(t.objs[a] # NoObject /\ ~t.objs[a].deleted)
        BY <2>1, <3>4, <3>9
      <3>11. Base[a] # NoAccount => Base[a] \in Accounts
        BY BlockConstants DEF Bases
      <3>12. Base[a] # NoAccount /\ o = objectOf(Base[a]) => Base[a].root = EmptyStateHash
        BY <3>7, <3>9 DEF CoinbaseBare
      <3> HIDE DEF o, q
      <3> QED
        BY <2>2, <3>5, <3>9, <3>10, <3>11, <3>12, BareAlike
    <2> QED
      BY <2>4, <2>5
  <1>11. newStateObject.nonce = 0 /\ newStateObject.balance = 0
    BY DEF newStateObject
  <1> HIDE DEF o, p, q, u, gone, f
  <1>12. /\ Alike(o, p) /\ p.nonce = q.nonce /\ p.balance = q.balance
    BY <1>8, <1>9, <1>10, <1>11
  <1>13. /\ Alike(o, p)
         /\ p.nonce = o.nonce + (IF a = f THEN 1 ELSE 0)
         /\ p.balance = o.balance - (IF a = f THEN fee ELSE 0)
                                  + (IF a = Coinbase THEN fee ELSE 0)
    BY <1>8, <1>12
  <1> QED
    BY <1>3, <1>13, Zenon DEF o, p, f, fee, s

\* The snapshots of the topmost call, and the one way it fails before it runs: a
\* creation collides, after the nonce was bumped.
LEMMA EnterTop ==
  ASSUME NEW t \in Trees, NEW c \in Calls, NEW d \in Nat, ~(d > MaxCallDepth + 1),
         enter(t, c, d).err # "ErrInsufficientBalance"
  PROVE  LET e == enter(t, c, d)
             bumped == IncrNonce(Base, t, c.caller)
         IN /\ c.type # "Create" => e.err = "" /\ e.snapshot = t
            /\ c.type = "Create" => /\ e.snapshot = bumped
                                    /\ e.err # "" => e.tree = bumped
  BY DEF enter, enterCall, enterCreate

\* The topmost call goes back to the accepted transaction.
LEMMA TopmostBack ==
  ASSUME CreationsStay, FeeInv, msg # NoMsg, frames = << >>
  PROVE  LET e == enter(tree, topmost(msg), 1) IN
         /\ e.snapshot = accepted(txStart, msg)
         /\ e.err # "" => e.tree = accepted(txStart, msg)
  <1> DEFINE c == topmost(msg)
  <1>1. TypeInv /\ Funded /\ tree \in Trees
    BY DEF FeeInv, CallInv, TypeInv, TypeOK
  <1>2. /\ c \in Calls /\ c.caller = msg.from
        /\ msg.to = Creation => c.type = "Create"
        /\ msg.to # Creation => c.type = "Call"
    BY <1>1, TopmostCall
  <1>3. Calling(<< >>, c)
    BY DEF Calling
  <1>4. c.type \in {"Call", "Create"} => ~NotEnoughFunds(Base, tree, c.caller, c.value)
    BY <1>1, <1>2, <1>3, CallingFunded
  <1> HIDE DEF c
  <1>5. enter(tree, c, 1).err # "ErrInsufficientBalance"
    BY <1>1, <1>2, <1>4, EnterFunded
  <1>6. ~(1 > MaxCallDepth + 1)
    BY BlockConstants
  <1>7. /\ c.type # "Create" => enter(tree, c, 1).err = "" /\ enter(tree, c, 1).snapshot = tree
        /\ c.type = "Create" =>
             /\ enter(tree, c, 1).snapshot = IncrNonce(Base, tree, c.caller)
             /\ enter(tree, c, 1).err # "" =>
                  enter(tree, c, 1).tree = IncrNonce(Base, tree, c.caller)
    <2>1. 1 \in Nat
      OBVIOUS
    <2> QED
      BY <1>1, <1>2, <1>5, <1>6, <2>1, EnterTop, Zenon
  <1>8. tree = IF msg.to = Creation THEN bought(txStart, msg) ELSE accepted(txStart, msg)
    BY DEF FeeInv
  <1>9. msg.to = Creation => IncrNonce(Base, tree, c.caller) = accepted(txStart, msg)
    BY <1>2, <1>8 DEF accepted
  <1> QED
    BY <1>2, <1>7, <1>8, <1>9 DEF c

\* The bottom frame is the same whatever gas the topmost has, and with or without
\* the frames above it.
LEMMA BottomKept ==
  ASSUME NEW q \in Seq(Frames), q # << >>
  PROVE  /\ \A g \in Gas : setGas(q, g)[1].snapshot = q[1].snapshot
         /\ \A f \in Frames : Append(q, f)[1] = q[1]
  <1>1. Len(q) \in Nat \ {0} /\ q[1] \in Frames
    BY EmptySeq
  <1>2. ASSUME NEW g \in Gas PROVE setGas(q, g)[1].snapshot = q[1].snapshot
    <2>1. [q[1] EXCEPT !.gas = g].snapshot = q[1].snapshot
      BY <1>1 DEF Frames
    <2>2. setGas(q, g)[Len(q)] = [q[Len(q)] EXCEPT !.gas = g]
      BY SetGas
    <2>3. \A i \in 1 .. Len(q) - 1 : setGas(q, g)[i] = q[i]
      BY SetGas
    <2>4. Len(q) = 1 \/ 1 \in 1 .. Len(q) - 1
      <3>1. Len(q) \in Nat \ {0}
        BY <1>1
      <3>2. \A n \in Nat \ {0} : n = 1 \/ 1 \in 1 .. n - 1
        OBVIOUS
      <3> QED
        BY <3>1, <3>2
    <2> QED
      BY <2>1, <2>2, <2>3, <2>4
  <1>3. ASSUME NEW f \in Frames PROVE Append(q, f)[1] = q[1]
    BY <1>1
  <1> QED
    BY <1>2, <1>3

\* A call returns to frames on the same bottom, or was the topmost.
LEMMA CallingBottom ==
  ASSUME TypeInv, NEW below, NEW c, Calling(below, c)
  PROVE  IF frames = << >> THEN below = << >> /\ c = topmost(msg)
         ELSE below # << >> /\ below[1].snapshot = frames[1].snapshot
  <1>1. frames \in Seq(Frames)
    BY DEF TypeInv, TypeOK
  <1>2. CASE frames = << >>
    BY <1>2 DEF Calling
  <1>3. CASE frames # << >>
    <2>1. PICK g \in Gas : below = setGas(frames, g)
      BY <1>3 DEF Calling
    <2> QED
      BY <1>1, <1>3, <2>1, SetGas, BottomKept
  <1> QED
    BY <1>2, <1>3

LEMMA HandsBottom ==
  ASSUME TypeInv, NEW below \in Seq(Frames), NEW op, NEW r, Hands(below, op, r),
         below # << >>
  PROVE  frames # << >> /\ below[1].snapshot = frames[1].snapshot
  <1>1. frames \in Seq(Frames)
    BY DEF TypeInv, TypeOK
  <1>2. CASE Ended(below, op, r)
    <2>1. frames # << >> /\ below = callers
      BY <1>2 DEF Ended
    <2>2. /\ Len(below) = Len(frames) - 1
          /\ \A i \in 1 .. Len(frames) - 1 : below[i] = frames[i]
      BY <1>1, <2>1, Topmost
    <2>3. Len(below) \in Nat \ {0} /\ Len(frames) \in Nat
      BY <1>1, EmptySeq
    <2> QED
      BY <2>1, <2>2, <2>3
  <1>3. CASE Failed(below, op, r)
    BY <1>3, CallingBottom DEF Failed
  <1>4. CASE Unpaid(below, op, r)
    <2>1. PICK g \in Gas : below = setGas(frames, g)
      BY <1>4 DEF Unpaid
    <2> QED
      BY <1>1, <1>4, <2>1, BottomKept DEF Unpaid
  <1> QED
    BY <1>2, <1>3, <1>4 DEF Hands

\* A call that gave an error, under the rules where a creation that cannot pay
\* for its code is one; and the end of a transaction whose call did.
Fails(r) == Forks["Homestead"] /\ r.err # ""
FailedTx == msg # NoMsg /\ msg' = NoMsg /\ Fails(last')

\* A failure of the topmost call takes the state back to the accepted transaction.
LEMMA FailureGoesBack ==
  ASSUME CreationsStay, FeeInv,
         NEW below \in Seq(Frames), below = << >>,
         NEW op, NEW r, Hands(below, op, r), Fails(r)
  PROVE  r.tree = accepted(txStart, msg)
  <1>1. TypeInv /\ msg # NoMsg /\ frames \in Seq(Frames)
    BY DEF FeeInv, CallInv, TypeInv, TypeOK, Hands
  <1>2. Len(below) = 0
    BY EmptySeq
  <1>3. CASE Ended(below, op, r)
    <2>1. PICK t \in Trees, res \in Runs :
            /\ frames # << >> /\ below = callers /\ r = leave(running, t, res)
      BY <1>3 DEF Ended
    <2>2. Len(callers) = Len(frames) - 1 /\ Len(frames) \in Nat \ {0} /\ running \in Frames
      BY <1>1, <2>1, Topmost
    <2>3. Len(frames) = 1
      <3>1. \A n \in Nat : n - 1 = 0 => n = 1
        OBVIOUS
      <3>2. Len(frames) \in Nat /\ Len(frames) - 1 = 0
        BY <1>2, <2>1, <2>2
      <3> QED
        BY <3>1, <3>2
    <2>4. running = frames[1]
      BY <2>3 DEF running
    <2>5. running.snapshot = accepted(txStart, msg)
      BY <1>1, <2>1, <2>4 DEF FeeInv
    <2> DEFINE u == running.snapshot
               g == res.gasLeft
               h == res.gasLeft - CodeSize[res.ret] * 200
               s == SetCode(Base, t, running.address, res.ret)
    <2>6. \/ r = result(res.err, g, u)
          \/ r = result("", g, t)
          \/ r = result("ErrMaxCodeSizeExceeded", 0, u)
          \/ r = result("ErrCodeStoreOutOfGas", 0, u)
          \/ r = created("", h, s)
      BY <2>1, <2>2, LeaveForm, ZenonT(60) DEF Fails
    <2> HIDE DEF u, g, h, s
    <2>7. ASSUME NEW x, NEW y, NEW z
          PROVE  /\ r = result(x, y, z) => r.tree = z /\ r.err = x
                 /\ r = created(x, y, z) => r.err = x
      BY DEF result, created
    <2>8. r # result("", g, t) /\ r # created("", h, s)
      BY <2>7, Zenon DEF Fails
    <2>9. r.tree = u
      BY <2>6, <2>7, <2>8, Zenon
    <2> QED
      BY <2>5, <2>9 DEF u
  <1>4. CASE Failed(below, op, r)
    <2>1. PICK c \in Calls : LET e == enter(tree, c, Len(below) + 1) IN
            /\ Calling(below, c) /\ e.err # "" /\ r = result(e.err, e.gasLeft, e.tree)
      BY <1>4 DEF Failed
    <2>2. frames = << >> /\ c = topmost(msg)
      <3>1. Calling(below, c)
        BY <2>1
      <3> QED
        BY <1>1, <3>1, CallingBottom
    <2> DEFINE e == enter(tree, c, Len(below) + 1)
    <2>3. Len(below) + 1 = 1
      BY <1>2
    <2>4. r.tree = e.tree /\ e.err # ""
      BY <2>1, Zenon DEF result
    <2>5. e = enter(tree, topmost(msg), 1)
      BY <2>2, <2>3
    <2> HIDE DEF e
    <2> QED
      BY <1>1, <2>2, <2>4, <2>5, TopmostBack
  <1>5. CASE Unpaid(below, op, r)
    <2>1. PICK g \in Gas : below = setGas(frames, g) /\ frames # << >>
      BY <1>5 DEF Unpaid
    <2>2. frames \in Seq(Frames)
      BY <1>1
    <2>3. setGas(frames, g) # << >>
      BY <2>1, <2>2, SetGas
    <2> QED
      BY <2>1, <2>3
  <1> QED
    BY <1>3, <1>4, <1>5 DEF Hands

LEMMA FeeInit == Init => FeeInv
  <1> SUFFICES ASSUME Init PROVE FeeInv
    OBVIOUS
  <1>1. CallInv /\ GasInv
    BY CallInit, GasInit
  <1>2. msg = NoMsg /\ tree = NewTree
    BY DEF Init
  <1>3. Swept(NewTree)
    BY DEF Swept, NewTree
  <1> QED
    BY <1>1, <1>2, <1>3 DEF FeeInv

LEMMA FeeNext ==
  ASSUME CreationsStay, Forks["EIP150"], FeeInv, [Next]_vars
  PROVE  FeeInv'
  <1>1. CallInv /\ CallInv' /\ GasInv /\ GasInv' /\ TypeInv
    BY CallNext, GasNext DEF FeeInv, CallInv
  <1>2. frames \in Seq(Frames) /\ tree \in Trees
    BY <1>1 DEF TypeInv, TypeOK
  <1>3. ASSUME UNCHANGED <<tree, msg, frames, txStart>>
        PROVE  FeeInv'
    BY <1>1, <1>3 DEF FeeInv
  <1>4. ASSUME NEW m \in Transactions, Accept(m)
        PROVE  FeeInv'
    <2>1. /\ msg = NoMsg /\ preCheck(m) = "" /\ msg' = m /\ frames' = frames
          /\ txStart' = tree
          /\ tree' = IF m.to = Creation THEN bought(tree, m) ELSE accepted(tree, m)
      BY <1>4, Zenon DEF Accept, bought, accepted
    <2>2. m \in Messages
      BY BlockConstants
    <2>3. ~NotEnoughFunds(Base, tree, m.from, upfrontGasCost(m))
      BY <2>1, <2>2, Checked
    <2>4. frames = << >>
      BY <1>1, <2>1 DEF TypeInv, Started
    <2>5. Swept(tree) /\ m # NoMsg
      BY <2>1, <2>2, BlockConstants DEF FeeInv
    <2> QED
      BY <1>1, <2>1, <2>3, <2>4, <2>5 DEF FeeInv
  <1>5. ASSUME msg # NoMsg, msg' = msg, txStart' = txStart, frames' # << >>,
               frames'[1].snapshot = accepted(txStart, msg)
        PROVE  FeeInv'
    BY <1>1, <1>5 DEF FeeInv
  <1>6. ASSUME NEW t \in Trees, NEW g \in Gas, frames # << >>, Goes(t, g)
        PROVE  FeeInv'
    <2>1. frames' = setGas(frames, g) /\ msg' = msg /\ txStart' = txStart
      BY <1>6 DEF Goes, block
    <2>2. msg # NoMsg
      BY <1>1, <1>6 DEF TypeInv, Started
    <2> QED
      BY <1>2, <1>5, <1>6, <2>1, <2>2, SetGas, BottomKept DEF FeeInv
  <1>7. ASSUME NEW below \in Seq(Frames), NEW op \in CallOps, NEW r \in Results,
               Hands(below, op, r)
        PROVE  FeeInv'
    <2>1. Return(below, op, r) /\ msg # NoMsg /\ r.tree \in Trees /\ r.gasLeft \in Gas
      BY <1>7 DEF Hands, Results
    <2>2. CASE below = << >>
      <3>1. Settle(r.tree, r.err, r.gasLeft)
        BY <2>1, <2>2, ReturnForm
      <3>2. PICK left \in Gas, used \in Gas :
              tree' = settled(r.tree, left, used) /\ msg' = NoMsg
        BY <1>1, <2>1, <3>1, SettleForm
      <3>3. Swept(tree')
        BY <1>1, <2>1, <3>2, SettledSwept
      <3> QED
        BY <1>1, <3>2, <3>3 DEF FeeInv
    <2>3. CASE below # << >>
      <3> DEFINE g == (below[Len(below)].gas + r.gasLeft) % Word
      <3>1. /\ frames' = setGas(below, g) /\ msg' = msg /\ txStart' = txStart
        <4>1. frames' = setGas(below, g)
          BY <2>1, <2>3, ReturnForm
        <4>2. msg' = msg
          BY <2>1, <2>3, ReturnForm
        <4>3. txStart' = txStart
          BY <2>1, <2>3, ReturnForm
        <4> QED
          BY <4>1, <4>2, <4>3
      <3>2. g \in Gas
        <4>1. below[Len(below)] \in Frames
          BY <2>3
        <4>2. below[Len(below)].gas \in Gas
          BY <4>1 DEF Frames, Gas
        <4> QED
          BY <2>1, <4>2, TxnConstants DEF Gas
      <3> HIDE DEF g
      <3>3. frames # << >> /\ below[1].snapshot = frames[1].snapshot
        BY <1>1, <1>7, <2>3, HandsBottom
      <3>4. frames' # << >> /\ frames'[1].snapshot = below[1].snapshot
        BY <2>3, <3>1, <3>2, SetGas, BottomKept
      <3> QED
        BY <1>5, <2>1, <3>1, <3>3, <3>4 DEF FeeInv
    <2> QED
      BY <2>2, <2>3
  <1>8. ASSUME NEW below \in Seq(Frames), NEW c \in Calls, Enters(below, c)
        PROVE  FeeInv'
    <2> DEFINE e == enter(tree, c, Len(below) + 1)
               f == frameOf(c, e.snapshot)
    <2>1. /\ Calling(below, c) /\ frames' = Append(below, f)
          /\ msg' = msg /\ txStart' = txStart
      BY <1>8 DEF Enters
    <2>2. f \in Frames /\ f.snapshot = e.snapshot
      <3>1. e.snapshot \in Trees
        BY <1>2, DepthType, EnterType
      <3> HIDE DEF e
      <3> QED
        BY <3>1, FrameType DEF frameOf
    <2>3. msg # NoMsg
      BY <1>1, <2>1 DEF Calling, TypeInv, Started
    <2>4. IF frames = << >> THEN below = << >> /\ c = topmost(msg)
          ELSE below # << >> /\ below[1].snapshot = frames[1].snapshot
      BY <1>1, <2>1, CallingBottom
    <2>5. CASE frames = << >>
      <3>1. e = enter(tree, topmost(msg), 1)
        BY <2>4, <2>5
      <3>2. e.snapshot = accepted(txStart, msg)
        BY <2>3, <2>5, <3>1, TopmostBack
      <3> HIDE DEF f, e
      <3>3. frames' = << f >>
        BY <2>1, <2>4, <2>5
      <3> QED
        BY <1>5, <2>1, <2>2, <2>3, <3>2, <3>3
    <2>6. CASE frames # << >>
      <3> HIDE DEF f
      <3>1. frames'[1] = below[1] /\ frames' # << >>
        BY <2>1, <2>2, <2>4, <2>6, BottomKept, AppendProperties
      <3> QED
        BY <1>5, <2>1, <2>3, <2>4, <2>6, <3>1 DEF FeeInv
    <2> QED
      BY <2>5, <2>6
  <1>9. CASE Step
    <2>1. Transacts
      BY <1>1, <1>9, TransactForm
    <2> QED
      BY <1>6, <1>7, <1>8, <2>1 DEF Transacts
  <1>10. ASSUME NEW m \in Transactions, Reject(m)
         PROVE  UNCHANGED <<tree, msg, frames, txStart>>
    BY <1>10, Zenon DEF Reject
  <1>11. UNCHANGED vars => UNCHANGED <<tree, msg, frames, txStart>>
    BY DEF vars
  <1> QED
    BY <1>3, <1>4, <1>9, <1>10, <1>11 DEF Next

\* What the end of a transaction does to the state, and says of it.
LEMMA SettleResult ==
  ASSUME TypeInv, msg # NoMsg, NEW t \in Trees, NEW e, NEW g \in Gas, Settle(t, e, g)
  PROVE  \E left \in Gas, used \in Gas :
           /\ g <= msg.gas => left + used = msg.gas
           /\ tree' = settled(t, left, used)
           /\ last'.err = e /\ last'.used = used /\ last'.logs = Len(t.logs)
  <1>1. PICK left \in Gas, used \in Gas :
          /\ g <= msg.gas => left + used = msg.gas
          /\ tree' = settled(t, left, used)
          /\ gasPool' = (gasPool + left) % Word
          /\ totalGas' = (totalGas + used) % Word
          /\ frames' = << >>
          /\ last' = [NoResult EXCEPT !.op = "TX", !.err = e, !.used = used,
                                      !.logs = Len(t.logs)]
          /\ msg' = NoMsg
          /\ txs' = txs /\ txStart' = txStart /\ applied' = applied
    BY SettleForm
  <1>2. last'.err = e /\ last'.used = used /\ last'.logs = Len(t.logs)
    BY <1>1 DEF NoResult
  <1> QED
    BY <1>1, <1>2

\* What the end of a failed transaction leaves.
LEMMA FailureOnlyPays ==
  ASSUME CreationsStay, CoinbaseBare, Forks["EIP150"], FeeInv, [Next]_vars,
         FailedTx
  PROVE  LET fee == last'.used * msg.gasPrice IN
         /\ last'.logs = 0
         /\ \A a \in Addrs :
              /\ GetBalance(Base, tree', a) = GetBalance(Base, txStart, a)
                   - (IF a = msg.from THEN fee ELSE 0)
                   + (IF a = Coinbase THEN fee ELSE 0)
              /\ GetNonce(Base, tree', a) = GetNonce(Base, txStart, a)
                   + (IF a = msg.from THEN 1 ELSE 0)
              /\ GetCode(Base, Codes, tree', a) = GetCode(Base, Codes, txStart, a)
              /\ \A k \in Keys :
                   GetState(Base, tree', a, k) = GetState(Base, txStart, a, k)
  <1>1. TypeInv /\ TypeInv' /\ GasInv /\ GasNeverMinted
    BY TypeNext DEF FeeInv, CallInv, GasInv
  <1>0. msg # NoMsg /\ msg' = NoMsg
    BY Zenon DEF FailedTx
  <1>2. txStart \in Trees /\ tree' \in Trees /\ msg \in Messages
    BY <1>0, <1>1 DEF TypeInv, TypeOK
  <1>3. Step
    <2>1. \A m \in Transactions : ~Accept(m)
      BY <1>0 DEF Accept
    <2>2. \A m \in Transactions : ~Reject(m)
      BY <1>0, Zenon DEF Reject
    <2>3. ~UNCHANGED vars
      BY <1>0 DEF vars
    <2> QED
      BY <2>1, <2>2, <2>3 DEF Next
  <1>4. Transacts
    BY <1>0, <1>1, <1>3, TransactForm
  <1>5. PICK below \in Seq(Frames), op \in CallOps, r \in Results : Hands(below, op, r)
    <2>1. \A t, g : ~Goes(t, g)
      BY <1>0 DEF Goes, block
    <2>2. \A below, c : ~Enters(below, c)
      BY <1>0 DEF Enters
    <2> QED
      BY <1>4, <2>1, <2>2 DEF Transacts
  <1>6. Return(below, op, r) /\ r.tree \in Trees /\ r.gasLeft \in Gas
    BY <1>5 DEF Hands, Results
  <1>7. below = << >>
    BY <1>0, <1>6, ReturnForm
  <1>8. Settle(r.tree, r.err, r.gasLeft)
    BY <1>6, <1>7, ReturnForm
  <1>9. PICK left \in Gas, used \in Gas :
          /\ r.gasLeft <= msg.gas => left + used = msg.gas
          /\ tree' = settled(r.tree, left, used)
          /\ last'.err = r.err /\ last'.used = used /\ last'.logs = Len(r.tree.logs)
    BY <1>0, <1>1, <1>6, <1>8, SettleResult
  <1>10. last'.err = r.err /\ last'.used = used /\ last'.logs = Len(r.tree.logs)
    BY <1>9
  <1>11. left + used = msg.gas
    <2>1. Held(below) + r.gasLeft <= Bought /\ Held(below) \in Nat
      BY <1>1, <1>5, HandsGas, HeldGas
    <2>2. Bought \in Gas /\ Bought <= msg.gas /\ msg.gas \in Gas
      BY <1>0, <1>1, BoughtType
    <2>3. Gas \subseteq Nat
      BY TxnConstants DEF Gas
    <2>4. r.gasLeft <= msg.gas
      <3>1. \A x \in Nat, y \in Nat, b \in Nat, m \in Nat :
              x + y <= b /\ b <= m => y <= m
        OBVIOUS
      <3>2. Bought \in Nat /\ msg.gas \in Nat /\ r.gasLeft \in Nat
        BY <1>6, <2>2, <2>3, Zenon
      <3> QED
        BY <2>1, <2>2, <3>1, <3>2, Zenon
    <2> QED
      BY <1>9, <2>4
  <1>12. r.tree = accepted(txStart, msg)
    <2>1. Fails(r)
      BY <1>10, Zenon DEF FailedTx, Fails
    <2> QED
      BY <1>5, <1>7, <2>1, FailureGoesBack
  <1>13. /\ Swept(txStart)
         /\ ~NotEnoughFunds(Base, txStart, msg.from, upfrontGasCost(msg))
    BY <1>0 DEF FeeInv
  <1>14. last'.logs = 0
    <2>1. r.tree.logs = << >>
      <3>1. accepted(txStart, msg).logs = txStart.logs
        BY <1>2, <1>13, AcceptedReads, Zenon
      <3> QED
        BY <1>12, <1>13, <3>1 DEF Swept
    <2> QED
      BY <1>10, <2>1
  <1>15. ASSUME NEW a \in Addrs
         PROVE  LET o == objectOrNew(Base, txStart, a)
                    p == objectOrNew(Base, tree', a)
                    fee == used * msg.gasPrice
                IN /\ Alike(o, p)
                   /\ p.nonce = o.nonce + (IF a = msg.from THEN 1 ELSE 0)
                   /\ p.balance = o.balance - (IF a = msg.from THEN fee ELSE 0)
                                            + (IF a = Coinbase THEN fee ELSE 0)
    <2>1. tree' = settled(accepted(txStart, msg), left, used)
      BY <1>9, <1>12
    <2> DEFINE u == settled(accepted(txStart, msg), left, used)
    <2>2. LET o == objectOrNew(Base, txStart, a)
              p == objectOrNew(Base, u, a)
              fee == used * msg.gasPrice
          IN /\ Alike(o, p)
             /\ p.nonce = o.nonce + (IF a = msg.from THEN 1 ELSE 0)
             /\ p.balance = o.balance - (IF a = msg.from THEN fee ELSE 0)
                                      + (IF a = Coinbase THEN fee ELSE 0)
      BY <1>0, <1>1, <1>2, <1>11, <1>13, FailedReads
    <2>3. tree' = u
      BY <2>1
    <2> HIDE DEF u
    <2> QED
      BY <2>2, <2>3, Zenon
  <1>16. ASSUME NEW a \in Addrs
         PROVE  /\ GetCode(Base, Codes, tree', a) = GetCode(Base, Codes, txStart, a)
                /\ \A k \in Keys :
                     GetState(Base, tree', a, k) = GetState(Base, txStart, a, k)
    BY <1>2, <1>15, AlikeReads
  <1>17. ASSUME NEW a \in Addrs
         PROVE  /\ GetBalance(Base, tree', a) = GetBalance(Base, txStart, a)
                     - (IF a = msg.from THEN last'.used * msg.gasPrice ELSE 0)
                     + (IF a = Coinbase THEN last'.used * msg.gasPrice ELSE 0)
                /\ GetNonce(Base, tree', a) = GetNonce(Base, txStart, a)
                     + (IF a = msg.from THEN 1 ELSE 0)
    BY <1>10, <1>15, Zenon DEF GetBalance, GetNonce
  <1> QED
    BY <1>14, <1>16, <1>17, Zenon

\* FailedTxOnlyPaysFee, since EIP-150: however deep the calls of a failed
\* transaction went and whatever they wrote, created or destroyed, the snapshot
\* that applyCall or applyCreate reverts to is the state right after the nonce
\* and the purchase of the gas; the refund and the two payments of apply come to
\* the fee, and CleanDeleteObjects takes nothing else along.
THEOREM FailedTransactionsOnlyPay ==
  ASSUME CreationsStay, CoinbaseBare, Forks["EIP150"]
  PROVE  Spec => FailedTxOnlyPaysFee
  <1>1. Init => FeeInv
    BY FeeInit
  <1>2. FeeInv /\ [Next]_vars => FeeInv'
    BY FeeNext
  <1>3. FeeInv /\ [Next]_vars =>
          [(msg # NoMsg /\ msg' = NoMsg /\ last'.err # "" /\ Forks["Homestead"]) =>
             LET fee == last'.used * msg.gasPrice IN
             /\ last'.logs = 0
             /\ \A a \in Addrs :
                  /\ GetBalance(Base, tree', a) = GetBalance(Base, txStart, a)
                       - (IF a = msg.from THEN fee ELSE 0)
                       + (IF a = Coinbase THEN fee ELSE 0)
                  /\ GetNonce(Base, tree', a) = GetNonce(Base, txStart, a)
                       + (IF a = msg.from THEN 1 ELSE 0)
                  /\ GetCode(Base, Codes, tree', a) = GetCode(Base, Codes, txStart, a)
                  /\ \A k \in Keys :
                       GetState(Base, tree', a, k) = GetState(Base, txStart, a, k)]_vars
    <2>1. (msg # NoMsg /\ msg' = NoMsg /\ last'.err # "" /\ Forks["Homestead"])
            => FailedTx
      BY Zenon DEF FailedTx, Fails
    <2> QED
      BY <2>1, FailureOnlyPays, Zenon
  <1> QED
    BY <1>1, <1>2, <1>3, PTL DEF Spec, FailedTxOnlyPaysFee

\* NothingLeftOver, since EIP-150: however a transaction ends, CleanDeleteObjects
\* comes last, so no mark, refund, log or empty account of it is there when the
\* next one starts or Commit writes the block out.
THEOREM NothingIsLeftOver ==
  ASSUME CreationsStay, Forks["EIP150"]
  PROVE  Spec => []NothingLeftOver
  <1>1. Init => FeeInv
    BY FeeInit
  <1>2. FeeInv /\ [Next]_vars => FeeInv'
    BY FeeNext
  <1>3. FeeInv => NothingLeftOver
    BY DEF FeeInv, NothingLeftOver
  <1> QED
    BY <1>1, <1>2, <1>3, PTL DEF Spec
====

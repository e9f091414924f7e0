----------------------------- MODULE TxnProofs -----------------------------
(***************************************************************************)
(* Theorems about Txn, for every set of addresses, slots, values and codes,*)
(* every fork and every number of calls.                                   *)
(***************************************************************************)
EXTENDS Txn, TxnOpsProofs

-----------------------------------------------------------------------------
(* Which writes clear a slot.                                              *)

\* The cleared slots are determined by the trees' objects.
LEMMA ClearedSameObjects ==
  ASSUME NEW b \in Bases, NEW t \in Trees, NEW u \in Trees, u.objs = t.objs
  PROVE  Cleared(b, u) = Cleared(b, t)
  BY DEF Cleared, GetState, GetCommittedState, Exist, getStateObject

\* An object written back with its storage as it was clears no slot, and
\* neither does one whose storage starts over.
LEMMA ClearedByInsert ==
  ASSUME NEW b \in Bases, NEW t \in Trees, NEW a \in Addrs, NEW o \in Objects,
         ~o.deleted,
         \/ /\ o.root = objectOrNew(b, t, a).root
            /\ o.slots = objectOrNew(b, t, a).slots
         \/ o.root = EmptyStateHash
  PROVE  Cleared(b, insert(t, a, o)) \subseteq Cleared(b, t)
  <1> DEFINE u == insert(t, a, o)
  <1>1. u \in Trees
    BY InsertType
  <1>2. SUFFICES ASSUME NEW s \in Cleared(b, u) PROVE s \in Cleared(b, t)
    OBVIOUS
  <1>3. s \in Slots /\ s[1] \in Addrs /\ s[2] \in Keys
    BY DEF Cleared, Slots
  <1>4. /\ objectOrNew(b, u, s[1]).root[s[2]] # Zero
        /\ storageOf(objectOrNew(b, u, s[1]))[s[2]] = Zero
    BY <1>1, <1>3, SlotReads DEF Cleared
  <1>5. CASE s[1] = a
    <2>1. objectOrNew(b, u, a) = o
      BY ReadInserted
    <2>2. o.root # EmptyStateHash
      BY <2>1, <1>3, <1>4, <1>5 DEF EmptyStateHash
    <2>3. storageOf(o) = storageOf(objectOrNew(b, t, a))
      BY <2>2 DEF storageOf
    <2> QED
      BY <1>3, <1>4, <1>5, <2>1, <2>2, <2>3, SlotReads DEF Cleared
  <1>6. CASE s[1] # a
    <2>1. objectOrNew(b, u, s[1]) = objectOrNew(b, t, s[1])
      BY <1>3, <1>6, ReadInserted
    <2> QED
      BY <1>3, <1>4, <2>1, SlotReads DEF Cleared
  <1> QED
    BY <1>5, <1>6

-----------------------------------------------------------------------------
(* The refund counter against the slots it stands for.                     *)

\* What a tree owes the refund counter, and the most n calls can have added.
Covered(b, t, n) ==
  15000 * Cardinality(Cleared(b, t)) <= t.refund /\ t.refund <= 24000 * n

\* Finitely many slots can be cleared.
LEMMA ClearedFinite ==
  ASSUME NEW b, NEW t
  PROVE  IsFiniteSet(Cleared(b, t)) /\ Cardinality(Cleared(b, t)) \in Nat
  <1>1. IsFiniteSet(Slots)
    BY TxnConstants, FS_Product DEF Slots
  <1>2. IsFiniteSet(Cleared(b, t))
    BY <1>1, FS_Subset DEF Cleared
  <1> QED
    BY <1>2, FS_CardinalityType

\* A call that clears no slot and adds at most 24000 keeps the counter covered.
LEMMA CoveredStep ==
  ASSUME NEW b \in Bases, NEW t \in Trees, NEW u \in Trees, NEW n \in Nat,
         Covered(b, t, n), Cleared(b, u) \subseteq Cleared(b, t),
         t.refund <= u.refund, u.refund <= t.refund + 24000
  PROVE  Covered(b, u, n + 1)
  <1>1. /\ Cardinality(Cleared(b, u)) \in Nat
        /\ Cardinality(Cleared(b, t)) \in Nat
        /\ Cardinality(Cleared(b, u)) <= Cardinality(Cleared(b, t))
    BY ClearedFinite, FS_Subset
  <1>2. t.refund \in Nat /\ u.refund \in Nat
    BY TxnConstants DEF Trees
  <1> QED
    BY <1>1, <1>2 DEF Covered

\* SetStorage clears or restores its one slot, and the counter follows.
LEMMA CoveredSetStorage ==
  ASSUME NEW b \in Bases, NEW t \in Trees, NEW a \in Addrs, NEW k \in Keys,
         NEW v \in Vals, NEW n \in Nat, Covered(b, t, n), n < MaxOps
  PROVE  /\ SetStorage(b, t, a, k, v) \in Trees
         /\ Covered(b, SetStorage(b, t, a, k, v), n + 1)
  <1> DEFINE current == GetState(b, t, a, k)
             original == GetCommittedState(b, t, a, k)
             r == RefundOf(original, current, v)
             u == SetState(b, t, a, k, v)
             w == IF r[1] = 0 THEN u ELSE SubRefund(u, r[1])
             C == Cleared(b, t)
             s == <<a, k>>
  <1>0. t.refund \in Nat /\ IsFiniteSet(C) /\ Cardinality(C) \in Nat
    BY ClearedFinite, TxnConstants DEF Trees
  <1>1. CASE current = v
    BY <1>1, <1>0, CoveredStep DEF SetStorage
  <1>2. CASE current # v
    <2>1. current \in Vals /\ original \in Vals
      BY SlotReads
    <2>2. u \in Trees /\ u.refund = t.refund
      <3>1. [objectOrNew(b, t, a) EXCEPT !.slots[k] = v] \in Objects
        BY ObjectType DEF Objects
      <3> QED
        BY <3>1, InsertType DEF SetState
    <2>3. /\ r[1] \in Nat /\ r[2] \in Nat
          /\ r[1] = 0 \/ (r[1] = 15000 /\ original # Zero /\ current = Zero)
          /\ r[2] <= 19800
          /\ original # Zero /\ v = Zero => r[1] = 0 /\ r[2] >= 15000
      BY <1>2, <2>1, RefundSizes
    <2>4. s \in C <=> original # Zero /\ current = Zero
      BY DEF Cleared, Slots
    <2>5. Cleared(b, u) = IF original # Zero /\ v = Zero
                          THEN C \cup {s} ELSE C \ {s}
      <3>1. ASSUME NEW x \in Addrs, NEW y \in Keys
            PROVE  <<x, y>> \in Cleared(b, u) <=>
                     IF x = a /\ y = k THEN original # Zero /\ v = Zero
                     ELSE <<x, y>> \in C
        BY SetStateReads DEF Cleared, Slots
      <3> QED
        BY <3>1 DEF Cleared, Slots
    <2>6. t.refund >= r[1]
      <3>1. CASE r[1] = 0
        BY <3>1, <1>0
      <3>2. CASE r[1] # 0
        <4>1. C # {}
          BY <3>2, <2>3, <2>4
        <4>2. Cardinality(C) >= 1
          BY <4>1, <1>0, FS_EmptySet
        <4> QED
          BY <4>2, <1>0, <2>3 DEF Covered
      <3> QED
        BY <3>1, <3>2
    <2>7. w \in Trees /\ w.objs = u.objs /\ w.refund = t.refund - r[1]
      <3>1. /\ SubRefund(u, r[1]) \in Trees
            /\ SubRefund(u, r[1]).objs = u.objs
            /\ SubRefund(u, r[1]).refund = u.refund - r[1]
        <4>1. \A x \in Trees, g \in Nat :
                x.refund >= g => /\ SubRefund(x, g) \in Trees
                                 /\ SubRefund(x, g).objs = x.objs
                                 /\ SubRefund(x, g).refund = x.refund - g
          BY RefundType
        <4>2. u.refund >= r[1] /\ r[1] \in Nat
          BY <2>2, <2>3, <2>6
        <4> HIDE DEF u, r
        <4> QED
          BY <4>1, <4>2, <2>2
      <3> HIDE DEF u, r
      <3> QED
        BY <3>1, <2>2, <1>0
    <2> HIDE DEF w, r, u, C, s
    <2>8. t.refund <= 24000 * n /\ 24000 * (n + 1) < Word
      BY CallConstants, TxnConstants DEF Covered
    <2> DEFINE z == IF r[2] = 0 THEN w ELSE AddRefund(w, r[2])
    <2>9. /\ z \in Trees /\ z.objs = u.objs
          /\ z.refund = t.refund - r[1] + r[2]
      <3>1. w.refund + r[2] < Word
        BY <2>3, <2>6, <2>7, <2>8, <1>0, TxnConstants
      <3>2. /\ AddRefund(w, r[2]) \in Trees
            /\ AddRefund(w, r[2]).objs = w.objs
            /\ AddRefund(w, r[2]).refund = w.refund + r[2]
        <4>1. \A x \in Trees, g \in Nat :
                x.refund + g < Word => /\ AddRefund(x, g) \in Trees
                                       /\ AddRefund(x, g).objs = x.objs
                                       /\ AddRefund(x, g).refund = x.refund + g
          BY RefundType
        <4> QED
          BY <4>1, <3>1, <2>3, <2>7
      <3> QED
        BY <3>2, <2>3, <2>7, <1>0
    <2>10. SetStorage(b, t, a, k, v) = z
      BY <1>2 DEF SetStorage, w, r, u
    <2> HIDE DEF z
    <2>11. Cleared(b, z) = Cleared(b, u)
      BY <2>2, <2>9, ClearedSameObjects
    <2>12. 15000 * Cardinality(Cleared(b, u)) <= z.refund
      <3>1. Cardinality(C \cup {s}) = IF s \in C THEN Cardinality(C)
                                      ELSE Cardinality(C) + 1
        BY <1>0, FS_AddElement
      <3>2. Cardinality(C \ {s}) = IF s \in C THEN Cardinality(C) - 1
                                   ELSE Cardinality(C)
        BY <1>0, FS_RemoveElement
      <3>3. /\ Cardinality(C \cup {s}) \in Nat
            /\ Cardinality(C \ {s}) \in Nat
        BY <2>5, ClearedFinite, <1>0, FS_AddElement, FS_RemoveElement,
           FS_CardinalityType
      <3>4. 15000 * Cardinality(C) <= t.refund
        BY DEF Covered, C
      <3>5. CASE original # Zero /\ v = Zero
        BY <3>1, <3>3, <3>4, <3>5, <1>0, <2>3, <2>5, <2>9
      <3>6. CASE ~(original # Zero /\ v = Zero)
        BY <3>2, <3>3, <3>4, <3>6, <1>0, <2>3, <2>4, <2>5, <2>9
      <3> QED
        BY <3>5, <3>6
    <2>13. z.refund <= 24000 * (n + 1)
      BY <1>0, <2>3, <2>6, <2>8, <2>9
    <2> QED
      BY <2>9, <2>10, <2>11, <2>12, <2>13 DEF Covered
  <1> QED
    BY <1>1, <1>2

\* No other writer clears a slot or touches the counter.
LEMMA ClearedByWriter ==
  ASSUME NEW b \in Bases, NEW t \in Trees, NEW a \in Addrs
  PROVE  LET kept(u) == /\ Cleared(b, u) \subseteq Cleared(b, t)
                        /\ u.refund = t.refund
         IN /\ kept(TouchAccount(b, t, a))
            /\ kept(IncrNonce(b, t, a))
            /\ kept(Suicide(b, t, a))
            /\ kept(CreateAccount(b, t, a))
            /\ kept(EmitLog(t, a))
            /\ kept(DropLogs(t))
            /\ \A n \in Nat : /\ kept(AddBalance(b, t, a, n))
                              /\ kept(SubBalance(b, t, a, n))
                              /\ kept(SetBalance(b, t, a, n))
                              /\ kept(AddSealingReward(b, t, a, n))
                              /\ kept(SetNonce(b, t, a, n))
            /\ \A c \in Codes : kept(SetCode(b, t, a, c))
  <1> DEFINE kept(u) == /\ Cleared(b, u) \subseteq Cleared(b, t)
                        /\ u.refund = t.refund
             o == objectOrNew(b, t, a)
             fresh == newStateObject
  <1>1. /\ o \in Objects /\ ~o.deleted /\ o.balance \in Nat /\ o.nonce \in Nat
        /\ fresh \in Objects /\ ~fresh.deleted /\ fresh.root = EmptyStateHash
    <2>1. o \in Objects /\ fresh \in Objects
      BY ObjectType, NewObjectType
    <2> QED
      BY <2>1, NotDeleted DEF Objects, newStateObject
  <1>2. ASSUME NEW p \in Objects, ~p.deleted,
               (p.root = o.root /\ p.slots = o.slots) \/ p.root = EmptyStateHash
        PROVE  kept(insert(t, a, p))
    BY <1>2, ClearedByInsert, InsertType
  <1>3. ASSUME NEW u \in Trees, u.objs = t.objs, u.refund = t.refund
        PROVE  kept(u)
    BY <1>3, ClearedSameObjects
  <1> HIDE DEF kept, o, fresh
  <1>4. kept(TouchAccount(b, t, a)) /\ kept(IncrNonce(b, t, a))
    <2> DEFINE p == [o EXCEPT !.nonce = @ + 1]
    <2>1. p \in Objects /\ ~p.deleted /\ p.root = o.root /\ p.slots = o.slots
      BY <1>1 DEF Objects
    <2>2. TouchAccount(b, t, a) = insert(t, a, o) /\ IncrNonce(b, t, a) = insert(t, a, p)
      BY DEF TouchAccount, IncrNonce, o
    <2> HIDE DEF p
    <2> QED
      BY <1>1, <1>2, <2>1, <2>2
  <1>5. kept(Suicide(b, t, a))
    <2>1. CASE ~Exist(b, t, a)
      BY <2>1, <1>3 DEF Suicide
    <2>2. CASE Exist(b, t, a)
      <3> DEFINE p == [o EXCEPT !.suicide = TRUE, !.balance = 0]
      <3>1. p \in Objects /\ ~p.deleted /\ p.root = o.root /\ p.slots = o.slots
        BY <1>1 DEF Objects
      <3>2. Suicide(b, t, a) = insert(t, a, p)
        BY <2>2 DEF Suicide, objectOrNew, o
      <3> HIDE DEF p
      <3> QED
        BY <1>2, <3>1, <3>2
    <2> QED
      BY <2>1, <2>2
  <1>6. kept(CreateAccount(b, t, a))
    <2> DEFINE p == [fresh EXCEPT !.balance = o.balance]
    <2>1. p \in Objects /\ ~p.deleted /\ p.root = EmptyStateHash
      BY <1>1 DEF Objects
    <2>2. CreateAccount(b, t, a) = insert(t, a, p)
      BY DEF CreateAccount, GetBalance, o, fresh
    <2> HIDE DEF p
    <2> QED
      BY <1>2, <2>1, <2>2
  <1>7. kept(EmitLog(t, a)) /\ kept(DropLogs(t))
    <2>1. /\ EmitLog(t, a).objs = t.objs /\ EmitLog(t, a).refund = t.refund
          /\ DropLogs(t).objs = t.objs /\ DropLogs(t).refund = t.refund
      BY DEF EmitLog, DropLogs, Trees
    <2> QED
      BY <1>3, <2>1, WriterType
  <1>8. ASSUME NEW n \in Nat
        PROVE  /\ kept(AddBalance(b, t, a, n))
               /\ kept(SubBalance(b, t, a, n))
               /\ kept(SetBalance(b, t, a, n))
               /\ kept(AddSealingReward(b, t, a, n))
               /\ kept(SetNonce(b, t, a, n))
    <2> DEFINE add == [o EXCEPT !.balance = @ + n]
               set == [o EXCEPT !.balance = n]
               sub == [o EXCEPT !.balance = @ - n]
               won == [fresh EXCEPT !.balance = n]
               nth == [o EXCEPT !.nonce = n]
    <2>1. /\ add \in Objects /\ ~add.deleted /\ add.root = o.root /\ add.slots = o.slots
          /\ set \in Objects /\ ~set.deleted /\ set.root = o.root /\ set.slots = o.slots
          /\ nth \in Objects /\ ~nth.deleted /\ nth.root = o.root /\ nth.slots = o.slots
          /\ won \in Objects /\ ~won.deleted /\ won.root = EmptyStateHash
      BY <1>1 DEF Objects
    <2>2. kept(SubBalance(b, t, a, n))
      <3>1. CASE n = 0 \/ NotEnoughFunds(b, t, a, n)
        BY <3>1, <1>3 DEF SubBalance
      <3>2. CASE ~(n = 0 \/ NotEnoughFunds(b, t, a, n))
        <4>1. o.balance >= n
          BY <3>2, <1>1 DEF NotEnoughFunds, GetBalance, o
        <4>2. sub \in Objects /\ ~sub.deleted /\ sub.root = o.root /\ sub.slots = o.slots
          BY <4>1, <1>1 DEF Objects
        <4>3. SubBalance(b, t, a, n) = insert(t, a, sub)
          BY <3>2 DEF SubBalance, o
        <4> HIDE DEF sub
        <4> QED
          BY <1>2, <4>2, <4>3
      <3> QED
        BY <3>1, <3>2
    <2>3. /\ AddBalance(b, t, a, n) = insert(t, a, add)
          /\ SetBalance(b, t, a, n) = insert(t, a, set)
          /\ SetNonce(b, t, a, n) = insert(t, a, nth)
          /\ AddSealingReward(b, t, a, n) = insert(t, a, IF o.suicide THEN won ELSE add)
      BY DEF AddBalance, SetBalance, SetNonce, AddSealingReward, o, fresh
    <2> HIDE DEF add, set, won, nth
    <2>4. kept(AddSealingReward(b, t, a, n))
      BY <1>2, <2>1, <2>3
    <2> QED
      BY <1>2, <2>1, <2>2, <2>3, <2>4
  <1>9. ASSUME NEW c \in Codes PROVE kept(SetCode(b, t, a, c))
    <2> DEFINE p == [o EXCEPT !.codeHash = c, !.dirtyCode = TRUE, !.code = c]
    <2>1. p \in Objects /\ ~p.deleted /\ p.root = o.root /\ p.slots = o.slots
      BY <1>1 DEF Objects
    <2>2. SetCode(b, t, a, c) = insert(t, a, p)
      BY DEF SetCode, o
    <2> HIDE DEF p
    <2> QED
      BY <1>2, <2>1, <2>2
  <1> QED
    BY <1>4, <1>5, <1>6, <1>7, <1>8, <1>9 DEF kept

\* Selfdestruct adds 24000 at most, and clears no slot.
LEMMA SelfdestructStep ==
  ASSUME NEW b \in Bases, NEW t \in Trees, NEW a \in Addrs, NEW x \in Addrs
  PROVE  LET u == Selfdestruct(b, t, a, x) IN
         /\ u \in Trees
         /\ Cleared(b, u) \subseteq Cleared(b, t)
         /\ t.refund + 24000 < Word =>
              t.refund <= u.refund /\ u.refund <= t.refund + 24000
  <1> DEFINE r == IF HasSuicided(b, t, a) THEN t ELSE AddRefund(t, 24000)
             n == GetBalance(b, r, a)
             p == AddBalance(b, r, x, n)
  <1>1. r \in Trees /\ r.objs = t.objs
    BY RefundType
  <1>2. t.refund + 24000 < Word =>
          t.refund <= r.refund /\ r.refund <= t.refund + 24000
    <2>1. t.refund \in Nat /\ Word \in Nat
      BY TxnConstants DEF Trees
    <2>2. t.refund + 24000 < Word =>
            AddRefund(t, 24000).refund = t.refund + 24000
      BY RefundType
    <2> QED
      BY <2>1, <2>2
  <1> HIDE DEF r
  <1>3. n \in Nat
    BY <1>1, ObjectType DEF GetBalance, Objects
  <1> HIDE DEF n
  <1>4. p \in Trees /\ Cleared(b, p) \subseteq Cleared(b, r) /\ p.refund = r.refund
    BY <1>1, <1>3, WriterType, ClearedByWriter
  <1> HIDE DEF p
  <1>5. /\ Suicide(b, p, a) \in Trees
        /\ Cleared(b, Suicide(b, p, a)) \subseteq Cleared(b, p)
        /\ Suicide(b, p, a).refund = p.refund
    BY <1>4, WriterType, ClearedByWriter
  <1>6. Cleared(b, r) = Cleared(b, t)
    BY <1>1, ClearedSameObjects
  <1>7. Selfdestruct(b, t, a, x) = Suicide(b, p, a)
    BY DEF Selfdestruct, p, n, r
  <1> QED
    BY <1>2, <1>4, <1>5, <1>6, <1>7

\* Writing a slot whose committed value is zero clears nothing.
LEMMA SetStateStep ==
  ASSUME NEW b \in Bases, NEW t \in Trees, NEW a \in Addrs, NEW k \in Keys,
         NEW v \in Vals, GetCommittedState(b, t, a, k) = Zero
  PROVE  /\ Cleared(b, SetState(b, t, a, k, v)) \subseteq Cleared(b, t)
         /\ SetState(b, t, a, k, v).refund = t.refund
  <1> DEFINE u == SetState(b, t, a, k, v)
  <1>1. u.refund = t.refund
    <2>1. [objectOrNew(b, t, a) EXCEPT !.slots[k] = v] \in Objects
      BY ObjectType DEF Objects
    <2> QED
      BY <2>1, InsertType DEF SetState
  <1>2. ASSUME NEW x \in Addrs, NEW y \in Keys, <<x, y>> \in Cleared(b, u)
        PROVE  <<x, y>> \in Cleared(b, t)
    BY <1>2, SetStateReads DEF Cleared, Slots
  <1>3. Cleared(b, u) \subseteq Cleared(b, t)
    BY <1>2 DEF Cleared, Slots
  <1> QED
    BY <1>1, <1>3

-----------------------------------------------------------------------------
(* Type correctness.                                                       *)

\* Each call of a transaction replaces the tree by a tree.
LEMMA CallType ==
  ASSUME base \in Bases, tree \in Trees, AccountCall \/ TakeLogs
  PROVE  \E t \in Trees : Write(t)
  <1>1. ASSUME TakeLogs PROVE \E t \in Trees : Write(t)
    <2>1. DropLogs(tree) \in Trees
      <3>1. << >> \in Seq(Log)
        OBVIOUS
      <3> QED
        BY <3>1 DEF DropLogs, Trees
    <2> QED
      BY <1>1, <2>1 DEF TakeLogs
  <1>2. ASSUME AccountCall PROVE \E t \in Trees : Write(t)
    <2>1. PICK a \in Addrs :
            \/ Touch(a) \/ BumpNonce(a) \/ Create(a) \/ Emit(a)
            \/ \E n \in Amounts :
                 Credit(a, n) \/ Debit(a, n) \/ AssignBalance(a, n) \/ Reward(a, n)
            \/ \E n \in Nonces : AssignNonce(a, n)
            \/ \E c \in Codes : StoreCode(a, c)
            \/ \E x \in Addrs : Destruct(a, x)
            \/ \E k \in Keys, v \in Vals : Store(a, k, v) \/ Fill(a, k, v)
      BY <1>2 DEF AccountCall
    <2>2. CASE Touch(a) \/ BumpNonce(a) \/ Create(a) \/ Emit(a)
      BY <2>2, WriterType DEF Touch, BumpNonce, Create, Emit
    <2>3. ASSUME NEW n \in Amounts,
                 Credit(a, n) \/ Debit(a, n) \/ AssignBalance(a, n) \/ Reward(a, n)
          PROVE  \E t \in Trees : Write(t)
      <3>1. n \in Nat
        BY CallConstants
      <3> QED
        BY <2>3, <3>1, WriterType DEF Credit, Debit, AssignBalance, Reward
    <2>4. ASSUME NEW n \in Nonces, AssignNonce(a, n) PROVE \E t \in Trees : Write(t)
      <3>1. n \in Nat
        BY CallConstants
      <3> QED
        BY <2>4, <3>1, WriterType DEF AssignNonce
    <2>5. ASSUME NEW c \in Codes, StoreCode(a, c) PROVE \E t \in Trees : Write(t)
      BY <2>5, WriterType DEF StoreCode
    <2>6. ASSUME NEW x \in Addrs, Destruct(a, x) PROVE \E t \in Trees : Write(t)
      BY <2>6, SelfdestructStep DEF Destruct
    <2>7. ASSUME NEW k \in Keys, NEW v \in Vals, Store(a, k, v) \/ Fill(a, k, v)
          PROVE  \E t \in Trees : Write(t)
      BY <2>7, WriterType, SetStorageType DEF Store, Fill
    <2> QED
      BY <2>1, <2>2, <2>3, <2>4, <2>5, <2>6, <2>7
  <1> QED
    BY <1>1, <1>2

\* The type invariant is inductive.
LEMMA TypeStep ==
  ASSUME TypeOK, [Next]_vars
  PROVE  TypeOK'
  <1>1. CASE AccountCall \/ TakeLogs
    <2>1. PICK t \in Trees : Write(t)
      BY <1>1, CallType DEF TypeOK
    <2> QED
      BY <2>1, CallConstants DEF TypeOK, Write, Count, overlay, session
  <1>2. CASE Snapshot
    <2>1. snapshots' \in Seq(Trees) /\ Len(snapshots') = Len(snapshots) + 1
      BY <1>2 DEF Snapshot, TypeOK
    <2> QED
      BY <1>2, <2>1, CallConstants DEF Snapshot, TypeOK, Count, overlay, session
  <1>3. ASSUME NEW id \in txSnap + 1 .. Len(snapshots), RevertToSnapshot(id)
        PROVE  TypeOK'
    <2>1. snapshots[id] \in Trees
      BY DEF TypeOK
    <2> QED
      BY <1>3, <2>1, CallConstants DEF RevertToSnapshot, TypeOK, Count, overlay, session
  <1>4. ASSUME NEW d \in BOOLEAN, CleanDelete(d) PROVE TypeOK'
    <2>1. CleanDeleteObjects(tree, d) \in Trees
      BY EndType DEF TypeOK
    <2> QED
      BY <1>4, <2>1, CallConstants DEF CleanDelete, TypeOK, Count, overlay
  <1>5. CASE NextTx
    BY <1>5, CallConstants DEF NextTx, TypeOK, Count, overlay
  <1>6. CASE Commit
    BY <1>6, CallConstants DEF Commit, TypeOK, Count, overlay
  <1>7. CASE Rebase
    <2>1. /\ CommitBase(base, tree) \in Bases
          /\ CommitCodes(codes, tree) \in SUBSET Codes
          /\ NewTree \in Trees
      BY EndType, NewTreeType DEF TypeOK
    <2> QED
      BY <1>7, <2>1, CallConstants DEF Rebase, TypeOK, Count
  <1>8. CASE UNCHANGED vars
    BY <1>8 DEF TypeOK, vars
  <1> QED
    BY <1>1, <1>2, <1>3, <1>4, <1>5, <1>6, <1>7, <1>8 DEF Next

\* Txn keeps its types through every sequence of calls: every object, account,
\* log and refund counter is well formed in the tree, in the snapshots to which
\* the code may revert, and in what Commit hands to the next snapshot.
THEOREM TypeCorrect == Spec => []TypeOK
  <1>1. Init => TypeOK
    <2> SUFFICES ASSUME Init PROVE TypeOK
      OBVIOUS
    <2>1. base \in Bases /\ codes \subseteq Codes
      BY CallConstants DEF Init, Bases, Accounts
    <2> QED
      BY <2>1, NewTreeType, CallConstants DEF Init, TypeOK
  <1>2. TypeOK /\ [Next]_vars => TypeOK'
    BY TypeStep
  <1> QED
    BY <1>1, <1>2, PTL DEF Spec

-----------------------------------------------------------------------------
(* The refund counter, in the first transaction on every overlay.          *)

\* The strengthening: the counter is covered in every tree the transaction may
\* be in, and the calls so far cannot have made it wrap.
RefundInv ==
  /\ TypeOK
  /\ txs >= 1
  /\ (phase = "open" /\ txs = 1) => \A t \in Live : Covered(base, t, ops)

\* The tree after a call of the transaction is covered.
LEMMA CallCovered ==
  ASSUME TypeOK, Covered(base, tree, ops), AccountCall \/ TakeLogs
  PROVE  Covered(base, tree', ops + 1)
  <1>1. base \in Bases /\ tree \in Trees /\ ops \in Nat
    BY DEF TypeOK
  <1>2. ops < MaxOps
    BY DEF AccountCall, TakeLogs, Touch, Credit, Debit, AssignBalance, Reward,
       BumpNonce, AssignNonce, StoreCode, Destruct, Create, Emit, Store, Fill,
       Write, Count
  <1>3. tree.refund \in Nat /\ tree.refund + 24000 < Word
    BY <1>1, <1>2, CallConstants, TxnConstants DEF Covered, Trees
  <1>4. ASSUME NEW u \in Trees, tree' = u, Cleared(base, u) \subseteq Cleared(base, tree),
               tree.refund <= u.refund, u.refund <= tree.refund + 24000
        PROVE  Covered(base, tree', ops + 1)
    BY <1>1, <1>4, CoveredStep
  <1>5. ASSUME NEW u \in Trees, tree' = u, Cleared(base, u) \subseteq Cleared(base, tree),
               u.refund = tree.refund
        PROVE  Covered(base, tree', ops + 1)
    BY <1>3, <1>4, <1>5
  <1>6. CASE TakeLogs
    <2>2. /\ DropLogs(tree) \in Trees
          /\ DropLogs(tree).objs = tree.objs
          /\ DropLogs(tree).refund = tree.refund
      <3>1. << >> \in Seq(Log)
        OBVIOUS
      <3> QED
        BY <1>1, <3>1 DEF DropLogs, Trees
    <2>3. Cleared(base, DropLogs(tree)) = Cleared(base, tree)
      BY <1>1, <2>2, ClearedSameObjects
    <2> QED
      BY <1>5, <1>6, <2>2, <2>3 DEF TakeLogs, Write
  <1>7. CASE AccountCall
    <2>1. PICK a \in Addrs :
            \/ Touch(a) \/ BumpNonce(a) \/ Create(a) \/ Emit(a)
            \/ \E n \in Amounts :
                 Credit(a, n) \/ Debit(a, n) \/ AssignBalance(a, n) \/ Reward(a, n)
            \/ \E n \in Nonces : AssignNonce(a, n)
            \/ \E c \in Codes : StoreCode(a, c)
            \/ \E x \in Addrs : Destruct(a, x)
            \/ \E k \in Keys, v \in Vals : Store(a, k, v) \/ Fill(a, k, v)
      BY <1>7 DEF AccountCall
    <2>2. CASE Touch(a) \/ BumpNonce(a) \/ Create(a) \/ Emit(a)
      BY <1>1, <1>5, <2>2, WriterType, ClearedByWriter
         DEF Touch, BumpNonce, Create, Emit, Write
    <2>3. ASSUME NEW n \in Amounts,
                 Credit(a, n) \/ Debit(a, n) \/ AssignBalance(a, n) \/ Reward(a, n)
          PROVE  Covered(base, tree', ops + 1)
      <3>1. n \in Nat
        BY CallConstants
      <3>2. PICK u \in {AddBalance(base, tree, a, n), SubBalance(base, tree, a, n),
                       SetBalance(base, tree, a, n),
                       AddSealingReward(base, tree, a, n)} : tree' = u
        BY <2>3 DEF Credit, Debit, AssignBalance, Reward, Write
      <3>3. u \in Trees
        BY <1>1, <3>1, <3>2, WriterType
      <3>4. Cleared(base, u) \subseteq Cleared(base, tree) /\ u.refund = tree.refund
        BY <1>1, <3>1, <3>2, ClearedByWriter
      <3> QED
        BY <1>5, <3>2, <3>3, <3>4
    <2>4. ASSUME NEW n \in Nonces, AssignNonce(a, n)
          PROVE  Covered(base, tree', ops + 1)
      <3>1. n \in Nat
        BY CallConstants
      <3> DEFINE u == SetNonce(base, tree, a, n)
      <3>2. u \in Trees
        BY <1>1, <3>1, WriterType
      <3>3. Cleared(base, u) \subseteq Cleared(base, tree) /\ u.refund = tree.refund
        BY <1>1, <3>1, ClearedByWriter
      <3> QED
        BY <1>5, <2>4, <3>2, <3>3 DEF AssignNonce, Write
    <2>5. ASSUME NEW c \in Codes, StoreCode(a, c)
          PROVE  Covered(base, tree', ops + 1)
      BY <1>1, <1>5, <2>5, WriterType, ClearedByWriter DEF StoreCode, Write
    <2>6. ASSUME NEW x \in Addrs, Destruct(a, x)
          PROVE  Covered(base, tree', ops + 1)
      BY <1>1, <1>3, <1>4, <2>6, SelfdestructStep DEF Destruct, Write
    <2>7. ASSUME NEW k \in Keys, NEW v \in Vals, Store(a, k, v)
          PROVE  Covered(base, tree', ops + 1)
      BY <1>1, <1>2, <2>7, CoveredSetStorage DEF Store, Write
    <2>8. ASSUME NEW k \in Keys, NEW v \in Vals, Fill(a, k, v)
          PROVE  Covered(base, tree', ops + 1)
      BY <1>1, <1>5, <2>8, WriterType, SetStateStep DEF Fill, Write
    <2> QED
      BY <2>1, <2>2, <2>3, <2>4, <2>5, <2>6, <2>7, <2>8
  <1> QED
    BY <1>6, <1>7

\* A fresh overlay owes nothing.
LEMMA NewTreeCovered ==
  ASSUME NEW b \in Bases, NEW n \in Nat
  PROVE  Covered(b, NewTree, n)
  <1>1. \A a \in Addrs : NewTree.objs[a] = NoObject
    BY DEF NewTree
  <1>2. \A a \in Addrs, k \in Keys :
          GetState(b, NewTree, a, k) = GetCommittedState(b, NewTree, a, k)
    BY <1>1 DEF GetState, GetCommittedState, Exist, getStateObject, objectOf,
       storageOf
  <1>3. Cleared(b, NewTree) = {}
    BY <1>2 DEF Cleared, Slots
  <1> QED
    BY <1>3, FS_EmptySet DEF Covered, NewTree

\* The strengthening is inductive: a later transaction only ends its claim, and
\* a fresh overlay starts with nothing cleared.
LEMMA RefundStep ==
  ASSUME RefundInv, [Next]_vars
  PROVE  RefundInv'
  <1>1. /\ TypeOK /\ TypeOK' /\ base \in Bases
        /\ txs \in Nat /\ txs >= 1 /\ ops \in Nat
    BY TypeStep DEF RefundInv, TypeOK
  <1>2. ASSUME NEW t \in Trees, NEW n \in Nat, Covered(base, t, n)
        PROVE  Covered(base, t, n + 1)
    <2>1. t.refund \in Nat
      BY TxnConstants DEF Trees
    <2>2. t.refund <= t.refund /\ t.refund <= t.refund + 24000
      BY <2>1
    <2> QED
      BY <1>1, <1>2, <2>2, CoveredStep
  <1>3. CASE AccountCall \/ TakeLogs
    <2>1. PICK u \in Trees : Write(u)
      BY <1>1, <1>3, CallType DEF TypeOK
    <2>2. /\ phase = "open" /\ base' = base /\ snapshots' = snapshots
          /\ txSnap' = txSnap /\ txs' = txs /\ ops' = ops + 1
      BY <2>1 DEF Write, Count, overlay, session
    <2>0. CASE txs # 1
      BY <1>1, <2>0, <2>2 DEF RefundInv
    <2> SUFFICES ASSUME txs = 1 PROVE RefundInv'
      BY <2>0
    <2>3. Covered(base, tree', ops + 1)
      BY <1>1, <1>3, <2>2, CallCovered DEF RefundInv, Live
    <2>4. ASSUME NEW i \in txSnap + 1 .. Len(snapshots)
          PROVE  Covered(base, snapshots[i], ops + 1)
      <3>1. snapshots[i] \in Trees
        BY <1>1 DEF TypeOK
      <3>2. Covered(base, snapshots[i], ops)
        BY <2>2 DEF RefundInv, Live
      <3> QED
        BY <1>1, <1>2, <3>1, <3>2
    <2> QED
      BY <1>1, <2>2, <2>3, <2>4 DEF RefundInv, Live
  <1>4. CASE Snapshot
    <2>1. /\ phase = "open" /\ base' = base /\ tree' = tree
          /\ snapshots' = Append(snapshots, tree)
          /\ txSnap' = txSnap /\ txs' = txs /\ ops' = ops + 1
      BY <1>4 DEF Snapshot, Count, overlay, session
    <2>0. CASE txs # 1
      BY <1>1, <2>0, <2>1 DEF RefundInv
    <2> SUFFICES ASSUME txs = 1 PROVE RefundInv'
      BY <2>0
    <2>2. Covered(base, tree, ops + 1)
      BY <1>1, <1>2, <2>1 DEF RefundInv, Live, TypeOK
    <2>3. ASSUME NEW i \in txSnap + 1 .. Len(snapshots')
          PROVE  Covered(base, snapshots'[i], ops + 1)
      <3>1. snapshots \in Seq(Trees) /\ txSnap \in Nat
        BY <1>1 DEF TypeOK
      <3>2. CASE i = Len(snapshots) + 1
        BY <2>1, <2>2, <3>1, <3>2
      <3>3. CASE i # Len(snapshots) + 1
        <4>1. i \in txSnap + 1 .. Len(snapshots) /\ snapshots'[i] = snapshots[i]
          BY <2>1, <3>1, <3>3
        <4>2. Covered(base, snapshots[i], ops) /\ snapshots[i] \in Trees
          BY <2>1, <3>1, <4>1 DEF RefundInv, Live
        <4> QED
          BY <1>1, <1>2, <4>1, <4>2
      <3> QED
        BY <3>2, <3>3
    <2> QED
      BY <1>1, <2>1, <2>2, <2>3 DEF RefundInv, Live
  <1>5. ASSUME NEW id \in txSnap + 1 .. Len(snapshots), RevertToSnapshot(id)
        PROVE  RefundInv'
    <2>1. /\ phase = "open" /\ base' = base /\ tree' = snapshots[id]
          /\ snapshots' = snapshots
          /\ txSnap' = txSnap /\ txs' = txs /\ ops' = ops + 1
      BY <1>5 DEF RevertToSnapshot, Count, overlay, session
    <2>0. CASE txs # 1
      BY <1>1, <2>0, <2>1 DEF RefundInv
    <2> SUFFICES ASSUME txs = 1 PROVE RefundInv'
      BY <2>0
    <2>2. ASSUME NEW i \in txSnap + 1 .. Len(snapshots)
          PROVE  Covered(base, snapshots[i], ops + 1)
      <3>1. snapshots[i] \in Trees
        BY <1>1 DEF TypeOK
      <3>2. Covered(base, snapshots[i], ops)
        BY <2>1 DEF RefundInv, Live
      <3> QED
        BY <1>1, <1>2, <3>1, <3>2
    <2> QED
      BY <1>1, <2>1, <2>2 DEF RefundInv, Live
  <1>6. ASSUME NEW d \in BOOLEAN, CleanDelete(d) PROVE RefundInv'
    BY <1>1, <1>6 DEF CleanDelete, RefundInv
  <1>7. CASE NextTx
    BY <1>1, <1>7 DEF NextTx, RefundInv
  <1>8. CASE Commit
    BY <1>1, <1>8 DEF Commit, RefundInv
  <1>9. CASE Rebase
    <2>1. /\ tree' = NewTree /\ snapshots' = << >> /\ txSnap' = 0 /\ txs' = 1
          /\ base' \in Bases /\ ops' \in Nat
      BY <1>1, <1>9 DEF Rebase, TypeOK
    <2>2. Live' = {NewTree}
      BY <2>1 DEF Live
    <2> QED
      BY <1>1, <2>1, <2>2, NewTreeCovered DEF RefundInv
  <1>10. CASE UNCHANGED vars
    BY <1>1, <1>10 DEF RefundInv, Live, vars
  <1> QED
    BY <1>3, <1>4, <1>5, <1>6, <1>7, <1>8, <1>9, <1>10 DEF Next

\* In the first transaction on every overlay, the refund counter of txn.go never
\* falls below 15000 for each cleared slot, through any sequence of writes,
\* snapshots and reverts: SubRefund does not underflow.
THEOREM RefundCovers == Spec => []RefundCoversCleared
  <1>1. Init => RefundInv
    <2> SUFFICES ASSUME Init PROVE RefundInv
      OBVIOUS
    <2>1. base \in Bases /\ codes \subseteq Codes
      BY CallConstants DEF Init, Bases, Accounts
    <2>2. TypeOK
      BY <2>1, NewTreeType, CallConstants DEF Init, TypeOK
    <2>3. Live = {NewTree}
      BY DEF Init, Live
    <2> QED
      BY <2>1, <2>2, <2>3, NewTreeCovered DEF Init, RefundInv
  <1>2. RefundInv /\ [Next]_vars => RefundInv'
    BY RefundStep
  <1>3. RefundInv => RefundCoversCleared
    <2> SUFFICES ASSUME RefundInv, phase = "open", txs = 1, NEW t \in Live
                 PROVE  t.refund >= 15000 * Cardinality(Cleared(base, t))
      BY DEF RefundCoversCleared
    <2>1. Covered(base, t, ops)
      BY DEF RefundInv
    <2>2. t \in Trees
      BY DEF RefundInv, TypeOK, Live
    <2>3. t.refund \in Nat
      BY <2>2, TxnConstants DEF Trees
    <2> QED
      BY <2>1, <2>3, ClearedFinite DEF Covered
  <1> QED
    BY <1>1, <1>2, <1>3, PTL DEF Spec
=============================================================================

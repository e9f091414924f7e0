---------------------------- MODULE TxnOpsProofs ----------------------------
(***************************************************************************)
(* Lemmas about the operators of TxnOps, for every set of addresses, slots,*)
(* values and codes and every fork: what they return, and what the readers *)
(* of txn.go answer after each writer.                                     *)
(***************************************************************************)
EXTENDS TxnOps, TLAPS, FiniteSetTheorems

-----------------------------------------------------------------------------
(* The types of what the operators return.                                 *)

\* A fresh account, and the object around a snapshot's account, are objects.
LEMMA NewObjectType ==
  /\ newStateObject \in Objects
  /\ \A acc \in Accounts : objectOf(acc) \in Objects
  BY TxnConstants DEF newStateObject, objectOf, Objects, Accounts, Roots,
     EmptyStateHash

\* A new overlay is a tree.
LEMMA NewTreeType == NewTree \in Trees
  BY TxnConstants DEF NewTree, Trees, Log

\* Reading an address finds an object that is not deleted, or nothing.
LEMMA ObjectType ==
  ASSUME NEW b \in Bases, NEW t \in Trees, NEW a \in Addrs
  PROVE  /\ getStateObject(b, t, a) \in Objects \cup {NoObject}
         /\ Exist(b, t, a) => getStateObject(b, t, a) \in Objects
         /\ objectOrNew(b, t, a) \in Objects
  <1>1. t.objs[a] \in Objects \cup {NoObject} /\ b[a] \in Accounts \cup {NoAccount}
    BY DEF Trees, Bases
  <1>2. getStateObject(b, t, a) \in Objects \cup {NoObject}
    BY <1>1, NewObjectType DEF getStateObject
  <1> QED
    BY <1>2, NewObjectType DEF Exist, objectOrNew

\* Putting an object into a tree gives a tree; the rest of it is untouched.
LEMMA InsertType ==
  ASSUME NEW t \in Trees, NEW a \in Addrs, NEW o \in Objects
  PROVE  /\ insert(t, a, o) \in Trees
         /\ insert(t, a, o).refund = t.refund
         /\ insert(t, a, o).objs[a] = o
         /\ \A x \in Addrs \ {a} : insert(t, a, o).objs[x] = t.objs[x]
  BY DEF insert, Trees

\* The refund counter stays in its width whatever is added or subtracted.
LEMMA RefundType ==
  ASSUME NEW t \in Trees, NEW g \in Nat
  PROVE  /\ AddRefund(t, g) \in Trees
         /\ SubRefund(t, g) \in Trees
         /\ AddRefund(t, g).objs = t.objs
         /\ SubRefund(t, g).objs = t.objs
         /\ t.refund + g < Word => AddRefund(t, g).refund = t.refund + g
         /\ t.refund >= g => SubRefund(t, g).refund = t.refund - g
  <1> DEFINE r == t.refund
  <1>1. r \in 0 .. Word - 1 /\ Word \in Nat \ {0}
    BY TxnConstants DEF Trees
  <1>2. (r + g) % Word \in 0 .. Word - 1 /\ (r - g) % Word \in 0 .. Word - 1
    BY <1>1
  <1>3. r + g < Word => (r + g) % Word = r + g
    BY <1>1
  <1>4. r >= g => (r - g) % Word = r - g
    BY <1>1
  <1> QED
    BY <1>1, <1>2, <1>3, <1>4 DEF AddRefund, SubRefund, Trees

\* Every writer of txn.go returns a tree.
LEMMA WriterType ==
  ASSUME NEW b \in Bases, NEW t \in Trees, NEW a \in Addrs
  PROVE  /\ TouchAccount(b, t, a) \in Trees
         /\ IncrNonce(b, t, a) \in Trees
         /\ Suicide(b, t, a) \in Trees
         /\ CreateAccount(b, t, a) \in Trees
         /\ EmitLog(t, a) \in Trees
         /\ DropLogs(t) \in Trees
         /\ \A n \in Nat : /\ AddBalance(b, t, a, n) \in Trees
                           /\ SubBalance(b, t, a, n) \in Trees
                           /\ SetBalance(b, t, a, n) \in Trees
                           /\ AddSealingReward(b, t, a, n) \in Trees
                           /\ SetNonce(b, t, a, n) \in Trees
         /\ \A c \in Codes : SetCode(b, t, a, c) \in Trees
         /\ \A k \in Keys, v \in Vals : SetState(b, t, a, k, v) \in Trees
  <1> DEFINE o == objectOrNew(b, t, a)
  <1>1. o \in Objects /\ newStateObject \in Objects
    BY ObjectType, NewObjectType
  <1>2. o.balance \in Nat /\ o.nonce \in Nat
    BY <1>1 DEF Objects
  <1> HIDE DEF o
  <1>3. TouchAccount(b, t, a) \in Trees /\ IncrNonce(b, t, a) \in Trees
    <2>1. [o EXCEPT !.nonce = @ + 1] \in Objects
      BY <1>1, <1>2 DEF Objects
    <2> QED
      BY <1>1, <2>1, InsertType DEF TouchAccount, IncrNonce, o
  <1>4. Suicide(b, t, a) \in Trees
    <2>1. CASE ~Exist(b, t, a)
      BY <2>1 DEF Suicide
    <2>2. CASE Exist(b, t, a)
      <3>1. getStateObject(b, t, a) \in Objects
        BY <2>2, ObjectType
      <3>2. [getStateObject(b, t, a) EXCEPT !.suicide = TRUE, !.balance = 0]
              \in Objects
        BY <3>1 DEF Objects
      <3> QED
        BY <2>2, <3>2, InsertType DEF Suicide
    <2> QED
      BY <2>1, <2>2
  <1>5. CreateAccount(b, t, a) \in Trees
    <2>1. [newStateObject EXCEPT !.balance = o.balance] \in Objects
      BY <1>1, <1>2 DEF Objects
    <2> QED
      BY <2>1, InsertType DEF CreateAccount, GetBalance, o
  <1>6. EmitLog(t, a) \in Trees /\ DropLogs(t) \in Trees
    <2>1. t.logs \in Seq(Log) /\ [address |-> a] \in Log
      BY DEF Trees, Log
    <2>2. Append(t.logs, [address |-> a]) \in Seq(Log) /\ << >> \in Seq(Log)
      BY <2>1
    <2> QED
      BY <2>2 DEF EmitLog, DropLogs, Trees
  <1>7. ASSUME NEW n \in Nat
        PROVE  /\ AddBalance(b, t, a, n) \in Trees
               /\ SubBalance(b, t, a, n) \in Trees
               /\ SetBalance(b, t, a, n) \in Trees
               /\ AddSealingReward(b, t, a, n) \in Trees
               /\ SetNonce(b, t, a, n) \in Trees
    <2>1. /\ [o EXCEPT !.balance = @ + n] \in Objects
          /\ [o EXCEPT !.balance = n] \in Objects
          /\ [newStateObject EXCEPT !.balance = n] \in Objects
          /\ [o EXCEPT !.nonce = n] \in Objects
      BY <1>1, <1>2 DEF Objects
    <2>2. o.balance >= n => [o EXCEPT !.balance = @ - n] \in Objects
      BY <1>1, <1>2 DEF Objects
    <2>3. SubBalance(b, t, a, n) \in Trees
      <3>1. CASE n = 0 \/ NotEnoughFunds(b, t, a, n)
        BY <3>1 DEF SubBalance
      <3>2. CASE ~(n = 0 \/ NotEnoughFunds(b, t, a, n))
        <4>1. o.balance >= n
          BY <3>2, <1>2 DEF NotEnoughFunds, GetBalance, o
        <4> QED
          BY <3>2, <4>1, <2>2, InsertType DEF SubBalance, o
      <3> QED
        BY <3>1, <3>2
    <2> QED
      BY <2>1, <2>3, InsertType DEF AddBalance, SetBalance, AddSealingReward,
         SetNonce, o
  <1>8. ASSUME NEW c \in Codes PROVE SetCode(b, t, a, c) \in Trees
    <2>1. [o EXCEPT !.codeHash = c, !.dirtyCode = TRUE, !.code = c] \in Objects
      BY <1>1 DEF Objects
    <2> QED
      BY <2>1, InsertType DEF SetCode, o
  <1>9. ASSUME NEW k \in Keys, NEW v \in Vals
        PROVE  SetState(b, t, a, k, v) \in Trees
    <2>1. [o EXCEPT !.slots[k] = v] \in Objects
      BY <1>1 DEF Objects
    <2> QED
      BY <2>1, InsertType DEF SetState, o
  <1> QED
    BY <1>3, <1>4, <1>5, <1>6, <1>7, <1>8, <1>9

-----------------------------------------------------------------------------
(* How the operators move the storage a reader sees.                       *)

\* Reads of a slot depend on the address's object alone: a missing account
\* reads like a new one.
LEMMA SlotReads ==
  ASSUME NEW b \in Bases, NEW t \in Trees, NEW a \in Addrs, NEW k \in Keys
  PROVE  /\ GetState(b, t, a, k) = storageOf(objectOrNew(b, t, a))[k]
         /\ GetCommittedState(b, t, a, k) = objectOrNew(b, t, a).root[k]
         /\ GetState(b, t, a, k) \in Vals
         /\ GetCommittedState(b, t, a, k) \in Vals
  <1>1. storageOf(newStateObject)[k] = Zero /\ newStateObject.root[k] = Zero
    BY DEF newStateObject, storageOf, EmptyStateHash
  <1>2. objectOrNew(b, t, a) \in Objects
    BY ObjectType
  <1>3. /\ storageOf(objectOrNew(b, t, a))[k] \in Vals
        /\ objectOrNew(b, t, a).root[k] \in Vals
    BY <1>2 DEF Objects, Roots, storageOf
  <1> QED
    BY <1>1, <1>3 DEF GetState, GetCommittedState, objectOrNew

\* An object in the tree that is not deleted is the one its address reads.
LEMMA ReadInserted ==
  ASSUME NEW b \in Bases, NEW t \in Trees, NEW a \in Addrs, NEW o \in Objects,
         ~o.deleted
  PROVE  /\ objectOrNew(b, insert(t, a, o), a) = o
         /\ Exist(b, insert(t, a, o), a)
         /\ \A x \in Addrs \ {a} :
              objectOrNew(b, insert(t, a, o), x) = objectOrNew(b, t, x)
  <1>1. o # NoObject
    BY TxnConstants
  <1> QED
    BY <1>1, InsertType DEF objectOrNew, Exist, getStateObject

\* What upsertAccount hands to its callback is not deleted.
LEMMA NotDeleted ==
  ASSUME NEW b \in Bases, NEW t \in Trees, NEW a \in Addrs
  PROVE  ~objectOrNew(b, t, a).deleted
  BY DEF objectOrNew, Exist, getStateObject, newStateObject, objectOf

\* SetState changes the reading of one slot and no committed value.
LEMMA SetStateReads ==
  ASSUME NEW b \in Bases, NEW t \in Trees, NEW a \in Addrs, NEW k \in Keys,
         NEW v \in Vals, NEW x \in Addrs, NEW y \in Keys
  PROVE  LET u == SetState(b, t, a, k, v) IN
         /\ GetCommittedState(b, u, x, y) = GetCommittedState(b, t, x, y)
         /\ GetState(b, u, x, y) = IF x = a /\ y = k THEN v
                                   ELSE GetState(b, t, x, y)
  <1> DEFINE p == objectOrNew(b, t, a)
             o == [p EXCEPT !.slots[k] = v]
             u == SetState(b, t, a, k, v)
  <1>1. p \in Objects /\ ~p.deleted
    BY ObjectType, NotDeleted
  <1>2. o \in Objects /\ ~o.deleted /\ o.root = p.root
    BY <1>1 DEF Objects
  <1>3. u = insert(t, a, o) /\ u \in Trees
    BY <1>2, InsertType DEF SetState
  <1>4. storageOf(o)[y] = IF y = k THEN v ELSE storageOf(p)[y]
    BY <1>1, TxnConstants DEF storageOf, Objects
  <1>5. u = SetState(b, t, a, k, v)
    OBVIOUS
  <1> HIDE DEF o, u
  <1>6. CASE x = a
    <2>1. objectOrNew(b, u, a) = o
      BY <1>2, <1>3, ReadInserted
    <2>2. /\ GetCommittedState(b, u, x, y) = GetCommittedState(b, t, x, y)
          /\ GetState(b, u, x, y) = storageOf(o)[y]
      BY <1>2, <1>3, <1>6, <2>1, SlotReads
    <2> QED
      BY <1>4, <1>5, <1>6, <2>2, SlotReads
  <1>7. CASE x # a
    <2>1. objectOrNew(b, u, x) = objectOrNew(b, t, x)
      BY <1>2, <1>3, <1>7, ReadInserted
    <2> QED
      BY <1>3, <1>5, <1>7, <2>1, SlotReads
  <1> QED
    BY <1>6, <1>7

\* The sizes of the refunds, and which writes grant or take back 15000.
LEMMA RefundSizes ==
  ASSUME NEW original \in Vals, NEW current \in Vals, NEW value \in Vals,
         current # value
  PROVE  LET r == RefundOf(original, current, value) IN
         /\ r[1] \in Nat /\ r[2] \in Nat
         /\ r[1] = 0 \/ (r[1] = 15000 /\ original # Zero /\ current = Zero)
         /\ r[2] <= 19800
         /\ original # Zero /\ value = Zero => r[1] = 0 /\ r[2] >= 15000
  BY DEF RefundOf

\* The overlay's ends: closing a transaction and committing keep the types.
LEMMA EndType ==
  ASSUME NEW b \in Bases, NEW t \in Trees
  PROVE  /\ \A d \in BOOLEAN : CleanDeleteObjects(t, d) \in Trees
         /\ CommitBase(b, t) \in Bases
         /\ \A c \in SUBSET Codes : CommitCodes(c, t) \in SUBSET Codes
  <1>1. \A a \in Addrs : t.objs[a] \in Objects \cup {NoObject}
    BY DEF Trees
  <1>2. ASSUME NEW d \in BOOLEAN PROVE CleanDeleteObjects(t, d) \in Trees
    <2>1. \A o \in Objects : [o EXCEPT !.deleted = TRUE] \in Objects
      BY DEF Objects
    <2> DEFINE gone(o) == o # NoObject /\ (o.suicide \/ (isEmpty(o) /\ d))
               objs == [a \in Addrs |-> IF gone(t.objs[a])
                                        THEN [t.objs[a] EXCEPT !.deleted = TRUE]
                                        ELSE t.objs[a]]
    <2>2. objs \in [Addrs -> Objects \cup {NoObject}]
      BY <1>1, <2>1
    <2>3. CleanDeleteObjects(t, d) = [t EXCEPT !.objs = objs, !.refund = 0]
      BY DEF CleanDeleteObjects
    <2> HIDE DEF objs
    <2>4. 0 \in 0 .. Word - 1
      BY TxnConstants
    <2>5. \A f \in [Addrs -> Objects \cup {NoObject}] :
            [t EXCEPT !.objs = f, !.refund = 0] \in Trees
      BY <2>4 DEF Trees
    <2> QED
      BY <2>2, <2>3, <2>5
  <1>3. \A o \in Objects : accountOf(o) \in Accounts
    BY DEF accountOf, Accounts, Objects, Roots, storageOf
  <1>4. CommitBase(b, t) \in Bases
    BY <1>1, <1>3 DEF CommitBase, Bases
  <1>5. ASSUME NEW c \in SUBSET Codes PROVE CommitCodes(c, t) \in SUBSET Codes
    BY <1>1 DEF CommitCodes, Objects
  <1> QED
    BY <1>2, <1>4, <1>5

\* SetStorage returns a tree, whatever the refund counter holds.
LEMMA SetStorageType ==
  ASSUME NEW b \in Bases, NEW t \in Trees, NEW a \in Addrs, NEW k \in Keys,
         NEW v \in Vals
  PROVE  SetStorage(b, t, a, k, v) \in Trees
  <1> DEFINE current == GetState(b, t, a, k)
             original == GetCommittedState(b, t, a, k)
             r == RefundOf(original, current, v)
             u == SetState(b, t, a, k, v)
             w == IF r[1] = 0 THEN u ELSE SubRefund(u, r[1])
             z == IF r[2] = 0 THEN w ELSE AddRefund(w, r[2])
  <1>1. CASE current = v
    BY <1>1 DEF SetStorage
  <1>2. CASE current # v
    <2>1. r[1] \in Nat /\ r[2] \in Nat
      BY <1>2, SlotReads, RefundSizes
    <2>2. u \in Trees
      BY WriterType
    <2>3. SetStorage(b, t, a, k, v) = z
      BY <1>2 DEF SetStorage
    <2>4. \A y \in Trees, g \in Nat : AddRefund(y, g) \in Trees /\ SubRefund(y, g) \in Trees
      BY RefundType
    <2> HIDE DEF r, u
    <2>5. w \in Trees
      BY <2>1, <2>2, <2>4
    <2> HIDE DEF w
    <2> QED
      BY <2>1, <2>3, <2>4, <2>5
  <1> QED
    BY <1>1, <1>2

\* SetStorage writes its slot as SetState does, or leaves the tree alone.
LEMMA SetStorageForm ==
  ASSUME NEW b \in Bases, NEW t \in Trees, NEW a \in Addrs, NEW k \in Keys,
         NEW v \in Vals
  PROVE  \/ SetStorage(b, t, a, k, v) = t
         \/ /\ SetStorage(b, t, a, k, v).objs = SetState(b, t, a, k, v).objs
            /\ SetStorage(b, t, a, k, v).logs = SetState(b, t, a, k, v).logs
  <1> DEFINE current == GetState(b, t, a, k)
             original == GetCommittedState(b, t, a, k)
             r == RefundOf(original, current, v)
             u == SetState(b, t, a, k, v)
             w == IF r[1] = 0 THEN u ELSE SubRefund(u, r[1])
             z == IF r[2] = 0 THEN w ELSE AddRefund(w, r[2])
  <1>1. CASE current = v
    BY <1>1 DEF SetStorage
  <1>2. CASE current # v
    <2>1. r[1] \in Nat /\ r[2] \in Nat
      BY <1>2, SlotReads, RefundSizes
    <2>2. u \in Trees
      BY WriterType
    <2>3. SetStorage(b, t, a, k, v) = z
      BY <1>2 DEF SetStorage
    <2>4. \A y \in Trees, g \in Nat :
            /\ AddRefund(y, g).objs = y.objs /\ AddRefund(y, g).logs = y.logs
            /\ SubRefund(y, g).objs = y.objs /\ SubRefund(y, g).logs = y.logs
            /\ SubRefund(y, g) \in Trees
      BY RefundType DEF AddRefund, SubRefund, Trees
    <2> HIDE DEF r, u
    <2>5. w \in Trees /\ w.objs = u.objs /\ w.logs = u.logs
      BY <2>1, <2>2, <2>4
    <2> HIDE DEF w
    <2>6. z.objs = u.objs /\ z.logs = u.logs
      BY <2>1, <2>4, <2>5
    <2> QED
      BY <2>3, <2>6 DEF u
  <1> QED
    BY <1>1, <1>2

\* The readers look at the objects of a tree only.
LEMMA SameObjects ==
  ASSUME NEW b, NEW t, NEW u, u.objs = t.objs, NEW a
  PROVE  /\ objectOrNew(b, u, a) = objectOrNew(b, t, a)
         /\ Exist(b, u, a) <=> Exist(b, t, a)
         /\ getStateObject(b, u, a) = getStateObject(b, t, a)
  BY DEF objectOrNew, Exist, getStateObject

\* Closing a transaction only takes objects away.
LEMMA CleanReads ==
  ASSUME NEW b \in Bases, NEW t \in Trees, NEW d \in BOOLEAN, NEW a \in Addrs
  PROVE  LET u == CleanDeleteObjects(t, d)
             o == t.objs[a]
             gone == o # NoObject /\ (o.suicide \/ (isEmpty(o) /\ d))
         IN /\ gone => /\ ~Exist(b, u, a)
                       /\ objectOrNew(b, u, a) = newStateObject
            /\ ~gone => /\ objectOrNew(b, u, a) = objectOrNew(b, t, a)
                        /\ Exist(b, u, a) <=> Exist(b, t, a)
            /\ u.logs = t.logs
  <1> DEFINE u == CleanDeleteObjects(t, d)
             o == t.objs[a]
             gone == o # NoObject /\ (o.suicide \/ (isEmpty(o) /\ d))
  <1>1. /\ u.objs[a] = IF gone THEN [o EXCEPT !.deleted = TRUE] ELSE o
        /\ u.logs = t.logs
    BY DEF CleanDeleteObjects, Trees
  <1>2. o \in Objects \cup {NoObject}
    BY DEF Trees
  <1>3. gone => /\ [o EXCEPT !.deleted = TRUE] \in Objects
                /\ [o EXCEPT !.deleted = TRUE].deleted
    BY <1>2 DEF Objects
  <1>4. gone => u.objs[a] # NoObject /\ u.objs[a].deleted
    BY <1>1, <1>3, TxnConstants
  <1>5. gone => ~Exist(b, u, a) /\ objectOrNew(b, u, a) = newStateObject
    BY <1>4 DEF objectOrNew, Exist, getStateObject
  <1>6. ~gone => u.objs[a] = t.objs[a]
    BY <1>1
  <1> HIDE DEF gone, u
  <1>7. ~gone => /\ objectOrNew(b, u, a) = objectOrNew(b, t, a)
                 /\ Exist(b, u, a) <=> Exist(b, t, a)
    BY <1>6 DEF objectOrNew, Exist, getStateObject
  <1> QED
    BY <1>1, <1>5, <1>7 DEF gone, u


\* The object that every address reads after one object is put into the tree.
LEMMA Upsert ==
  ASSUME NEW b \in Bases, NEW t \in Trees, NEW a \in Addrs, NEW o \in Objects,
         ~o.deleted, NEW x \in Addrs
  PROVE  /\ objectOrNew(b, insert(t, a, o), x) = IF x = a THEN o ELSE objectOrNew(b, t, x)
         /\ insert(t, a, o).logs = t.logs
         /\ insert(t, a, o).refund = t.refund
  <1>1. insert(t, a, o).logs = t.logs /\ insert(t, a, o).refund = t.refund
    BY DEF insert, Trees
  <1> QED
    BY <1>1, ReadInserted

\* The object that an address x reads after each writer for an address a.
LEMMA WriterReads ==
  ASSUME NEW b \in Bases, NEW t \in Trees, NEW a \in Addrs, NEW x \in Addrs
  PROVE  LET o == objectOrNew(b, t, a)
             other == objectOrNew(b, t, x)
         IN /\ objectOrNew(b, TouchAccount(b, t, a), x) = other
            /\ objectOrNew(b, IncrNonce(b, t, a), x) =
                 IF x = a THEN [o EXCEPT !.nonce = o.nonce + 1] ELSE other
            /\ objectOrNew(b, CreateAccount(b, t, a), x) =
                 IF x = a THEN [newStateObject EXCEPT !.balance = o.balance] ELSE other
            /\ \A n \in Nat :
                 /\ objectOrNew(b, AddBalance(b, t, a, n), x) =
                      IF x = a THEN [o EXCEPT !.balance = o.balance + n] ELSE other
                 /\ n # 0 /\ ~NotEnoughFunds(b, t, a, n) =>
                      objectOrNew(b, SubBalance(b, t, a, n), x) =
                        IF x = a THEN [o EXCEPT !.balance = o.balance - n] ELSE other
            /\ \A k \in Keys, v \in Vals :
                 objectOrNew(b, SetState(b, t, a, k, v), x) =
                   IF x = a THEN [o EXCEPT !.slots[k] = v] ELSE other
            /\ objectOrNew(b, EmitLog(t, a), x) = other
            /\ objectOrNew(b, DropLogs(t), x) = other
  <1> DEFINE o == objectOrNew(b, t, a)
             other == objectOrNew(b, t, x)
  <1>1. o \in Objects /\ ~o.deleted
    BY ObjectType, NotDeleted
  <1>2. o.balance \in Nat /\ o.nonce \in Nat
    BY <1>1 DEF Objects
  <1>3. newStateObject \in Objects /\ ~newStateObject.deleted
    BY NewObjectType DEF newStateObject
  <1>4. \A p \in Objects : ~p.deleted =>
          objectOrNew(b, insert(t, a, p), x) = IF x = a THEN p ELSE other
    BY Upsert
  <1> HIDE DEF o
  <1>5. objectOrNew(b, TouchAccount(b, t, a), x) = other
    BY <1>1, <1>4 DEF TouchAccount, o
  <1> HIDE DEF other
  <1>6. objectOrNew(b, IncrNonce(b, t, a), x) =
          IF x = a THEN [o EXCEPT !.nonce = o.nonce + 1] ELSE other
    <2>1. /\ [o EXCEPT !.nonce = o.nonce + 1] \in Objects
          /\ ~[o EXCEPT !.nonce = o.nonce + 1].deleted
      BY <1>1, <1>2 DEF Objects
    <2>2. IncrNonce(b, t, a) = insert(t, a, [o EXCEPT !.nonce = o.nonce + 1])
      BY DEF IncrNonce, o
    <2> QED
      BY <1>4, <2>1, <2>2
  <1>7. objectOrNew(b, CreateAccount(b, t, a), x) =
          IF x = a THEN [newStateObject EXCEPT !.balance = o.balance] ELSE other
    <2>1. /\ [newStateObject EXCEPT !.balance = o.balance] \in Objects
          /\ ~[newStateObject EXCEPT !.balance = o.balance].deleted
      BY <1>2, <1>3 DEF Objects
    <2>2. CreateAccount(b, t, a) = insert(t, a, [newStateObject EXCEPT !.balance = o.balance])
      BY DEF CreateAccount, GetBalance, o
    <2> QED
      BY <1>4, <2>1, <2>2
  <1>8. ASSUME NEW n \in Nat
        PROVE  objectOrNew(b, AddBalance(b, t, a, n), x) =
                 IF x = a THEN [o EXCEPT !.balance = o.balance + n] ELSE other
    <2>1. /\ [o EXCEPT !.balance = o.balance + n] \in Objects
          /\ ~[o EXCEPT !.balance = o.balance + n].deleted
      BY <1>1, <1>2 DEF Objects
    <2>2. AddBalance(b, t, a, n) = insert(t, a, [o EXCEPT !.balance = o.balance + n])
      BY DEF AddBalance, o
    <2> QED
      BY <1>4, <2>1, <2>2
  <1>9. ASSUME NEW n \in Nat, n # 0, ~NotEnoughFunds(b, t, a, n)
        PROVE  objectOrNew(b, SubBalance(b, t, a, n), x) =
                 IF x = a THEN [o EXCEPT !.balance = o.balance - n] ELSE other
    <2>1. o.balance >= n
      BY <1>2, <1>9 DEF NotEnoughFunds, GetBalance, o
    <2>2. /\ [o EXCEPT !.balance = o.balance - n] \in Objects
          /\ ~[o EXCEPT !.balance = o.balance - n].deleted
      BY <1>1, <1>2, <2>1 DEF Objects
    <2>3. SubBalance(b, t, a, n) = insert(t, a, [o EXCEPT !.balance = o.balance - n])
      BY <1>9 DEF SubBalance, o
    <2> QED
      BY <1>4, <2>2, <2>3
  <1>10. ASSUME NEW k \in Keys, NEW v \in Vals
         PROVE  objectOrNew(b, SetState(b, t, a, k, v), x) =
                  IF x = a THEN [o EXCEPT !.slots[k] = v] ELSE other
    <2>1. /\ [o EXCEPT !.slots[k] = v] \in Objects
          /\ ~[o EXCEPT !.slots[k] = v].deleted
      BY <1>1 DEF Objects
    <2>2. SetState(b, t, a, k, v) = insert(t, a, [o EXCEPT !.slots[k] = v])
      BY DEF SetState, o
    <2> QED
      BY <1>4, <2>1, <2>2
  <1>11. /\ objectOrNew(b, EmitLog(t, a), x) = other
         /\ objectOrNew(b, DropLogs(t), x) = other
    <2>1. EmitLog(t, a).objs = t.objs /\ DropLogs(t).objs = t.objs
      BY DEF EmitLog, DropLogs, Trees
    <2> QED
      BY <2>1, SameObjects DEF other
  <1> QED
    BY <1>5, <1>6, <1>7, <1>8, <1>9, <1>10, <1>11 DEF o, other

\* An account is marked in the object its address reads.
LEMMA SuicideReads ==
  ASSUME NEW b, NEW t, NEW a
  PROVE  HasSuicided(b, t, a) <=> objectOrNew(b, t, a).suicide
  BY DEF HasSuicided, objectOrNew, newStateObject


\* The object of an address depends on the tree's entry for it alone.
LEMMA SameEntry ==
  ASSUME NEW b, NEW t, NEW u, NEW x, u.objs[x] = t.objs[x]
  PROVE  objectOrNew(b, u, x) = objectOrNew(b, t, x)
  BY DEF objectOrNew, Exist, getStateObject

\* SetCode and Suicide leave the other accounts alone.
LEMMA OthersUntouched ==
  ASSUME NEW b, NEW t \in Trees, NEW a \in Addrs, NEW x \in Addrs \ {a}
  PROVE  /\ \A c : objectOrNew(b, SetCode(b, t, a, c), x) = objectOrNew(b, t, x)
         /\ objectOrNew(b, Suicide(b, t, a), x) = objectOrNew(b, t, x)
  <1>1. \A o : insert(t, a, o).objs[x] = t.objs[x]
    BY DEF insert, Trees
  <1>2. \A o : objectOrNew(b, insert(t, a, o), x) = objectOrNew(b, t, x)
    BY <1>1, SameEntry
  <1>3. \A c : objectOrNew(b, SetCode(b, t, a, c), x) = objectOrNew(b, t, x)
    BY <1>2, Zenon DEF SetCode
  <1>4. objectOrNew(b, Suicide(b, t, a), x) = objectOrNew(b, t, x)
    BY <1>2, Zenon DEF Suicide
  <1> QED
    BY <1>3, <1>4
=============================================================================

---------------------------- MODULE LedgerProofs ----------------------------
(***************************************************************************)
(* What a reader of Txn can rely on, for every set of addresses, slots,    *)
(* values and codes and every number of calls: codes are at hand, a commit *)
(* is invisible, destroyed storage stays away, and Txn as a whole is the   *)
(* plain map of accounts of module Ledger.                                 *)
(***************************************************************************)
EXTENDS TxnProofs

-----------------------------------------------------------------------------
(* What a call of a transaction does to the tree.                          *)

\* The object p that a call leaves at address a in place of o.
Change(a, o, p) ==
  \/ p = o
  \/ p = [o EXCEPT !.nonce = @ + 1]
  \/ p = [newStateObject EXCEPT !.balance = o.balance]
  \/ \E n \in Amounts : p = [o EXCEPT !.balance = @ + n]
  \/ \E n \in Amounts : n <= o.balance /\ p = [o EXCEPT !.balance = @ - n]
  \/ \E n \in Amounts : p = [o EXCEPT !.balance = n]
  \/ \E n \in Amounts : o.suicide /\ p = [newStateObject EXCEPT !.balance = n]
  \/ \E n \in Nonces : p = [o EXCEPT !.nonce = n]
  \/ \E c \in Codes : p = [o EXCEPT !.codeHash = c, !.dirtyCode = TRUE, !.code = c]
  \/ \E k \in Keys, v \in Vals : /\ p = [o EXCEPT !.slots[k] = v]
                                 /\ Store(a, k, v) \/ Fill(a, k, v)

\* The tree of the next state is this one with p at a; its counter may differ.
Replaces(a, p) ==
  /\ p \in Objects
  /\ ~p.deleted
  /\ tree'.objs = insert(tree, a, p).objs
  /\ tree'.logs = tree.logs

OneAccount ==
  \E a \in Addrs : \E p \in Objects :
    Replaces(a, p) /\ Change(a, objectOrNew(base, tree, a), p)

OnlyLogs ==
  \/ tree' = tree
  \/ \E a \in Addrs : tree' = EmitLog(tree, a)
  \/ tree' = DropLogs(tree)

\* Every call changes one account in one of the ways of Change, or only the
\* logs, or destroys an account.
LEMMA CallForm ==
  ASSUME TypeOK, AccountCall \/ TakeLogs
  PROVE  /\ phase = "open"
         /\ UNCHANGED <<base, codes, snapshots, phase, txs, txStart, txSnap>>
         /\ \/ OneAccount
            \/ OnlyLogs
            \/ \E a, x \in Addrs : Destruct(a, x)
  <1>1. base \in Bases /\ tree \in Trees
    BY DEF TypeOK
  <1>2. PICK u \in Trees : Write(u)
    BY <1>1, CallType
  <1>3. /\ phase = "open"
        /\ UNCHANGED <<base, codes, snapshots, phase, txs, txStart, txSnap>>
        /\ tree' \in Trees
    BY <1>2 DEF Write, overlay, session
  <1> DEFINE Form == OneAccount \/ OnlyLogs \/ \E a, x \in Addrs : Destruct(a, x)
  <1> SUFFICES Form
    BY <1>3
  <1>4. CASE TakeLogs
    BY <1>4 DEF TakeLogs, Write, OnlyLogs
  <1>5. ASSUME NEW a \in Addrs, NEW p,
               ~p.deleted, p \in Objects, Change(a, objectOrNew(base, tree, a), p),
               tree' = insert(tree, a, p)
        PROVE  Form
    <2>1. insert(tree, a, p).logs = tree.logs
      BY <1>1, <1>5 DEF insert, Trees
    <2>2. Replaces(a, p)
      BY <1>5, <2>1 DEF Replaces
    <2> QED
      BY <1>5, <2>2 DEF OneAccount
  <1>6. CASE AccountCall
    <2>1. PICK a \in Addrs :
            \/ Touch(a) \/ BumpNonce(a) \/ Create(a) \/ Emit(a)
            \/ \E n \in Amounts :
                 Credit(a, n) \/ Debit(a, n) \/ AssignBalance(a, n) \/ Reward(a, n)
            \/ \E n \in Nonces : AssignNonce(a, n)
            \/ \E c \in Codes : StoreCode(a, c)
            \/ \E x \in Addrs : Destruct(a, x)
            \/ \E k \in Keys, v \in Vals : Store(a, k, v) \/ Fill(a, k, v)
      BY <1>6 DEF AccountCall
    <2> DEFINE o == objectOrNew(base, tree, a)
    <2>2. /\ o \in Objects /\ ~o.deleted /\ newStateObject \in Objects
          /\ ~newStateObject.deleted /\ o.nonce \in Nat /\ o.balance \in Nat
      <3>1. o \in Objects /\ newStateObject \in Objects
        BY <1>1, ObjectType, NewObjectType
      <3> QED
        BY <1>1, <3>1, NotDeleted DEF Objects, newStateObject
    <2> HIDE DEF o
    <2>3. ASSUME NEW p, ~p.deleted, p \in Objects, Change(a, o, p),
                 tree' = insert(tree, a, p)
          PROVE  Form
      BY <1>5, <2>3 DEF o
    <2> HIDE DEF Form
    <2>4. CASE Touch(a)
      BY <2>2, <2>3, <2>4 DEF Touch, Write, TouchAccount, Change, o
    <2>5. CASE BumpNonce(a)
      <3> DEFINE p == [o EXCEPT !.nonce = @ + 1]
      <3>1. p \in Objects /\ ~p.deleted
        BY <2>2 DEF Objects
      <3>2. tree' = insert(tree, a, p) /\ Change(a, o, p)
        BY <2>5 DEF BumpNonce, Write, IncrNonce, Change, o
      <3> HIDE DEF p
      <3> QED
        BY <3>1, <3>2, <2>3
    <2>6. CASE Create(a)
      <3> DEFINE p == [newStateObject EXCEPT !.balance = o.balance]
      <3>1. p \in Objects /\ ~p.deleted
        BY <2>2 DEF Objects
      <3>2. tree' = insert(tree, a, p) /\ Change(a, o, p)
        BY <2>6 DEF Create, Write, CreateAccount, GetBalance, Change, o
      <3> HIDE DEF p
      <3> QED
        BY <3>1, <3>2, <2>3
    <2>7. CASE Emit(a)
      BY <2>7 DEF Emit, Write, OnlyLogs, Form
    <2>8. ASSUME NEW n \in Amounts, Credit(a, n) PROVE Form
      <3> DEFINE p == [o EXCEPT !.balance = @ + n]
      <3>1. p \in Objects /\ ~p.deleted
        BY <2>2, CallConstants DEF Objects
      <3>2. tree' = insert(tree, a, p) /\ Change(a, o, p)
        BY <2>8 DEF Credit, Write, AddBalance, Change, o
      <3> HIDE DEF p
      <3> QED
        BY <3>1, <3>2, <2>3
    <2>9. ASSUME NEW n \in Amounts, Debit(a, n) PROVE Form
      <3>0. n \in Nat
        BY CallConstants
      <3>1. CASE n = 0 \/ NotEnoughFunds(base, tree, a, n)
        BY <2>9, <3>1 DEF Debit, Write, SubBalance, OnlyLogs, Form
      <3>2. CASE ~(n = 0 \/ NotEnoughFunds(base, tree, a, n))
        <4> DEFINE p == [o EXCEPT !.balance = @ - n]
        <4>1. n <= o.balance
          BY <2>2, <3>0, <3>2 DEF NotEnoughFunds, GetBalance, o
        <4>2. p \in Objects /\ ~p.deleted
          BY <2>2, <3>0, <4>1 DEF Objects
        <4>3. tree' = insert(tree, a, p) /\ Change(a, o, p)
          BY <2>9, <3>2, <4>1 DEF Debit, Write, SubBalance, Change, o
        <4> HIDE DEF p
        <4> QED
          BY <4>2, <4>3, <2>3
      <3> QED
        BY <3>1, <3>2
    <2>10. ASSUME NEW n \in Amounts, AssignBalance(a, n) PROVE Form
      <3> DEFINE p == [o EXCEPT !.balance = n]
      <3>1. p \in Objects /\ ~p.deleted
        BY <2>2, CallConstants DEF Objects
      <3>2. tree' = insert(tree, a, p) /\ Change(a, o, p)
        BY <2>10 DEF AssignBalance, Write, SetBalance, Change, o
      <3> HIDE DEF p
      <3> QED
        BY <3>1, <3>2, <2>3
    <2>11. ASSUME NEW n \in Amounts, Reward(a, n) PROVE Form
      <3> DEFINE p == IF o.suicide THEN [newStateObject EXCEPT !.balance = n]
                                   ELSE [o EXCEPT !.balance = @ + n]
      <3>1. p \in Objects /\ ~p.deleted
        BY <2>2, CallConstants DEF Objects
      <3>2. tree' = insert(tree, a, p) /\ Change(a, o, p)
        BY <2>11 DEF Reward, Write, AddSealingReward, Change, o
      <3> HIDE DEF p
      <3> QED
        BY <3>1, <3>2, <2>3
    <2>12. ASSUME NEW n \in Nonces, AssignNonce(a, n) PROVE Form
      <3> DEFINE p == [o EXCEPT !.nonce = n]
      <3>1. p \in Objects /\ ~p.deleted
        BY <2>2, CallConstants DEF Objects
      <3>2. tree' = insert(tree, a, p) /\ Change(a, o, p)
        BY <2>12 DEF AssignNonce, Write, SetNonce, Change, o
      <3> HIDE DEF p
      <3> QED
        BY <3>1, <3>2, <2>3
    <2>13. ASSUME NEW c \in Codes, StoreCode(a, c) PROVE Form
      <3> DEFINE p == [o EXCEPT !.codeHash = c, !.dirtyCode = TRUE, !.code = c]
      <3>1. p \in Objects /\ ~p.deleted
        BY <2>2 DEF Objects
      <3>2. tree' = insert(tree, a, p) /\ Change(a, o, p)
        BY <2>13 DEF StoreCode, Write, SetCode, Change, o
      <3> HIDE DEF p
      <3> QED
        BY <3>1, <3>2, <2>3
    <2>14. ASSUME NEW k \in Keys, NEW v \in Vals, Store(a, k, v) \/ Fill(a, k, v)
           PROVE  Form
      <3> DEFINE p == [o EXCEPT !.slots[k] = v]
      <3>1. p \in Objects /\ ~p.deleted
        BY <2>2 DEF Objects
      <3>2. SetState(base, tree, a, k, v) = insert(tree, a, p) /\ Change(a, o, p)
        BY <2>14 DEF SetState, Change, o
      <3>3. tree' \in {SetState(base, tree, a, k, v), SetStorage(base, tree, a, k, v)}
        BY <2>14 DEF Store, Fill, Write
      <3> HIDE DEF p
      <3>4. CASE tree' = SetStorage(base, tree, a, k, v)
        <4>1. CASE tree' = tree
          BY <4>1 DEF OnlyLogs, Form
        <4>2. CASE tree' # tree
          <5>1. tree'.objs = insert(tree, a, p).objs /\ tree'.logs = insert(tree, a, p).logs
            BY <1>1, <3>2, <3>4, <4>2, SetStorageForm
          <5>2. insert(tree, a, p).logs = tree.logs
            BY <1>1, <3>1 DEF insert, Trees
          <5> QED
            BY <3>1, <3>2, <5>1, <5>2 DEF Replaces, OneAccount, Form, o
        <4> QED
          BY <4>1, <4>2
      <3> QED
        BY <3>1, <3>2, <3>3, <3>4, <2>3
    <2> QED
      BY <2>1, <2>4, <2>5, <2>6, <2>7, <2>8, <2>9, <2>10, <2>11, <2>12, <2>13, <2>14
         DEF Form
  <1> QED
    BY <1>4, <1>6

\* What Selfdestruct leaves: the beneficiary is paid, then a is marked.
LEMMA DestructForm ==
  ASSUME NEW b \in Bases, NEW t \in Trees, NEW a \in Addrs, NEW x \in Addrs
  PROVE  LET n == objectOrNew(b, t, a).balance
             p == [objectOrNew(b, t, x) EXCEPT !.balance = @ + n]
             paid == insert(t, x, p)
             q == [objectOrNew(b, paid, a) EXCEPT !.suicide = TRUE, !.balance = 0]
         IN /\ n \in Nat /\ p \in Objects /\ ~p.deleted /\ paid \in Trees
            /\ q \in Objects /\ ~q.deleted
            /\ Selfdestruct(b, t, a, x).objs =
                 IF Exist(b, paid, a) THEN insert(paid, a, q).objs ELSE paid.objs
            /\ Selfdestruct(b, t, a, x).logs = t.logs
  <1> DEFINE r == IF HasSuicided(b, t, a) THEN t ELSE AddRefund(t, 24000)
             n == objectOrNew(b, t, a).balance
             p == [objectOrNew(b, t, x) EXCEPT !.balance = @ + n]
             paid == insert(t, x, p)
             q == [objectOrNew(b, paid, a) EXCEPT !.suicide = TRUE, !.balance = 0]
             w == insert(r, x, p)
  <1>1. r \in Trees /\ r.objs = t.objs /\ r.logs = t.logs
    <2>1. r \in Trees /\ r.objs = t.objs
      BY RefundType
    <2>2. AddRefund(t, 24000).logs = t.logs
      BY DEF AddRefund, Trees
    <2> QED
      BY <2>1, <2>2
  <1> HIDE DEF r
  <1>2. \A y \in Addrs : objectOrNew(b, r, y) = objectOrNew(b, t, y)
    BY <1>1 DEF objectOrNew, Exist, getStateObject
  <1>3. n \in Nat /\ p \in Objects /\ ~p.deleted
    <2>1. objectOrNew(b, t, a) \in Objects /\ objectOrNew(b, t, x) \in Objects
      BY ObjectType
    <2>2. ~objectOrNew(b, t, x).deleted
      BY NotDeleted
    <2> QED
      BY <2>1, <2>2 DEF Objects
  <1>4. AddBalance(b, r, x, GetBalance(b, r, a)) = w
    BY <1>2 DEF AddBalance, GetBalance
  <1> HIDE DEF n, p
  <1>5. /\ paid \in Trees /\ w \in Trees /\ w.objs = paid.objs
        /\ w.logs = t.logs /\ paid.logs = t.logs
    BY <1>1, <1>3, InsertType DEF insert, Trees
  <1>6. /\ Exist(b, w, a) <=> Exist(b, paid, a)
        /\ Exist(b, paid, a) => getStateObject(b, w, a) = objectOrNew(b, paid, a)
    BY <1>5 DEF objectOrNew, Exist, getStateObject
  <1>7. Selfdestruct(b, t, a, x) = Suicide(b, w, a)
    BY <1>4 DEF Selfdestruct, r
  <1>8. q \in Objects /\ ~q.deleted
    <2>1. objectOrNew(b, paid, a) \in Objects /\ ~objectOrNew(b, paid, a).deleted
      BY <1>5, ObjectType, NotDeleted
    <2> QED
      BY <2>1 DEF Objects
  <1>9. Suicide(b, w, a) = IF Exist(b, paid, a) THEN insert(w, a, q) ELSE w
    BY <1>6 DEF Suicide
  <1> HIDE DEF q, w, paid
  <1>10. insert(w, a, q).objs = insert(paid, a, q).objs /\ insert(w, a, q).logs = w.logs
    BY <1>5, <1>8 DEF insert, Trees
  <1>11. /\ Selfdestruct(b, t, a, x).objs =
              IF Exist(b, paid, a) THEN insert(paid, a, q).objs ELSE paid.objs
         /\ Selfdestruct(b, t, a, x).logs = t.logs
    BY <1>5, <1>7, <1>9, <1>10
  <1> QED
    BY <1>3, <1>5, <1>8, <1>11 DEF n, p, paid, q

-----------------------------------------------------------------------------
(* The code of an account is at hand.                                      *)

\* An object carries its code or names one that the store c has.
hasCode(c, o) ==
  IF o.dirtyCode THEN o.code = o.codeHash ELSE o.codeHash \in c \cup {EmptyCode}

codesAtHand(b, c, t) == \A a \in Addrs : hasCode(c, objectOrNew(b, t, a))

\* The strengthening: also in the snapshots of earlier transactions.
CodeInv ==
  /\ TypeOK
  /\ codesAtHand(base, codes, tree)
  /\ \A i \in 1 .. Len(snapshots) : codesAtHand(base, codes, snapshots[i])

\* A fresh account has the empty code.
LEMMA NewHasCode == ASSUME NEW c PROVE hasCode(c, newStateObject)
  BY DEF hasCode, newStateObject

\* No call writes an object whose code is lost.
LEMMA ChangeHasCode ==
  ASSUME NEW a \in Addrs, NEW o \in Objects, NEW p \in Objects, NEW c,
         hasCode(c, o), Change(a, o, p)
  PROVE  hasCode(c, p)
  <1>1. newStateObject \in Objects
    BY NewObjectType
  <1>2. hasCode(c, newStateObject)
    BY NewHasCode
  <1>3. ASSUME NEW r \in Objects, hasCode(c, r), p.codeHash = r.codeHash,
               p.code = r.code, p.dirtyCode = r.dirtyCode
        PROVE  hasCode(c, p)
    BY <1>3 DEF hasCode
  <1>4. \/ /\ p.codeHash = o.codeHash /\ p.code = o.code /\ p.dirtyCode = o.dirtyCode
        \/ /\ p.codeHash = newStateObject.codeHash /\ p.code = newStateObject.code
           /\ p.dirtyCode = newStateObject.dirtyCode
        \/ p.dirtyCode = TRUE /\ p.code = p.codeHash
    BY <1>1 DEF Change, Objects
  <1> QED
    BY <1>1, <1>2, <1>3, <1>4 DEF hasCode

\* A call of a transaction keeps the codes of the tree at hand.
LEMMA CallHasCode ==
  ASSUME TypeOK, codesAtHand(base, codes, tree), AccountCall \/ TakeLogs
  PROVE  codesAtHand(base, codes, tree')
  <1>1. base \in Bases /\ tree \in Trees
    BY DEF TypeOK
  <1>2. OneAccount \/ OnlyLogs \/ \E a, x \in Addrs : Destruct(a, x)
    BY CallForm
  <1>3. ASSUME NEW t \in Trees, codesAtHand(base, codes, t), NEW a \in Addrs,
               NEW p \in Objects, ~p.deleted, hasCode(codes, p)
        PROVE  codesAtHand(base, codes, insert(t, a, p))
    BY <1>1, <1>3, ReadInserted DEF codesAtHand
  <1>4. ASSUME NEW t, codesAtHand(base, codes, t), tree'.objs = t.objs
        PROVE  codesAtHand(base, codes, tree')
    BY <1>4, SameObjects DEF codesAtHand
  <1>5. CASE OneAccount
    <2>1. PICK a \in Addrs, p \in Objects :
            Replaces(a, p) /\ Change(a, objectOrNew(base, tree, a), p)
      BY <1>5 DEF OneAccount
    <2>2. hasCode(codes, p)
      BY <1>1, <2>1, ObjectType, ChangeHasCode DEF codesAtHand
    <2>3. codesAtHand(base, codes, insert(tree, a, p))
      BY <1>1, <1>3, <2>1, <2>2 DEF Replaces
    <2> QED
      BY <1>4, <2>1, <2>3 DEF Replaces
  <1>6. CASE OnlyLogs
    <2>1. tree'.objs = tree.objs
      BY <1>1, <1>6 DEF OnlyLogs, EmitLog, DropLogs, Trees
    <2> QED
      BY <1>4, <2>1
  <1>7. ASSUME NEW a \in Addrs, NEW x \in Addrs, Destruct(a, x)
        PROVE  codesAtHand(base, codes, tree')
    <2> DEFINE n == objectOrNew(base, tree, a).balance
               p == [objectOrNew(base, tree, x) EXCEPT !.balance = @ + n]
               paid == insert(tree, x, p)
               q == [objectOrNew(base, paid, a) EXCEPT !.suicide = TRUE, !.balance = 0]
    <2>1. /\ p \in Objects /\ ~p.deleted /\ paid \in Trees
          /\ q \in Objects /\ ~q.deleted
          /\ tree'.objs = IF Exist(base, paid, a) THEN insert(paid, a, q).objs
                                                  ELSE paid.objs
      BY <1>1, <1>7, DestructForm DEF Destruct, Write
    <2>2. hasCode(codes, p)
      <3>1. objectOrNew(base, tree, x) \in Objects
        BY <1>1, ObjectType
      <3> QED
        BY <3>1 DEF codesAtHand, hasCode, Objects
    <2>3. codesAtHand(base, codes, paid)
      <3> HIDE DEF p
      <3> QED
        BY <1>1, <1>3, <2>1, <2>2
    <2> HIDE DEF paid
    <2>4. hasCode(codes, q)
      <3>1. objectOrNew(base, paid, a) \in Objects
        BY <1>1, <2>1, ObjectType
      <3> QED
        BY <2>3, <3>1 DEF codesAtHand, hasCode, Objects
    <2> HIDE DEF q
    <2>5. codesAtHand(base, codes, insert(paid, a, q))
      BY <1>3, <2>1, <2>3, <2>4
    <2> QED
      BY <1>4, <2>1, <2>3, <2>5
  <1> QED
    BY <1>2, <1>5, <1>6, <1>7

\* What an address reads after the commit: the same account, its storage folded
\* into its root, with no object over it.
LEMMA CommitReads ==
  ASSUME NEW b \in Bases, NEW t \in Trees, NEW a \in Addrs
  PROVE  LET o == objectOrNew(b, t, a)
             n == objectOrNew(CommitBase(b, t), NewTree, a)
         IN /\ Exist(CommitBase(b, t), NewTree, a) <=> Exist(b, t, a)
            /\ n.nonce = o.nonce /\ n.balance = o.balance /\ n.codeHash = o.codeHash
            /\ ~n.dirtyCode /\ ~n.suicide
            /\ storageOf(n) = storageOf(o)
            /\ n.root = storageOf(o)
  <1> DEFINE o == objectOrNew(b, t, a)
             B == CommitBase(b, t)
             n == objectOrNew(B, NewTree, a)
  <1>1. NewTree.objs[a] = NoObject
    BY DEF NewTree
  <1>2. B[a] = IF t.objs[a] = NoObject THEN b[a]
               ELSE IF t.objs[a].deleted THEN NoAccount ELSE accountOf(t.objs[a])
    BY DEF CommitBase
  <1>3. /\ Exist(B, NewTree, a) <=> B[a] # NoAccount
        /\ n = IF B[a] # NoAccount THEN objectOf(B[a]) ELSE newStateObject
    <2>1. \A acc \in Accounts : objectOf(acc) # NoObject
      BY NewObjectType, TxnConstants
    <2>2. B[a] \in Accounts \cup {NoAccount}
      BY EndType DEF Bases
    <2> QED
      BY <1>1, <2>1, <2>2 DEF objectOrNew, Exist, getStateObject
  <1>4. /\ storageOf(newStateObject) = newStateObject.root
        /\ ~newStateObject.dirtyCode /\ ~newStateObject.suicide
    BY DEF storageOf, newStateObject, EmptyStateHash
  <1>5. ASSUME NEW acc \in Accounts
        PROVE  storageOf(objectOf(acc)) = acc.root
    BY DEF storageOf, objectOf, Accounts, Roots
  <1>6. b[a] \in Accounts \cup {NoAccount} /\ t.objs[a] \in Objects \cup {NoObject}
    BY DEF Bases, Trees
  <1> HIDE DEF B
  <1>7. CASE t.objs[a] = NoObject
    <2>1. o = n /\ (Exist(B, NewTree, a) <=> Exist(b, t, a))
      BY <1>2, <1>3, <1>7, NewObjectType, TxnConstants, <1>6
         DEF objectOrNew, Exist, getStateObject
    <2>2. CASE b[a] = NoAccount
      BY <1>2, <1>3, <1>4, <1>7, <2>1, <2>2 DEF B
    <2>3. CASE b[a] # NoAccount
      BY <1>2, <1>3, <1>5, <1>6, <1>7, <2>1, <2>3 DEF B, objectOf
    <2> QED
      BY <2>2, <2>3
  <1>8. CASE t.objs[a] # NoObject /\ t.objs[a].deleted
    <2>1. o = newStateObject /\ n = newStateObject
          /\ ~Exist(b, t, a) /\ ~Exist(B, NewTree, a)
      BY <1>2, <1>3, <1>8 DEF objectOrNew, Exist, getStateObject
    <2> QED
      BY <1>4, <2>1 DEF B
  <1>9. CASE t.objs[a] # NoObject /\ ~t.objs[a].deleted
    <2>1. o = t.objs[a] /\ Exist(b, t, a) /\ o \in Objects
      BY <1>6, <1>9 DEF objectOrNew, Exist, getStateObject
    <2>2. accountOf(o) \in Accounts
      BY <2>1 DEF accountOf, Accounts, Objects, Roots, storageOf
    <2>3. B[a] = accountOf(o) /\ B[a] # NoAccount
      BY <1>2, <1>9, <2>1, <2>2, TxnConstants
    <2>4. n = objectOf(accountOf(o)) /\ Exist(B, NewTree, a)
      BY <1>3, <2>3
    <2>5. storageOf(n) = storageOf(o)
      BY <1>5, <2>2, <2>4 DEF accountOf
    <2> QED
      BY <2>1, <2>4, <2>5 DEF B, objectOf, accountOf
  <1> QED
    BY <1>7, <1>8, <1>9

\* The store after the commit has the code of every account.
LEMMA CommitHasCode ==
  ASSUME NEW b \in Bases, NEW t \in Trees, NEW c, codesAtHand(b, c, t)
  PROVE  /\ codesAtHand(CommitBase(b, t), CommitCodes(c, t), NewTree)
         /\ c \subseteq CommitCodes(c, t)
         /\ \A a \in Addrs : objectOrNew(b, t, a).dirtyCode =>
              objectOrNew(b, t, a).codeHash \in CommitCodes(c, t)
  <1>1. c \subseteq CommitCodes(c, t)
    BY DEF CommitCodes
  <1>2. ASSUME NEW a \in Addrs, objectOrNew(b, t, a).dirtyCode
        PROVE  objectOrNew(b, t, a).codeHash \in CommitCodes(c, t)
    <2>1. /\ t.objs[a] # NoObject /\ ~t.objs[a].deleted
          /\ objectOrNew(b, t, a) = t.objs[a]
      BY <1>2 DEF objectOrNew, Exist, getStateObject, objectOf, newStateObject
    <2> QED
      BY <1>2, <2>1 DEF CommitCodes
  <1>3. ASSUME NEW a \in Addrs
        PROVE  hasCode(CommitCodes(c, t), objectOrNew(CommitBase(b, t), NewTree, a))
    <2>1. hasCode(c, objectOrNew(b, t, a))
      BY DEF codesAtHand
    <2> QED
      BY <1>1, <1>2, <2>1, CommitReads DEF hasCode
  <1> QED
    BY <1>1, <1>2, <1>3 DEF codesAtHand

\* The strengthening is inductive.
LEMMA CodeStep ==
  ASSUME CodeInv, [Next]_vars
  PROVE  CodeInv'
  <1>1. /\ TypeOK /\ TypeOK' /\ base \in Bases /\ tree \in Trees
        /\ snapshots \in Seq(Trees)
        /\ codesAtHand(base, codes, tree)
        /\ \A i \in 1 .. Len(snapshots) : codesAtHand(base, codes, snapshots[i])
    BY TypeStep DEF CodeInv, TypeOK
  <1>2. CASE AccountCall \/ TakeLogs
    <2>1. UNCHANGED <<base, codes, snapshots>>
      BY <1>1, <1>2, CallForm
    <2>2. codesAtHand(base, codes, tree')
      BY <1>1, <1>2, CallHasCode
    <2> QED
      BY <1>1, <2>1, <2>2 DEF CodeInv
  <1>3. CASE Snapshot
    <2>1. /\ UNCHANGED <<base, codes, tree>> /\ snapshots' = Append(snapshots, tree)
      BY <1>3 DEF Snapshot, overlay
    <2>2. ASSUME NEW i \in 1 .. Len(snapshots')
          PROVE  codesAtHand(base, codes, snapshots'[i])
      <3>1. CASE i = Len(snapshots) + 1
        BY <1>1, <2>1, <3>1
      <3>2. CASE i # Len(snapshots) + 1
        <4>1. i \in 1 .. Len(snapshots) /\ snapshots'[i] = snapshots[i]
          BY <1>1, <2>1, <3>2
        <4> QED
          BY <1>1, <4>1
      <3> QED
        BY <3>1, <3>2
    <2> QED
      BY <1>1, <2>1, <2>2 DEF CodeInv
  <1>4. ASSUME NEW id \in txSnap + 1 .. Len(snapshots), RevertToSnapshot(id)
        PROVE  CodeInv'
    <2>1. UNCHANGED <<base, codes, snapshots>> /\ tree' = snapshots[id]
      BY <1>4 DEF RevertToSnapshot, overlay
    <2>2. id \in 1 .. Len(snapshots)
      BY <1>1 DEF TypeOK
    <2> QED
      BY <1>1, <2>1, <2>2 DEF CodeInv
  <1>5. ASSUME NEW d \in BOOLEAN, CleanDelete(d) PROVE CodeInv'
    <2>1. UNCHANGED <<base, codes, snapshots>> /\ tree' = CleanDeleteObjects(tree, d)
      BY <1>5 DEF CleanDelete, overlay
    <2>2. ASSUME NEW a \in Addrs PROVE hasCode(codes, objectOrNew(base, tree', a))
      BY <1>1, <2>1, CleanReads, NewHasCode DEF codesAtHand
    <2> QED
      BY <1>1, <2>1, <2>2 DEF CodeInv, codesAtHand
  <1>6. CASE NextTx
    BY <1>1, <1>6 DEF NextTx, CodeInv, overlay
  <1>7. CASE Commit
    BY <1>1, <1>7 DEF Commit, CodeInv, overlay
  <1>8. CASE Rebase
    <2>1. /\ base' = CommitBase(base, tree) /\ codes' = CommitCodes(codes, tree)
          /\ tree' = NewTree /\ snapshots' = << >>
      BY <1>8 DEF Rebase
    <2>2. codesAtHand(base', codes', tree')
      BY <1>1, <2>1, CommitHasCode
    <2> QED
      BY <1>1, <2>1, <2>2 DEF CodeInv
  <1>9. CASE UNCHANGED vars
    BY <1>1, <1>9 DEF CodeInv, vars
  <1> QED
    BY <1>2, <1>3, <1>4, <1>5, <1>6, <1>7, <1>8, <1>9 DEF Next

\* The store starts with the codes of the accounts.
LEMMA CodeInit ==
  ASSUME Init
  PROVE  CodeInv
  <1>1. base \in Bases /\ codes \subseteq Codes
    BY CallConstants DEF Init, Bases, Accounts
  <1>2. TypeOK
    BY <1>1, NewTreeType, CallConstants DEF Init, TypeOK
  <1>3. ASSUME NEW a \in Addrs PROVE hasCode(codes, objectOrNew(base, NewTree, a))
    <2>1. NewTree.objs[a] = NoObject
      BY DEF NewTree
    <2>2. CASE base[a] = NoAccount
      BY <2>1, <2>2, NewHasCode DEF objectOrNew, Exist, getStateObject
    <2>3. CASE base[a] # NoAccount
      <3>1. base[a].codeHash \in codes
        BY <2>3 DEF Init
      <3>2. objectOrNew(base, NewTree, a) \in {objectOf(base[a]), newStateObject}
        BY <2>1, <2>3 DEF objectOrNew, Exist, getStateObject
      <3>3. hasCode(codes, objectOf(base[a]))
        BY <3>1 DEF hasCode, objectOf
      <3> QED
        BY <3>2, <3>3, NewHasCode
    <2> QED
      BY <2>2, <2>3
  <1> QED
    BY <1>2, <1>3 DEF Init, CodeInv, codesAtHand

\* The strengthening holds in every state.
LEMMA CodeAlways == Spec => []CodeInv
  <1>1. Init => CodeInv
    BY CodeInit
  <1>2. CodeInv /\ [Next]_vars => CodeInv'
    BY CodeStep
  <1> QED
    BY <1>1, <1>2, PTL DEF Spec

\* The code of every account a reader of Txn may meet, now or after a revert,
\* is in the object or in the store, whatever was created, destroyed, reverted
\* and committed before: the miss that GetCode would ignore never happens.
THEOREM CodeIsAvailable == Spec => []CodeAvailable
  <1>1. CodeInv => CodeAvailable
    <2> SUFFICES ASSUME CodeInv, NEW t \in Live, NEW a \in Addrs,
                        getStateObject(base, t, a) # NoObject
                 PROVE  hasCode(codes, getStateObject(base, t, a))
      BY DEF CodeAvailable, hasCode
    <2>1. codesAtHand(base, codes, t)
      BY DEF CodeInv, Live, TypeOK
    <2> QED
      BY <2>1 DEF codesAtHand, objectOrNew, Exist
  <1> QED
    BY <1>1, CodeAlways, PTL

\* Committing the objects and opening the next overlay on what Snapshot.Commit
\* returned changes nothing that a reader of accounts, codes and slots can see.
THEOREM CommitIsInvisible == Spec => CommitPreservesView
  <1>1. ASSUME CodeInv, Rebase
        PROVE  View(base', codes', tree') = View(base, codes, tree)
    <2>1. /\ base \in Bases /\ tree \in Trees /\ codesAtHand(base, codes, tree)
          /\ base' = CommitBase(base, tree) /\ codes' = CommitCodes(codes, tree)
          /\ tree' = NewTree
      BY <1>1 DEF CodeInv, TypeOK, Rebase
    <2>2. base' \in Bases /\ tree' \in Trees
      BY <2>1, EndType, NewTreeType
    <2>3. ASSUME NEW a \in Addrs
          PROVE  viewOf(base', codes', tree', a) = viewOf(base, codes, tree, a)
      <3> DEFINE o == objectOrNew(base, tree, a)
                 n == objectOrNew(base', tree', a)
      <3>1. /\ Exist(base', tree', a) <=> Exist(base, tree, a)
            /\ n.nonce = o.nonce /\ n.balance = o.balance /\ n.codeHash = o.codeHash
            /\ ~n.dirtyCode
            /\ storageOf(n) = storageOf(o)
        BY <2>1, CommitReads
      <3>2. GetCodeHash(base', tree', a) = GetCodeHash(base, tree, a)
        BY <3>1 DEF GetCodeHash, objectOrNew
      <3>3. GetCode(base', codes', tree', a) = GetCode(base, codes, tree, a)
        <4>1. hasCode(codes, o) /\ codes \subseteq codes'
          BY <2>1, CommitHasCode DEF codesAtHand
        <4>2. o.dirtyCode => o.codeHash \in codes'
          BY <2>1, CommitHasCode
        <4> QED
          BY <3>1, <4>1, <4>2 DEF GetCode, hasCode
      <3>4. ASSUME NEW k \in Keys
            PROVE  GetState(base', tree', a, k) = GetState(base, tree, a, k)
        BY <2>1, <2>2, <3>1, SlotReads
      <3>5. /\ GetNonce(base', tree', a) = GetNonce(base, tree, a)
            /\ GetBalance(base', tree', a) = GetBalance(base, tree, a)
        BY <3>1 DEF GetNonce, GetBalance
      <3>6. Exist(base', tree', a) = Exist(base, tree, a)
        BY <3>1 DEF Exist
      <3>7. [k \in Keys |-> GetState(base', tree', a, k)]
              = [k \in Keys |-> GetState(base, tree, a, k)]
        BY <3>4
      <3> QED
        BY <3>2, <3>3, <3>5, <3>6, <3>7 DEF viewOf
    <2> QED
      BY <2>3 DEF View
  <1>2. CodeInv /\ [Next]_vars =>
          [Rebase => View(base', codes', tree') = View(base, codes, tree)]_vars
    BY <1>1
  <1> QED
    BY <1>2, CodeAlways, PTL DEF Spec, CommitPreservesView

-----------------------------------------------------------------------------
(* Destroyed storage stays away.                                           *)

\* A missing account has no storage, and no call but a write of a slot gives
\* the object it makes for it any.
LEMMA ChangeOfMissing ==
  ASSUME NEW a \in Addrs, NEW p \in Objects, Change(a, newStateObject, p),
         NEW k \in Keys, storageOf(p)[k] # Zero
  PROVE  \E v \in Vals : Store(a, k, v) \/ Fill(a, k, v)
  <1>1. /\ newStateObject \in Objects /\ newStateObject.root[k] = Zero
        /\ newStateObject.slots[k] = Unset
    BY NewObjectType DEF newStateObject, EmptyStateHash
  <1>2. ASSUME p.root = newStateObject.root, p.slots = newStateObject.slots
        PROVE  FALSE
    BY <1>1, <1>2 DEF storageOf
  <1>3. PICK j \in Keys, v \in Vals :
          /\ p = [newStateObject EXCEPT !.slots[j] = v]
          /\ Store(a, j, v) \/ Fill(a, j, v)
    <2>1. \/ p.root = newStateObject.root /\ p.slots = newStateObject.slots
          \/ \E j \in Keys, v \in Vals : /\ p = [newStateObject EXCEPT !.slots[j] = v]
                                         /\ Store(a, j, v) \/ Fill(a, j, v)
      BY <1>1 DEF Change, Objects
    <2> QED
      BY <1>2, <2>1
  <1>4. j = k
    BY <1>1, <1>3 DEF storageOf, Objects
  <1> QED
    BY <1>3, <1>4

\* The storage of an account that does not exist stays zero whatever the
\* transaction, its end or a commit does to it or to others, unless that very
\* slot is written or a snapshot from before is brought back.
THEOREM StorageStaysAway == Spec => NoResurrection
  <1> DEFINE Cause(a, k) ==
               \/ \E v \in Vals : Store(a, k, v) \/ Fill(a, k, v)
               \/ \E id \in txSnap + 1 .. Len(snapshots) : RevertToSnapshot(id)
  <1>1. ASSUME TypeOK, Next, NEW a \in Addrs, NEW k \in Keys,
               ~Exist(base, tree, a), GetState(base', tree', a, k) # Zero
        PROVE  Cause(a, k)
    <2>1. /\ base \in Bases /\ tree \in Trees /\ base' \in Bases /\ tree' \in Trees
          /\ TypeOK'
      BY <1>1, TypeStep DEF TypeOK
    <2>2. objectOrNew(base, tree, a) = newStateObject
      BY <1>1 DEF objectOrNew
    <2>3. storageOf(newStateObject)[k] = Zero
      BY DEF storageOf, newStateObject, EmptyStateHash
    <2>4. storageOf(objectOrNew(base', tree', a))[k] # Zero
      BY <1>1, <2>1, SlotReads
    <2>5. CASE AccountCall \/ TakeLogs
      <3>1. base' = base /\ (OneAccount \/ OnlyLogs \/ \E y, x \in Addrs : Destruct(y, x))
        BY <1>1, <2>5, CallForm
      <3>2. CASE OneAccount
        <4>1. PICK y \in Addrs, p \in Objects :
                Replaces(y, p) /\ Change(y, objectOrNew(base, tree, y), p)
          BY <3>2 DEF OneAccount
        <4>2. objectOrNew(base, tree', a) = objectOrNew(base, insert(tree, y, p), a)
          BY <4>1, SameObjects DEF Replaces
        <4>3. y = a /\ objectOrNew(base, tree', a) = p
          BY <2>1, <2>2, <2>3, <2>4, <3>1, <4>1, <4>2, ReadInserted DEF Replaces
        <4> QED
          BY <2>2, <2>4, <3>1, <4>1, <4>3, ChangeOfMissing
      <3>3. CASE OnlyLogs
        <4>1. tree'.objs = tree.objs
          BY <2>1, <3>3 DEF OnlyLogs, EmitLog, DropLogs, Trees
        <4> QED
          BY <2>2, <2>3, <2>4, <3>1, <4>1, SameObjects
      <3>4. ASSUME NEW y \in Addrs, NEW x \in Addrs, Destruct(y, x) PROVE FALSE
        <4> DEFINE n == objectOrNew(base, tree, y).balance
                   p == [objectOrNew(base, tree, x) EXCEPT !.balance = @ + n]
                   paid == insert(tree, x, p)
                   q == [objectOrNew(base, paid, y) EXCEPT !.suicide = TRUE, !.balance = 0]
        <4>1. /\ p \in Objects /\ ~p.deleted /\ paid \in Trees
              /\ q \in Objects /\ ~q.deleted
              /\ tree'.objs = IF Exist(base, paid, y) THEN insert(paid, y, q).objs
                                                      ELSE paid.objs
          <5>1. tree' = Selfdestruct(base, tree, y, x)
            BY <3>4 DEF Destruct, Write
          <5>2. base \in Bases /\ tree \in Trees
            BY <2>1
          <5> QED
            BY <5>1, <5>2, DestructForm, ZenonT(60)
        <4>2. storageOf(p) = storageOf(objectOrNew(base, tree, x))
          BY <2>1, ObjectType DEF storageOf, Objects
        <4>3. storageOf(objectOrNew(base, paid, a))[k] = Zero
          <5> HIDE DEF p
          <5> QED
            BY <2>1, <2>2, <2>3, <4>1, <4>2, ReadInserted
        <4> HIDE DEF paid
        <4>4. storageOf(q) = storageOf(objectOrNew(base, paid, y))
          BY <2>1, <4>1, ObjectType DEF storageOf, Objects
        <4> HIDE DEF q
        <4>5. storageOf(objectOrNew(base, insert(paid, y, q), a))[k] = Zero
          BY <2>1, <4>1, <4>3, <4>4, ReadInserted
        <4> QED
          BY <2>4, <3>1, <4>1, <4>3, <4>5, SameObjects
      <3> QED
        BY <3>1, <3>2, <3>3, <3>4
    <2>6. CASE Snapshot \/ NextTx \/ Commit
      <3>1. tree' = tree /\ base' = base
        BY <2>6 DEF Snapshot, NextTx, Commit, overlay
      <3> QED
        BY <2>2, <2>3, <2>4, <3>1
    <2>7. ASSUME NEW d \in BOOLEAN, CleanDelete(d) PROVE FALSE
      <3>1. tree' = CleanDeleteObjects(tree, d) /\ base' = base
        BY <2>7 DEF CleanDelete, overlay
      <3>2. objectOrNew(base', tree', a) = newStateObject
        BY <2>1, <2>2, <3>1, CleanReads
      <3> QED
        BY <2>3, <2>4, <3>2
    <2>8. CASE Rebase
      <3>1. base' = CommitBase(base, tree) /\ tree' = NewTree
        BY <2>8 DEF Rebase
      <3> QED
        BY <2>1, <2>2, <2>3, <2>4, <3>1, CommitReads
    <2> QED
      BY <1>1, <2>5, <2>6, <2>7, <2>8 DEF Next
  <1>2. TypeOK /\ [Next]_vars =>
          [\A a \in Addrs, k \in Keys :
             (~Exist(base, tree, a) /\ GetState(base', tree', a, k) # Zero) =>
               Cause(a, k)]_vars
    BY <1>1
  <1> QED
    BY <1>2, TypeCorrect, PTL DEF Spec, NoResurrection

-----------------------------------------------------------------------------
(* Txn implements Ledger.                                                  *)

row(e, n, b, c, h, s, d) ==
  [exists |-> e, nonce |-> n, balance |-> b, code |-> c, codeHash |-> h,
   storage |-> s, doomed |-> d]

yes == TRUE
no == FALSE

codeOf(c, o) ==
  IF o.dirtyCode THEN o.code ELSE IF o.codeHash \in c THEN o.codeHash ELSE EmptyCode

\* The record of the ledger that the object o stands for, with the code store c.
rec(c, o) ==
  row(yes, o.nonce, o.balance, codeOf(c, o), o.codeHash, storageOf(o), o.suicide)

withNonce(r, x) == [r EXCEPT !.nonce = x]
withBalance(r, x) == [r EXCEPT !.balance = x]
withStorage(r, x) == [r EXCEPT !.storage = x]
burnt(r) == [r EXCEPT !.balance = 0, !.doomed = TRUE]
withCode(r, x) == [r EXCEPT !.code = x, !.codeHash = x]

\* The fields of a row.
LEMMA RowFields ==
  ASSUME NEW e, NEW n, NEW b, NEW c, NEW h, NEW s, NEW d
  PROVE  LET r == row(e, n, b, c, h, s, d) IN
         /\ r.exists = e /\ r.nonce = n /\ r.balance = b /\ r.code = c
         /\ r.codeHash = h /\ r.storage = s /\ r.doomed = d
  BY DEF row

\* Writing a field of a row gives the row with that field.
LEMMA RowUpdates ==
  ASSUME NEW e, NEW n, NEW b, NEW c, NEW h, NEW s, NEW d, NEW x
  PROVE  /\ withNonce(row(e, n, b, c, h, s, d), x) = row(e, x, b, c, h, s, d)
         /\ withBalance(row(e, n, b, c, h, s, d), x) = row(e, n, x, c, h, s, d)
         /\ withStorage(row(e, n, b, c, h, s, d), x) = row(e, n, b, c, h, x, d)
         /\ withCode(row(e, n, b, c, h, s, d), x) = row(e, n, b, x, x, s, d)
  <1>1. \A f : [f EXCEPT !.code = x, !.codeHash = x]
                 = [[f EXCEPT !.code = x] EXCEPT !.codeHash = x]
    OBVIOUS
  <1>2. /\ [row(e, n, b, c, h, s, d) EXCEPT !.nonce = x] = row(e, x, b, c, h, s, d)
        /\ [row(e, n, b, c, h, s, d) EXCEPT !.balance = x] = row(e, n, x, c, h, s, d)
        /\ [row(e, n, b, c, h, s, d) EXCEPT !.storage = x] = row(e, n, b, c, h, x, d)
    BY DEF row
  <1>3. /\ [row(e, n, b, c, h, s, d) EXCEPT !.code = x] = row(e, n, b, x, h, s, d)
        /\ [row(e, n, b, x, h, s, d) EXCEPT !.codeHash = x] = row(e, n, b, x, x, s, d)
    BY DEF row
  <1>4. withCode(row(e, n, b, c, h, s, d), x) = row(e, n, b, x, x, s, d)
    BY <1>1, <1>3 DEF withCode
  <1> QED
    BY <1>2, <1>4, Zenon DEF withNonce, withBalance, withStorage

\* The row of an account that Suicide marks.
LEMMA RowBurnt ==
  ASSUME NEW e, NEW n, NEW b, NEW c, NEW h, NEW s, NEW d
  PROVE  burnt(row(e, n, b, c, h, s, d)) = row(e, n, 0, c, h, s, yes)
  <2>1. burnt(row(e, n, b, c, h, s, d))
          = [[row(e, n, b, c, h, s, d) EXCEPT !.balance = 0] EXCEPT !.doomed = yes]
    BY DEF burnt, yes
  <2>2. /\ [row(e, n, b, c, h, s, d) EXCEPT !.balance = 0] = row(e, n, 0, c, h, s, d)
        /\ [row(e, n, 0, c, h, s, d) EXCEPT !.doomed = yes] = row(e, n, 0, c, h, s, yes)
    BY DEF row
  <2> QED
    BY <2>1, <2>2

ledger(b, c, t) ==
  [a \in Addrs |-> IF Exist(b, t, a) THEN rec(c, objectOrNew(b, t, a)) ELSE L!absent]

\* A fresh object is a fresh account; an absent account is one with no hash.
LEMMA RecOfNew ==
  ASSUME NEW c
  PROVE  /\ rec(c, newStateObject) = L!fresh
         /\ L!fresh.exists = yes /\ L!absent.exists = no
         /\ L!absent.balance = 0 /\ L!absent.doomed = no
         /\ L!absent = row(no, 0, 0, EmptyCode, Zero,
                           storageOf(newStateObject), no)
  <1>1. storageOf(newStateObject) = [k \in Keys |-> Zero]
    BY DEF storageOf, newStateObject, EmptyStateHash
  <1>2. L!fresh = row(yes, 0, 0, EmptyCode, EmptyCode, storageOf(newStateObject), no)
    BY <1>1 DEF L!fresh, row, yes, no
  <1>3. L!absent = row(no, 0, 0, EmptyCode, Zero, storageOf(newStateObject), no)
    <2> DEFINE g == row(no, 0, 0, EmptyCode, EmptyCode, storageOf(newStateObject), no)
               z == row(no, 0, 0, EmptyCode, Zero, storageOf(newStateObject), no)
    <2>1. L!absent = [[L!fresh EXCEPT !.exists = no] EXCEPT !.codeHash = Zero]
      BY DEF L!absent, no
    <2>2. [L!fresh EXCEPT !.exists = no] = g
      BY <1>2 DEF row
    <2>3. [g EXCEPT !.codeHash = Zero] = z
      BY DEF row
    <2> QED
      BY <2>1, <2>2, <2>3
  <1>4. codeOf(c, newStateObject) = EmptyCode
    BY DEF codeOf, newStateObject
  <1>5. /\ newStateObject.nonce = 0 /\ newStateObject.balance = 0
        /\ newStateObject.codeHash = EmptyCode /\ newStateObject.suicide = no
    BY DEF newStateObject, no
  <1>6. L!absent.exists = no /\ L!absent.balance = 0 /\ L!absent.doomed = no
    BY <1>3, RowFields
  <1>7. L!fresh.exists = yes
    BY <1>2, RowFields
  <1> QED
    BY <1>2, <1>3, <1>4, <1>5, <1>6, <1>7 DEF rec

\* The fields of an account's record are those of its object.
LEMMA RecFields ==
  ASSUME NEW o, NEW c
  PROVE  LET r == rec(c, o) IN
         /\ r.exists = yes /\ r.nonce = o.nonce /\ r.balance = o.balance
         /\ r.code = codeOf(c, o) /\ r.codeHash = o.codeHash
         /\ r.storage = storageOf(o) /\ r.doomed = o.suicide
  BY RowFields DEF rec

\* Writing a field of an object writes it in the record.
LEMMA RecUpdates ==
  ASSUME NEW o \in Objects, NEW c
  PROVE  /\ \A n \in Nat :
              /\ rec(c, [o EXCEPT !.nonce = n]) = withNonce(rec(c, o), n)
              /\ rec(c, [o EXCEPT !.balance = n]) = withBalance(rec(c, o), n)
         /\ \A d \in Codes :
              rec(c, [o EXCEPT !.codeHash = d, !.dirtyCode = TRUE, !.code = d])
                = withCode(rec(c, o), d)
         /\ \A k \in Keys, v \in Vals :
              rec(c, [o EXCEPT !.slots[k] = v])
                = withStorage(rec(c, o), [rec(c, o).storage EXCEPT ![k] = v])
  <1>1. ASSUME NEW n \in Nat
        PROVE  /\ rec(c, [o EXCEPT !.nonce = n]) = withNonce(rec(c, o), n)
               /\ rec(c, [o EXCEPT !.balance = n]) = withBalance(rec(c, o), n)
    <2> DEFINE w == [o EXCEPT !.balance = n]
               u == [o EXCEPT !.nonce = n]
    <2>1. /\ w.codeHash = o.codeHash /\ w.code = o.code
          /\ w.dirtyCode = o.dirtyCode /\ w.suicide = o.suicide
          /\ w.root = o.root /\ w.slots = o.slots /\ w.nonce = o.nonce /\ w.balance = n
      BY DEF Objects
    <2>2. /\ u.codeHash = o.codeHash /\ u.code = o.code
          /\ u.dirtyCode = o.dirtyCode /\ u.suicide = o.suicide
          /\ u.root = o.root /\ u.slots = o.slots /\ u.nonce = n /\ u.balance = o.balance
      BY DEF Objects
    <2> HIDE DEF w, u
    <2>3. rec(c, w) = row(yes, o.nonce, n, codeOf(c, o), o.codeHash, storageOf(o), o.suicide)
      BY <2>1 DEF rec, codeOf, storageOf
    <2>4. rec(c, u) = row(yes, n, o.balance, codeOf(c, o), o.codeHash, storageOf(o), o.suicide)
      BY <2>2 DEF rec, codeOf, storageOf
    <2> QED
      BY <2>3, <2>4, RowUpdates DEF rec, w, u
  <1>2. ASSUME NEW d \in Codes
        PROVE  rec(c, [o EXCEPT !.codeHash = d, !.dirtyCode = TRUE, !.code = d])
                 = withCode(rec(c, o), d)
    <2> DEFINE q == [o EXCEPT !.codeHash = d, !.dirtyCode = TRUE, !.code = d]
    <2>1. /\ q.nonce = o.nonce /\ q.balance = o.balance /\ q.suicide = o.suicide
          /\ q.root = o.root /\ q.slots = o.slots
          /\ q.codeHash = d /\ q.code = d /\ q.dirtyCode = TRUE
      BY DEF Objects
    <2> HIDE DEF q
    <2>2. rec(c, q) = row(yes, o.nonce, o.balance, d, d, storageOf(o), o.suicide)
      BY <2>1 DEF rec, codeOf, storageOf
    <2> QED
      BY <2>2, RowUpdates DEF rec, q
  <1>3. ASSUME NEW k \in Keys, NEW v \in Vals
        PROVE  rec(c, [o EXCEPT !.slots[k] = v])
                 = withStorage(rec(c, o), [rec(c, o).storage EXCEPT ![k] = v])
    <2> DEFINE q == [o EXCEPT !.slots[k] = v]
               f == [storageOf(o) EXCEPT ![k] = v]
    <2>1. storageOf(q) = f
      BY TxnConstants DEF storageOf, Objects
    <2>2. /\ q.nonce = o.nonce /\ q.balance = o.balance /\ q.codeHash = o.codeHash
          /\ q.code = o.code /\ q.dirtyCode = o.dirtyCode /\ q.suicide = o.suicide
      BY DEF Objects
    <2> HIDE DEF q
    <2>3. rec(c, q) = row(yes, o.nonce, o.balance, codeOf(c, o), o.codeHash,
                          f, o.suicide)
      BY <2>1, <2>2 DEF rec, codeOf
    <2>4. rec(c, o).storage = storageOf(o)
      BY RecFields
    <2> HIDE DEF f
    <2>5. withStorage(rec(c, o), f) = rec(c, q)
      BY <2>3, RowUpdates DEF rec
    <2> QED
      BY <2>4, <2>5 DEF q, f
  <1> QED
    BY <1>1, <1>2, <1>3

\* Suicide burns in the record what it burns in the object.
LEMMA RecBurnt ==
  ASSUME NEW o \in Objects, NEW c
  PROVE  rec(c, [o EXCEPT !.suicide = TRUE, !.balance = 0]) = burnt(rec(c, o))
  <1> DEFINE q == [o EXCEPT !.suicide = TRUE, !.balance = 0]
  <1>1. /\ q.nonce = o.nonce /\ q.balance = 0 /\ q.codeHash = o.codeHash
        /\ q.code = o.code /\ q.dirtyCode = o.dirtyCode /\ q.suicide = yes
        /\ q.root = o.root /\ q.slots = o.slots
    BY DEF Objects, yes
  <1> HIDE DEF q
  <1>2. rec(c, q) = row(yes, o.nonce, 0, codeOf(c, o), o.codeHash, storageOf(o), yes)
    BY <1>1 DEF rec, codeOf, storageOf
  <1>3. burnt(rec(c, o)) = row(yes, o.nonce, 0, codeOf(c, o), o.codeHash, storageOf(o), yes)
    BY RowBurnt DEF rec
  <1> QED
    BY <1>2, <1>3 DEF q

\* The refinement mapping reads the objects, and nothing else of Txn.
LEMMA LedgerForm ==
  ASSUME NEW b, NEW c, NEW t
  PROVE  [a \in Addrs |->
            LET o == objectOrNew(b, t, a) IN
            [exists |-> Exist(b, t, a), nonce |-> o.nonce, balance |-> o.balance,
             code |-> GetCode(b, c, t, a), codeHash |-> GetCodeHash(b, t, a),
             storage |-> storageOf(o), doomed |-> o.suicide]]
           = ledger(b, c, t)
  <1> SUFFICES ASSUME NEW a \in Addrs
               PROVE  [exists |-> Exist(b, t, a), nonce |-> objectOrNew(b, t, a).nonce,
                       balance |-> objectOrNew(b, t, a).balance,
                       code |-> GetCode(b, c, t, a),
                       codeHash |-> GetCodeHash(b, t, a),
                       storage |-> storageOf(objectOrNew(b, t, a)),
                       doomed |-> objectOrNew(b, t, a).suicide]
                        = IF Exist(b, t, a) THEN rec(c, objectOrNew(b, t, a))
                                               ELSE L!absent
    BY Zenon DEF ledger
  <1> DEFINE o == objectOrNew(b, t, a)
             ex == Exist(b, t, a)
             code == GetCode(b, c, t, a)
             hash == GetCodeHash(b, t, a)
  <1>1. code = codeOf(c, o)
    BY DEF GetCode, codeOf
  <1>2. CASE Exist(b, t, a)
    <2>1. ex = yes /\ hash = o.codeHash
      BY <1>2 DEF GetCodeHash, objectOrNew, Exist, yes
    <2> HIDE DEF ex, code, hash, o
    <2>2. row(ex, o.nonce, o.balance, code, hash, storageOf(o), o.suicide) = rec(c, o)
      BY <1>1, <2>1, Zenon DEF rec
    <2> QED
      BY <1>2, <2>2, Zenon DEF row, ex, code, hash, o
  <1>3. CASE ~Exist(b, t, a)
    <2>1. /\ ex = no /\ hash = Zero /\ o = newStateObject
          /\ codeOf(c, newStateObject) = EmptyCode
          /\ newStateObject.nonce = 0 /\ newStateObject.balance = 0
          /\ newStateObject.suicide = no
      BY <1>3 DEF GetCodeHash, objectOrNew, Exist, newStateObject, codeOf, no
    <2> HIDE DEF ex, code, hash, o
    <2>2. row(ex, o.nonce, o.balance, code, hash, storageOf(o), o.suicide) = L!absent
      BY <1>1, <2>1, RecOfNew
    <2> QED
      BY <1>3, <2>2, Zenon DEF row, ex, code, hash, o
  <1> QED
    BY <1>2, <1>3

savedOf ==
  [i \in 1 .. Len(snapshots) |-> [accounts |-> LedgerOf(snapshots[i]),
                                  logs |-> snapshots[i].logs]]

savedIn(b, c, q) ==
  [i \in 1 .. Len(q) |-> [accounts |-> ledger(b, c, q[i]), logs |-> q[i].logs]]

\* The refinement mapping, in this state and in the next.
LEMMA Mapping ==
  /\ LedgerOf(tree) = ledger(base, codes, tree)
  /\ LedgerOf(tree)' = ledger(base', codes', tree')
  /\ savedOf = savedIn(base, codes, snapshots)
  /\ savedOf' = savedIn(base', codes', snapshots')
  <1>1. /\ LedgerOf(tree) = ledger(base, codes, tree)
        /\ LedgerOf(tree)' = ledger(base', codes', tree')
    BY LedgerForm, Zenon DEF LedgerOf
  <1>2. ASSUME NEW i
        PROVE  LedgerOf(snapshots[i]) = ledger(base, codes, snapshots[i])
    BY LedgerForm, Zenon DEF LedgerOf
  <1>3. ASSUME NEW i
        PROVE  LedgerOf(snapshots[i])' = ledger(base', codes', snapshots'[i])
    BY LedgerForm, Zenon DEF LedgerOf
  <1>4. savedOf = savedIn(base, codes, snapshots)
    BY <1>2 DEF savedOf, savedIn
  <1>5. savedOf' = savedIn(base', codes', snapshots')
    BY <1>3 DEF savedOf, savedIn
  <1> QED
    BY <1>1, <1>4, <1>5

\* What a call makes of an object is what a write of the ledger makes of its
\* record.
LEMMA RecWritten ==
  ASSUME NEW a \in Addrs, NEW o \in Objects, NEW p \in Objects,
         NEW c, NEW r, Change(a, o, p),
         r = rec(c, o) \/ (r = L!absent /\ o = newStateObject)
  PROVE  L!Written(r, rec(c, p))
  <1> DEFINE s == rec(c, o)
             z == rec(c, p)
  <1>1. r.balance = o.balance /\ r.doomed = o.suicide /\ L!live(r) = s
    <2>1. CASE r = rec(c, o)
      BY <2>1, RecFields DEF L!live, yes
    <2>2. CASE r = L!absent /\ o = newStateObject
      <3>1. newStateObject.balance = 0 /\ newStateObject.suicide = no
        BY DEF newStateObject, no
      <3> QED
        BY <2>2, <3>1, RecOfNew DEF L!live, no
    <2> QED
      BY <2>1, <2>2
  <1>2. s.balance = o.balance /\ s.nonce = o.nonce
    BY RecFields
  <1>3. L!fresh = rec(c, newStateObject) /\ newStateObject \in Objects
    BY RecOfNew, NewObjectType
  <1>4. o.balance \in Nat /\ o.nonce \in Nat
    BY DEF Objects
  <1> DEFINE Outcome ==
        \/ z = s
        \/ z = withNonce(s, s.nonce + 1)
        \/ z = withBalance(L!fresh, r.balance)
        \/ \E n \in Amounts : z = withBalance(s, s.balance + n)
        \/ \E n \in Amounts : n <= r.balance /\ z = withBalance(s, s.balance - n)
        \/ \E n \in Amounts : z = withBalance(s, n)
        \/ \E n \in Amounts : r.doomed /\ z = withBalance(L!fresh, n)
        \/ \E n \in Nonces : z = withNonce(s, n)
        \/ \E d \in Codes : z = withCode(s, d)
        \/ \E k \in Keys, v \in Vals : z = withStorage(s, [s.storage EXCEPT ![k] = v])
  <1>5. Outcome
    <2> HIDE DEF s, Outcome
    <2>1. ASSUME NEW n \in Amounts PROVE n \in Nat
      BY CallConstants
    <2>2. CASE p = o \/ p = [o EXCEPT !.nonce = @ + 1]
               \/ p = [newStateObject EXCEPT !.balance = o.balance]
      <3>1. p = o => z = s
        BY DEF s
      <3>2. p = [o EXCEPT !.nonce = @ + 1] => z = withNonce(s, s.nonce + 1)
        <4> DEFINE n == o.nonce + 1
        <4>1. n \in Nat
          BY <1>4
        <4> HIDE DEF n
        <4>2. p = [o EXCEPT !.nonce = n] => z = withNonce(s, n)
          BY <4>1, RecUpdates DEF s
        <4> QED
          BY <1>2, <4>2 DEF n
      <3>3. p = [newStateObject EXCEPT !.balance = o.balance]
              => z = withBalance(L!fresh, r.balance)
        <4>1. rec(c, [newStateObject EXCEPT !.balance = o.balance])
                = withBalance(rec(c, newStateObject), o.balance)
          BY <1>3, <1>4, RecUpdates
        <4> QED
          BY <1>1, <1>3, <4>1
      <3> HIDE DEF z
      <3> QED
        BY <2>2, <3>1, <3>2, <3>3 DEF Outcome
    <2>3. ASSUME NEW n \in Amounts, p = [o EXCEPT !.balance = @ + n] PROVE Outcome
      <3>1. o.balance + n \in Nat
        BY <1>4, <2>1
      <3>2. z = withBalance(s, o.balance + n)
        BY <2>3, <3>1, RecUpdates DEF s
      <3> HIDE DEF z
      <3> QED
        BY <1>2, <3>2 DEF Outcome
    <2>4. ASSUME NEW n \in Amounts, n <= o.balance, p = [o EXCEPT !.balance = @ - n]
          PROVE  Outcome
      <3>1. o.balance - n \in Nat
        BY <1>4, <2>1, <2>4
      <3>2. z = withBalance(s, o.balance - n)
        BY <2>4, <3>1, RecUpdates DEF s
      <3> HIDE DEF z
      <3> QED
        BY <1>1, <1>2, <2>4, <3>2 DEF Outcome
    <2>5. ASSUME NEW n \in Amounts, p = [o EXCEPT !.balance = n] PROVE Outcome
      <3>1. z = withBalance(s, n)
        BY <2>1, <2>5, RecUpdates DEF s
      <3> HIDE DEF z
      <3> QED
        BY <3>1 DEF Outcome
    <2>6. ASSUME NEW n \in Amounts, o.suicide, p = [newStateObject EXCEPT !.balance = n]
          PROVE  Outcome
      <3>1. z = withBalance(L!fresh, n)
        BY <1>3, <2>1, <2>6, RecUpdates
      <3> HIDE DEF z
      <3> QED
        BY <1>1, <2>6, <3>1 DEF Outcome
    <2>7. ASSUME NEW n \in Nonces, p = [o EXCEPT !.nonce = n] PROVE Outcome
      <3>1. z = withNonce(s, n)
        <4>1. n \in Nat
          BY CallConstants
        <4> QED
          BY <2>7, <4>1, RecUpdates DEF s
      <3> HIDE DEF z
      <3> QED
        BY <3>1 DEF Outcome
    <2>8. ASSUME NEW d \in Codes,
                 p = [o EXCEPT !.codeHash = d, !.dirtyCode = TRUE, !.code = d]
          PROVE  Outcome
      <3>1. z = withCode(s, d)
        BY <2>8, RecUpdates DEF s
      <3> HIDE DEF z
      <3> QED
        BY <3>1 DEF Outcome
    <2>9. ASSUME NEW k \in Keys, NEW v \in Vals, p = [o EXCEPT !.slots[k] = v]
          PROVE  Outcome
      <3>1. z = withStorage(s, [s.storage EXCEPT ![k] = v])
        BY <2>9, RecUpdates, ZenonT(60) DEF s
      <3> HIDE DEF z
      <3> QED
        BY <3>1 DEF Outcome
    <2> QED
      BY <2>2, <2>3, <2>4, <2>5, <2>6, <2>7, <2>8, <2>9 DEF Change
  <1> HIDE DEF s, z
  <1>6. L!Written(r, z)
    <2> DEFINE at(k, v) == [s EXCEPT !.storage[k] = v]
               put(k, v) == withStorage(s, [s.storage EXCEPT ![k] = v])
    <2>1. \A k, v : at(k, v) = put(k, v)
      BY DEF withStorage
    <2>2. CASE \E k \in Keys, v \in Vals : z = put(k, v)
      <3>1. \E k \in Keys, v \in Vals : z = at(k, v)
        <4> HIDE DEF at, put
        <4> QED
          BY <2>1, <2>2
      <3> QED
        BY <1>1, <3>1, Zenon DEF L!Written
    <2>3. CASE ~\E k \in Keys, v \in Vals : z = put(k, v)
      BY <1>1, <1>5, <2>3, Zenon DEF L!Written, withNonce, withBalance, withCode
    <2> QED
      BY <2>2, <2>3
  <1> QED
    BY <1>6 DEF z

put(l, a, r) == [l EXCEPT ![a] = r]

\* Writing one object writes one account of the ledger.
LEMMA LedgerWrite ==
  ASSUME NEW b \in Bases, NEW t \in Trees, NEW c, NEW a \in Addrs, NEW p \in Objects,
         ~p.deleted, NEW u, u.objs = insert(t, a, p).objs
  PROVE  /\ ledger(b, c, u) = put(ledger(b, c, t), a, rec(c, p))
         /\ ledger(b, c, u)[a] = rec(c, p)
         /\ \A x \in Addrs \ {a} : ledger(b, c, u)[x] = ledger(b, c, t)[x]
         /\ DOMAIN ledger(b, c, t) = Addrs
  <1>1. /\ objectOrNew(b, u, a) = p /\ Exist(b, u, a)
    BY ReadInserted, SameObjects
  <1>2. ASSUME NEW x \in Addrs \ {a}
        PROVE  /\ objectOrNew(b, u, x) = objectOrNew(b, t, x)
               /\ Exist(b, u, x) <=> Exist(b, t, x)
    <2>1. insert(t, a, p).objs[x] = t.objs[x]
      BY InsertType
    <2> QED
      BY <2>1 DEF objectOrNew, Exist, getStateObject
  <1>3. /\ ledger(b, c, u)[a] = rec(c, p)
        /\ \A x \in Addrs \ {a} : ledger(b, c, u)[x] = ledger(b, c, t)[x]
        /\ DOMAIN ledger(b, c, t) = Addrs /\ DOMAIN ledger(b, c, u) = Addrs
    BY <1>1, <1>2 DEF ledger
  <1>4. ledger(b, c, t) = [x \in Addrs |-> ledger(b, c, t)[x]]
        /\ ledger(b, c, u) = [x \in Addrs |-> ledger(b, c, u)[x]]
    BY DEF ledger
  <1> QED
    BY <1>3, <1>4 DEF put

\* What the ledger shows of an object, and of a missing one.
LEMMA LedgerRead ==
  ASSUME NEW b, NEW t, NEW c, NEW a \in Addrs
  PROVE  LET r == ledger(b, c, t)[a]
             o == objectOrNew(b, t, a)
         IN /\ \/ r = rec(c, o) /\ Exist(b, t, a)
               \/ r = L!absent /\ o = newStateObject /\ ~Exist(b, t, a)
            /\ L!live(r) = rec(c, o)
            /\ r.balance = o.balance /\ r.doomed = o.suicide
            /\ r.exists <=> Exist(b, t, a)
  <1> DEFINE r == ledger(b, c, t)[a]
             o == objectOrNew(b, t, a)
  <1>1. \/ r = rec(c, o) /\ Exist(b, t, a)
        \/ r = L!absent /\ o = newStateObject /\ ~Exist(b, t, a)
    BY DEF ledger, objectOrNew
  <1> HIDE DEF r, o
  <1>2. CASE r = rec(c, o) /\ Exist(b, t, a)
    <2>1. L!live(r) = rec(c, o)
      BY <1>2, RecFields DEF L!live, yes
    <2>2. r.balance = o.balance /\ r.doomed = o.suicide /\ r.exists = yes
      BY <1>2, RecFields
    <2>3. r.exists <=> Exist(b, t, a)
      BY <1>2, <2>2 DEF yes
    <2> QED
      BY <1>1, <2>1, <2>2, <2>3 DEF r, o
  <1>3. CASE r = L!absent /\ o = newStateObject /\ ~Exist(b, t, a)
    <2>1. newStateObject.balance = 0 /\ newStateObject.suicide = no
      BY DEF newStateObject, no
    <2>2. L!live(r) = rec(c, o)
      BY <1>3, RecOfNew DEF L!live, no
    <2> QED
      BY <1>1, <1>3, <2>1, <2>2, RecOfNew DEF no, r, o
  <1> QED
    BY <1>1, <1>2, <1>3


\* A call that writes one object is a write of one account of the ledger.
LEMMA WriteImplements ==
  ASSUME TypeOK, OneAccount, UNCHANGED <<base, codes, snapshots>>
  PROVE  \E a \in Addrs : L!Write(a)
  <1>1. base \in Bases /\ tree \in Trees
    BY DEF TypeOK
  <1>2. PICK a \in Addrs, p \in Objects :
          Replaces(a, p) /\ Change(a, objectOrNew(base, tree, a), p)
    BY DEF OneAccount
  <1> DEFINE A == ledger(base, codes, tree)
             B == ledger(base, codes, tree')
  <1>3. B[a] = rec(codes, p) /\ \A x \in Addrs \ {a} : B[x] = A[x]
    BY <1>1, <1>2, LedgerWrite DEF Replaces
  <1>4. L!Written(A[a], rec(codes, p))
    <2>1. \/ A[a] = rec(codes, objectOrNew(base, tree, a))
          \/ A[a] = L!absent /\ objectOrNew(base, tree, a) = newStateObject
      BY LedgerRead
    <2> QED
      BY <1>1, <1>2, <2>1, ObjectType, RecWritten
  <1>5. LedgerOf(tree) = A /\ LedgerOf(tree)' = B /\ savedOf' = savedOf
    BY Mapping
  <1>6. tree'.logs = tree.logs
    BY <1>2 DEF Replaces
  <1> HIDE DEF A, B
  <1>7. L!Written(LedgerOf(tree)[a], LedgerOf(tree)'[a])
    BY <1>3, <1>4, <1>5
  <1>8. \A x \in Addrs \ {a} : LedgerOf(tree)'[x] = LedgerOf(tree)[x]
    BY <1>3, <1>5
  <1>9. L!Write(a)
    BY <1>5, <1>6, <1>7, <1>8, Zenon DEF L!Write, savedOf
  <1> QED
    BY <1>9

\* Selfdestruct pays, marks and burns as the ledger's Destruct does.
LEMMA DestructImplements ==
  ASSUME TypeOK, NEW a \in Addrs, NEW x \in Addrs, Destruct(a, x)
  PROVE  L!Destruct(a, x)
  <1> DEFINE o == objectOrNew(base, tree, x)
             n == objectOrNew(base, tree, a).balance
             p == [objectOrNew(base, tree, x) EXCEPT !.balance = @ + n]
             paid == insert(tree, x, p)
             q == [objectOrNew(base, paid, a) EXCEPT !.suicide = TRUE, !.balance = 0]
             A == ledger(base, codes, tree)
             P == ledger(base, codes, paid)
             B == ledger(base, codes, tree')
  <1>1. base \in Bases /\ tree \in Trees
    BY DEF TypeOK
  <1>2. UNCHANGED <<base, codes, snapshots>> /\ tree' = Selfdestruct(base, tree, a, x)
    BY DEF Destruct, Write, overlay
  <1>3. /\ n \in Nat /\ p \in Objects /\ ~p.deleted /\ paid \in Trees
        /\ q \in Objects /\ ~q.deleted
        /\ tree'.objs = IF Exist(base, paid, a) THEN insert(paid, a, q).objs ELSE paid.objs
        /\ tree'.logs = tree.logs
    BY <1>1, <1>2, DestructForm
  <1>4. o \in Objects /\ o.balance \in Nat /\ o.balance + n \in Nat
    <2>1. o \in Objects
      BY <1>1, ObjectType
    <2> QED
      BY <1>3, <2>1 DEF Objects
  <1>5. rec(codes, p) = withBalance(rec(codes, o), o.balance + n)
    <2> DEFINE m == o.balance + n
    <2>1. rec(codes, [o EXCEPT !.balance = m]) = withBalance(rec(codes, o), m)
      <3> HIDE DEF m, o
      <3> QED
        BY <1>4, RecUpdates DEF m
    <2> QED
      BY <2>1
  <1>6. /\ A[a].balance = n
        /\ L!live(A[x]) = rec(codes, o)
        /\ L!live(A[x]).balance = o.balance
    BY LedgerRead, RecFields
  <1>7. P = put(A, x, rec(codes, p))
    <2> HIDE DEF p
    <2> QED
      BY <1>1, <1>3, LedgerWrite
  <1>8. /\ P[a].exists <=> Exist(base, paid, a)
        /\ Exist(base, paid, a) => P[a] = rec(codes, objectOrNew(base, paid, a))
    <2> HIDE DEF paid
    <2> QED
      BY LedgerRead
  <1>9. rec(codes, q) = burnt(rec(codes, objectOrNew(base, paid, a)))
    <2>1. objectOrNew(base, paid, a) \in Objects
      BY <1>1, <1>3, ObjectType
    <2> HIDE DEF paid
    <2> QED
      BY <2>1, RecBurnt
  <1>10. B = IF P[a].exists THEN put(P, a, burnt(P[a])) ELSE P
    <2>1. CASE Exist(base, paid, a)
      <3> HIDE DEF q, paid
      <3>1. B = put(P, a, rec(codes, q))
        BY <1>1, <1>3, <2>1, LedgerWrite
      <3> QED
        BY <1>8, <1>9, <2>1, <3>1
    <2>2. CASE ~Exist(base, paid, a)
      <3> HIDE DEF q, paid
      <3>1. B = P
        BY <1>3, <2>2, SameObjects DEF ledger
      <3> QED
        BY <1>8, <2>2, <3>1
    <2> QED
      BY <2>1, <2>2
  <1>11. LedgerOf(tree) = A /\ LedgerOf(tree)' = B /\ savedOf' = savedOf
    BY <1>2, Mapping
  <1> HIDE DEF A, B, P, o, n
  <1>12. P = put(A, x, withBalance(L!live(A[x]), L!live(A[x]).balance + A[a].balance))
    BY <1>5, <1>6, <1>7
  <1> HIDE DEF p, q, paid
  <1> DEFINE R == [LedgerOf(tree) EXCEPT ![x] =
                     [L!live(LedgerOf(tree)[x]) EXCEPT
                        !.balance = @ + LedgerOf(tree)[a].balance]]
  <1>13. P = R
    <2> DEFINE C == LedgerOf(tree)
    <2>1. P = put(C, x, withBalance(L!live(C[x]), L!live(C[x]).balance + C[a].balance))
      BY <1>11, <1>12
    <2> QED
      BY <2>1, Zenon DEF withBalance, put
  <1> HIDE DEF R
  <1>14. LedgerOf(tree)' = IF R[a].exists THEN put(R, a, burnt(R[a])) ELSE R
    BY <1>10, <1>11, <1>13
  <1>15. UNCHANGED <<tree.logs, savedOf>>
    BY <1>3, <1>11
  <1> QED
    BY <1>14, <1>15, Zenon DEF L!Destruct, savedOf, put, burnt, R


\* Every step of Txn is a step of the ledger, or leaves it alone.
LEMMA LedgerStep ==
  ASSUME CodeInv, [Next]_vars
  PROVE  [L!Next]_<<LedgerOf(tree), tree.logs, savedOf>>
  <1> DEFINE A == ledger(base, codes, tree)
             B == ledger(base', codes', tree')
             S == savedIn(base, codes, snapshots)
             T == savedIn(base', codes', snapshots')
             Goal == [L!Next]_<<LedgerOf(tree), tree.logs, savedOf>>
  <1>1. /\ TypeOK /\ base \in Bases /\ tree \in Trees /\ snapshots \in Seq(Trees)
        /\ codesAtHand(base, codes, tree)
    BY DEF CodeInv, TypeOK
  <1>2. /\ LedgerOf(tree) = A /\ LedgerOf(tree)' = B
        /\ savedOf = S /\ savedOf' = T
    BY Mapping
  <1>3. ASSUME A = B, tree'.logs = tree.logs, S = T PROVE Goal
    BY <1>2, <1>3
  <1>4. ASSUME \/ \E a \in Addrs : L!Write(a) \/ L!Emit(a)
               \/ \E a, b \in Addrs : L!Destruct(a, b)
               \/ L!TakeLogs \/ L!Save \/ L!Restore \/ L!Clean \/ L!Reopen
        PROVE  Goal
    BY <1>4 DEF L!Next
  <1> SUFFICES Goal
    OBVIOUS
  <1> HIDE DEF Goal
  <1>5. CASE AccountCall \/ TakeLogs
    <2>1. /\ UNCHANGED <<base, codes, snapshots>>
          /\ OneAccount \/ OnlyLogs \/ \E a, x \in Addrs : Destruct(a, x)
      BY <1>1, <1>5, CallForm
    <2>2. CASE OneAccount
      BY <1>1, <1>4, <2>1, <2>2, WriteImplements
    <2>3. CASE \E a, x \in Addrs : Destruct(a, x)
      BY <1>1, <1>4, <2>3, DestructImplements
    <2>4. CASE OnlyLogs
      <3>1. tree'.objs = tree.objs
        BY <1>1, <2>4 DEF OnlyLogs, EmitLog, DropLogs, Trees
      <3>2. A = B /\ S = T
        BY <2>1, <3>1, SameObjects DEF ledger
      <3>3. UNCHANGED <<LedgerOf(tree), savedOf>>
        BY <1>2, <3>2
      <3>4. CASE tree' = tree
        BY <1>3, <3>2, <3>4
      <3>5. ASSUME NEW a \in Addrs, tree' = EmitLog(tree, a) PROVE Goal
        <4>1. tree'.logs = Append(tree.logs, [address |-> a])
          BY <1>1, <3>5 DEF EmitLog, Trees
        <4>2. L!Emit(a)
          BY <3>3, <4>1, Zenon DEF L!Emit, savedOf
        <4> QED
          BY <1>4, <4>2
      <3>6. CASE tree' = DropLogs(tree)
        <4>1. tree'.logs = << >>
          BY <1>1, <3>6 DEF DropLogs, Trees
        <4>2. L!TakeLogs
          BY <3>3, <4>1, Zenon DEF L!TakeLogs, savedOf
        <4> QED
          BY <1>4, <4>2
      <3> QED
        BY <2>4, <3>4, <3>5, <3>6 DEF OnlyLogs
    <2> QED
      BY <2>1, <2>2, <2>3, <2>4
  <1>6. CASE Snapshot
    <2>1. /\ UNCHANGED <<base, codes, tree>> /\ snapshots' = Append(snapshots, tree)
      BY <1>6 DEF Snapshot, overlay
    <2>2. A = B
      BY <2>1
    <2>3. T = Append(S, [accounts |-> A, logs |-> tree.logs])
      BY <1>1, <2>1 DEF savedIn
    <2> HIDE DEF A, B, S, T
    <2>4. savedOf' = Append(savedOf, [accounts |-> LedgerOf(tree), logs |-> tree.logs])
      BY <1>2, <2>3
    <2>5. UNCHANGED <<LedgerOf(tree), tree.logs>>
      BY <1>2, <2>1, <2>2
    <2>6. L!Save
      BY <2>4, <2>5, Zenon DEF L!Save, L!world, savedOf
    <2> QED
      BY <1>4, <2>6
  <1>7. ASSUME NEW id \in txSnap + 1 .. Len(snapshots), RevertToSnapshot(id)
        PROVE  Goal
    <2>1. UNCHANGED <<base, codes, snapshots>> /\ tree' = snapshots[id]
      BY <1>7 DEF RevertToSnapshot, overlay
    <2>2. id \in 1 .. Len(snapshots)
      BY <1>1 DEF TypeOK
    <2>3. /\ S = T /\ Len(S) = Len(snapshots)
          /\ S[id].accounts = B /\ S[id].logs = tree'.logs
      BY <1>1, <2>1, <2>2 DEF savedIn
    <2> HIDE DEF A, B, S, T
    <2>4. /\ id \in 1 .. Len(savedOf) /\ UNCHANGED savedOf
          /\ savedOf[id].accounts = LedgerOf(tree)' /\ savedOf[id].logs = tree'.logs
      BY <1>2, <2>2, <2>3
    <2>5. L!Restore
      BY <2>4, Zenon DEF L!Restore, savedOf
    <2> QED
      BY <1>4, <2>5
  <1>8. ASSUME NEW d \in BOOLEAN, CleanDelete(d) PROVE Goal
    <2>1. /\ UNCHANGED <<base, codes, snapshots>>
          /\ tree' = CleanDeleteObjects(tree, d)
      BY <1>8 DEF CleanDelete, overlay
    <2>2. S = T
      BY <2>1
    <2>3. tree'.logs = tree.logs
      BY <1>1, <2>1 DEF CleanDeleteObjects, Trees
    <2>4. ASSUME NEW a \in Addrs
          PROVE  \/ B[a] = L!absent /\ (A[a].doomed \/ L!empty(A[a]))
                 \/ B[a] = A[a] /\ ~A[a].doomed
      <3> DEFINE o == tree.objs[a]
                 p == objectOrNew(base, tree, a)
                 gone == o # NoObject /\ (o.suicide \/ (isEmpty(o) /\ d))
      <3>1. o \in Objects \cup {NoObject} /\ p \in Objects
        BY <1>1, ObjectType DEF Trees
      <3>2. A[a].doomed = p.suicide
        BY LedgerRead
      <3>3. CASE gone
        <4>1. B[a] = L!absent
          <5>1. ~Exist(base, tree', a)
            BY <1>1, <2>1, <3>3, CleanReads
          <5> QED
            BY <2>1, <5>1 DEF ledger
        <4>2. CASE o.deleted
          <5>1. A[a] = L!absent
            BY <3>3, <4>2 DEF ledger, Exist, getStateObject
          <5>2. L!absent.doomed = no
            BY RecOfNew
          <5> QED
            BY <4>1, <5>1, <5>2 DEF no
        <4>3. CASE ~o.deleted
          <5>1. p = o /\ A[a] = rec(codes, o)
            BY <3>1, <3>3, <4>3 DEF ledger, objectOrNew, Exist, getStateObject
          <5>2. CASE o.suicide
            BY <3>2, <4>1, <5>1, <5>2
          <5>3. CASE isEmpty(o)
            <6>1. rec(codes, o).nonce = 0 /\ rec(codes, o).balance = 0
                  /\ rec(codes, o).codeHash = EmptyCode
              BY <5>3, RecFields DEF isEmpty
            <6> QED
              BY <4>1, <5>1, <6>1 DEF L!empty
          <5> QED
            BY <3>3, <5>2, <5>3
        <4> QED
          BY <4>2, <4>3
      <3>4. CASE ~gone
        <4>1. B[a] = A[a]
          BY <1>1, <2>1, <3>4, CleanReads DEF ledger
        <4>2. ~p.suicide
          BY <3>1, <3>4, <1>1 DEF objectOrNew, Exist, getStateObject, objectOf, newStateObject
        <4> QED
          BY <3>2, <4>1, <4>2
      <3> QED
        BY <3>3, <3>4
    <2> HIDE DEF A, B, S, T
    <2>5. \A a \in Addrs :
            \/ LedgerOf(tree)'[a] = L!absent
               /\ (LedgerOf(tree)[a].doomed \/ L!empty(LedgerOf(tree)[a]))
            \/ LedgerOf(tree)'[a] = LedgerOf(tree)[a] /\ ~LedgerOf(tree)[a].doomed
      BY <1>2, <2>4
    <2>6. UNCHANGED <<tree.logs, savedOf>>
      BY <1>2, <2>2, <2>3
    <2>7. L!Clean
      BY <2>5, <2>6, Zenon DEF L!Clean, savedOf
    <2> QED
      BY <1>4, <2>7
  <1>9. CASE NextTx \/ Commit \/ UNCHANGED vars
    <2>1. UNCHANGED <<base, codes, tree, snapshots>>
      BY <1>9 DEF NextTx, Commit, overlay, vars
    <2> QED
      BY <1>3, <2>1
  <1>10. CASE Rebase
    <2>1. /\ base' = CommitBase(base, tree) /\ codes' = CommitCodes(codes, tree)
          /\ tree' = NewTree /\ snapshots' = << >>
      BY <1>10 DEF Rebase
    <2>2. T = << >>
      BY <2>1 DEF savedIn
    <2>3. tree'.logs = << >>
      BY <2>1 DEF NewTree
    <2>4. ASSUME NEW a \in Addrs
          PROVE  B[a] = [A[a] EXCEPT !.doomed = FALSE]
      <3> DEFINE o == objectOrNew(base, tree, a)
                 n == objectOrNew(base', tree', a)
      <3>1. /\ Exist(base', tree', a) <=> Exist(base, tree, a)
            /\ n.nonce = o.nonce /\ n.balance = o.balance /\ n.codeHash = o.codeHash
            /\ ~n.dirtyCode /\ ~n.suicide
            /\ storageOf(n) = storageOf(o)
        BY <1>1, <2>1, CommitReads
      <3>2. n \in Objects
        BY <1>1, <2>1, EndType, NewTreeType, ObjectType
      <3>3. codeOf(codes', n) = codeOf(codes, o)
        <4>1. hasCode(codes, o) /\ codes \subseteq codes'
          BY <1>1, <2>1, CommitHasCode DEF codesAtHand
        <4>2. o.dirtyCode => o.codeHash \in codes'
          BY <1>1, <2>1, CommitHasCode
        <4> QED
          BY <3>1, <4>1, <4>2 DEF codeOf, hasCode
      <3>4. n.suicide = no
        BY <3>1, <3>2 DEF no, Objects
      <3> DEFINE w == row(yes, o.nonce, o.balance, codeOf(codes, o), o.codeHash,
                          storageOf(o), no)
      <3>5. rec(codes', n) = w
        BY <3>1, <3>3, <3>4 DEF rec
      <3>6. [rec(codes, o) EXCEPT !.doomed = no] = w
        BY DEF rec, row
      <3>7. [L!absent EXCEPT !.doomed = no] = L!absent
        BY RecOfNew DEF row
      <3> HIDE DEF w
      <3>8. CASE Exist(base, tree, a)
        <4>1. A[a] = rec(codes, o) /\ B[a] = rec(codes', n)
          BY <3>1, <3>8 DEF ledger
        <4> QED
          BY <3>5, <3>6, <4>1 DEF no
      <3>9. CASE ~Exist(base, tree, a)
        <4>1. A[a] = L!absent /\ B[a] = L!absent
          BY <3>1, <3>9 DEF ledger
        <4> QED
          BY <3>7, <4>1 DEF no
      <3> QED
        BY <3>8, <3>9
    <2>5. B = [a \in Addrs |-> B[a]]
      BY DEF ledger
    <2> HIDE DEF A, B, S, T
    <2>6. LedgerOf(tree)' = [a \in Addrs |-> [LedgerOf(tree)[a] EXCEPT !.doomed = FALSE]]
      BY <1>2, <2>4, <2>5
    <2>7. L!Reopen
      BY <1>2, <2>2, <2>3, <2>6, Zenon DEF L!Reopen, savedOf
    <2> QED
      BY <1>4, <2>7
  <1> QED
    BY <1>5, <1>6, <1>7, <1>8, <1>9, <1>10 DEF Next

\* What the snapshot under the first overlay holds is a ledger.
LEMMA LedgerInit ==
  ASSUME Init
  PROVE  L!Init
  <1> DEFINE A == ledger(base, codes, tree)
  <1>1. /\ base \in Bases /\ tree = NewTree /\ tree \in Trees /\ snapshots = << >>
        /\ codes \in SUBSET Codes
    BY CodeInit, NewTreeType DEF CodeInv, TypeOK, Init
  <1>2. LedgerOf(tree) = A /\ savedOf = << >>
    BY <1>1, Mapping DEF savedIn
  <1>3. ASSUME NEW a \in Addrs
        PROVE  /\ A[a] \in [exists: BOOLEAN, nonce: Nat, balance: Nat, code: Codes,
                            codeHash: Codes \cup {Zero}, storage: [Keys -> Vals],
                            doomed: BOOLEAN]
               /\ A[a].exists \/ A[a] = L!absent
               /\ A[a].code = A[a].codeHash \/ ~A[a].exists
               /\ ~A[a].doomed
    <2> DEFINE o == objectOrNew(base, tree, a)
    <2>1. o \in Objects
      BY <1>1, ObjectType
    <2>2. tree.objs[a] = NoObject
      BY <1>1 DEF NewTree
    <2>3. ~o.dirtyCode /\ ~o.suicide
      BY <2>2 DEF objectOrNew, Exist, getStateObject, objectOf, newStateObject
    <2>4. Exist(base, tree, a) => codeOf(codes, o) = o.codeHash
      <3>1. hasCode(codes, o)
        BY CodeInit DEF CodeInv, codesAtHand
      <3> QED
        BY <2>3, <3>1 DEF codeOf, hasCode
    <2>5. storageOf(o) \in [Keys -> Vals]
      BY <2>1 DEF storageOf, Objects, Roots
    <2>6. /\ o.nonce \in Nat /\ o.balance \in Nat /\ o.codeHash \in Codes
          /\ o.suicide \in BOOLEAN
      BY <2>1 DEF Objects
    <2> HIDE DEF o
    <2>7. CASE Exist(base, tree, a)
      <3>1. A[a] = rec(codes, o)
        BY <2>7 DEF ledger, o
      <3>2. A[a] = row(yes, o.nonce, o.balance, o.codeHash, o.codeHash, storageOf(o), o.suicide)
        BY <2>4, <2>7, <3>1 DEF rec
      <3> HIDE DEF A
      <3>3. /\ A[a].exists = yes /\ A[a].code = A[a].codeHash /\ A[a].doomed = o.suicide
        BY <3>2, RowFields
      <3>4. A[a] \in [exists: BOOLEAN, nonce: Nat, balance: Nat, code: Codes,
                      codeHash: Codes \cup {Zero}, storage: [Keys -> Vals],
                      doomed: BOOLEAN]
        BY <2>5, <2>6, <3>2 DEF row, yes
      <3> QED
        BY <2>3, <3>3, <3>4 DEF yes
    <2>8. CASE ~Exist(base, tree, a)
      <3>1. A[a] = L!absent
        BY <2>8 DEF ledger
      <3> HIDE DEF A
      <3>2. L!absent.exists = no /\ L!absent.doomed = no
        BY RecOfNew
      <3>3. L!absent \in [exists: BOOLEAN, nonce: Nat, balance: Nat, code: Codes,
                          codeHash: Codes \cup {Zero}, storage: [Keys -> Vals],
                          doomed: BOOLEAN]
        <4>1. storageOf(newStateObject) \in [Keys -> Vals]
          BY <2>5, <2>8 DEF o, objectOrNew
        <4>2. L!absent = row(no, 0, 0, EmptyCode, Zero, storageOf(newStateObject), no)
          BY RecOfNew
        <4> QED
          BY <4>1, <4>2, TxnConstants DEF row, no
      <3> QED
        BY <3>1, <3>2, <3>3 DEF no
    <2> QED
      BY <2>7, <2>8
  <1>4. A = [a \in Addrs |-> A[a]]
    BY DEF ledger
  <1> HIDE DEF A
  <1>5. A \in L!Ledgers
    BY <1>3, <1>4 DEF L!Ledgers
  <1>6. tree.logs = << >>
    BY <1>1 DEF NewTree
  <1>7. /\ LedgerOf(tree) \in L!Ledgers
        /\ \A a \in Addrs :
             /\ LedgerOf(tree)[a].exists \/ LedgerOf(tree)[a] = L!absent
             /\ LedgerOf(tree)[a].code = LedgerOf(tree)[a].codeHash
                \/ ~LedgerOf(tree)[a].exists
             /\ ~LedgerOf(tree)[a].doomed
    BY <1>2, <1>3, <1>5
  <1> QED
    BY <1>2, <1>6, <1>7, Zenon DEF L!Init, savedOf

\* The overlay is invisible: with its tree, deleted markers, snapshots, storage
\* roots, dirty codes and code store, Txn implements the plain map of accounts
\* of Ledger, call by call, for every number of accounts, calls, transactions
\* and commits.
THEOREM TxnImplementsLedger == Spec => ImplementsLedger
  <1>1. Init => L!Init
    BY LedgerInit
  <1>2. CodeInv /\ [Next]_vars =>
          [L!Next]_<<LedgerOf(tree), tree.logs,
                     [i \in 1 .. Len(snapshots) |->
                        [accounts |-> LedgerOf(snapshots[i]),
                         logs |-> snapshots[i].logs]]>>
    BY LedgerStep DEF savedOf
  <1> QED
    BY <1>1, <1>2, CodeAlways, PTL DEF Spec, ImplementsLedger, L!Spec

=============================================================================

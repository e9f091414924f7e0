------------------------------- MODULE TxnOps -------------------------------
(***************************************************************************)
(* The operations of Txn (txn.go), the journaled overlay that a block's    *)
(* transactions write to, as operators on values.                          *)
(*                                                                         *)
(*   b  the Snapshot under the overlay (state.go, interface Snapshot):     *)
(*      what GetAccount returns for every address;                         *)
(*   t  the radix tree (Txn.txn): the state objects written so far, the    *)
(*      logs (logIndex) and the refund counter (refundIndex).              *)
(*                                                                         *)
(* Keccak hashes are content addresses and are modelled by the content: a  *)
(* storage root IS the storage map it commits to, a code hash IS the code. *)
(* Readers take (b, t, ...) and return a value; writers return the new t.  *)
(* An operator named Op_word is Op with a plausible bug: the runs' mutants. *)
(***************************************************************************)
EXTENDS Integers, Sequences, FiniteSets

CONSTANTS
  Addrs,      \* account addresses
  Keys,       \* storage slots
  Vals,       \* storage words, Zero among them
  Zero,       \* the zero hash: an unset slot
  Codes,      \* contract codes, EmptyCode among them
  EmptyCode,  \* the code whose hash is EmptyCodeHash
  Unset,      \* no entry for a slot in an object's own storage tree
  NoAccount,  \* Snapshot.GetAccount returned nil
  NoObject,   \* no entry for an address in the radix tree
  Word,       \* 2^64: the refund counter is a uint64
  Forks       \* runtime.ForksInTime

Slots == Addrs \X Keys

Roots == [Keys -> Vals]

\* Account (account.go) as the snapshot stores it.
Accounts == [nonce: Nat, balance: Nat, root: Roots, codeHash: Codes]

\* stateObject (state.go): Account, Code, Suicide, Deleted, DirtyCode, Txn.
Objects == [nonce: Nat, balance: Nat, root: Roots, codeHash: Codes,
            code: Codes, dirtyCode: BOOLEAN, suicide: BOOLEAN,
            deleted: BOOLEAN, slots: [Keys -> Vals \cup {Unset}]]

Log == [address: Addrs]

Trees == [objs: [Addrs -> Objects \cup {NoObject}],
          logs: Seq(Log),
          refund: 0 .. Word - 1]

Bases == [Addrs -> Accounts \cup {NoAccount}]

ForkNames == {"Homestead", "Byzantium", "Constantinople", "Petersburg",
              "Istanbul", "EIP150", "EIP158"}

ASSUME TxnConstants ==
  /\ Zero \in Vals
  /\ EmptyCode \in Codes
  /\ Unset \notin Vals
  /\ NoAccount \notin Accounts
  /\ NoObject \notin Objects
  /\ Word \in Nat \ {0}
  /\ Forks \in [ForkNames -> BOOLEAN]
  /\ IsFiniteSet(Addrs)
  /\ IsFiniteSet(Keys)

\* EmptyStateHash: the root of the empty storage trie.
EmptyStateHash == [k \in Keys |-> Zero]

\* newTxn: an empty radix tree over the snapshot.
NewTree == [objs |-> [a \in Addrs |-> NoObject], logs |-> << >>, refund |-> 0]

-----------------------------------------------------------------------------
(* Reading an account: the tree first, the snapshot under it.              *)

\* The object built around an account found only in the snapshot.
objectOf(acc) ==
  [nonce |-> acc.nonce, balance |-> acc.balance, root |-> acc.root,
   codeHash |-> acc.codeHash, code |-> EmptyCode, dirtyCode |-> FALSE,
   suicide |-> FALSE, deleted |-> FALSE, slots |-> [k \in Keys |-> Unset]]

newStateObject ==
  [nonce |-> 0, balance |-> 0, root |-> EmptyStateHash,
   codeHash |-> EmptyCode, code |-> EmptyCode, dirtyCode |-> FALSE,
   suicide |-> FALSE, deleted |-> FALSE, slots |-> [k \in Keys |-> Unset]]

\* A deleted object hides the snapshot's account of the same address.
getStateObject(b, t, a) ==
  IF t.objs[a] # NoObject
  THEN IF t.objs[a].deleted THEN NoObject ELSE t.objs[a]
  ELSE IF b[a] # NoAccount THEN objectOf(b[a]) ELSE NoObject

Exist(b, t, a) == getStateObject(b, t, a) # NoObject

\* The object upsertAccount hands to its callback when create is true.
objectOrNew(b, t, a) ==
  IF Exist(b, t, a) THEN getStateObject(b, t, a) ELSE newStateObject

insert(t, a, o) == [t EXCEPT !.objs[a] = o]

GetBalance(b, t, a) == objectOrNew(b, t, a).balance

GetNonce(b, t, a) == objectOrNew(b, t, a).nonce

\* A missing account has the zero hash, an account without code EmptyCodeHash.
GetCodeHash(b, t, a) ==
  IF Exist(b, t, a) THEN getStateObject(b, t, a).codeHash ELSE Zero

\* A dirty object carries its code; otherwise the code store is asked, which
\* answers nil for a hash it does not hold.
GetCode(b, codes, t, a) ==
  LET o == objectOrNew(b, t, a) IN
  IF o.dirtyCode THEN o.code
  ELSE IF o.codeHash \in codes THEN o.codeHash ELSE EmptyCode

\* An object's storage: its own tree where it has an entry, its root elsewhere.
storageOf(o) ==
  [k \in Keys |-> IF o.slots[k] # Unset THEN o.slots[k] ELSE o.root[k]]

GetState(b, t, a, k) ==
  IF Exist(b, t, a) THEN storageOf(getStateObject(b, t, a))[k] ELSE Zero

GetCommittedState(b, t, a, k) ==
  IF Exist(b, t, a) THEN getStateObject(b, t, a).root[k] ELSE Zero

HasSuicided(b, t, a) == Exist(b, t, a) /\ getStateObject(b, t, a).suicide

isEmpty(o) == o.nonce = 0 /\ o.balance = 0 /\ o.codeHash = EmptyCode

Empty(b, t, a) == isEmpty(objectOrNew(b, t, a))

-----------------------------------------------------------------------------
(* Writing an account.                                                     *)

TouchAccount(b, t, a) == insert(t, a, objectOrNew(b, t, a))

\* A variant that takes the object of the tree without looking at Deleted.
AddBalance_revives(b, t, a, amount) ==
  LET o == IF t.objs[a] = NoObject THEN objectOrNew(b, t, a) ELSE t.objs[a]
  IN insert(t, a, [o EXCEPT !.balance = @ + amount, !.deleted = FALSE])

AddBalance(b, t, a, amount) ==
  insert(t, a, [objectOrNew(b, t, a) EXCEPT !.balance = @ + amount])

\* Whether SubBalance answers ErrNotEnoughFunds, leaving the tree alone.
NotEnoughFunds(b, t, a, amount) == amount # 0 /\ GetBalance(b, t, a) < amount

\* A variant without the check of the funds.
SubBalance_unchecked(b, t, a, amount) ==
  insert(t, a, [objectOrNew(b, t, a) EXCEPT !.balance = @ - amount])

SubBalance(b, t, a, amount) ==
  IF amount = 0 \/ NotEnoughFunds(b, t, a, amount) THEN t
  ELSE insert(t, a, [objectOrNew(b, t, a) EXCEPT !.balance = @ - amount])

SetBalance(b, t, a, amount) ==
  insert(t, a, [objectOrNew(b, t, a) EXCEPT !.balance = amount])

\* A suicided coinbase starts over with the reward alone.
AddSealingReward(b, t, a, amount) ==
  LET o == objectOrNew(b, t, a) IN
  insert(t, a, IF o.suicide THEN [newStateObject EXCEPT !.balance = amount]
                            ELSE [o EXCEPT !.balance = @ + amount])

IncrNonce(b, t, a) ==
  insert(t, a, [objectOrNew(b, t, a) EXCEPT !.nonce = @ + 1])

SetNonce(b, t, a, n) ==
  insert(t, a, [objectOrNew(b, t, a) EXCEPT !.nonce = n])

\* A variant that forgets DirtyCode.
SetCode_clean(b, t, a, c) ==
  insert(t, a, [objectOrNew(b, t, a) EXCEPT !.codeHash = c, !.code = c])

SetCode(b, t, a, c) ==
  insert(t, a, [objectOrNew(b, t, a) EXCEPT !.codeHash = c,
                                            !.dirtyCode = TRUE,
                                            !.code = c])

\* A variant that forgets the storage when it marks the account.
Suicide_dropsStorage(b, t, a) ==
  IF ~Exist(b, t, a) THEN t
  ELSE insert(t, a, [newStateObject EXCEPT !.suicide = TRUE,
                                           !.nonce = GetNonce(b, t, a)])

\* create is false: a missing account is left missing.
Suicide(b, t, a) ==
  IF ~Exist(b, t, a) THEN t
  ELSE insert(t, a, [getStateObject(b, t, a) EXCEPT !.suicide = TRUE,
                                                    !.balance = 0])

\* A fresh account that keeps the balance the address already had.
CreateAccount(b, t, a) ==
  insert(t, a, [newStateObject EXCEPT !.balance = GetBalance(b, t, a)])

-----------------------------------------------------------------------------
(* Refunds, logs and storage.                                              *)

AddRefund(t, gas) == [t EXCEPT !.refund = (@ + gas) % Word]

SubRefund(t, gas) == [t EXCEPT !.refund = (@ - gas) % Word]

\* A variant that grants the refund whenever SELFDESTRUCT runs.
Selfdestruct_twice(b, t, a, beneficiary) ==
  LET refunded == AddRefund(t, 24000) IN
  Suicide(b, AddBalance(b, refunded, beneficiary, GetBalance(b, t, a)), a)

\* Transition.Selfdestruct: the refund is due once per object, the balance
\* moves to the beneficiary, and Suicide zeroes what is left at addr (so an
\* account that names itself beneficiary burns its balance).
Selfdestruct(b, t, a, beneficiary) ==
  LET refunded == IF HasSuicided(b, t, a) THEN t ELSE AddRefund(t, 24000)
      paid == AddBalance(b, refunded, beneficiary, GetBalance(b, refunded, a))
  IN Suicide(b, paid, a)

EmitLog(t, a) == [t EXCEPT !.logs = Append(@, [address |-> a])]

\* Logs() hands the logs over and deletes them from the tree.
DropLogs(t) == [t EXCEPT !.logs = << >>]

SetState(b, t, a, k, v) ==
  insert(t, a, [objectOrNew(b, t, a) EXCEPT !.slots[k] = v])

legacyGasMetering ==
  ~Forks["Istanbul"] /\ (Forks["Petersburg"] \/ ~Forks["Constantinople"])

\* A variant that forgets case 2.2.1.2, clearing a slot that is dirty already.
RefundOf_onlyCleanClears(original, current, value) ==
  IF original = current
  THEN <<0, IF original # Zero /\ value = Zero THEN 15000 ELSE 0>>
  ELSE <<IF original # Zero /\ current = Zero THEN 15000 ELSE 0, 0>>

\* What SetStorage adds to the refund counter when it writes value over
\* current in a slot whose committed value is original (net gas metering,
\* EIP-1283 and EIP-2200; before them only clearing a slot counts).
\* The first component is subtracted, the second added.
RefundOf(original, current, value) ==
  LET cleared == IF value = Zero THEN 15000 ELSE 0
      sub == IF original # Zero /\ current = Zero THEN 15000 ELSE 0
      dirtyClear == IF original # Zero /\ current # Zero THEN cleared ELSE 0
      reset == IF original # value THEN 0
               ELSE IF original = Zero
                    THEN (IF Forks["Istanbul"] THEN 19200 ELSE 19800)
                    ELSE (IF Forks["Istanbul"] THEN 4200 ELSE 4800)
  IN IF legacyGasMetering
     THEN <<0, IF current # Zero THEN cleared ELSE 0>>
     ELSE IF original = current
     THEN <<0, IF original # Zero THEN cleared ELSE 0>>
     ELSE <<sub, dirtyClear + reset>>

\* runtime.StorageStatus, which opSStore turns into a gas cost.
StorageStatus(original, current, value) ==
  IF current = value THEN "Unchanged"
  ELSE IF ~legacyGasMetering /\ original # current THEN "ModifiedAgain"
  ELSE IF current = Zero THEN "Added"
  ELSE IF value = Zero THEN "Deleted" ELSE "Modified"

SetStorage(b, t, a, k, v) ==
  LET current == GetState(b, t, a, k)
      original == GetCommittedState(b, t, a, k)
      r == RefundOf(original, current, v)
      subbed == IF r[1] = 0 THEN SetState(b, t, a, k, v)
                ELSE SubRefund(SetState(b, t, a, k, v), r[1])
  IN IF current = v THEN t
     ELSE IF r[2] = 0 THEN subbed ELSE AddRefund(subbed, r[2])

\* A variant that skips the zeroed slots instead of deleting them.
accountOf_keepsZeroed(o) ==
  [nonce |-> o.nonce, balance |-> o.balance, codeHash |-> o.codeHash,
   root |-> [k \in Keys |-> IF o.slots[k] \in {Unset, Zero} THEN o.root[k]
                            ELSE o.slots[k]]]

\* The bytes a committed object stands for (Object, state.go): nothing when it
\* was deleted, else the account with its storage folded into a new root.
\* Snapshot.Commit writes exactly that under the address.
accountOf(o) ==
  [nonce |-> o.nonce, balance |-> o.balance, root |-> storageOf(o),
   codeHash |-> o.codeHash]

\* A variant that leaves the refund counter, as Txn.Commit does.
CleanDeleteObjects_keepsRefund(t, deleteEmptyObjects) ==
  LET gone(o) == o # NoObject /\ (o.suicide \/ (isEmpty(o) /\ deleteEmptyObjects))
  IN [t EXCEPT !.objs = [a \in Addrs |-> IF gone(t.objs[a])
                                         THEN [t.objs[a] EXCEPT !.deleted = TRUE]
                                         ELSE t.objs[a]]]

\* End of a transaction: suicided objects, and empty ones if asked, become
\* deleted markers; the refund counter is dropped.
CleanDeleteObjects(t, deleteEmptyObjects) ==
  LET gone(o) == o # NoObject /\ (o.suicide \/ (isEmpty(o) /\ deleteEmptyObjects))
  IN [t EXCEPT !.objs = [a \in Addrs |-> IF gone(t.objs[a])
                                         THEN [t.objs[a] EXCEPT !.deleted = TRUE]
                                         ELSE t.objs[a]],
               !.refund = 0]

\* Txn.Commit and Snapshot.Commit together: the next snapshot's accounts.
CommitBase(b, t) ==
  [a \in Addrs |-> IF t.objs[a] = NoObject THEN b[a]
                   ELSE IF t.objs[a].deleted THEN NoAccount
                   ELSE accountOf(t.objs[a])]

\* The code store after the commit: SetCode for every live dirty object.
CommitCodes(codes, t) ==
  codes \cup {t.objs[a].codeHash :
                a \in {x \in Addrs : /\ t.objs[x] # NoObject
                                     /\ ~t.objs[x].deleted
                                     /\ t.objs[x].dirtyCode}}

-----------------------------------------------------------------------------
(* What a reader can tell apart through the API: existence and contents.   *)

viewOf(b, codes, t, a) ==
  [exists |-> Exist(b, t, a), nonce |-> GetNonce(b, t, a),
   balance |-> GetBalance(b, t, a), code |-> GetCode(b, codes, t, a),
   codeHash |-> GetCodeHash(b, t, a),
   storage |-> [k \in Keys |-> GetState(b, t, a, k)]]

View(b, codes, t) == [a \in Addrs |-> viewOf(b, codes, t, a)]
=============================================================================

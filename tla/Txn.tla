-------------------------------- MODULE Txn --------------------------------
(***************************************************************************)
(* Txn (txn.go) as a state machine: a caller opens an overlay on a         *)
(* snapshot, writes accounts, takes and reverts snapshots, closes each     *)
(* transaction with CleanDeleteObjects, commits the objects, and opens the *)
(* next overlay on the snapshot that Snapshot.Commit returned.             *)
(*                                                                         *)
(* One step is one call.  Operations come in any order, as the EVM or a    *)
(* genesis builder may issue them.                                         *)
(***************************************************************************)
EXTENDS TxnOps

CONSTANTS
  InitBases,     \* the snapshots the first overlay may be opened on
  Amounts,       \* balances and balance changes
  Nonces,        \* arguments of SetNonce
  TxsPerCommit,  \* transactions run on one overlay before it is committed
  MaxOps         \* bound on the number of calls

ASSUME CallConstants ==
  /\ InitBases \subseteq Bases
  /\ Amounts \subseteq Nat
  /\ Nonces \subseteq Nat
  /\ TxsPerCommit \in Nat
  /\ MaxOps \in Nat
  /\ 24000 * MaxOps < Word   \* gas pays for every refund: no uint64 wraps

VARIABLES
  base,       \* Txn.snapshot: the accounts
  codes,      \* the code store behind the snapshot
  tree,       \* Txn.txn
  snapshots,  \* Txn.snapshots: taken since the overlay was opened
  phase,      \* "open": in a transaction; "closed": between two;
              \* "committed": Txn.Commit has returned the objects
  txs,        \* transactions started on this overlay
  txStart,    \* the tree when the running transaction started
  txSnap,     \* Len(snapshots) then: older ids belong to older transactions
  ops         \* calls so far

overlay == <<base, codes>>
session == <<phase, txs, txStart, txSnap>>
vars == <<base, codes, tree, snapshots, phase, txs, txStart, txSnap, ops>>

Init ==
  /\ base \in InitBases
  /\ codes = {base[a].codeHash : a \in {x \in Addrs : base[x] # NoAccount}}
  /\ tree = NewTree
  /\ snapshots = << >>
  /\ phase = "open"
  /\ txs = 1
  /\ txStart = NewTree
  /\ txSnap = 0
  /\ ops = 0

Count == ops < MaxOps /\ ops' = ops + 1

\* A call that replaces the tree inside a transaction.
Write(t) ==
  /\ phase = "open"
  /\ Count
  /\ tree' = t
  /\ UNCHANGED <<overlay, snapshots, session>>

-----------------------------------------------------------------------------
(* The calls of a transaction.                                             *)

Touch(a) == Write(TouchAccount(base, tree, a))
Credit(a, n) == Write(AddBalance(base, tree, a, n))
Debit(a, n) == Write(SubBalance(base, tree, a, n))
AssignBalance(a, n) == Write(SetBalance(base, tree, a, n))
Reward(a, n) == Write(AddSealingReward(base, tree, a, n))
BumpNonce(a) == Write(IncrNonce(base, tree, a))
AssignNonce(a, n) == Write(SetNonce(base, tree, a, n))
StoreCode(a, c) == Write(SetCode(base, tree, a, c))
Destruct(a, beneficiary) == Write(Selfdestruct(base, tree, a, beneficiary))
Create(a) == Write(CreateAccount(base, tree, a))
Emit(a) == Write(EmitLog(tree, a))
TakeLogs == Write(DropLogs(tree))
Store(a, k, v) == Write(SetStorage(base, tree, a, k, v))

\* The raw SetState is how genesis accounts are filled in: on slots that the
\* snapshot has no value for.
Fill(a, k, v) ==
  /\ GetCommittedState(base, tree, a, k) = Zero
  /\ Write(SetState(base, tree, a, k, v))

Snapshot ==
  /\ phase = "open"
  /\ Count
  /\ snapshots' = Append(snapshots, tree)
  /\ UNCHANGED <<overlay, tree, session>>

\* The list is not cut: an id can be reverted to again, and a later one too.
RevertToSnapshot(id) ==
  /\ phase = "open"
  /\ Count
  /\ tree' = snapshots[id]
  /\ UNCHANGED <<overlay, snapshots, session>>

-----------------------------------------------------------------------------
(* The life of the overlay.                                                *)

\* Transition.Write ends every transaction with it.
CleanDelete(deleteEmptyObjects) ==
  /\ phase = "open"
  /\ Count
  /\ tree' = CleanDeleteObjects(tree, deleteEmptyObjects)
  /\ phase' = "closed"
  /\ UNCHANGED <<overlay, snapshots, txs, txStart, txSnap>>

\* The next transaction of the block runs on the same overlay.
NextTx ==
  /\ phase = "closed"
  /\ txs < TxsPerCommit
  /\ Count
  /\ phase' = "open"
  /\ txs' = txs + 1
  /\ txStart' = tree
  /\ txSnap' = Len(snapshots)
  /\ UNCHANGED <<overlay, tree, snapshots>>

\* Txn.Commit: a walk that leaves the tree as it is.
Commit ==
  /\ phase \in {"open", "closed"}
  /\ Count
  /\ phase' = "committed"
  /\ UNCHANGED <<overlay, tree, snapshots, txs, txStart, txSnap>>

\* Snapshot.Commit of the returned objects, and NewTxn on what it returns.
Rebase ==
  /\ phase = "committed"
  /\ Count
  /\ base' = CommitBase(base, tree)
  /\ codes' = CommitCodes(codes, tree)
  /\ tree' = NewTree
  /\ snapshots' = << >>
  /\ phase' = "open"
  /\ txs' = 1
  /\ txStart' = NewTree
  /\ txSnap' = 0

AccountCall ==
  \E a \in Addrs :
    \/ Touch(a)
    \/ BumpNonce(a)
    \/ Create(a)
    \/ Emit(a)
    \/ \E n \in Amounts :
         Credit(a, n) \/ Debit(a, n) \/ AssignBalance(a, n) \/ Reward(a, n)
    \/ \E n \in Nonces : AssignNonce(a, n)
    \/ \E c \in Codes : StoreCode(a, c)
    \/ \E beneficiary \in Addrs : Destruct(a, beneficiary)
    \/ \E k \in Keys, v \in Vals : Store(a, k, v) \/ Fill(a, k, v)

Next ==
  \/ AccountCall
  \/ TakeLogs
  \/ Snapshot
  \/ \E id \in txSnap + 1 .. Len(snapshots) : RevertToSnapshot(id)
  \/ \E d \in BOOLEAN : CleanDelete(d)
  \/ NextTx
  \/ Commit
  \/ Rebase

Spec == Init /\ [][Next]_vars

-----------------------------------------------------------------------------
(* Properties.                                                             *)

\* The state has its types: objects, accounts and logs are well formed in the
\* tree, in every snapshot and in the base, and the refund fits its counter.
TypeOK ==
  /\ base \in Bases
  /\ codes \subseteq Codes
  /\ tree \in Trees
  /\ snapshots \in Seq(Trees)
  /\ phase \in {"open", "closed", "committed"}
  /\ txs \in Nat
  /\ txStart \in Trees
  /\ txSnap \in 0 .. Len(snapshots)
  /\ ops \in 0 .. MaxOps

\* The trees the transaction may still be in: its own and its snapshots.
Live == {tree} \cup {snapshots[i] : i \in txSnap + 1 .. Len(snapshots)}

\* The slots that held a value in the snapshot under the overlay and are zero.
Cleared(b, t) ==
  {s \in Slots : /\ GetCommittedState(b, t, s[1], s[2]) # Zero
                 /\ GetState(b, t, s[1], s[2]) = Zero}

\* SetStorage grants 15000 for clearing a slot and takes it back when the slot
\* is written again; in the first transaction on an overlay GetRefund never
\* falls below what the cleared slots are worth, so SubRefund has no underflow,
\* in whatever order slots are cleared, restored, destroyed with their account,
\* and reverted.  (OriginalIsTxStart is why it is the first transaction only.)
RefundCoversCleared ==
  (phase = "open" /\ txs = 1) =>
    \A t \in Live : t.refund >= 15000 * Cardinality(Cleared(base, t))

\* The accounts that SELFDESTRUCT has marked in tree t.
Doomed(t) == {a \in Addrs : HasSuicided(base, t, a)}

\* An account is refunded once, however often it is destroyed and whoever gets
\* its balance: in a transaction the refund counter moves by 24000 for each
\* account that is newly marked, unless the call writes a slot or is a revert.
\* (An account that destroys itself exists: applyCall and applyCreate see to it
\* before its code runs.  Selfdestruct of a missing one would pay for nothing.)
RefundPerDestruction ==
  [][phase = "open" /\ phase' = "open" =>
       \/ LET newly == Doomed(tree') \ Doomed(tree)
          IN  tree'.refund = (tree.refund + 24000 * Cardinality(newly)) % Word
       \/ \E a \in Addrs, k \in Keys :
            GetState(base, tree', a, k) # GetState(base, tree, a, k)
       \/ \E id \in txSnap + 1 .. Len(snapshots) : RevertToSnapshot(id)
       \/ \E a, x \in Addrs : ~Exist(base, tree, a) /\ Destruct(a, x)]_vars

\* The code of every account a reader may meet is at hand: an object either
\* carries it (DirtyCode) or names a code the store has.  GetCode ignores the
\* store's miss, so a violation would silently run an account as code-less.
CodeAvailable ==
  \A t \in Live, a \in Addrs :
    LET o == getStateObject(base, t, a) IN
    o # NoObject =>
      IF o.dirtyCode THEN o.code = o.codeHash
                     ELSE o.codeHash \in codes \cup {EmptyCode}

\* Committing the objects and reopening on the new snapshot changes nothing a
\* reader can see: every account, code and slot reads as it did before
\* Txn.Commit, deletions and zeroed slots included.
CommitPreservesView ==
  [][Rebase => View(base', codes', tree') = View(base, codes, tree)]_vars

\* A slot of an account that does not exist (deleted by CleanDeleteObjects, or
\* never created) becomes nonzero only by writing that very slot or by going
\* back to a snapshot: no later write brings old storage back.
NoResurrection ==
  [][\A a \in Addrs, k \in Keys :
       (~Exist(base, tree, a) /\ GetState(base', tree', a, k) # Zero) =>
         \/ \E v \in Vals : Store(a, k, v) \/ Fill(a, k, v)
         \/ \E id \in txSnap + 1 .. Len(snapshots) : RevertToSnapshot(id)]_vars

\* txn.go says of GetCommittedState "storage slot before this transaction
\* started": when a transaction has not written anything yet, the committed
\* value of a slot is its value.
OriginalIsTxStart ==
  (phase = "open" /\ tree = txStart) =>
    \A a \in Addrs, k \in Keys :
      GetCommittedState(base, tree, a, k) = GetState(base, tree, a, k)

\* The ledger a reader sees in tree t, the accounts marked by Suicide included.
LedgerOf(t) ==
  [a \in Addrs |->
     LET o == objectOrNew(base, t, a) IN
     [exists |-> Exist(base, t, a), nonce |-> o.nonce, balance |-> o.balance,
      code |-> GetCode(base, codes, t, a), codeHash |-> GetCodeHash(base, t, a),
      storage |-> storageOf(o), doomed |-> o.suicide]]

L == INSTANCE Ledger WITH
       accounts <- LedgerOf(tree),
       logs <- tree.logs,
       saved <- [i \in 1 .. Len(snapshots) |->
                   [accounts |-> LedgerOf(snapshots[i]),
                    logs |-> snapshots[i].logs]]

\* The overlay is invisible: through its readers Txn behaves as one plain map
\* of accounts updated in place.  Whatever lies in the tree, in the snapshot
\* under it, in the code store or behind a deleted marker, every call changes
\* what Ledger says it changes and nothing else, RevertToSnapshot brings back
\* exactly what Snapshot saw, and a commit and reopening change no account.
ImplementsLedger == L!Spec
=============================================================================

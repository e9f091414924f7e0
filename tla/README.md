# A TLA+ model of eth-state-transition

The repository applies Ethereum transactions to a state: a transaction runs in
an EVM, writes to a journaled overlay (`Txn`), and the overlay is committed to
an immutable Merkle Patricia trie. This directory holds TLA+ modules for those
parts, TLC configurations that check them on small instances, and TLAPS proofs.

## 1. The system

| Part | State | Operations | Source |
|---|---|---|---|
| `Txn`, the overlay | a snapshot, a radix tree of state objects with logs and a refund counter, a list of earlier trees | balances, nonces, code, storage, selfdestruct, logs, refunds, `Snapshot`, `RevertToSnapshot`, `CleanDeleteObjects`, `Commit` | `txn.go`, `state.go`, `account.go` |
| `Transition` | the overlay, the block's gas pool, the gas used | `Write` (checks, execution, settlement), `Call`, `Create`, `Callx`, `Selfdestruct` | `transition.go`, `types.go` |
| EVM | a pool of machines; per call one of them: stack, memory, gas, jump destinations, return data, the contract | the instructions; those that reach the state go through the `Host` interface, which `Transition` implements | `runtime/evm` |
| Precompiled contracts | one buffer that all of them read through | `CanRun`, `Run` | `runtime/precompiled` |
| Fork rules | none | the flags of `ForksInTime` | `runtime/params.go` |
| Immutable trie | nodes shared by versions, cached hashes, epochs | `Get`, `Insert`, `Delete`, `Hash`, `Commit`, decoding | `immutable-trie/{trie,node,hasher,encoding}.go` |
| Archive state | a cache of 128 tries, a key-value store of nodes and codes | `NewSnapshotAt`, `Snapshot.Commit`, `GetStorage`, `GetAccount` | `immutable-trie/{state_archive,storage}.go`, `leveldb` |
| Helpers, test harness | none | keccak, addresses, hex; fixtures | `helper`, `testing.go`, `tests` |

How they interact: `Transition.Write` calls the overlay directly, and calls the
EVM, which calls back into `Transition` through `Host` (`Callx`, `SetStorage`,
`EmitLog`, `Selfdestruct`, ...), which recurses into the next contract. The
overlay reads through to a `Snapshot`. `Txn.Commit` returns objects, which
`Snapshot.Commit` writes into storage tries and the account trie, and returns
the next snapshot. Nothing runs concurrently: everything is a synchronous call
tree. What is hard is therefore not interleaving of threads but

 - long sequences of legal calls: snapshots reverted out of order, an account
   destroyed and revived, several transactions on one overlay, then a commit;
 - partial failure inside a call tree: which frame's error takes back what, and
   what must survive (nonce, fee);
 - uint64 arithmetic without checks: refund counter, gas of calls, gas pool;
 - sharing and caching in the trie: nodes written in place when the epoch
   matches, hashes cached in nodes that several versions share, nodes not
   written again because they have a hash;
 - reading a state back from storage after a restart or an eviction, and what a
   crash in the middle of a commit leaves there;
 - objects that are reused: machines, stack slots and memory from a pool, the
   buffer of the precompiled contracts, which must not carry anything over;
 - edges of the word, of memory and of the code: signed arithmetic on unsigned
   words, ranges of no bytes, pushes that run off the code.

`PROJECT.json` lists these as hazards, each with its line and the properties
that would catch it.

## 2. Modules

| Module | What it is |
|---|---|
| `TxnOps` | the operations of `Txn` as operators on values: `(b, t, ...)` is a snapshot and a tree |
| `Txn` | the overlay as a state machine: one action per call, plus the life of the overlay (close, next transaction, commit, reopen on the new snapshot) |
| `Ledger` | what `Txn` promises: a plain map of accounts and a list of logs, whose earlier states can be brought back; `Txn` implements it |
| `Transition` | a block: acceptance and rejection of transactions, the stack of call frames, the instructions that reach the state, settlement; uses `TxnOps` for the overlay |
| `Trie` | the immutable trie on a heap of mutable nodes: `insert`, `delete`, `hash`, encoding, decoding, versions, storage |
| `Archive` | `State`, `Snapshot` and both storages: the cache, `Snapshot.Commit` step by step, panics, power loss |
| `Words` | the instructions that compute on words, as the code computes them |
| `Meanings` | what they are meant to compute, defined independently; the reference for `StackEffect` |
| `Precompiled` | the precompiled contracts: forks, gas, errors, the shared buffer, `modExp` in full; and the reference for `PrecompiledAnswers` |
| `Machine` | the EVM's machine: pool, loop, dispatch table, stack, memory, jumps, context, calls; uses `Words` and `Precompiled` |
| `MCTxn`, `MCTransition`, `MCTrie`, `MCArchive`, `MCMachine` | the small instances |
| `TxnOpsProofs` | lemmas: what the operators of `TxnOps` return, and what the readers answer after them |
| `TxnProofs`, `LedgerProofs` | the theorems about `Txn`, and that it implements `Ledger` |
| `TransitionProofs`, `CallProofs`, `SupplyProofs` | the theorems about `Transition`: types; calls, nonces and static frames; gas, ether and failed transactions |
| `ArchiveProofs` | the theorems about `Archive` |
| `MachineProofs` | the theorems about `Machine`, with lemmas about `Words` and `Precompiled` |

Operators keep the names of the Go functions. `Op_word` next to `Op` is the same
operator with a plausible bug; every property is checked to fail on one.

### TxnOps and Txn

`t.objs` is the radix tree by address (`NoObject`: no entry), an object is the
`stateObject` with its `Account` flattened into it and its own storage tree as
`slots` (`Unset`: no entry). `t.logs` and `t.refund` are the entries under
`logIndex` and `refundIndex`. Keccak hashes are modelled by their content: a
storage root is the storage map, a code hash is the code, so equal hashes mean
equal contents, which is what the code assumes of keccak. `GetCode` still asks a
code store, which may lack the hash.

The radix tree is persistent and objects are copied before they are written, so
a snapshot is a tree value. That `stateObject.Copy` really separates the maps
and numbers of two snapshots is thereby assumed; see the plan.

`Txn` issues the calls in any order, as any contract may. `Fill` (the raw
`SetState`) is restricted to slots without a committed value, which is how the
genesis builder uses it. Ids passed to `RevertToSnapshot` are those taken in the
running transaction: the callers in `transition.go` keep ids in local variables.

`ImplementsLedger` is `Ledger`'s specification under the mapping `LedgerOf`: an
account of the ledger is what the readers of `Txn` (`Exist`, `GetBalance`,
`GetNonce`, `GetCode`, `GetCodeHash`, `GetState`, `HasSuicided`) answer for its
address, and a saved ledger is that for a snapshot of the running transaction.
Overlay, base snapshot, code store, markers and storage roots are hidden: a call
must change exactly the one account it is about, a commit and a reopening must
change nothing but the marks and the logs, and a revert must bring back all of an
earlier ledger. The refund counter and the original values, which belong to gas,
are not part of it. Two things the code does are visible in it: a destroyed
account that gets a sealing reward starts over with the reward, and
`CleanDelete` removes the empty accounts only where the flag says so.

### Transition

`Accept` is `Write` and `apply` up to `Call` or `Create`, `Reject` is a
failing `preCheck` with the revert in `applyImpl`, `Begin` enters the topmost
contract. A frame holds the contract and the tree its failure goes back to. Each
`op...` action is an instruction as a whole, with its gas and its early exits;
entering a callee is `enterCall`/`enterCreate` (the first half of `applyCall`/
`applyCreate`), leaving it `leaveCall`/`leaveCreate` (the second half), and the
last frame's return runs `Settle`: refund, repayment, fee, pool, logs,
`CleanDeleteObjects`. Which instructions a contract runs is nondeterministic;
`Compute` and `Fault` stand for instructions without effect on the state, and
`RunPrecompiled` for all precompiled contracts. Gas is counted modulo `Word`.

### Trie

`heap` holds the nodes; a short or full node is mutable and shared, so a write
in place or a dropped hash is seen by every version that reaches the node.
A value node is its value. `txn` is the open transaction with its epoch. A hash
is modelled by the encoding it hashes, so the root hash of a version is
comparable with `merkleRoot`, a direct definition of the Merkle Patricia trie of
a map. Encoding lengths are kept (`ValueLen`, `HashLen`), because a node shorter
than a hash is put into its parent and is neither hashed nor stored. `Open` is
`NewSnapshotAt` without a cached trie. The branches for a value node that is a
hash are left out: no execution creates one.

### Archive

A root hash is the contents it commits to, as in `Txn`; a trie in memory is its
contents and the set of its nodes that carry a hash, since those are the ones
`Txn.hash` does not put in the batch. Keys are hashed, so a trie with more than
one entry has a branch with hashed children, and only a trie with one entry can
be decoded (`Trie_reopen` shows why). `log` is the sequence of writes that
reached the storage, a batch being one element: `memBatch.Put` writes through,
`KVBatch` waits for `Write`. `Commit` lists the objects, `CommitObject` is one
turn of the loop with its panic, `FinishCommit` the rest. The caller may open any
root that was returned, between any two commits, which moves entries in the LRU
cache and leaves branches in the history. The walks over the radix trees are
constants, `AddrWalk` and `KeyWalk`: any order, an address once. Accounts and
slots are different keys, so that a trie is one of accounts or one of slots.

Faults: a panic (in `GetStorage` or `Commit`) ends the process, with whatever the
storage has; `Crash` is a loss of power, at which LevelDB, which is called without
`Sync`, loses a suffix of its log; memory storage dies with the process. An error
that LevelDB reports is dropped by the code (`leveldb.go:30`) and is not modelled:
after one, cached tries name nodes that no later commit will write, and nothing
in the code takes notice.

### Machine, Words and Precompiled

A machine is the Go `state` with its stack as `slots` and `sp` (slots stay
allocated), its memory as `memory` up to its capacity and `len`, and its bitmap as
the set of marked positions. `given`, `spent`, `called` and `out` are notes for the
properties. A code is a sequence of cells, each readable as an instruction and as
a byte of data. Every instruction is an operator on a machine; `Instruction` is the
turn of the loop around it: fork, stack depth, gas, the limit of the stack, `ip`.
`Start` and `CallContract` take any machine of the pool or a new one, as
`sync.Pool` may. The host's answers, keccak, and the results of the cryptographic
functions are constant operators, of which `Deployed` says that they answer with words, and
that the contracts are bytes with a `uint64` of gas. `PUSH`, `DUP`, `SWAP` and `LOG` have one, two or
three members instead of 32, 16 and 5. Instructions that write the state do not
occur: they are in `Transition`, whose `Compute` and `Fault` stand for the ones here.

The scale is 7 bytes of 2 bits for a word, 13 bits for the words' `int64` and
`uint64`, and gas modulo `GasRoot`^2 for the gas's `uint64`. Two widths are needed
where the code has one 64: real gas costs do not fit the small words. Widths keep
the order of the real ones: a word is wider than a `uint64`, the memory limit is
below it, and a shift by the width of a word fits into one byte-sized comparison.
`MemoryPaid` is stated for contracts with less than `3 * GasRoot` gas, that is
3 * 2^32 in the code: above, `w * w` in `checkMemory` could wrap before the words
became unaffordable. `modExp`'s gas keeps the real formula, so its lengths are
bounded by the gas of the programs as they are by real gas: a length that does not
fit a `uint64` must be too dear to run.

## 3. Runs

Every run has a bound on the number of calls or instructions, at which the
system simply stops: deadlock is not checked. The bounds are named constants.

| Run | Instance | Properties |
|---|---|---|
| `Txn_journal` | two addresses, one slot of three values, two codes; over an empty world or one contract; 5 calls; two transactions per overlay | `TypeOK`, `CodeAvailable`, `RefundCoversCleared`, `RefundPerDestruction`, `CommitPreservesView`, `NoResurrection`, `ImplementsLedger` |
| `Txn_original` (violated) | the same | `OriginalIsTxStart` |
| `Tx_calls` | two transactions out of seven, five of which one check of `preCheck` rejects; two contracts and a precompiled one; 3 instructions besides returns; Istanbul | `TypeOK`, `SupplyConserved`, `GasNeverMinted`, `PoolBounded`, `PoolConserved`, `NoReplay`, `TransferNeverFails`, `NothingLeftOver`, `FailedTxOnlyPaysFee` |
| `Tx_create` | one transaction, a call or a creation; `CREATE`, `CREATE2` and calls of every kind, three frames deep; codes that are fine, too large, too expensive; 4 instructions; Istanbul | `NoReplay`, `CreateTellsTruth`, `StaticCallWritesNothing`, `FailedTxOnlyPaysFee` |
| `Tx_create_frontier` | the same creations before Homestead | `SupplyConserved`, `CreateTellsTruth` |
| `Tx_terminates` | one transaction with a little gas and no bound on its instructions | `Terminates` |
| `Tx_mint` (violated) | one transaction before EIP-150, a call that asks for `Word - 1` gas | `GasNeverMinted` |
| `Trie` | five keys of four nibbles, a short value for all and a long one for two; 4 inserts or deletes; 3 versions | `TypeOK`, `VersionsPersist`, `RootIsCanonical`, `VersionsStored` |
| `Trie_reopen` (violated) | the same | `VersionsReopen` |
| `Archive` | two accounts, two slots, two codes, a cache of 2 tries, both storages; three commits, of up to one, two and one objects; one power loss | `TypeOK`, `RootsComplete`, `ReturnedIsStored`, `SkippedIsStored`, `CommitAppliesObjects` |
| `Machine` | about two thousand programs, each followed by one of five probes on any machine of the pool | `TypeOK`, `MemoryPaid`, `CleanBeyond`, `NoForeignReturnData`, `StackEffect`, `PrecompiledAnswers`, `JumpsLand`, `Halts` |
| `Machine_bounds` (violated) | two programs with a range of no bytes | `InBounds` |

Why the bounds are enough for the questions asked. In `Txn_journal`, five calls
hold the sequences the properties are about: destroy, close, next transaction,
write, or write, close, commit, reopen, read; clear, snapshot, restore, revert,
clear. Three values are the least with which a slot can be dirty, cleared and
different from its original. The second address is a beneficiary or a bystander.
The one amount is 1: to credit nothing is to touch, and to debit nothing is a no-op.
In `Tx_calls` and `Tx_create` three and four instructions make a call tree with
a write at each end: call, write, call, fail; static call, call, write. The call
depth is `MaxCallDepth` instead of 1024, and `ErrDepth` is reached. `Word` is
2^24 instead of 2^64 (2^20 in the overlay's runs): above every sum of gas in
these blocks, so that a wrap is one the code makes possible and not one of the
small width; all gas costs are the real ones. In `Trie` the keys share
prefixes of length 0 to 3, so a short node is split at its start, in the middle
and at its end, and deletes merge nodes again. `HashLen` is 21 instead of 32
because keys are two bytes: with the values used, leaves fall on both sides.
In `Archive` a cache of two is the least that holds an account trie and one storage
trie, so that the storage trie of the second account evicts something, and the
commits are enough for a branch, an eviction, and a storage that is written again
over hashed nodes. The programs of `Machine` put every instruction that computes on
all pairs of 17 words at the edges (zero, the widths, the signs, the largest word),
every access to memory on offsets around its limit and around what the gas pays
for, every kind of call on contracts that return, revert, recurse and log, and
inputs of the precompiled contracts that end inside each of their fields; the
probes read what an earlier contract may have left.

What the properties say:

 - `CodeAvailable`: no reader, after any revert or commit, meets an account whose
   code is in neither the object nor the store (`GetCode` would ignore that).
 - `CommitPreservesView`: committing and reopening is invisible to readers.
 - `NoResurrection`: storage of an account that does not exist only comes back by
   writing that slot, or by a revert.
 - `RefundCoversCleared`: the refund counter never falls below 15000 for each
   cleared slot, so `SubRefund` does not wrap; stated for the first transaction
   on an overlay, as `Txn_original` shows why it cannot be for a later one.
 - `RefundPerDestruction`: `SELFDESTRUCT` refunds an account once, however often it
   runs there; with `RefundCoversCleared`, a bound from below, and
   `FailedTxOnlyPaysFee` it pins the refund from both sides.
 - `SupplyConserved`, `GasNeverMinted`, `PoolBounded`: ether is conserved, and the
   gas of nested frames and of the block stays within what was bought and the
   block's limit, at every point of a call tree.
 - `PoolConserved`: nor does gas of the block get lost: what a transaction bought is
   used or goes back to the pool.
 - `NothingLeftOver`: between transactions, and so when the block is committed, no
   log, refund, destroyed or (where they are cleared) empty account is left over.
 - `NoReplay`, `FailedTxOnlyPaysFee`: an accepted transaction moves the nonce
   even if it fails, and a failed one changes nothing but nonce and fee.
 - `TransferNeverFails`: the early returns of `applyCall` and `applyCreate` that
   leave their snapshot unreverted are unreachable.
 - `CreateTellsTruth`: `CREATE` pushes an address iff a contract is left there.
 - `StaticCallWritesNothing`: nothing below a static call writes, at any depth.
 - `Terminates`: every transaction ends.
 - `VersionsPersist`: a version reads what was written to it, whatever later
   transactions do to nodes it shares.
 - `RootIsCanonical`: the root hash depends on the contents, not on the history.
 - `VersionsStored`: storage holds every node of every committed version.
 - `ImplementsLedger`: all of `Txn` together is the plain map of `Ledger`.
 - `RootsComplete`: wherever a crash cuts, storage never holds a root without its
   nodes, its accounts' storage and their code.
 - `ReturnedIsStored`: a root that `Commit` returned does not depend on the cache.
 - `SkippedIsStored`: a node that a commit leaves out because it carries a hash is
   in storage, or in the batch of the running commit.
 - `CommitAppliesObjects`: a commit applies its objects at once, whatever cache and
   storage gave it to start from.
 - `StackEffect`: an instruction that succeeds takes its own words, leaves its
   result, computed as `Meanings` says, and nothing below it changes. `Meanings` is
   what the comments of `opcodes.go` say; where the code does something else
   (`Deviates`: `LT`, `GT`, `BYTE`, `SIGNEXTEND`), the result is left open.
 - `MemoryPaid`: what the memory of a contract costs has left its gas.
 - `CleanBeyond`, `NoForeignReturnData`: nothing of an earlier contract is visible.
 - `JumpsLand`: jumps land on instructions of the running code.
 - `PrecompiledAnswers`: the answer depends on the input alone, followed by zeros.
 - `Halts`: every contract ends, loops and recursions too.

Fairness. `Tx_terminates` assumes weak fairness of `Step` alone: `Write` is
synchronous, so once a transaction runs, its next instruction is executed. No
fairness is assumed for accepting transactions. `Machine` assumes weak fairness of
`Next`, for the same reason; it is written as `[]<>Idle \/ []<><<TRUE>>_vars`, with
`Idle` the negation of `ENABLED Next`, because TLC needs too long for `ENABLED` on
these actions.

### What the properties leave out

Behaviour of the code that looks unintended and that no sentence of the repository
speaks about is kept in the model, and the properties name the exception.

 - `SIGNEXTEND` on a stack of one word pops it and leaves nothing (the dispatch
   table asks for one word), and `BYTE` takes the low 64 bits of its index:
   `Deviates`, which `StackEffect` exempts.
 - `CREATE2` pushes the address of a creation that was reverted because its code
   could not be paid for; `CreateTellsTruth` is about `CREATE`.
 - A transaction that check 4, 5 or 6 of `preCheck` rejects keeps its gas out of
   the block's pool: the one loss that `PoolConserved` admits.
 - `Selfdestruct` of an account that does not exist grants a refund and marks nothing.
   No contract can ask for it: `applyCall` touches an account before it runs.
   `RefundPerDestruction` exempts the call.

### Where the code and its documentation differ

The violated runs each check one sentence of the repository.

 - `Txn_original`: `txn.go:221` calls the committed value the "storage slot
   before this transaction started"; from the second transaction of a block on,
   `GetCommittedState` answers the value before the block.
 - `Tx_mint`: before EIP-150 the cost of a call is a uint64 sum that wraps.
 - `Trie_reopen`: `decodeNodeImpl` refuses a child that is a hash, so a state of
   realistic size cannot be read back from storage.
 - `Machine_bounds`: `instructions.go:1149` says "Check if the memory return offsets
   are out of bounds"; `checkMemory` passes every range of no bytes, and `opCall`
   and `opReturnDataCopy` then slice the memory at its offset, which panics when
   that is beyond the memory's capacity. The other copies test for size 0 first.
   In the model the capacity is what the contract has paid for; Go may round it up.

Two more disagreements have no run of their own; the model does what the code does.

 - `testing.go:271` asserts that the "refund should be empty after the commit", and
   the comment at 260 says that refunds are restarted then. `Txn.Commit`
   (`txn.go:512-515`) leaves the refund: its call of `CleanDeleteObjects`, which
   deletes it, is commented out. In `Txn`, `Commit` leaves `tree` alone, the refund
   included, and neither `CommitPreservesView` nor `ImplementsLedger` looks at it.
   `Write` calls `CleanDeleteObjects` itself, so no transaction meets the refund of
   another one: that is `NothingLeftOver`.
 - `opcodes.go:47` and `:50` call `LT` and `GT` an "int256 comparison", as `:53` and
   `:56` do `SLT` and `SGT`. `opLt` and `opGt` (`instructions.go:246-266`) compare as
   uint256. `Result2` says what the comments say, `Words` does what the code does,
   and `Deviates` names the words on which the two differ: those of which one only
   has its top bit set. On these, `StackEffect` is about the shape of the stack only.

## 4. Proofs

The theorems hold for every set of addresses, slots, values and codes, every
initial state and every number of calls, transactions, commits and crashes. The
assumptions on the constants are those of the modules:

 - `TxnConstants`, `BlockConstants`: the special values differ from the ordinary
   ones, addresses and slots are finitely many, `Word` is positive, the
   arguments that the actions choose from have their types.
 - `CallConstants`: also `24000 * MaxOps < Word`, that is, gas runs out long
   before 2^64 could be refunded.
 - `GasWidth`: `Word > 65 * 34700`, so that the fixed costs of one call fit the
   counter with room for EIP-150's 64th; 2^64 is far larger.
 - `ArchiveConstants`: a walk lists every key, and an address once; accounts and
   slots are disjoint.
 - `WordConstants`, `MachineConstants`, `BlakeLength`: the widths are positive; a
   word has two bytes at least, and counts every range that the memory limit allows;
   a `uint64` of gas holds 65 times the dearest call, and half of it the price of
   `MemLimit` bytes. With 32 bytes, 0xffffffffe0 and 2^64 all of it holds.
 - `PowersOfTwo`: exponents add up, for the exponents that occur. The provers do not
   know exponentiation; TLC evaluates this on the instance.
 - `Deployed`: programs, contracts and the host's answers have their types.

Six hypotheses are not assumptions of a module, because TLC could not evaluate
them, or because they are about some blocks only. The theorems that need them say
so; the instances that TLC checks satisfy the first three.

 - `CreationsStay` (all theorems about `Transition`): `helper.CreateAddress` and
   `CreateAddress2` return addresses.
 - `SendersSign` (`NoTransactionReplays`): a sender has no code, and no contract
   is created at its address, which is the hash of a public key. Without it a
   sender could destroy itself and its nonce would start again.
 - `CoinbaseBare` (`FailedTransactionsOnlyPay`): if the coinbase's account in the
   snapshot is empty, it has no storage. Storage comes from code that ran at the
   address, and an account with code is not empty; but a fee of zero touches the
   coinbase, and `CleanDeleteObjects` would drop such an account with its storage.
 - `Forks["EIP150"]` (the theorems on gas and ether). It cannot be dropped:
   `Tx_mint` shows how the code mints gas without it, and settlement then pays
   for that gas.
 - `Hosted` (the theorems about `Machine`): a gas counter fits into a word, as 2^64
   does into 2^256, so that `GAS` pushes a word; keccak returns words and the other
   hash functions bytes. The instance keeps words of 14 bits, into which its gas
   counter of 22 does not fit; its programs have so little gas that it makes no
   difference, and every property holds there without the hypothesis.
 - `CallsPaid` (`MemoryIsPaid`): the contracts run on the rules of EIP-150, or calls
   cannot name so much gas that its sum with their cost wraps. Before EIP-150 the
   code's sum does wrap, as in `Tx_mint`: a caller then gets gas back that it did not
   pay, and what it has paid for its memory says nothing.

### Txn

 - `TypeCorrect`: `Spec => []TypeOK`. `TypeOK` is inductive by itself; the lemmas
   of `TxnOpsProofs` show that every operator returns a tree. Balances stay
   natural numbers because `SubBalance` checks the funds.
 - `RefundCovers`: `Spec => []RefundCoversCleared`. The invariant is not
   inductive: it says nothing about the counter's size, and modulo `Word` an
   addition could wrap it below what it stands for. `RefundInv` adds the types,
   `txs >= 1`, and `Covered`: in every tree the transaction may be in or go back
   to, 15000 times the number of cleared slots is at most the counter, and the
   counter is at most 24000 times the number of calls. The argument: a write that
   keeps or resets an account's storage clears no slot (`ClearedByInsert`,
   `ClearedByWriter`), `SetStorage` moves one slot in or out of the set and its
   refund follows (`SetStateReads`, `RefundSizes`, `CoveredSetStorage`),
   `Selfdestruct` adds at most 24000, and a revert goes to a tree that was
   covered when the counter's bound was smaller.
 - `CodeIsAvailable`: `Spec => []CodeAvailable`. `CodeInv` adds the types and says
   of every tree, those in the snapshots too, that an object's code is its own if
   it is dirty and in the store if not; a commit moves the first to the second.
 - `CommitIsInvisible`: `Spec => CommitPreservesView`, from `CodeInv`: what the
   readers answer over the overlay is what they answer over the new snapshot.
 - `StorageStaysAway`: `Spec => NoResurrection`. Every call is brought to one
   form first, `Change`: it replaces the object of one address in one of a few
   ways; an account that does not exist has no storage to bring back.
 - `TxnImplementsLedger`: `Spec => ImplementsLedger`, that is
   `Spec => Ledger!Spec` under `LedgerOf`: `Init` maps to `Init`, and each action
   maps to a step of `Ledger` or stutters: the calls that write an account to
   `Write`, `Selfdestruct` to `Destruct`, snapshots to `Save` and `Restore`,
   `CleanDeleteObjects` to `Clean`, the next overlay to `Reopen`. `CodeInv` is what
   makes the codes the same on both sides of a commit.

### Transition

`StepForm` and `TransactForm` bring the instructions to three forms: the running
contract goes on, it returns to its caller with a result, or it calls. Every
invariant is then shown to be kept by those forms, by `Accept`, by `Reject` and by
the end of a transaction, instead of by each instruction again.

 - `BlockTypeCorrect`: `Spec => []TypeOK`, with `TypeInv`, which adds that only a
   running transaction has frames and that it bought its intrinsic gas: no
   counter of gas is taken from without the check that it has enough.
 - `TransfersNeverFail` and `CreateIsHonest`, with `CallInv`: the sender still has
   the value between `preCheck` and the topmost call (`Funded`), and the frames
   of `CREATE` and `CREATE2` are exactly the creations (`Honest`).
 - `NoTransactionReplays`: `Spec => []NoReplay`, with `NonceInv`: the snapshots of
   the frames are past the nonces too, since a failing call goes back to them,
   and a creation that was accepted has its nonce raised only on entering.
 - `StaticCallsWriteNothing`, with `StaticInv`: every frame above a static frame is
   static too, is no creation and began with the state the static frame began with.
 - `GasIsNeverMinted` and `PoolIsBounded`, with `GasInv`, their conjunction and
   the types: additions are modulo `Word`, so neither is inductive without the
   bound the other gives. `PoolIsConserved` (`Spec => PoolConserved`) follows from the
   same invariant: by it the gas that comes back is at most the gas bought, so
   `Settle` splits the gas bought in two and no counter wraps (`HandsSettles`).
 - `SupplyIsConserved`, with `SupplyInv`: the sum of the balances, and what the
   running transaction paid in advance, is the initial supply, in the snapshots
   too, and less only if a contract was destroyed.
 - `FailedTransactionsOnlyPay`: `Spec => FailedTxOnlyPaysFee`, with `FeeInv`: the
   bottom frame's snapshot is the state that the transaction began in with the gas
   bought and the nonce moved on, and nothing else (`accepted`), and between
   transactions there are no logs and no refund, and no object is marked, or empty
   where `CleanDeleteObjects` clears empty ones (`Swept`). `FailureGoesBack` shows that a topmost call that fails
   returns that snapshot, whatever ran above; `FailedReads` what the two payments of
   `apply` and `CleanDeleteObjects` then add, and that nothing else goes. The gas that
   comes back and the gas used make up the gas bought, by `GasInv`.
 - `NothingIsLeftOver`: `Spec => []NothingLeftOver`, a part of `FeeInv`.

Sums need induction, which is beyond the prover. `Total(f)` is shown to be the
number of elements of a set with `f[x]` cells for each `x` (`Cells`), by taking the
smallest set for which it is not; the theorems on finite sets do the rest.

### Archive

`ArchiveInv` is the inductive invariant of the first four theorems. A loss of power
keeps some prefix of the log, so it is not enough that the storage is complete:
every prefix of the log is `Whole`, that is, it holds with a root all that hangs
from it. And tries and objects in memory point to nodes that are still in the batch,
so the same is said of `Backing`, the storage with the batch: it is whole, every
trie's hashed nodes are in it, and so is all that the accounts of the snapshot, of
the running commit's trie and of the objects it has yet to apply need.

 - `ArchiveTypeCorrect`: `Spec => []TypeOK`.
 - `RootsAreComplete`: `Spec => []RootsComplete`.
 - `SkippedNodesAreStored`: `Spec => []SkippedIsStored`.
 - `ReturnedRootsAreStored`: `Spec => []ReturnedIsStored`.
 - `CommitIsExact`: `Spec => CommitAppliesObjects`, with `ProgressInv`: while the
   loop runs, its trie is the snapshot with the objects before `next` applied
   (`Applied`). `EntriesIn` shows what the loop over an object's entries computes
   for any number of entries; `LoopLeads` stands in for an induction over its
   turns, by taking the first turn up to which the loop has no result.

### Machine

`Inv` is the invariant of all five theorems. Every frame is a `Frame`: its stack
pointer is within its slots and every live slot a word (`Loose` lets the word on top
be longer once the instruction pointer is off the code: `PUSH` there appends its
zeros to the bytes that were left, and the machine stops); its memory is whole words
of bytes, zero beyond its length; `lastGasCost` is the price of that memory, and with
the gas and the cost of the instructions it is at most what the contract was given
(`Paid`); its bitmap is that of its own code, and unless it has called, it has no
return data (`Placed`). A frame that waits has not stopped, is inside its code, has a
place for the answer, and its callee's gas is out of its own (`Lent`): this is what
makes the gas that comes back harmless. A machine in the pool (`Pooled`) is new but
for its slots, its zeroed memory and its old return data.

Each instruction has a lemma `Works...`: it takes a `Sound` machine to one, never
takes the memory's length back, and changes the fields `Work` at most; `Turn` puts
the charge before it and the step after it. So `Placed` never has to be shown for an
instruction again. The calls are in two halves, `CallBegins` (the ranges and the gas)
and `Answered`. The precompiled contracts are shown to return bytes and at most
the gas that they got, `modExp`, the pairing and `get`'s shared buffer included.

 - `MachineType`: `Spec => []TypeOK`.
 - `MemoryIsPaid`: `Spec => []MemoryPaid`, with `CallsPaid`. Below `3 * GasRoot` of gas
   an unaffordable growth is refused before `w * w` wraps (`Growth`).
 - `MemoryIsClean`: `Spec => []CleanBeyond`.
 - `ReturnDataIsOwn`: `Spec => []NoForeignReturnData`.
 - `JumpsAreToInstructions`: `Spec => JumpsLand`. `setCode` walks from instruction to
   instruction; `InstructionStarts` counts down the data of each push, byte by byte.
   `RunsOut` shows that the count is zero where the walk goes on, for any code.

The loops over bits, bytes and code are recursive functions. `Recursion` and
`Invariably` stand in for induction over their turns: the set of turns that leave a
loop's range has no least element. They give such a function its values and keep an
invariant through it, for the bitwise operators, `EXP`, `SetBytes`, `modExp` and the
walks over code.

### Only model-checked

 - Liveness (`Terminates`, `Halts`): beyond the prover.
 - `RefundPerDestruction`: the part of `RefundInv` that bounds the counter from above
   is too coarse for it (24000 for every call).
 - `Trie`: its operators are recursive, and what they compute for every input
   cannot be proved here.
 - `StackEffect` and `PrecompiledAnswers`: what the instructions and the precompiled
   contracts compute is compared with independent definitions, and the equality of,
   say, square-and-multiply with the power, or of shifts with words as bits, is
   number theory by induction over data. That the results are words is proved.

## 5. Not modelled

 - What sha256, ripemd160, keccak, the curve operations, signature recovery and
   blake2f's `F` compute: cryptography, given as constant operators. RLP bytes,
   addresses and hex: functions on byte strings.
 - Sharing between Go values: that `stateObject.Copy` separates two snapshots, that
   `Txn.EmitLog` appends to a slice that older snapshots hold, and that a push off
   the end of the code appends to the code's own array. Objects, logs and codes are
   values in the model. The last two are listed as hazards.
 - Errors that LevelDB reports and the code drops.
 - What a host that recovers from a panic of `Commit` finds: the storage tries of the
   objects before the panic are then in the cache with hashes on their nodes, and the
   nodes in a batch that is never written. Nothing in the repository recovers; in the
   model the panic ends the process, and the cache with it.
 - Two tries of one root in the cache: it is keyed by the root hash, as in the code,
   and a root hash is the contents. So the cache may forget a trie, or hold one whose
   nodes are not stored, but cannot answer with another one.
 - Arenas, the pools of big.Ints and of hashers: memory management.
 - `GetBlockHash`, the transaction context and `Forks.At`: data that no state
   change depends on.
 - Logging, the test harness and its JSON fixtures.

## 6. Plan

What is modelled is what this plan set out to model. What is left is proof, in
order of importance.

 1. `Machine`: the part of `StackEffect` about the words below the operands, and then
    the results, one instruction at a time.
 2. `Trie`: `VersionsPersist` as far as it rests on the heap alone: no step writes
    to a node that an older version reaches.

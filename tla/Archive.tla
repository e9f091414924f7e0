------------------------------ MODULE Archive ------------------------------
(***************************************************************************)
(* State and Snapshot (immutable-trie/state_archive.go) over a Storage     *)
(* (storage.go, leveldb/leveldb.go): the handles a caller opens, the LRU   *)
(* cache of tries, the steps of Snapshot.Commit, and what is left of all   *)
(* that when the process dies or the machine loses power.                  *)
(*                                                                         *)
(* A root hash is the contents it commits to.  Contents are functions from *)
(* the keys that have an entry.  Keys are hashed, so nodes never shrink    *)
(* below 32 bytes: a trie with one entry is a leaf, a trie with more is a  *)
(* branch over leaves (keys that differ in the first nibble).  A trie in   *)
(* memory also knows which of its nodes carry a hash: Txn.hash does not    *)
(* put those in the batch again.  Nonces and balances are only copied and  *)
(* are left out.  Op_word is Op with a plausible bug.                      *)
(***************************************************************************)
EXTENDS Integers, Sequences, FiniteSets, SequencesExt

CONSTANTS
  Addrs, Keys,    \* accounts and storage slots
  Zero,           \* the word that deletes a slot (entry.Deleted)
  Codes, EmptyCode,
  AddrWalk,       \* the order in which Txn.Commit lists the objects
  KeyWalk,        \* the order of an object's storage entries
  EntrySets,      \* the storage entries that an object may come with
  CacheSize,      \* 128 in the code
  MaxObjects,     \* bound: how many objects the first, second, ... Commit lists
  MaxCrashes

ASSUME ArchiveConstants ==
  /\ EmptyCode \in Codes
  /\ CacheSize \in Nat \ {0}
  /\ Addrs \cap Keys = {}
  /\ AddrWalk \in Seq(Addrs) /\ {AddrWalk[i] : i \in DOMAIN AddrWalk} = Addrs
  /\ \A i, j \in DOMAIN AddrWalk : AddrWalk[i] = AddrWalk[j] => i = j
  /\ KeyWalk \in Seq(Keys) /\ {KeyWalk[i] : i \in DOMAIN KeyWalk} = Keys
  /\ \A e \in EntrySets : DOMAIN e \subseteq Keys
  /\ MaxObjects \in Seq(Nat)
  /\ MaxCrashes \in Nat

VARIABLES
  kind,      \* which Storage: "leveldb" or "memory"
  log,       \* what was written to it, in order; one batch is one element
  cache,     \* State.cache: tries, the one used last at the end
  snap,      \* the trie of the Snapshot the caller works with
  job,       \* the running Snapshot.Commit
  returned,  \* the roots that Commit returned
  commits, crashes

vars == <<kind, log, cache, snap, job, returned, commits, crashes>>

-----------------------------------------------------------------------------
(* Tries and their nodes.                                                  *)

\* EmptyRootHash and EmptyStateHash.
Empty == << >>

with(c, k, v) == [x \in DOMAIN c \cup {k} |-> IF x = k THEN v ELSE c[x]]

without(c, k) == [x \in DOMAIN c \ {k} |-> c[x]]

branches(c) == Cardinality(DOMAIN c) > 1

leaf(c, k) == [node |-> "leaf", of |-> [x \in {k} |-> c[x]]]

codeItem(c) == [node |-> "code", of |-> c]

\* What a trie with contents c is made of in the storage.
nodes(c) ==
  IF c = Empty THEN {}
  ELSE {[node |-> "root", of |-> c]}
         \cup IF branches(c) THEN {leaf(c, k) : k \in DOMAIN c} ELSE {}

trieOf(c, hashed) == [map |-> c, hashed |-> hashed]

\* NewTrie.
newTrie == trieOf(Empty, {})

\* The leaves other than k's keep their hashes while the root stays a branch;
\* a leaf that becomes the root, or stops being it, is a new node.
otherLeaves(t, c, k) ==
  IF branches(t.map) /\ branches(c)
  THEN t.hashed \cap {leaf(t.map, x) : x \in DOMAIN t.map \ {k}} ELSE {}

\* Txn.Insert and Txn.Delete.
TrieInsert(t, k, v) ==
  trieOf(with(t.map, k, v), otherLeaves(t, with(t.map, k, v), k))

TrieDelete(t, k) ==
  IF k \notin DOMAIN t.map THEN t
  ELSE trieOf(without(t.map, k), otherLeaves(t, without(t.map, k), k))

\* Txn.Hash: the nodes it puts in the batch, and the trie it leaves.
freshNodes(t) == nodes(t.map) \ t.hashed

hashedTrie(t) == trieOf(t.map, nodes(t.map))

\* A turn of the loop over obj.Storage, and the loop.
applyEntry(t, k, e) ==
  IF k \notin DOMAIN e THEN t
  ELSE IF e[k] = Zero THEN TrieDelete(t, k)
  ELSE TrieInsert(t, k, e[k])

applyEntries(t, e) ==
  LET upTo[i \in 0 .. Len(KeyWalk)] ==
        IF i = 0 THEN t ELSE applyEntry(upTo[i - 1], KeyWalk[i], e)
  IN upTo[Len(KeyWalk)]

\* No Commit is running; the loop of one that is counts from 1.
NoJob == [objs |-> << >>, next |-> 0, tt |-> newTrie, batch |-> {}]

-----------------------------------------------------------------------------
(* The storage and the cache.                                              *)

Stored == UNION {log[i] : i \in DOMAIN log}

cached(ca, root) == \E i \in DOMAIN ca : ca[i].map = root

\* Where the trie of a cached root is.
place(ca, root) == CHOOSE i \in DOMAIN ca : ca[i].map = root

\* The cache without a root.
dropped(ca, root) == IF cached(ca, root) THEN RemoveAt(ca, place(ca, root)) ELSE ca

\* A variant that never drops a trie.
AddState_unbounded(ca, t) == Append(dropped(ca, t.map), t)

\* lru.Cache.Add: at the end, what was there under the same root goes, and the
\* oldest if there are too many.
AddState(ca, t) ==
  LET added == Append(dropped(ca, t.map), t)
  IN IF Len(added) > CacheSize THEN Tail(added) ELSE added

\* DecodeNode knows no node with a hashed child: only a root that is a leaf
\* can be read back.
decodable(root) == [node |-> "root", of |-> root] \in Stored /\ ~branches(root)

\* NewSnapshotAt: whether it finds the root, the trie, and the cache after it.
found(ca, root) == root = Empty \/ cached(ca, root) \/ decodable(root)

NewSnapshotAt(ca, root) ==
  IF root = Empty THEN newTrie
  ELSE IF cached(ca, root) THEN ca[place(ca, root)]
  ELSE trieOf(root, {})

touched(ca, root) ==
  IF root # Empty /\ cached(ca, root) THEN AddState(ca, NewSnapshotAt(ca, root))
  ELSE ca

-----------------------------------------------------------------------------
(* Opening and reading.                                                    *)

Init ==
  /\ kind \in {"leveldb", "memory"}
  /\ log = << >>
  /\ cache = << >>
  /\ snap = newTrie
  /\ job = NoJob
  /\ returned = {}
  /\ commits = 0
  /\ crashes = 0

\* State.NewSnapshot, or NewSnapshotAt with a root that Commit returned.  A
\* root that is not found is an error and changes nothing.
Open(root) ==
  /\ job = NoJob
  /\ found(cache, root)
  /\ snap' = NewSnapshotAt(cache, root)
  /\ cache' = touched(cache, root)
  /\ UNCHANGED <<kind, log, job, returned, commits, crashes>>

\* The process dies: what was in memory is gone, a memStorage with it.
die(l) ==
  /\ log' = IF kind = "memory" THEN << >> ELSE l
  /\ cache' = << >>
  /\ snap' = newTrie
  /\ job' = NoJob
  /\ UNCHANGED <<kind, returned, commits>>

\* Snapshot.GetStorage of an account's root: it panics if that is not found.
GetStorage(a) ==
  /\ job = NoJob
  /\ a \in DOMAIN snap.map
  /\ IF found(cache, snap.map[a].root)
     THEN /\ cache' = touched(cache, snap.map[a].root)
          /\ UNCHANGED <<kind, log, snap, job, returned, commits, crashes>>
     ELSE die(log) /\ UNCHANGED crashes

\* The machine loses power: LevelDB writes its log without waiting for the
\* disk, so some suffix of it is lost.
Crash(n) ==
  /\ crashes < MaxCrashes
  /\ crashes' = crashes + 1
  /\ die(SubSeq(log, 1, n))

-----------------------------------------------------------------------------
(* Snapshot.Commit.                                                        *)

object(a, gone, x, c, dirty, e) ==
  [address |-> a, deleted |-> gone, root |-> x.root, storage |-> e, code |-> c, dirty |-> dirty]

noAccount == [root |-> Empty, code |-> EmptyCode]

\* The account an object may start from: the one that is there, or none.
accountsAt(a) == {noAccount} \cup {snap.map[x] : x \in {a} \cap DOMAIN snap.map}

\* An object that is deleted, with the code it had, or with a new one.
deletedObject(a) == object(a, TRUE, noAccount, EmptyCode, FALSE, Empty)
keptObject(a, x, e) == object(a, FALSE, x, x.code, FALSE, e)
codedObject(a, x, c, e) == object(a, FALSE, x, c, TRUE, e)

\* The objects Txn.Commit may list for an address: deleted, changed, or created
\* anew over an empty storage.
objectsAt(a) ==
  {deletedObject(a)}
    \cup {keptObject(a, x, e) : x \in accountsAt(a), e \in EntrySets}
    \cup {codedObject(a, x, c, e) :
            x \in accountsAt(a), c \in Codes \ {EmptyCode}, e \in EntrySets}

\* The entry: a batch, and a transaction on the trie of the snapshot.
BeginCommit(objs) ==
  /\ job = NoJob
  /\ commits' = commits + 1
  /\ job' = [objs |-> objs, next |-> 1, tt |-> snap, batch |-> {}]
  /\ UNCHANGED <<kind, log, cache, snap, returned, crashes>>

\* A variant of a storage trie's transaction that was given no batch.
putLater_lost(items) == {}

\* memBatch.Put writes through; a leveldb.Batch keeps the nodes for Write.
putNow(items) == IF kind = "memory" THEN items ELSE {}
putLater(items) == IF kind = "memory" THEN {} ELSE items

append(l, items) == IF items = {} THEN l ELSE Append(l, items)

\* A variant that starts from the storage the account has in the snapshot.
storageOf_current(obj) ==
  applyEntries(NewSnapshotAt(cache, IF obj.address \in DOMAIN snap.map
                                    THEN snap.map[obj.address].root ELSE Empty),
               obj.storage)

\* The storage trie of an object with its entries applied, not yet hashed.
storageOf(obj) == applyEntries(NewSnapshotAt(cache, obj.root), obj.storage)

\* A variant that takes a code to be known once the account has storage.
codeWrites_newOnly(obj) ==
  IF obj.dirty /\ obj.root = Empty THEN {codeItem(obj.code)} ELSE {}

\* SetCode goes to the storage at once.
codeWrites(obj) == IF obj.dirty THEN {codeItem(obj.code)} ELSE {}

\* One turn of the loop over the objects.
CommitObject ==
  LET obj == job.objs[job.next]
      writes == obj.storage # Empty
      local == storageOf(obj)
      account == [root |-> IF writes THEN local.map ELSE obj.root, code |-> obj.code]
      puts == IF writes THEN freshNodes(local) ELSE {}
  IN /\ job # NoJob
     /\ job.next <= Len(job.objs)
     /\ IF obj.deleted
        THEN /\ job' = [job EXCEPT !.next = @ + 1, !.tt = TrieDelete(@, obj.address)]
             /\ UNCHANGED <<kind, log, cache, snap, returned, commits, crashes>>
        ELSE IF writes /\ ~found(cache, obj.root)
        THEN die(log) /\ UNCHANGED crashes
        ELSE /\ job' = [job EXCEPT !.next = @ + 1,
                                   !.tt = TrieInsert(@, obj.address, account),
                                   !.batch = @ \cup putLater(puts)]
             /\ cache' = IF writes THEN AddState(touched(cache, obj.root), hashedTrie(local))
                         ELSE cache
             /\ log' = append(log, putNow(puts) \cup codeWrites(obj))
             /\ UNCHANGED <<kind, snap, returned, commits, crashes>>

\* A variant that forgets batch.Write.
FinishCommit_noWrite ==
  /\ job # NoJob
  /\ job.next > Len(job.objs)
  /\ cache' = AddState(cache, hashedTrie(job.tt))
  /\ snap' = hashedTrie(job.tt)
  /\ returned' = returned \cup {job.tt.map}
  /\ job' = NoJob
  /\ UNCHANGED <<kind, log, commits, crashes>>

\* After the loop: Hash, batch.Write, AddState, and the new snapshot.
FinishCommit ==
  LET tt == job.tt
      nTrie == hashedTrie(tt)
  IN /\ job # NoJob
     /\ job.next > Len(job.objs)
     /\ log' = append(log, job.batch \cup freshNodes(tt))
     /\ cache' = AddState(cache, nTrie)
     /\ snap' = nTrie
     /\ returned' = returned \cup {tt.map}
     /\ job' = NoJob
     /\ UNCHANGED <<kind, commits, crashes>>

\* The objects are listed in the order of the walk, an address once.
inWalk(objs) ==
  \E at \in [DOMAIN objs -> DOMAIN AddrWalk] :
    \A i \in DOMAIN objs :
      /\ objs[i].address = AddrWalk[at[i]]
      /\ \A j \in 1 .. i - 1 : at[j] < at[i]

Commit ==
  /\ commits < Len(MaxObjects)
  /\ \E n \in 0 .. MaxObjects[commits + 1] :
       \E objs \in [1 .. n -> UNION {objectsAt(a) : a \in Addrs}] :
         inWalk(objs) /\ BeginCommit(objs)

Next ==
  \/ \E root \in returned \cup {Empty} : Open(root)
  \/ \E a \in Addrs : GetStorage(a)
  \/ Commit
  \/ CommitObject
  \/ FinishCommit
  \/ \E n \in 0 .. Len(log) : Crash(n)

Spec == Init /\ [][Next]_vars

-----------------------------------------------------------------------------
(* Properties.                                                             *)

Tries == {snap} \cup {cache[i] : i \in DOMAIN cache}
           \cup (IF job = NoJob THEN {} ELSE {job.tt})

\* The state has its types: accounts name their storage and their code, and a
\* trie's hashed nodes are nodes of its contents.
TypeOK ==
  /\ kind \in {"leveldb", "memory"}
  /\ \A t \in Tries : /\ t.hashed \subseteq nodes(t.map)
                      /\ DOMAIN t.map \subseteq Addrs \/ DOMAIN t.map \subseteq Keys
  /\ \A a \in DOMAIN snap.map : /\ DOMAIN snap.map[a].root \subseteq Keys
                                /\ snap.map[a].code \in Codes
  /\ Len(cache) <= CacheSize
  /\ job = NoJob \/ job.next \in 1 .. Len(job.objs) + 1
  /\ commits \in 0 .. Len(MaxObjects)
  /\ crashes \in 0 .. MaxCrashes

\* All that an account needs to be read: its storage and its code.
accountStored(x) ==
  nodes(x.root) \subseteq Stored /\ (x.code = EmptyCode \/ codeItem(x.code) \in Stored)

\* A state is there in full: its nodes, and what its accounts need.
stateStored(c) ==
  nodes(c) \subseteq Stored /\ \A a \in DOMAIN c : accountStored(c[a])

\* Whatever is cut off by a crash, in the middle of a Commit or between two,
\* the storage never holds a root without all that hangs from it: a state's
\* leaves, every account's storage nodes and every account's code.  It is why
\* Commit writes codes before the batch, and storage nodes in the same batch.
RootsComplete ==
  \A n \in Stored :
    /\ n.node = "root" => nodes(n.of) \subseteq Stored
    /\ (n.node # "code" /\ DOMAIN n.of \subseteq Addrs) =>
         \A a \in DOMAIN n.of : accountStored(n.of[a])

\* Txn.hash leaves out the nodes that carry a hash, on the ground that they
\* were written before: they are in the storage, or in the batch of the Commit
\* that hashed them, for every trie that is reachable through the cache, the
\* snapshot or the running Commit.
SkippedIsStored ==
  \A t \in Tries :
    t.hashed \subseteq Stored \cup (IF job = NoJob THEN {} ELSE job.batch)

\* A root that Commit returned is in the storage in full, however many tries
\* the cache has dropped since and although a Commit that cannot reopen an
\* account's storage takes the process down half way (but not after a power
\* loss, and memStorage dies with the process).
ReturnedIsStored ==
  (kind = "leveldb" /\ crashes = 0) => \A c \in returned : stateStored(c)

\* The storage an object stands for: its entries over the storage it came with.
storageMeant(o) ==
  [k \in {x \in DOMAIN o.root \cup DOMAIN o.storage :
            x \in DOMAIN o.storage => o.storage[x] # Zero} |->
     IF k \in DOMAIN o.storage THEN o.storage[k] ELSE o.root[k]]

\* What Txn relies on (CommitBase in TxnOps): the accounts listed are replaced
\* or removed, and the rest stays.
after(c, objs) ==
  LET listed == {objs[i].address : i \in DOMAIN objs}
      live == {i \in DOMAIN objs : ~objs[i].deleted}
      objAt(a) == objs[CHOOSE i \in live : objs[i].address = a]
  IN [a \in (DOMAIN c \ listed) \cup {objs[i].address : i \in live} |->
        IF a \in listed THEN [root |-> storageMeant(objAt(a)), code |-> objAt(a).code]
        ELSE c[a]]

\* The snapshot that Commit returns is the old one with the objects applied at
\* once, although it is built object by object from tries that come from the
\* cache or from the storage and although the caller may have moved between
\* branches of the history before.
CommitAppliesObjects ==
  [][FinishCommit => snap'.map = after(snap.map, job.objs)]_vars
=============================================================================

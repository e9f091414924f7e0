-------------------------------- MODULE Trie --------------------------------
(***************************************************************************)
(* The immutable trie (immutable-trie/trie.go, node.go, hasher.go,         *)
(* encoding.go): versions that share nodes, transactions that copy the     *)
(* nodes they write, hashes cached in the nodes, and the nodes' encodings  *)
(* in the key-value storage.                                               *)
(*                                                                         *)
(* Nodes are mutable objects on a heap, so sharing, writing in place and   *)
(* stale caches are what they are in the code.  A keccak hash is modelled  *)
(* by the encoding it is the hash of.  Op_word is Op with a plausible bug. *)
(*                                                                         *)
(* The branches for a ValueNode with hash = true are left out: only        *)
(* DecodeNode makes one, after a test that excludes it (node.go:98-106).   *)
(***************************************************************************)
EXTENDS Integers, Sequences, SequencesExt, FiniteSetsExt

CONSTANTS
  Keys,        \* keys, byte strings of one length: hashes of addresses, slots
  Values,      \* the encoded accounts and words
  ValuesOf,    \* those that are written under each key
  Nil,         \* no node, no cached hash, no value, no transaction
  ValueLen,    \* the length of each value's encoding
  HashLen,     \* 32: a node shorter than a hash is put inside its parent
  MaxOps,      \* bound on the calls
  MaxVersions  \* bound on the versions

ASSUME TrieConstants ==
  /\ Keys \subseteq Seq(0 .. 255)
  /\ \A k, l \in Keys : Len(k) = Len(l)
  /\ Nil \notin Values
  /\ ValuesOf \in [Keys -> SUBSET Values]
  /\ ValueLen \in [Values -> Nat]

VARIABLES
  heap,      \* the nodes, by address
  versions,  \* the tries that were committed or opened
  txn,       \* the open transaction (type Txn), or Nil
  storage,   \* the encodings that storage holds
  ops        \* calls so far

vars == <<heap, versions, txn, storage, ops>>

Term == 16
Edges == 0 .. Term   \* the children and, at 16, the value of a full node

-----------------------------------------------------------------------------
(* Keys (encoding.go).                                                     *)

hasTerm(s) == Len(s) > 0 /\ Last(s) = Term

keybytesToHex(str) ==
  [i \in 1 .. 2 * Len(str) + 1 |->
     IF i > 2 * Len(str) THEN Term
     ELSE IF i % 2 = 1 THEN str[(i + 1) \div 2] \div 16 ELSE str[i \div 2] % 16]

hexToCompact(hex) ==
  LET nibbles == IF hasTerm(hex) THEN Front(hex) ELSE hex
      odd == Len(nibbles) % 2
      rest == SubSeq(nibbles, odd + 1, Len(nibbles))
      flag == (IF hasTerm(hex) THEN 32 ELSE 0)
              + (IF odd = 1 THEN 16 + nibbles[1] ELSE 0)
  IN <<flag>> \o [i \in 1 .. Len(rest) \div 2 |-> 16 * rest[2 * i - 1] + rest[2 * i]]

compactToHex(compact) ==
  LET base == keybytesToHex(compact)
      cut == IF base[1] < 2 THEN Front(base) ELSE base
  IN SubSeq(cut, 3 - (base[1] % 2), Len(cut))

prefixLen(k1, k2) ==
  Max({i \in 0 .. Min({Len(k1), Len(k2)}) : SubSeq(k1, 1, i) = SubSeq(k2, 1, i)})

\* s[n:]
from(s, n) == SubSeq(s, n + 1, Len(s))

-----------------------------------------------------------------------------
(* Nodes (node.go).  A value node is its value, the others are addresses.  *)

valueNode(v) == [value |-> v]
shortNode(key, child) == [kind |-> "short", key |-> key, child |-> child, hash |-> Nil]
fullNode(epoch, edges) ==
  [kind |-> "full", epoch |-> epoch, edges |-> edges, hash |-> Nil]

NoEdges == [i \in Edges |-> Nil]

isValue(n) == n # Nil /\ "value" \in DOMAIN n
isShort(h, n) == n # Nil /\ ~isValue(n) /\ h[n.at].kind = "short"

\* A new node: the heap with it, and its address.
alloc(h, x) == [heap |-> Append(h, x), node |-> [at |-> Len(h) + 1]]

-----------------------------------------------------------------------------
(* Txn.lookup, Txn.insert and Txn.delete.                                  *)

RECURSIVE lookup(_, _, _)
lookup(h, n, key) ==
  IF n = Nil THEN Nil
  ELSE IF isValue(n) THEN (IF key = << >> THEN n.value ELSE Nil)
  ELSE LET x == h[n.at] IN
       IF x.kind = "full"
       THEN IF key = << >> THEN lookup(h, x.edges[Term], key)
            ELSE lookup(h, x.edges[Head(key)], Tail(key))
       ELSE IF IsPrefix(x.key, key) THEN lookup(h, x.child, from(key, Len(x.key)))
            ELSE Nil

\* A variant: a full node is copied with its hash, whatever its epoch.
writeNode_keepsHash(h, epoch, n) == alloc(h, [h[n.at] EXCEPT !.epoch = epoch])

\* A full node of this transaction is written in place, any other is copied.
writeNode(h, epoch, n) ==
  IF h[n.at].epoch = epoch THEN [heap |-> h, node |-> n]
  ELSE alloc(h, fullNode(epoch, h[n.at].edges))

\* The heap with the value put at the path search below n, and the new n.
RECURSIVE insert(_, _, _, _, _)
insert(h, epoch, n, search, value) ==
  IF n = Nil /\ search # << >>
  THEN alloc(h, shortNode(search, valueNode(value)))
  ELSE IF n = Nil \/ (isValue(n) /\ search = << >>)
  THEN [heap |-> h, node |-> valueNode(value)]
  ELSE IF isValue(n)
  THEN LET b == alloc(h, fullNode(epoch, [NoEdges EXCEPT ![Term] = n]))
       IN insert(b.heap, epoch, b.node, search, value)
  ELSE IF isShort(h, n)
  THEN LET key == h[n.at].key
           old == h[n.at].child
           plen == prefixLen(search, key)
       IN IF plen = Len(key)
          THEN LET c == insert(h, epoch, old, from(search, plen), value)
               IN alloc(c.heap, shortNode(key, c.node))
          ELSE LET below == IF Len(key) > plen + 1
                            THEN alloc(h, shortNode(from(key, plen + 1), old))
                            ELSE [heap |-> h, node |-> old]
                   b == alloc(below.heap,
                              fullNode(epoch, [NoEdges EXCEPT ![key[plen + 1]] = below.node]))
                   c == insert(b.heap, epoch, b.node, from(search, plen), value)
               IN IF plen = 0 THEN c
                  ELSE alloc(c.heap, shortNode(SubSeq(search, 1, plen), c.node))
  ELSE LET edge == IF search = << >> THEN Term ELSE search[1]
           b == writeNode(h, epoch, n)
           c == insert(b.heap, epoch, h[n.at].edges[edge], from(search, 1), value)
       IN [heap |-> [c.heap EXCEPT ![b.node.at].edges[edge] = c.node], node |-> b.node]

\* Variants: short nodes are not joined; or joined without the edge between.
collapse_unjoined(h, edges) ==
  LET used == {i \in Edges : edges[i] # Nil}
      only == CHOOSE i \in used : TRUE
  IN IF Cardinality(used) > 1 THEN alloc(h, fullNode(0, edges))
     ELSE alloc(h, shortNode(<<only>>, edges[only]))
collapse_dropsEdge(h, edges) ==
  LET used == {i \in Edges : edges[i] # Nil}
      child == edges[CHOOSE i \in used : TRUE]
  IN IF Cardinality(used) > 1 THEN alloc(h, fullNode(0, edges))
     ELSE [heap |-> h, node |-> child]

\* What is left of a full node with these edges after one was deleted: the
\* node, or a short node for the only edge, joined with a short node below it.
collapse(h, edges) ==
  LET used == {i \in Edges : edges[i] # Nil}
      only == CHOOSE i \in used : TRUE
      child == edges[only]
  IN IF Cardinality(used) > 1 THEN alloc(h, fullNode(0, edges))
     ELSE IF used = {} THEN [heap |-> h, node |-> Nil]
     ELSE IF isShort(h, child)
     THEN alloc(h, shortNode(<<only>> \o h[child.at].key, h[child.at].child))
     ELSE alloc(h, shortNode(<<only>>, child))

ok(r) == [heap |-> r.heap, node |-> r.node, ok |-> TRUE]
miss(h) == [heap |-> h, node |-> Nil, ok |-> FALSE]

\* The heap after the path search is deleted below n, the new n, and whether
\* it was found.  Every short node on the way loses its cached hash, in the
\* shared node itself.  A key that leaves a short node halfway is still looked
\* for below it: keys have one length, so it is never found there.
RECURSIVE delete(_, _, _)
delete(h, n, search) ==
  IF n = Nil THEN miss(h)
  ELSE IF isValue(n)
  THEN IF search # << >> THEN miss(h) ELSE ok([heap |-> h, node |-> Nil])
  ELSE IF isShort(h, n)
  THEN LET key == h[n.at].key
           unhashed == [h EXCEPT ![n.at].hash = Nil]
           plen == prefixLen(search, key)
           c == delete(unhashed, h[n.at].child, from(search, plen))
       IN IF plen = Len(search) THEN ok([heap |-> unhashed, node |-> Nil])
          ELSE IF plen = 0 THEN miss(unhashed)
          ELSE IF ~c.ok THEN miss(c.heap)
          ELSE IF c.node = Nil THEN ok(c)
          ELSE IF isShort(c.heap, c.node)
          THEN LET x == c.heap[c.node.at] IN ok(alloc(c.heap, shortNode(key \o x.key, x.child)))
          ELSE ok(alloc(c.heap, shortNode(key, c.node)))
  ELSE LET c == delete(h, h[n.at].edges[Head(search)], Tail(search))
       IN IF ~c.ok THEN miss(c.heap)
          ELSE ok(collapse(c.heap, [h[n.at].edges EXCEPT ![Head(search)] = c.node]))

-----------------------------------------------------------------------------
(* Txn.hash (hasher.go): the encoding of a node, with its children's       *)
(* encodings inside, or their hashes where those are long enough.          *)

\* The length of an encoding, as RLP gives it up to a header.
RECURSIVE length(_)
length(e) ==
  IF "value" \in DOMAIN e THEN ValueLen[e.value]
  ELSE IF "hash" \in DOMAIN e THEN HashLen
  ELSE IF "key" \in DOMAIN e THEN Len(e.key) + length(e.child)
  ELSE MapThenSumSet(LAMBDA i : IF e.edges[i] = Nil THEN 1 ELSE length(e.edges[i]), Edges)

RECURSIVE hash(_, _)

\* The encoding of the node itself, whatever hash it has.
encoding(h, n) ==
  LET x == h[n.at] IN
  IF x.kind = "short"
  THEN [key |-> hexToCompact(x.key), child |-> hash(h, x.child)]
  ELSE [edges |-> [i \in Edges |-> IF x.edges[i] = Nil THEN Nil ELSE hash(h, x.edges[i])]]

\* What the parent's encoding holds; a cached hash is not computed again.
hash(h, n) ==
  IF isValue(n) THEN n
  ELSE IF h[n.at].hash # Nil THEN [hash |-> h[n.at].hash]
  ELSE IF length(encoding(h, n)) < HashLen THEN encoding(h, n)
  ELSE [hash |-> encoding(h, n)]

\* The nodes below n that the walk computes a hash for: it stops at a hash.
RECURSIVE hashed(_, _)
hashed(h, n) ==
  IF n = Nil \/ isValue(n) THEN {}
  ELSE IF h[n.at].hash # Nil THEN {}
  ELSE LET x == h[n.at]
           below == IF x.kind = "short" THEN hashed(h, x.child)
                    ELSE UNION {hashed(h, x.edges[i]) : i \in Edges}
       IN IF length(encoding(h, n)) < HashLen THEN below ELSE below \cup {n.at}

\* Txn.Hash: a root that is not long enough is hashed, but keeps no hash.
rootHash(h, n) ==
  IF n = Nil THEN Nil
  ELSE IF "hash" \in DOMAIN hash(h, n) THEN hash(h, n).hash ELSE hash(h, n)

\* Variants: only the nodes that keep a hash are written; or only the root.
batch_noRoot(h, n) == {encoding(h, [at |-> p]) : p \in hashed(h, n)}
batch_rootOnly(h, n) == IF n = Nil THEN {} ELSE {rootHash(h, n)}

\* What Txn.Hash puts in the batch: the root, if it was not stored before,
\* and every node that got a hash.
batch(h, n) ==
  {encoding(h, [at |-> p]) : p \in hashed(h, n)}
    \cup (IF n # Nil /\ h[n.at].hash = Nil THEN {encoding(h, n)} ELSE {})

\* The heap with the hashes in the nodes (SetHash).
setHashes(h, n) ==
  [p \in DOMAIN h |-> IF p \in hashed(h, n)
                      THEN [h[p] EXCEPT !.hash = encoding(h, [at |-> p])] ELSE h[p]]

-----------------------------------------------------------------------------
(* DecodeNode (node.go).                                                   *)

\* decodeNodeImpl answers "node has incorrect number of leafs" for a hash.
RECURSIVE decodes(_)
decodes(e) ==
  IF "hash" \in DOMAIN e THEN FALSE
  ELSE IF "key" \in DOMAIN e
  THEN IF hasTerm(compactToHex(e.key)) THEN "value" \in DOMAIN e.child ELSE decodes(e.child)
  ELSE \A i \in 0 .. 15 : e.edges[i] # Nil => decodes(e.edges[i])

\* The nodes of an encoding that decodes, with epoch 0 and no hashes.
RECURSIVE decode(_, _)
decode(h, e) ==
  IF "value" \in DOMAIN e THEN [heap |-> h, node |-> e]
  ELSE IF "key" \in DOMAIN e
  THEN LET c == decode(h, e.child)
       IN alloc(c.heap, shortNode(compactToHex(e.key), c.node))
  ELSE LET one(i, r) == LET c == decode(r.heap, e.edges[i])
                        IN [heap |-> c.heap, edges |-> [r.edges EXCEPT ![i] = c.node]]
           all == FoldSet(one, [heap |-> h, edges |-> NoEdges],
                          {i \in Edges : e.edges[i] # Nil})
       IN alloc(all.heap, fullNode(0, all.edges))

-----------------------------------------------------------------------------
(* The actions.                                                            *)

NoContents == [k \in Keys |-> Nil]

\* map, in a version or a transaction, is what it should hold: for properties.
version(root, epoch, h, map) ==
  [root |-> root, epoch |-> epoch, hash |-> h, map |-> map]

\* NewTrie.
Init ==
  /\ heap = << >>
  /\ versions = <<version(Nil, 0, Nil, NoContents)>>
  /\ txn = Nil
  /\ storage = {}
  /\ ops = 0

Count == ops < MaxOps /\ ops' = ops + 1

\* A variant: the transaction shares the epoch of its trie.
Begin_sameEpoch(i) ==
  /\ txn = Nil
  /\ txn' = [root |-> versions[i].root, epoch |-> versions[i].epoch,
             map |-> versions[i].map]
  /\ UNCHANGED <<heap, versions, storage, ops>>

\* Trie.Txn, on any version: several accounts may have the same storage trie.
Begin(i) ==
  /\ txn = Nil
  /\ txn' = [root |-> versions[i].root, epoch |-> versions[i].epoch + 1,
             map |-> versions[i].map]
  /\ UNCHANGED <<heap, versions, storage, ops>>

Insert(k, v) ==
  LET r == insert(heap, txn.epoch, txn.root, keybytesToHex(k), v) IN
  /\ txn # Nil
  /\ Count
  /\ heap' = r.heap
  /\ txn' = [txn EXCEPT !.root = r.node, !.map[k] = v]
  /\ UNCHANGED <<versions, storage>>

\* A key that is not there leaves the root, but not the hashes on the way.
Delete(k) ==
  LET r == delete(heap, txn.root, keybytesToHex(k)) IN
  /\ txn # Nil
  /\ Count
  /\ heap' = r.heap
  /\ txn' = [txn EXCEPT !.root = IF r.ok THEN r.node ELSE @, !.map[k] = Nil]
  /\ UNCHANGED <<versions, storage>>

\* Txn.Hash, Txn.Commit and Batch.Write, as Snapshot.Commit calls them.
Commit ==
  /\ txn # Nil
  /\ Len(versions) < MaxVersions
  /\ heap' = setHashes(heap, txn.root)
  /\ storage' = storage \cup batch(heap, txn.root)
  /\ versions' = Append(versions, version(txn.root, txn.epoch,
                                          rootHash(heap, txn.root), txn.map))
  /\ txn' = Nil
  /\ UNCHANGED ops

\* State.NewSnapshotAt, when the cache has no trie for the root: it is read
\* from storage, if its encoding decodes.
Open(i) ==
  LET e == versions[i].hash
      r == decode(heap, e)
  IN /\ txn = Nil
     /\ Len(versions) < MaxVersions
     /\ e \in storage
     /\ decodes(e)
     /\ heap' = r.heap
     /\ versions' = Append(versions, version(r.node, 0, e, versions[i].map))
     /\ UNCHANGED <<txn, storage, ops>>

Next ==
  \/ \E i \in DOMAIN versions : Begin(i)
  \/ \E k \in Keys : \E v \in ValuesOf[k] : Insert(k, v)
  \/ \E k \in Keys : Delete(k)
  \/ Commit
  \/ \E i \in DOMAIN versions : Open(i)

Spec == Init /\ [][Next]_vars

-----------------------------------------------------------------------------
(* Properties.                                                             *)

Nodes == {Nil} \cup [at: DOMAIN heap] \cup [value: Values]

\* The state has its types: every node of the heap is a short or a full node
\* whose children are nodes of the heap, values or nil, and a cached hash is of
\* an encoding that storage holds.
TypeOK ==
  /\ \A p \in DOMAIN heap :
       /\ heap[p].hash \in storage \cup {Nil}
       /\ IF heap[p].kind = "short"
          THEN heap[p].key \in Seq(Edges) \ {<< >>} /\ heap[p].child \in Nodes \ {Nil}
          ELSE heap[p].edges \in [Edges -> Nodes] /\ heap[p].epoch \in Nat
  /\ \A i \in DOMAIN versions : versions[i].root \in Nodes
  /\ txn # Nil => txn.root \in Nodes
  /\ ops \in 0 .. MaxOps

contents(root) == [k \in Keys |-> lookup(heap, root, keybytesToHex(k))]

\* Tries are immutable: whatever later transactions insert, delete and hash in
\* nodes they share with it, every version and the open transaction read
\* exactly what was written to them, and what was deleted is gone.
VersionsPersist ==
  /\ \A i \in DOMAIN versions : contents(versions[i].root) = versions[i].map
  /\ txn # Nil => contents(txn.root) = txn.map

\* The Merkle Patricia trie of a set of pairs of path and value, as Ethereum
\* defines it: a leaf, an extension for a common prefix, or a branch.
RECURSIVE patricia(_)
patricia(J) ==
  LET paths == {p[1] : p \in J}
      shared == Max({i \in 0 .. Min({Len(q) : q \in paths}) :
                       \A q, r \in paths : SubSeq(q, 1, i) = SubSeq(r, 1, i)})
      path == (CHOOSE p \in J : TRUE)[1]
      value == (CHOOSE p \in J : TRUE)[2]
      strip(K, n) == {<<from(p[1], n), p[2]>> : p \in K}
      inParent(e) == IF length(e) < HashLen THEN e ELSE [hash |-> e]
      at(i) == {p \in J : Head(p[1]) = i}
  IN IF Cardinality(J) = 1
     THEN [key |-> hexToCompact(path), child |-> [value |-> value]]
     ELSE IF shared > 0
     THEN [key |-> hexToCompact(SubSeq(path, 1, shared)),
           child |-> inParent(patricia(strip(J, shared)))]
     ELSE [edges |-> [i \in Edges |-> IF at(i) = {} THEN Nil
                                      ELSE inParent(patricia(strip(at(i), 1)))]]

merkleRoot(map) ==
  LET J == {<<keybytesToHex(k), map[k]>> : k \in {l \in Keys : map[l] # Nil}}
  IN IF J = {} THEN Nil ELSE patricia(J)

\* The root hash is the Merkle root of the contents, whatever the history: the
\* same contents reached by other inserts, deletes, commits and reloads, on
\* nodes with whatever cached hashes, have the same root.
RootIsCanonical ==
  \A i \in DOMAIN versions : versions[i].hash = merkleRoot(versions[i].map)

\* The encodings that a reader of e needs: its own and those it names by hash.
RECURSIVE needed(_)
needed(e) ==
  IF "value" \in DOMAIN e THEN {}
  ELSE IF "hash" \in DOMAIN e THEN {e.hash} \cup needed(e.hash)
  ELSE IF "key" \in DOMAIN e THEN needed(e.child)
  ELSE UNION {needed(e.edges[i]) : i \in {j \in Edges : e.edges[j] # Nil}}

\* Storage has every node of every committed version: a node that the walk
\* skips because it has a hash was written by an earlier commit.
VersionsStored ==
  \A i \in DOMAIN versions :
    versions[i].hash # Nil =>
      {versions[i].hash} \cup needed(versions[i].hash) \subseteq storage

\* node.go, of a child that is a hash: "hash marks if this value node represents
\* a stored node".  A version whose nodes storage holds can be opened again.
VersionsReopen ==
  \A i \in DOMAIN versions : versions[i].hash # Nil => decodes(versions[i].hash)
=============================================================================

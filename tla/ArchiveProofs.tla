--------------------------- MODULE ArchiveProofs ---------------------------
(***************************************************************************)
(* Proofs about Archive: the storage holds a root only with all that hangs *)
(* from it, wherever a crash cuts the log; what Txn.hash leaves out was    *)
(* written; and what Commit returned is there.                             *)
(***************************************************************************)
EXTENDS Archive, SequenceTheorems, FiniteSetTheorems, NaturalsInduction,
        WellFoundedInduction, TLAPS

-----------------------------------------------------------------------------
(* Contents and nodes.                                                     *)

\* The functions from some of D to V.
Partial(D, V) == UNION {[E -> V] : E \in SUBSET D}

Values == UNION {{e[k] : k \in DOMAIN e} : e \in EntrySets}

\* The contents of a storage trie, an account, and the contents of a state trie.
Slots == Partial(Keys, Values)
Accounts == [root : Slots, code : Codes]
States == Partial(Addrs, Accounts)
Maps == States \cup Slots

Items == [node : {"root", "leaf"}, of : Maps] \cup [node : {"code"}, of : Codes]

Known == {t \in [map : Maps, hashed : SUBSET Items] : t.hashed \subseteq nodes(t.map)}

\* Among the items P is all that an account needs.
Held(P, x) ==
  nodes(x.root) \subseteq P /\ (x.code = EmptyCode \/ codeItem(x.code) \in P)

\* And all that the accounts of a state need.
AllHeld(P, c) == DOMAIN c \subseteq Addrs => \A a \in DOMAIN c : Held(P, c[a])

\* Among the items P is all that hangs from one of them.
Whole(P) ==
  \A n \in P : /\ n.node = "root" => nodes(n.of) \subseteq P
               /\ n.node # "code" => AllHeld(P, n.of)

\* A trie with its hashed nodes, and what its accounts need, among P.
Trusted(P) == {t \in Known : t.hashed \subseteq P /\ AllHeld(P, t.map)}

Objects == [address : Addrs, deleted : BOOLEAN, root : Slots,
            storage : EntrySets \cup {Empty}, code : Codes, dirty : BOOLEAN]

\* An object that Commit may write once P is there.
Listed(P) ==
  {o \in Objects : /\ nodes(o.root) \subseteq P
                   /\ o.dirty \/ o.code = EmptyCode \/ codeItem(o.code) \in P}

Jobs(P) ==
  {j \in [objs : Seq(Listed(P)), next : Nat, tt : Trusted(P), batch : SUBSET Items] :
     j.next \in 1 .. Len(j.objs) + 1 /\ j.tt.map \in States}

\* The first n writes.
Upto(l, n) == UNION {l[i] : i \in 1 .. n}

\* What the tries in memory rely on: the storage, and the batch to come.
Backing == Stored \cup (IF job = NoJob THEN {} ELSE job.batch)

\* The inductive invariant.  A crash keeps some prefix of the log, so every
\* prefix must be whole; and what is not written yet must be whole together
\* with the batch, for tries and objects in memory point into it.
ArchiveInv ==
  /\ kind \in {"leveldb", "memory"}
  /\ commits \in 0 .. Len(MaxObjects) /\ crashes \in 0 .. MaxCrashes
  /\ returned \subseteq States
  /\ log \in Seq(SUBSET Items)
  /\ \A n \in 0 .. Len(log) : Whole(Upto(log, n))
  /\ Whole(Backing)
  /\ cache \in Seq(Trusted(Backing)) /\ Len(cache) <= CacheSize
  /\ snap \in Trusted(Backing) /\ snap.map \in States
  /\ job # NoJob => job \in Jobs(Backing) /\ (kind = "memory" => job.batch = {})
  /\ ReturnedIsStored


LEMMA PartialDef ==
  ASSUME NEW D, NEW V, NEW c
  PROVE  c \in Partial(D, V) <=>
           c = [x \in DOMAIN c |-> c[x]] /\ DOMAIN c \subseteq D
             /\ \A x \in DOMAIN c : c[x] \in V
  <1>1. ASSUME c \in Partial(D, V)
        PROVE  c = [x \in DOMAIN c |-> c[x]] /\ DOMAIN c \subseteq D
                 /\ \A x \in DOMAIN c : c[x] \in V
    <2>1. PICK E \in SUBSET D : c \in [E -> V]
      BY <1>1 DEF Partial
    <2> QED
      BY <2>1
  <1>2. ASSUME c = [x \in DOMAIN c |-> c[x]], DOMAIN c \subseteq D,
               \A x \in DOMAIN c : c[x] \in V
        PROVE  c \in Partial(D, V)
    <2>1. c \in [DOMAIN c -> V]
      BY <1>2
    <2>2. DOMAIN c \in SUBSET D
      BY <1>2
    <2> QED
      BY <2>1, <2>2, Zenon DEF Partial
  <1> QED
    BY <1>1, <1>2

LEMMA EmptyContents ==
  /\ DOMAIN Empty = {}
  /\ \A c : DOMAIN c = {} /\ c = [x \in DOMAIN c |-> c[x]] => c = Empty
  /\ ~branches(Empty) /\ nodes(Empty) = {}
  /\ Empty \in Slots /\ Empty \in States
  <1>1. DOMAIN Empty = {} /\ Empty = [x \in {} |-> 0]
    BY DEF Empty
  <1>2. \A c : DOMAIN c = {} /\ c = [x \in DOMAIN c |-> c[x]] => c = Empty
    BY <1>1
  <1>3. ~branches(Empty)
    BY <1>1, FS_EmptySet DEF branches
  <1>4. nodes(Empty) = {}
    BY DEF nodes
  <1>5. \A V : Empty \in [{} -> V]
    BY <1>1
  <1>6. Empty \in Slots /\ Empty \in States
    BY <1>5 DEF Slots, States, Partial
  <1> QED
    BY <1>1, <1>2, <1>3, <1>4, <1>6

\* A trie with new contents: one entry more or less.
LEMMA WithIn ==
  ASSUME NEW D, NEW V, NEW c \in Partial(D, V), NEW k \in D
  PROVE  /\ \A v \in V : with(c, k, v) \in Partial(D, V)
         /\ without(c, k) \in Partial(D, V)
  <1>1. DOMAIN c \subseteq D /\ \A x \in DOMAIN c : c[x] \in V
    BY PartialDef
  <1>2. ASSUME NEW v \in V
        PROVE  with(c, k, v) \in Partial(D, V)
    <2>1. DOMAIN c \cup {k} \in SUBSET D
      BY <1>1
    <2>2. with(c, k, v) \in [DOMAIN c \cup {k} -> V]
      BY <1>1 DEF with
    <2> QED
      BY <2>1, <2>2, Zenon DEF Partial
  <1>3. without(c, k) \in Partial(D, V)
    <2>1. DOMAIN c \ {k} \in SUBSET D
      BY <1>1
    <2>2. without(c, k) \in [DOMAIN c \ {k} -> V]
      BY <1>1 DEF without
    <2> QED
      BY <2>1, <2>2, Zenon DEF Partial
  <1> QED
    BY <1>2, <1>3

\* A leaf's contents are one entry of its trie's.
LEMMA LeafIn ==
  ASSUME NEW c \in Maps, NEW k \in DOMAIN c
  PROVE  /\ leaf(c, k).of \in Maps
         /\ DOMAIN leaf(c, k).of = {k}
         /\ leaf(c, k).of[k] = c[k]
         /\ leaf(c, k).node = "leaf"
  <1> DEFINE l == [x \in {k} |-> c[x]]
  <1>1. leaf(c, k).of = l /\ leaf(c, k).node = "leaf"
    BY DEF leaf
  <1>2. ASSUME NEW D, NEW V, c \in Partial(D, V)
        PROVE  l \in Partial(D, V)
    <2>1. {k} \in SUBSET D /\ c[k] \in V
      BY <1>2, PartialDef
    <2>2. l \in [{k} -> V]
      BY <2>1
    <2> QED
      BY <2>1, <2>2, Zenon DEF Partial
  <1>3. DOMAIN l = {k} /\ l[k] = c[k]
    OBVIOUS
  <1> HIDE DEF l
  <1> QED
    BY <1>1, <1>2, <1>3 DEF Maps, States, Slots

\* What a trie is made of.
LEMMA NodesIn ==
  ASSUME NEW c \in Maps, NEW n \in nodes(c)
  PROVE  /\ n \in Items /\ n.node \in {"root", "leaf"}
         /\ n.node = "root" => n.of = c
         /\ DOMAIN n.of \subseteq DOMAIN c
         /\ \A k \in DOMAIN n.of : n.of[k] = c[k]
         /\ c # Empty
  <1>1. c # Empty /\ (n = [node |-> "root", of |-> c] \/ \E k \in DOMAIN c : n = leaf(c, k))
    BY DEF nodes
  <1>2. CASE n = [node |-> "root", of |-> c]
    BY <1>1, <1>2 DEF Items
  <1>3. ASSUME NEW k \in DOMAIN c, n = leaf(c, k)
        PROVE  /\ n \in Items /\ n.node = "leaf"
               /\ DOMAIN n.of \subseteq DOMAIN c
               /\ \A x \in DOMAIN n.of : n.of[x] = c[x]
    <2>1. /\ n.of \in Maps /\ DOMAIN n.of = {k} /\ n.of[k] = c[k] /\ n.node = "leaf"
      BY <1>3, LeafIn
    <2>2. n = [node |-> n.node, of |-> n.of]
      BY <1>3 DEF leaf
    <2>3. n \in Items
      BY <2>1, <2>2 DEF Items
    <2> QED
      BY <2>1, <2>3
  <1> QED
    BY <1>1, <1>2, <1>3

\* Two contents agree at a key.
SameAt(c, d, k) == (k \in DOMAIN c <=> k \in DOMAIN d) /\ (k \in DOMAIN d => c[k] = d[k])

-----------------------------------------------------------------------------
(* Insertions and deletions.                                               *)

\* The leaves that keep their hashes are leaves of the new contents.
LEMMA OtherLeaves ==
  ASSUME NEW t, NEW c, NEW k, \A x \in DOMAIN t.map \ {k} : x \in DOMAIN c /\ c[x] = t.map[x]
  PROVE  otherLeaves(t, c, k) \subseteq t.hashed \cap nodes(c)
  <1> SUFFICES ASSUME NEW n \in otherLeaves(t, c, k)
               PROVE  n \in t.hashed /\ n \in nodes(c)
    OBVIOUS
  <1>1. /\ branches(c) /\ n \in t.hashed
        /\ \E x \in DOMAIN t.map \ {k} : n = leaf(t.map, x)
    BY DEF otherLeaves
  <1>2. PICK x \in DOMAIN t.map \ {k} : n = leaf(t.map, x)
    BY <1>1
  <1>3. leaf(t.map, x) = leaf(c, x) /\ x \in DOMAIN c
    BY DEF leaf
  <1>4. c # Empty
    BY <1>1, EmptyContents
  <1> QED
    BY <1>1, <1>2, <1>3, <1>4 DEF nodes


LEMMA TrieIn ==
  ASSUME NEW c \in Maps, NEW h, h \subseteq nodes(c)
  PROVE  trieOf(c, h) \in Known /\ trieOf(c, h).map = c /\ trieOf(c, h).hashed = h
  <1>1. nodes(c) \subseteq Items
    BY NodesIn
  <1>2. h \in SUBSET Items
    BY <1>1
  <1>3. trieOf(c, h).map = c /\ trieOf(c, h).hashed = h
    BY DEF trieOf
  <1>4. trieOf(c, h) \in [map : Maps, hashed : SUBSET Items]
    BY <1>2 DEF trieOf
  <1> QED
    BY <1>3, <1>4 DEF Known

\* An insertion or a deletion forgets hashes and makes none.
LEMMA WriteIn ==
  ASSUME NEW D, NEW V, Partial(D, V) \subseteq Maps,
         NEW t \in Known, t.map \in Partial(D, V), NEW k \in D
  PROVE  /\ \A v \in V : LET u == TrieInsert(t, k, v) IN
              /\ u \in Known /\ u.map = with(t.map, k, v)
              /\ u.map \in Partial(D, V) /\ u.hashed \subseteq t.hashed
         /\ LET u == TrieDelete(t, k) IN
              /\ u \in Known /\ (u.map = t.map \/ u.map = without(t.map, k))
              /\ u.map \in Partial(D, V) /\ u.hashed \subseteq t.hashed
  <1>1. ASSUME NEW c \in Partial(D, V),
               \A x \in DOMAIN t.map \ {k} : x \in DOMAIN c /\ c[x] = t.map[x]
        PROVE  LET u == trieOf(c, otherLeaves(t, c, k)) IN
               u \in Known /\ u.map = c /\ u.hashed \subseteq t.hashed
    <2>1. otherLeaves(t, c, k) \subseteq t.hashed \cap nodes(c)
      BY <1>1, OtherLeaves
    <2>2. c \in Maps
      OBVIOUS
    <2> QED
      BY <2>1, <2>2, TrieIn
  <1>2. ASSUME NEW v \in V
        PROVE  LET u == TrieInsert(t, k, v) IN
               /\ u \in Known /\ u.map = with(t.map, k, v)
               /\ u.map \in Partial(D, V) /\ u.hashed \subseteq t.hashed
    <2> DEFINE c == with(t.map, k, v)
    <2>1. c \in Partial(D, V)
      BY WithIn
    <2>2. \A x \in DOMAIN t.map \ {k} : x \in DOMAIN c /\ c[x] = t.map[x]
      BY DEF with
    <2>3. TrieInsert(t, k, v) = trieOf(c, otherLeaves(t, c, k))
      BY DEF TrieInsert
    <2> HIDE DEF c
    <2>4. LET u == trieOf(c, otherLeaves(t, c, k)) IN
          u \in Known /\ u.map = c /\ u.hashed \subseteq t.hashed
      BY <1>1, <2>1, <2>2
    <2> QED
      BY <2>1, <2>3, <2>4 DEF c
  <1>3. CASE k \notin DOMAIN t.map
    <2>1. TrieDelete(t, k) = t
      BY <1>3 DEF TrieDelete
    <2> QED
      BY <1>2, <2>1
  <1>4. CASE k \in DOMAIN t.map
    <2> DEFINE c == without(t.map, k)
    <2>1. c \in Partial(D, V)
      BY WithIn
    <2>2. \A x \in DOMAIN t.map \ {k} : x \in DOMAIN c /\ c[x] = t.map[x]
      BY DEF without
    <2>3. TrieDelete(t, k) = trieOf(c, otherLeaves(t, c, k))
      BY <1>4 DEF TrieDelete
    <2> HIDE DEF c
    <2>4. LET u == trieOf(c, otherLeaves(t, c, k)) IN
          u \in Known /\ u.map = c /\ u.hashed \subseteq t.hashed
      BY <1>1, <2>1, <2>2
    <2> QED
      BY <1>2, <2>1, <2>3, <2>4 DEF c
  <1> QED
    BY <1>3, <1>4

\* Every set of natural numbers has a least one.
LEMMA Least ==
  ASSUME NEW T, T \subseteq Nat, T # {}
  PROVE  \E x \in T : \A y \in T : x <= y
  <1> DEFINE R == OpToRel(<, Nat)
  <1>1. IsWellFoundedOn(R, Nat)
    BY NatLessThanWellFounded
  <1>2. \A x \in Nat, y \in Nat : <<y, x>> \in R <=> y < x
    BY DEF OpToRel
  <1> HIDE DEF R
  <1>3. PICK x \in T : \A y \in T : ~ (<<y, x>> \in R)
    BY <1>1, WFMin
  <1>4. ASSUME NEW y \in T
        PROVE  x <= y
    <2>1. ~ (y < x)
      BY <1>2, <1>3
    <2> QED
      BY <2>1
  <1> QED
    BY <1>4

\* Where every turn of the loop over the entries leads from S[i - 1] to S[i], the
\* loop leads from S[0] to the last.  (The loop has a result at all because it has
\* one up to every turn: take the first up to which it has none.)
LEMMA LoopLeads ==
  ASSUME NEW S, NEW t \in S[0], NEW e,
         \A i \in 1 .. Len(KeyWalk) : \A u \in S[i - 1] : applyEntry(u, KeyWalk[i], e) \in S[i]
  PROVE  applyEntries(t, e) \in S[Len(KeyWalk)]
  <1> DEFINE L == Len(KeyWalk)
             turn(g, i) == applyEntry(g[i - 1], KeyWalk[i], e)
             Runs(g, n) == /\ g = [i \in 0 .. n |-> g[i]] /\ g[0] = t
                           /\ \A i \in 0 .. n : g[i] \in S[i]
                           /\ \A i \in 1 .. n : g[i] = turn(g, i)
             Loop(f) == f = [i \in 0 .. L |-> IF i = 0 THEN t ELSE turn(f, i)]
  <1>1. L \in Nat /\ \A i \in 1 .. L : \A u \in S[i - 1] : applyEntry(u, KeyWalk[i], e) \in S[i]
    BY ArchiveConstants, LenProperties
  <1> HIDE DEF L
  <1>2. \A n \in 0 .. L : \E g : Runs(g, n)
    <2> DEFINE bad == {n \in 0 .. L : ~ \E g : Runs(g, n)}
    <2>1. SUFFICES ASSUME bad # {} PROVE FALSE
      OBVIOUS
    <2>2. PICK n \in bad : \A m \in bad : n <= m
      <3>1. bad \subseteq Nat
        BY <1>1
      <3> HIDE DEF bad
      <3> QED
        BY <2>1, <3>1, Least
    <2>3. CASE n = 0
      <3>1. Runs([i \in 0 .. 0 |-> t], 0)
        OBVIOUS
      <3> QED
        BY <2>3, <3>1
    <2>4. CASE n # 0
      <3>1. n \in Nat /\ n - 1 \in 0 .. L /\ ~(n <= n - 1) /\ n \in 1 .. L
        BY <1>1, <2>4
      <3>2. PICK g : Runs(g, n - 1)
        BY <2>2, <3>1
      <3> DEFINE h == [i \in 0 .. n |-> IF i = n THEN turn(g, n) ELSE g[i]]
      <3>3. turn(g, n) \in S[n]
        <4>1. g[n - 1] \in S[n - 1]
          BY <3>1, <3>2
        <4> QED
          BY <1>1, <3>1, <4>1
      <3>4. h = [i \in 0 .. n |-> h[i]] /\ h[0] = t /\ \A i \in 0 .. n : h[i] \in S[i]
        <4>1. \A i \in 0 .. n : i # n => i \in 0 .. n - 1
          BY <3>1
        <4> HIDE DEF turn
        <4> QED
          BY <2>4, <3>1, <3>2, <3>3, <4>1
      <3>5. ASSUME NEW i \in 1 .. n
            PROVE  h[i] = turn(h, i)
        <4>1. i \in 0 .. n /\ i - 1 \in 0 .. n /\ i - 1 # n /\ (i # n => i \in 1 .. n - 1)
          BY <3>1
        <4>2. h[i - 1] = g[i - 1]
          BY <4>1
        <4>3. turn(h, i) = turn(g, i)
          BY <4>2
        <4>4. h[i] = IF i = n THEN turn(g, n) ELSE g[i]
          BY <4>1
        <4> HIDE DEF h, turn
        <4> QED
          BY <3>2, <4>1, <4>3, <4>4
      <3>6. Runs(h, n)
        BY <3>4, <3>5
      <3> QED
        BY <3>6
    <2> QED
      BY <2>3, <2>4
  <1>3. PICK g : Runs(g, L)
    BY <1>1, <1>2
  <1>4. Loop(g)
    <2> HIDE DEF turn
    <2>1. ASSUME NEW i \in 0 .. L
          PROVE  g[i] = IF i = 0 THEN t ELSE turn(g, i)
      <3>1. i # 0 => i \in 1 .. L
        BY <1>1
      <3> QED
        BY <1>3, <3>1
    <2> QED
      BY <1>3, <2>1
  <1>5. PICK f : Loop(f) /\ applyEntries(t, e) = f[L]
    <2>1. applyEntries(t, e) = (CHOOSE f : Loop(f))[L]
      BY Zenon DEF applyEntries, L
    <2> HIDE DEF Loop
    <2>2. Loop(CHOOSE f : Loop(f))
      BY <1>4
    <2> QED
      BY <2>1, <2>2
  <1>6. ASSUME NEW i \in 0 .. L
        PROVE  f[i] = IF i = 0 THEN t ELSE turn(f, i)
    <2> HIDE DEF turn
    <2> QED
      BY <1>5
  <1>7. \A n \in 0 .. L : f[n] = g[n]
    <2> DEFINE bad == {n \in 0 .. L : f[n] # g[n]}
    <2>1. SUFFICES ASSUME bad # {} PROVE FALSE
      OBVIOUS
    <2>2. PICK n \in bad : \A m \in bad : n <= m
      <3>1. bad \subseteq Nat
        BY <1>1
      <3> HIDE DEF bad
      <3> QED
        BY <2>1, <3>1, Least
    <2>3. n # 0
      BY <1>3, <1>6
    <2>4. n - 1 \in 0 .. L /\ ~(n <= n - 1) /\ n \in 1 .. L
      BY <1>1, <2>3
    <2>5. f[n - 1] = g[n - 1]
      BY <2>2, <2>4
    <2>6. turn(f, n) = turn(g, n)
      BY <2>5
    <2>7. f[n] = turn(f, n)
      BY <1>6, <2>3
    <2>8. g[n] = turn(g, n)
      BY <1>3, <2>4
    <2> QED
      BY <2>6, <2>7, <2>8
  <1>8. g[L] \in S[L] /\ f[L] = g[L]
    BY <1>1, <1>3, <1>7
  <1> QED
    BY <1>5, <1>8 DEF L


\* The contents after an insertion, and after a deletion.
LEMMA InsertedMap ==
  ASSUME NEW t, NEW k, NEW v
  PROVE  LET m == TrieInsert(t, k, v).map IN
         /\ DOMAIN m = DOMAIN t.map \cup {k} /\ m[k] = v
         /\ \A x \in DOMAIN t.map \ {k} : m[x] = t.map[x]
  <1>1. TrieInsert(t, k, v).map = with(t.map, k, v)
    BY DEF TrieInsert, trieOf
  <1> QED
    BY <1>1 DEF with

LEMMA DeletedMap ==
  ASSUME NEW t, NEW k
  PROVE  LET m == TrieDelete(t, k).map IN
         /\ DOMAIN m = DOMAIN t.map \ {k}
         /\ \A x \in DOMAIN t.map \ {k} : m[x] = t.map[x]
  <1>1. CASE k \in DOMAIN t.map
    <2>1. TrieDelete(t, k).map = without(t.map, k)
      BY <1>1 DEF TrieDelete, trieOf
    <2> QED
      BY <2>1 DEF without
  <1>2. CASE k \notin DOMAIN t.map
    <2>1. TrieDelete(t, k) = t
      BY <1>2 DEF TrieDelete
    <2> QED
      BY <1>2, <2>1
  <1> QED
    BY <1>1, <1>2

\* Slot k of the contents m is what the entries e say, and else what c has.
Entered(m, c, e, k) ==
  /\ k \in DOMAIN e /\ e[k] = Zero => k \notin DOMAIN m
  /\ k \in DOMAIN e /\ e[k] # Zero => k \in DOMAIN m /\ m[k] = e[k]
  /\ k \notin DOMAIN e => SameAt(m, c, k)

\* The storage trie after the loop over the entries: no new hashes, and the entries
\* over what was there.  Up to turn i that holds of the keys walked so far, while
\* the others are as they were.
LEMMA EntriesIn ==
  ASSUME NEW t \in Known, t.map \in Slots, NEW e \in EntrySets \cup {Empty}
  PROVE  LET u == applyEntries(t, e) IN
         /\ u \in Known /\ u.map \in Slots /\ u.hashed \subseteq t.hashed
         /\ \A k \in Keys : Entered(u.map, t.map, e, k)
  <1> DEFINE L == Len(KeyWalk)
             walked(i) == {KeyWalk[j] : j \in 1 .. i}
             St(i) == {u \in Known : /\ u.map \in Slots /\ u.hashed \subseteq t.hashed
                                     /\ \A k \in Keys :
                                          \/ k \in walked(i) /\ Entered(u.map, t.map, e, k)
                                          \/ k \notin walked(i) /\ SameAt(u.map, t.map, k)}
             S == [i \in 0 .. L |-> St(i)]
  <1>1. L \in Nat /\ walked(0) = {} /\ walked(L) = Keys
        /\ \A i \in 1 .. L : KeyWalk[i] \in Keys
    <2>1. L \in Nat /\ DOMAIN KeyWalk = 1 .. L /\ {KeyWalk[i] : i \in DOMAIN KeyWalk} = Keys
          /\ \A i \in 1 .. L : KeyWalk[i] \in Keys
      BY ArchiveConstants, LenProperties
    <2>2. 1 .. 0 = {}
      OBVIOUS
    <2> QED
      BY <2>1, <2>2
  <1>2. ASSUME NEW i \in 1 .. L, NEW u \in St(i - 1)
        PROVE  applyEntry(u, KeyWalk[i], e) \in St(i)
    <2> DEFINE x == KeyWalk[i]
               w == applyEntry(u, x, e)
    <2>1. x \in Keys
      BY <1>1
    <2>2. walked(i) = walked(i - 1) \cup {x}
      <3>1. 1 .. i = (1 .. i - 1) \cup {i}
        BY <1>1
      <3> QED
        BY <3>1
    <2>3. x \in DOMAIN e => e[x] \in Values
      BY EmptyContents DEF Values
    <2>4. u \in Known /\ u.map \in Slots /\ u.hashed \subseteq t.hashed
      OBVIOUS
    <2> HIDE DEF x
    <2>5. w \in Known /\ w.map \in Slots /\ w.hashed \subseteq t.hashed
      <3>1. \A v \in Values : LET r == TrieInsert(u, x, v) IN
              r \in Known /\ r.map \in Slots /\ r.hashed \subseteq u.hashed
        BY <2>1, <2>4, WriteIn DEF Slots, Maps
      <3>2. LET r == TrieDelete(u, x) IN
              r \in Known /\ r.map \in Slots /\ r.hashed \subseteq u.hashed
        BY <2>1, <2>4, WriteIn DEF Slots, Maps
      <3> QED
        BY <2>3, <2>4, <3>1, <3>2 DEF applyEntry
    <2>6. ASSUME NEW k \in Keys, k # x
          PROVE  SameAt(w.map, u.map, k)
      <3>1. CASE x \notin DOMAIN e
        <4>1. w = u
          BY <3>1 DEF applyEntry
        <4> QED
          BY <4>1 DEF SameAt
      <3>2. CASE x \in DOMAIN e /\ e[x] = Zero
        <4>1. w = TrieDelete(u, x)
          BY <3>2 DEF applyEntry
        <4> HIDE DEF w
        <4> QED
          BY <2>6, <4>1, DeletedMap DEF SameAt
      <3>3. CASE x \in DOMAIN e /\ e[x] # Zero
        <4>1. w = TrieInsert(u, x, e[x])
          BY <3>3 DEF applyEntry
        <4> HIDE DEF w
        <4>2. /\ DOMAIN w.map = DOMAIN u.map \cup {x}
              /\ \A y \in DOMAIN u.map \ {x} : w.map[y] = u.map[y]
          BY <4>1, InsertedMap
        <4> QED
          BY <2>6, <4>2 DEF SameAt
      <3> QED
        BY <3>1, <3>2, <3>3
    <2>7. /\ x \in DOMAIN e /\ e[x] = Zero => x \notin DOMAIN w.map
          /\ x \in DOMAIN e /\ e[x] # Zero => x \in DOMAIN w.map /\ w.map[x] = e[x]
          /\ x \notin DOMAIN e => w = u
      BY InsertedMap, DeletedMap DEF applyEntry
    <2>8. \/ x \in walked(i - 1) /\ Entered(u.map, t.map, e, x)
          \/ x \notin walked(i - 1) /\ SameAt(u.map, t.map, x)
      BY <2>1
    <2>9. Entered(w.map, t.map, e, x)
      BY <2>7, <2>8 DEF Entered
    <2> HIDE DEF w, walked
    <2>10. ASSUME NEW k \in Keys
           PROVE  \/ k \in walked(i) /\ Entered(w.map, t.map, e, k)
                  \/ k \notin walked(i) /\ SameAt(w.map, t.map, k)
      <3>1. CASE k = x
        BY <2>2, <2>9, <3>1
      <3>2. CASE k # x
        <4>1. SameAt(w.map, u.map, k)
          BY <2>6, <3>2
        <4>2. \/ k \in walked(i - 1) /\ Entered(u.map, t.map, e, k)
              \/ k \notin walked(i - 1) /\ SameAt(u.map, t.map, k)
          OBVIOUS
        <4> QED
          BY <2>2, <3>2, <4>1, <4>2 DEF Entered, SameAt
      <3> QED
        BY <3>1, <3>2
    <2>11. w \in St(i)
      BY <2>5, <2>10
    <2> QED
      BY <2>11 DEF w, x
  <1>3. t \in St(0)
    BY <1>1 DEF SameAt
  <1> HIDE DEF St, L
  <1>4. t \in S[0] /\ \A i \in 1 .. L : \A u \in S[i - 1] : applyEntry(u, KeyWalk[i], e) \in S[i]
    <2>1. \A i \in 1 .. L : i \in 0 .. L /\ i - 1 \in 0 .. L
      BY <1>1
    <2> QED
      BY <1>1, <1>2, <1>3, <2>1
  <1>5. applyEntries(t, e) \in S[L]
    <2> HIDE DEF S
    <2> QED
      BY <1>4, LoopLeads DEF L
  <1>6. applyEntries(t, e) \in St(L)
    BY <1>1, <1>5
  <1> QED
    BY <1>1, <1>6 DEF St

\* Hashing a trie.
LEMMA HashedIn ==
  ASSUME NEW t \in Known
  PROVE  /\ hashedTrie(t) \in Known /\ hashedTrie(t).map = t.map
         /\ hashedTrie(t).hashed = nodes(t.map)
         /\ nodes(t.map) \subseteq freshNodes(t) \cup t.hashed
         /\ freshNodes(t) \subseteq nodes(t.map) /\ freshNodes(t) \subseteq Items
  <1>1. t.map \in Maps
    BY DEF Known
  <1>2. nodes(t.map) \subseteq Items
    BY <1>1, NodesIn
  <1>3. /\ nodes(t.map) \subseteq freshNodes(t) \cup t.hashed
        /\ freshNodes(t) \subseteq nodes(t.map)
    BY DEF freshNodes
  <1>4. /\ hashedTrie(t) \in Known /\ hashedTrie(t).map = t.map
        /\ hashedTrie(t).hashed = nodes(t.map)
    BY <1>1, TrieIn DEF hashedTrie
  <1> QED
    BY <1>2, <1>3, <1>4

-----------------------------------------------------------------------------
(* What holds together.                                                    *)

\* More is there: what was there still is.
LEMMA HeldMore ==
  ASSUME NEW P, NEW Q, P \subseteq Q
  PROVE  /\ \A x : Held(P, x) => Held(Q, x)
         /\ \A c : AllHeld(P, c) => AllHeld(Q, c)
         /\ Trusted(P) \subseteq Trusted(Q)
         /\ Listed(P) \subseteq Listed(Q)
  <1>1. \A x : Held(P, x) => Held(Q, x)
    BY DEF Held
  <1>2. \A c : AllHeld(P, c) => AllHeld(Q, c)
    BY <1>1 DEF AllHeld
  <1>3. Trusted(P) \subseteq Trusted(Q)
    BY <1>2 DEF Trusted
  <1>4. Listed(P) \subseteq Listed(Q)
    BY DEF Listed
  <1> QED
    BY <1>1, <1>2, <1>3, <1>4

\* Nodes of a trie, and codes, may join what is whole, if the rest of the trie
\* and what its accounts need is there too.
LEMMA WholeMore ==
  ASSUME NEW P, Whole(P), NEW Q, NEW c \in Maps,
         nodes(c) \subseteq P \cup Q, AllHeld(P \cup Q, c),
         \A n \in Q : n \in nodes(c) \/ n.node = "code"
  PROVE  Whole(P \cup Q)
  <1>1. ASSUME NEW n \in P
        PROVE  /\ n.node = "root" => nodes(n.of) \subseteq P \cup Q
               /\ n.node # "code" => AllHeld(P \cup Q, n.of)
    <2>1. n.node = "root" => nodes(n.of) \subseteq P
      BY DEF Whole
    <2>2. n.node # "code" => AllHeld(P, n.of)
      BY DEF Whole
    <2>3. AllHeld(P, n.of) => AllHeld(P \cup Q, n.of)
      BY HeldMore
    <2> QED
      BY <2>1, <2>2, <2>3
  <1>2. ASSUME NEW n \in nodes(c)
        PROVE  /\ n.node = "root" => nodes(n.of) \subseteq P \cup Q
               /\ AllHeld(P \cup Q, n.of)
    <2>1. /\ n.node = "root" => n.of = c
          /\ DOMAIN n.of \subseteq DOMAIN c
          /\ \A k \in DOMAIN n.of : n.of[k] = c[k]
          /\ n.node = "root" \/ n.node = "leaf"
          /\ c # Empty
      BY NodesIn
    <2>2. DOMAIN n.of \subseteq Addrs => (DOMAIN c \subseteq Addrs \/ DOMAIN n.of = {})
      <3>1. DOMAIN c \subseteq Addrs \/ DOMAIN c \subseteq Keys
        BY PartialDef DEF Maps, States, Slots
      <3> QED
        BY <2>1, <3>1, ArchiveConstants
    <2>3. AllHeld(P \cup Q, n.of)
      BY <2>1, <2>2 DEF AllHeld
    <2> QED
      BY <2>1, <2>3
  <1> QED
    BY <1>1, <1>2 DEF Whole

\* The log after a write.
LEMMA LogAppended ==
  ASSUME NEW l \in Seq(SUBSET Items), NEW q, q \subseteq Items
  PROVE  LET m == append(l, q) IN
         /\ m \in Seq(SUBSET Items)
         /\ Upto(m, Len(m)) = Upto(l, Len(l)) \cup q
         /\ \A n \in 0 .. Len(m) : \/ n \in 0 .. Len(l) /\ Upto(m, n) = Upto(l, n)
                                   \/ Upto(m, n) = Upto(m, Len(m))
  <1>1. CASE q = {}
    <2>1. append(l, q) = l
      BY <1>1 DEF append
    <2> QED
      BY <1>1, <2>1
  <1>2. CASE q # {}
    <2> DEFINE m == append(l, q)
    <2>1. m = Append(l, q)
      BY <1>2 DEF append
    <2>2. /\ m \in Seq(SUBSET Items) /\ Len(m) = Len(l) + 1 /\ Len(l) \in Nat
          /\ \A i \in 1 .. Len(l) : m[i] = l[i]
          /\ m[Len(l) + 1] = q
      <3>1. q \in SUBSET Items
        BY Zenon
      <3> QED
        BY <2>1, <3>1, AppendProperties, LenProperties
    <2> HIDE DEF m
    <2>3. ASSUME NEW n \in 0 .. Len(l)
          PROVE  Upto(m, n) = Upto(l, n)
      <3>1. \A i \in 1 .. n : m[i] = l[i]
        BY <2>2
      <3> QED
        BY <3>1 DEF Upto
    <2>4. Upto(m, Len(m)) = Upto(l, Len(l)) \cup q
      <3>1. 1 .. Len(m) = (1 .. Len(l)) \cup {Len(l) + 1}
        BY <2>2
      <3>2. \A x : x \in Upto(m, Len(m)) <=> \E i \in 1 .. Len(m) : x \in m[i]
        BY Zenon DEF Upto
      <3>3. \A x : x \in Upto(l, Len(l)) <=> \E i \in 1 .. Len(l) : x \in l[i]
        BY Zenon DEF Upto
      <3>4. \A x : x \in Upto(m, Len(m)) <=> x \in Upto(l, Len(l)) \cup q
        BY <2>2, <3>1, <3>2, <3>3
      <3> QED
        BY <3>4, Zenon
    <2>5. \A n \in 0 .. Len(m) : n \in 0 .. Len(l) \/ n = Len(m)
      BY <2>2
    <2> QED
      BY <2>2, <2>3, <2>4, <2>5 DEF m
  <1> QED
    BY <1>1, <1>2

\* So the prefixes of the log stay whole when a whole follows.
LEMMA LogWhole ==
  ASSUME NEW l \in Seq(SUBSET Items), \A n \in 0 .. Len(l) : Whole(Upto(l, n)),
         NEW q, q \subseteq Items, Whole(Upto(l, Len(l)) \cup q)
  PROVE  \A n \in 0 .. Len(append(l, q)) : Whole(Upto(append(l, q), n))
  <1> DEFINE m == append(l, q)
  <1>1. /\ Upto(m, Len(m)) = Upto(l, Len(l)) \cup q
        /\ \A n \in 0 .. Len(m) : \/ n \in 0 .. Len(l) /\ Upto(m, n) = Upto(l, n)
                                  \/ Upto(m, n) = Upto(m, Len(m))
    BY LogAppended
  <1> HIDE DEF m
  <1>2. \A n \in 0 .. Len(m) : Whole(Upto(m, n))
    BY <1>1
  <1> QED
    BY <1>2 DEF m

LEMMA StoredIs ==
  ASSUME NEW l \in Seq(SUBSET Items)
  PROVE  /\ UNION {l[i] : i \in DOMAIN l} = Upto(l, Len(l))
         /\ Upto(l, Len(l)) \subseteq Items
         /\ Len(l) \in 0 .. Len(l)
  <1>1. DOMAIN l = 1 .. Len(l) /\ Len(l) \in Nat /\ \A i \in 1 .. Len(l) : l[i] \subseteq Items
    BY LenProperties, ElementOfSeq
  <1> QED
    BY <1>1 DEF Upto


-----------------------------------------------------------------------------
(* The cache.                                                              *)

LEMMA PlaceIn ==
  ASSUME NEW ca, NEW root, cached(ca, root)
  PROVE  place(ca, root) \in DOMAIN ca /\ ca[place(ca, root)].map = root
  BY DEF cached, place

LEMMA AddStateIn ==
  ASSUME NEW G, NEW ca \in Seq(G), Len(ca) <= CacheSize, NEW t \in G
  PROVE  AddState(ca, t) \in Seq(G) /\ Len(AddState(ca, t)) <= CacheSize
  <1> DEFINE d == dropped(ca, t.map)
             added == Append(d, t)
  <1>1. Len(ca) \in Nat /\ CacheSize \in Nat \ {0} /\ DOMAIN ca = 1 .. Len(ca)
    BY ArchiveConstants, LenProperties
  <1>2. d \in Seq(G) /\ Len(d) <= Len(ca)
    <2>1. CASE ~cached(ca, t.map)
      BY <1>1, <2>1 DEF dropped
    <2>2. CASE cached(ca, t.map)
      <3> DEFINE p == place(ca, t.map)
                 l == SubSeq(ca, 1, p - 1)
                 r == SubSeq(ca, p + 1, Len(ca))
      <3>1. p \in 1 .. Len(ca) /\ p \in Int
        BY <1>1, <2>2, PlaceIn
      <3> HIDE DEF p
      <3>2. l \in Seq(G) /\ Len(l) = p - 1
        BY <1>1, <3>1
      <3>3. r \in Seq(G) /\ Len(r) = Len(ca) - p
        <4>1. p + 1 \in Int /\ Len(ca) \in Int
          BY <1>1, <3>1
        <4>2. \A i \in p + 1 .. Len(ca) : ca[i] \in G
          BY <1>1, <3>1
        <4>3. r \in Seq(G) /\ Len(r) = IF p + 1 <= Len(ca) THEN Len(ca) - (p + 1) + 1 ELSE 0
          BY <4>1, <4>2, SubSeqProperties
        <4>4. (IF p + 1 <= Len(ca) THEN Len(ca) - (p + 1) + 1 ELSE 0) = Len(ca) - p
          <5>1. \A x \in Nat : \A y \in 1 .. x :
                  (IF y + 1 <= x THEN x - (y + 1) + 1 ELSE 0) = x - y
            OBVIOUS
          <5> QED
            BY <1>1, <3>1, <5>1
        <4> HIDE DEF r
        <4> QED
          BY <4>3, <4>4
      <3> HIDE DEF l, r
      <3>4. l \o r \in Seq(G) /\ Len(l \o r) = Len(l) + Len(r)
        BY <3>2, <3>3, ConcatProperties
      <3>5. d = l \o r
        BY <2>2 DEF dropped, RemoveAt, l, r, p
      <3> HIDE DEF d
      <3> QED
        BY <1>1, <3>1, <3>2, <3>3, <3>4, <3>5
    <2> QED
      BY <2>1, <2>2
  <1> HIDE DEF d
  <1>3. added \in Seq(G) /\ Len(added) = Len(d) + 1 /\ Len(d) \in Nat
    BY <1>2, AppendProperties, LenProperties
  <1>4. AddState(ca, t) = IF Len(added) > CacheSize THEN Tail(added) ELSE added
    BY DEF AddState, d
  <1> HIDE DEF added
  <1>5. Len(added) > CacheSize =>
          Tail(added) \in Seq(G) /\ Len(Tail(added)) = Len(added) - 1
    BY <1>1, <1>3
  <1> QED
    BY <1>1, <1>2, <1>3, <1>4, <1>5

LEMMA TouchedIn ==
  ASSUME NEW G, NEW ca \in Seq(G), Len(ca) <= CacheSize, NEW root
  PROVE  touched(ca, root) \in Seq(G) /\ Len(touched(ca, root)) <= CacheSize
  <1>1. CASE root # Empty /\ cached(ca, root)
    <2>1. ca[place(ca, root)] \in G
      BY <1>1, PlaceIn, ElementOfSeq, LenProperties
    <2>2. NewSnapshotAt(ca, root) \in G
      BY <1>1, <2>1 DEF NewSnapshotAt
    <2> QED
      BY <1>1, <2>2, AddStateIn DEF touched
  <1>2. CASE ~(root # Empty /\ cached(ca, root))
    BY <1>2 DEF touched
  <1> QED
    BY <1>1, <1>2

\* A trie that is opened has the root's contents, and what it needs is there: the
\* cache's tries are trusted, and the storage is whole.
LEMMA OpenIn ==
  ASSUME NEW P, Stored \subseteq P, Whole(Stored), NEW ca \in Seq(Trusted(P)),
         NEW root \in Maps, found(ca, root)
  PROVE  NewSnapshotAt(ca, root) \in Trusted(P) /\ NewSnapshotAt(ca, root).map = root
  <1>1. CASE root = Empty
    <2>1. NewSnapshotAt(ca, root) = trieOf(root, {})
      BY <1>1 DEF NewSnapshotAt, newTrie
    <2>2. AllHeld(P, root)
      BY <1>1, EmptyContents DEF AllHeld
    <2>3. trieOf(root, {}) \in Known /\ trieOf(root, {}).map = root /\ trieOf(root, {}).hashed = {}
      BY TrieIn
    <2> QED
      BY <2>1, <2>2, <2>3 DEF Trusted
  <1>2. CASE root # Empty /\ cached(ca, root)
    <2>1. ca[place(ca, root)] \in Trusted(P) /\ ca[place(ca, root)].map = root
      BY <1>2, PlaceIn, ElementOfSeq, LenProperties
    <2> QED
      BY <1>2, <2>1 DEF NewSnapshotAt
  <1>3. CASE root # Empty /\ ~cached(ca, root)
    <2> DEFINE n == [node |-> "root", of |-> root]
    <2>1. n \in Stored
      BY <1>3 DEF found, decodable
    <2>2. AllHeld(Stored, root)
      <3>1. n.node # "code" /\ n.of = root
        OBVIOUS
      <3> HIDE DEF n
      <3> QED
        BY <2>1, <3>1 DEF Whole
    <2>3. AllHeld(P, root)
      BY <2>2, HeldMore
    <2>4. NewSnapshotAt(ca, root) = trieOf(root, {})
      BY <1>3 DEF NewSnapshotAt
    <2>5. trieOf(root, {}) \in Known /\ trieOf(root, {}).map = root /\ trieOf(root, {}).hashed = {}
      BY TrieIn
    <2> QED
      BY <2>3, <2>4, <2>5 DEF Trusted
  <1> QED
    BY <1>1, <1>2, <1>3

LEMMA NewTrieIn ==
  \A P : newTrie \in Trusted(P) /\ newTrie.map = Empty /\ newTrie.map \in States
  <1>1. Empty \in Maps /\ Empty \in States
    BY EmptyContents DEF Maps
  <1>2. newTrie \in Known /\ newTrie.map = Empty /\ newTrie.hashed = {}
    BY <1>1, TrieIn DEF newTrie
  <1>3. \A P : AllHeld(P, Empty)
    BY EmptyContents DEF AllHeld
  <1> QED
    BY <1>1, <1>2, <1>3 DEF Trusted

-----------------------------------------------------------------------------
(* The steps.                                                              *)

\* Facts about the state that every step starts from.
LEMMA InvFacts ==
  ASSUME ArchiveInv
  PROVE  /\ Stored = Upto(log, Len(log)) /\ Stored \subseteq Items
         /\ Whole(Stored) /\ Stored \subseteq Backing
         /\ job = NoJob => Backing = Stored
         /\ job # NoJob => Backing = Stored \cup job.batch
  <1>1. log \in Seq(SUBSET Items) /\ \A n \in 0 .. Len(log) : Whole(Upto(log, n))
    BY DEF ArchiveInv
  <1>2. Stored = Upto(log, Len(log)) /\ Stored \subseteq Items /\ Len(log) \in 0 .. Len(log)
    BY <1>1, StoredIs DEF Stored
  <1>3. Whole(Stored)
    BY <1>1, <1>2
  <1> QED
    BY <1>2, <1>3 DEF Backing

LEMMA ArchiveInit == Init => ArchiveInv
  <1> SUFFICES ASSUME Init PROVE ArchiveInv
    OBVIOUS
  <1>1. /\ kind \in {"leveldb", "memory"} /\ log = << >> /\ cache = << >>
        /\ snap = newTrie /\ job = NoJob /\ returned = {} /\ commits = 0 /\ crashes = 0
    BY DEF Init
  <1>2. commits \in 0 .. Len(MaxObjects) /\ crashes \in 0 .. MaxCrashes
    BY <1>1, ArchiveConstants, LenProperties
  <1>3. log \in Seq(SUBSET Items) /\ Len(log) = 0
    BY <1>1, EmptySeq
  <1>4. \A n \in 0 .. Len(log) : Upto(log, n) = {}
    BY <1>3 DEF Upto
  <1>5. Stored = {} /\ Backing = {}
    BY <1>1 DEF Stored, Backing
  <1>6. Whole({})
    BY DEF Whole
  <1>7. cache \in Seq(Trusted(Backing)) /\ Len(cache) <= CacheSize
    BY <1>1, ArchiveConstants, EmptySeq
  <1>8. snap \in Trusted(Backing) /\ snap.map \in States
    BY <1>1, NewTrieIn
  <1>9. ReturnedIsStored
    BY <1>1 DEF ReturnedIsStored
  <1> QED
    BY <1>1, <1>2, <1>3, <1>4, <1>5, <1>6, <1>7, <1>8, <1>9 DEF ArchiveInv

\* Opening a root, and reading an account's storage.
LEMMA OpenStep ==
  ASSUME ArchiveInv, NEW root \in returned \cup {Empty}, Open(root)
  PROVE  ArchiveInv'
  <1>1. /\ job = NoJob /\ found(cache, root)
        /\ snap' = NewSnapshotAt(cache, root) /\ cache' = touched(cache, root)
        /\ UNCHANGED <<kind, log, job, returned, commits, crashes>>
    BY DEF Open
  <1>2. root \in States /\ root \in Maps
    BY EmptyContents DEF ArchiveInv, Maps
  <1>3. /\ Whole(Stored) /\ Stored \subseteq Backing
        /\ cache \in Seq(Trusted(Backing)) /\ Len(cache) <= CacheSize
    BY InvFacts DEF ArchiveInv
  <1>4. snap' \in Trusted(Backing) /\ snap'.map = root
    BY <1>1, <1>2, <1>3, OpenIn
  <1>5. cache' \in Seq(Trusted(Backing)) /\ Len(cache') <= CacheSize
    BY <1>1, <1>3, TouchedIn
  <1>6. Backing' = Backing /\ (ReturnedIsStored => ReturnedIsStored')
    BY <1>1 DEF Backing, Stored, ReturnedIsStored, stateStored, accountStored
  <1> QED
    BY <1>1, <1>2, <1>4, <1>5, <1>6 DEF ArchiveInv


\* The process dies, and l is left of the log.
LEMMA DieStep ==
  ASSUME ArchiveInv, NEW l \in Seq(SUBSET Items), \A n \in 0 .. Len(l) : Whole(Upto(l, n)),
         die(l), crashes' \in 0 .. MaxCrashes,
         crashes' # 0 \/ (crashes' = crashes /\ l = log)
  PROVE  ArchiveInv'
  <1>1. /\ log' = IF kind = "memory" THEN << >> ELSE l
        /\ cache' = << >> /\ snap' = newTrie /\ job' = NoJob
        /\ kind' = kind /\ returned' = returned /\ commits' = commits
    BY DEF die
  <1>2. log' \in Seq(SUBSET Items) /\ \A n \in 0 .. Len(log') : Whole(Upto(log', n))
    <2>1. CASE log' = << >>
      <3>1. \A n \in 0 .. Len(<< >>) : Upto(<< >>, n) = {}
        BY DEF Upto
      <3>2. Whole({})
        BY DEF Whole
      <3> QED
        BY <2>1, <3>1, <3>2, EmptySeq
    <2>2. CASE log' = l
      BY <2>2
    <2> QED
      BY <1>1, <2>1, <2>2
  <1>3. Backing' = Stored' /\ Whole(Stored')
    <2>1. Stored' = Upto(log', Len(log')) /\ Len(log') \in 0 .. Len(log')
      BY <1>2, StoredIs DEF Stored
    <2>2. Backing' = Stored'
      BY <1>1 DEF Backing
    <2> QED
      BY <1>2, <2>1, <2>2
  <1>4. /\ cache' \in Seq(Trusted(Backing')) /\ Len(cache') <= CacheSize
        /\ snap' \in Trusted(Backing') /\ snap'.map \in States
    <2>1. << >> \in Seq(Trusted(Backing')) /\ Len(<< >>) <= CacheSize
      BY ArchiveConstants, EmptySeq
    <2> QED
      BY <1>1, <2>1, NewTrieIn
  <1>5. ReturnedIsStored'
    <2> SUFFICES ASSUME kind' = "leveldb", crashes' = 0
                 PROVE  \A c \in returned' : stateStored(c)'
      BY DEF ReturnedIsStored
    <2>1. log' = log /\ crashes = 0 /\ kind = "leveldb"
      BY <1>1
    <2> QED
      BY <1>1, <2>1 DEF ArchiveInv, ReturnedIsStored, stateStored, accountStored, Stored
  <1> QED
    BY <1>1, <1>2, <1>3, <1>4, <1>5 DEF ArchiveInv

LEMMA CrashStep ==
  ASSUME ArchiveInv, NEW n \in 0 .. Len(log), Crash(n)
  PROVE  ArchiveInv'
  <1> DEFINE l == SubSeq(log, 1, n)
  <1>1. log \in Seq(SUBSET Items) /\ \A m \in 0 .. Len(log) : Whole(Upto(log, m))
    BY DEF ArchiveInv
  <1>2. Len(log) \in Nat /\ n \in Nat
    BY <1>1, LenProperties
  <1>3. \A i \in 1 .. n : log[i] \in SUBSET Items
    BY <1>1, <1>2, ElementOfSeq
  <1>4. l \in Seq(SUBSET Items) /\ Len(l) = n /\ \A i \in 1 .. n : l[i] = log[i]
    <2>1. /\ l \in Seq(SUBSET Items)
          /\ Len(l) = IF 1 <= n THEN n - 1 + 1 ELSE 0
          /\ \A i \in 1 .. n - 1 + 1 : l[i] = log[1 + i - 1]
      BY <1>2, <1>3, SubSeqProperties
    <2>2. (IF 1 <= n THEN n - 1 + 1 ELSE 0) = n /\ n - 1 + 1 = n
      BY <1>2
    <2>3. \A i \in 1 .. n : 1 + i - 1 = i
      OBVIOUS
    <2> HIDE DEF l
    <2> QED
      BY <2>1, <2>2, <2>3
  <1> HIDE DEF l
  <1>5. \A m \in 0 .. Len(l) : Whole(Upto(l, m))
    <2> SUFFICES ASSUME NEW m \in 0 .. Len(l) PROVE Whole(Upto(l, m))
      OBVIOUS
    <2>1. m \in 0 .. Len(log) /\ \A i \in 1 .. m : l[i] = log[i]
      BY <1>2, <1>4
    <2>2. Upto(l, m) = Upto(log, m)
      BY <2>1 DEF Upto
    <2> QED
      BY <1>1, <2>1, <2>2
  <1>6. die(l) /\ crashes' = crashes + 1 /\ crashes < MaxCrashes
    BY DEF Crash, l
  <1>7. crashes' \in 0 .. MaxCrashes /\ crashes' # 0
    BY <1>6, ArchiveConstants DEF ArchiveInv
  <1> QED
    BY <1>4, <1>5, <1>6, <1>7, DieStep

LEMMA ReadStep ==
  ASSUME ArchiveInv, NEW a \in Addrs, GetStorage(a)
  PROVE  ArchiveInv'
  <1>1. CASE found(cache, snap.map[a].root)
    <2>1. /\ cache' = touched(cache, snap.map[a].root)
          /\ UNCHANGED <<kind, log, snap, job, returned, commits, crashes>>
      BY <1>1 DEF GetStorage
    <2>2. cache' \in Seq(Trusted(Backing)) /\ Len(cache') <= CacheSize
      BY <2>1, TouchedIn DEF ArchiveInv
    <2>3. Backing' = Backing /\ (ReturnedIsStored => ReturnedIsStored')
      BY <2>1 DEF Backing, Stored, ReturnedIsStored, stateStored, accountStored
    <2> QED
      BY <2>1, <2>2, <2>3 DEF ArchiveInv
  <1>2. CASE ~found(cache, snap.map[a].root)
    <2>1. die(log) /\ crashes' = crashes
      BY <1>2 DEF GetStorage
    <2> QED
      BY <2>1, DieStep DEF ArchiveInv
  <1> QED
    BY <1>1, <1>2

\* The objects that Commit may list: what they keep of the snapshot is there.
LEMMA ObjectIn ==
  ASSUME NEW P, NEW a \in Addrs, NEW gone \in BOOLEAN, NEW x, x.root \in Slots,
         nodes(x.root) \subseteq P, NEW c \in Codes, NEW dirty \in BOOLEAN,
         NEW e \in EntrySets \cup {Empty},
         dirty \/ c = EmptyCode \/ codeItem(c) \in P
  PROVE  object(a, gone, x, c, dirty, e) \in Listed(P)
  <1> DEFINE o == object(a, gone, x, c, dirty, e)
  <1>1. o \in Objects
    BY DEF object, Objects
  <1>2. o.root = x.root /\ o.code = c /\ o.dirty = dirty
    BY DEF object
  <1> HIDE DEF o
  <1>3. o \in Listed(P)
    BY <1>1, <1>2 DEF Listed
  <1> QED
    BY <1>3 DEF o

LEMMA ObjectsIn ==
  ASSUME ArchiveInv, NEW a \in Addrs, NEW o \in objectsAt(a)
  PROVE  o \in Listed(Backing)
  <1>1. EmptyCode \in Codes /\ Empty \in Slots /\ nodes(Empty) = {}
    BY ArchiveConstants, EmptyContents
  <1>2. noAccount.root = Empty /\ noAccount.code = EmptyCode
    BY DEF noAccount
  <1>3. ASSUME NEW x \in accountsAt(a)
        PROVE  x.root \in Slots /\ x.code \in Codes /\ Held(Backing, x)
    <2>1. CASE x = noAccount
      BY <1>1, <1>2, <2>1 DEF Held
    <2>2. CASE x # noAccount
      <3>1. a \in DOMAIN snap.map /\ x = snap.map[a]
        BY <2>2 DEF accountsAt
      <3>2. snap.map \in States /\ AllHeld(Backing, snap.map)
        BY DEF ArchiveInv, Trusted
      <3>3. DOMAIN snap.map \subseteq Addrs /\ x \in Accounts
        BY <3>1, <3>2, PartialDef DEF States
      <3> QED
        BY <3>1, <3>2, <3>3 DEF AllHeld, Accounts
    <2> QED
      BY <2>1, <2>2
  <1>4. TRUE \in BOOLEAN /\ FALSE \in BOOLEAN
    OBVIOUS
  <1>5. deletedObject(a) \in Listed(Backing)
    <2>1. Empty \in EntrySets \cup {Empty} /\ nodes(noAccount.root) \subseteq Backing /\ noAccount.root \in Slots
      BY <1>1, <1>2
    <2> QED
      BY <1>1, <1>4, <2>1, ObjectIn, Zenon DEF deletedObject
  <1>6. ASSUME NEW x \in accountsAt(a), NEW e \in EntrySets
        PROVE  keptObject(a, x, e) \in Listed(Backing)
    <2>1. /\ x.root \in Slots /\ x.code \in Codes /\ nodes(x.root) \subseteq Backing
          /\ x.code = EmptyCode \/ codeItem(x.code) \in Backing
          /\ e \in EntrySets \cup {Empty}
      BY <1>3 DEF Held
    <2> QED
      BY <1>4, <2>1, ObjectIn, Zenon DEF keptObject
  <1>7. ASSUME NEW x \in accountsAt(a), NEW c \in Codes \ {EmptyCode}, NEW e \in EntrySets
        PROVE  codedObject(a, x, c, e) \in Listed(Backing)
    <2>1. /\ x.root \in Slots /\ c \in Codes /\ nodes(x.root) \subseteq Backing
          /\ e \in EntrySets \cup {Empty}
      BY <1>3 DEF Held
    <2> QED
      BY <1>4, <2>1, ObjectIn, Zenon DEF codedObject
  <1> QED
    BY <1>5, <1>6, <1>7 DEF objectsAt

\* Commit's entry.
LEMMA BeginStep ==
  ASSUME ArchiveInv, Commit
  PROVE  ArchiveInv'
  <1>1. PICK n \in 0 .. MaxObjects[commits + 1] :
          \E objs \in [1 .. n -> UNION {objectsAt(a) : a \in Addrs}] : BeginCommit(objs)
    BY DEF Commit
  <1>2. PICK objs \in [1 .. n -> UNION {objectsAt(a) : a \in Addrs}] : BeginCommit(objs)
    BY <1>1
  <1>3. /\ job = NoJob /\ commits' = commits + 1 /\ commits < Len(MaxObjects)
        /\ job' = [objs |-> objs, next |-> 1, tt |-> snap, batch |-> {}]
        /\ UNCHANGED <<kind, log, cache, snap, returned, crashes>>
    BY <1>2 DEF BeginCommit, Commit
  <1>4. commits' \in 0 .. Len(MaxObjects)
    BY <1>3, ArchiveConstants, LenProperties DEF ArchiveInv
  <1>5. objs \in Seq(Listed(Backing)) /\ Len(objs) \in Nat
    <2>1. n \in Nat
      <3>1. commits + 1 \in 1 .. Len(MaxObjects)
        BY <1>3, ArchiveConstants, LenProperties DEF ArchiveInv
      <3>2. MaxObjects[commits + 1] \in Nat
        BY <3>1, ArchiveConstants, ElementOfSeq
      <3> QED
        BY <3>2
    <2>2. \A i \in 1 .. n : objs[i] \in Listed(Backing)
      <3> SUFFICES ASSUME NEW i \in 1 .. n PROVE objs[i] \in Listed(Backing)
        OBVIOUS
      <3>1. PICK a \in Addrs : objs[i] \in objectsAt(a)
        BY <1>2
      <3> QED
        BY <3>1, ObjectsIn
    <2>3. objs \in [1 .. n -> Listed(Backing)]
      BY <1>2, <2>2
    <2>4. objs \in Seq(Listed(Backing))
      BY <2>1, <2>3
    <2> QED
      BY <2>4, LenProperties
  <1>6. Backing' = Backing
    <2>1. job'.batch = {}
      BY <1>3
    <2>2. Stored' = Stored
      BY <1>3 DEF Stored
    <2> QED
      BY <1>3, <2>1, <2>2 DEF Backing
  <1>7. job' \in Jobs(Backing) /\ job'.batch = {}
    <2>1. snap \in Trusted(Backing) /\ snap.map \in States
      BY DEF ArchiveInv
    <2>2. 1 \in 1 .. Len(objs) + 1
      BY <1>5
    <2>3. /\ job'.objs = objs /\ job'.next = 1 /\ job'.tt = snap /\ job'.batch = {}
          /\ job' \in [objs : Seq(Listed(Backing)), next : Nat, tt : Trusted(Backing),
                       batch : SUBSET Items]
      BY <1>3, <1>5, <2>1
    <2> QED
      BY <2>1, <2>2, <2>3 DEF Jobs
  <1>8. ReturnedIsStored'
    BY <1>3 DEF ArchiveInv, ReturnedIsStored, stateStored, accountStored, Stored
  <1> QED
    BY <1>3, <1>4, <1>6, <1>7, <1>8 DEF ArchiveInv


\* A write to the storage.
LEMMA LogStep ==
  ASSUME ArchiveInv, NEW q, q \subseteq Items, Whole(Stored \cup q), log' = append(log, q)
  PROVE  /\ log' \in Seq(SUBSET Items)
         /\ \A n \in 0 .. Len(log') : Whole(Upto(log', n))
         /\ Stored' = Stored \cup q
  <1>1. log \in Seq(SUBSET Items) /\ \A n \in 0 .. Len(log) : Whole(Upto(log, n))
    BY DEF ArchiveInv
  <1>2. Stored = Upto(log, Len(log))
    BY InvFacts
  <1>3. log' \in Seq(SUBSET Items) /\ Upto(log', Len(log')) = Stored \cup q
    BY <1>1, <1>2, LogAppended
  <1>4. \A n \in 0 .. Len(log') : Whole(Upto(log', n))
    BY <1>1, <1>2, LogWhole
  <1>5. Stored' = Upto(log', Len(log'))
    BY <1>3, StoredIs DEF Stored
  <1> QED
    BY <1>3, <1>4, <1>5

\* What is written is there from then on.
LEMMA ReturnedMore ==
  ASSUME Stored \subseteq Stored', kind' = kind, crashes' = crashes, ReturnedIsStored,
         NEW R, returned' = returned \cup R,
         kind = "leveldb" => \A c \in R : stateStored(c)'
  PROVE  ReturnedIsStored'
  <1> SUFFICES ASSUME kind' = "leveldb", crashes' = 0, NEW c \in returned'
               PROVE  stateStored(c)'
    BY DEF ReturnedIsStored
  <1>1. CASE c \in R
    BY <1>1
  <1>2. CASE c \in returned
    <2>1. stateStored(c)
      BY <1>2 DEF ReturnedIsStored
    <2>2. nodes(c) \subseteq Stored /\ \A a \in DOMAIN c : accountStored(c[a])
      BY <2>1 DEF stateStored
    <2>3. ASSUME NEW a \in DOMAIN c
          PROVE  accountStored(c[a])'
      BY <2>2 DEF accountStored
    <2> QED
      BY <2>2, <2>3 DEF stateStored
  <1> QED
    BY <1>1, <1>2

\* The contents of a storage trie name no account.
LEMMA SlotsHeld ==
  ASSUME NEW c \in Slots, NEW P
  PROVE  AllHeld(P, c)
  <1>1. DOMAIN c \subseteq Keys
    BY PartialDef DEF Slots
  <1> QED
    BY <1>1, ArchiveConstants DEF AllHeld

\* An account goes into a state trie, or out of it.
LEMMA TrustWrite ==
  ASSUME NEW P, NEW t \in Trusted(P), t.map \in States, NEW a \in Addrs
  PROVE  /\ \A x \in Accounts : Held(P, x) =>
              TrieInsert(t, a, x) \in Trusted(P) /\ TrieInsert(t, a, x).map \in States
         /\ TrieDelete(t, a) \in Trusted(P) /\ TrieDelete(t, a).map \in States
  <1>1. /\ t \in Known /\ t.hashed \subseteq P /\ AllHeld(P, t.map)
        /\ t.map \in Partial(Addrs, Accounts) /\ Partial(Addrs, Accounts) \subseteq Maps
    BY DEF Trusted, States, Maps
  <1>2. DOMAIN t.map \subseteq Addrs
    BY <1>1, PartialDef
  <1>3. ASSUME NEW x \in Accounts, Held(P, x)
        PROVE  TrieInsert(t, a, x) \in Trusted(P) /\ TrieInsert(t, a, x).map \in States
    <2> DEFINE u == TrieInsert(t, a, x)
    <2>1. /\ u \in Known /\ u.map = with(t.map, a, x)
          /\ u.map \in States /\ u.hashed \subseteq t.hashed
      BY <1>1, WriteIn DEF States
    <2>2. AllHeld(P, with(t.map, a, x))
      <3> SUFFICES ASSUME NEW b \in DOMAIN with(t.map, a, x)
                   PROVE  Held(P, with(t.map, a, x)[b])
        BY DEF AllHeld
      <3>1. b \in DOMAIN t.map \cup {a} /\ with(t.map, a, x)[b] = IF b = a THEN x ELSE t.map[b]
        BY DEF with
      <3> QED
        BY <1>1, <1>2, <1>3, <3>1 DEF AllHeld
    <2> HIDE DEF u
    <2>3. u \in Trusted(P)
      BY <1>1, <2>1, <2>2 DEF Trusted
    <2> QED
      BY <2>1, <2>3 DEF u
  <1>4. TrieDelete(t, a) \in Trusted(P) /\ TrieDelete(t, a).map \in States
    <2> DEFINE u == TrieDelete(t, a)
    <2>1. /\ u \in Known /\ (u.map = t.map \/ u.map = without(t.map, a))
          /\ u.map \in States /\ u.hashed \subseteq t.hashed
      BY <1>1, WriteIn DEF States
    <2>2. AllHeld(P, without(t.map, a))
      <3> SUFFICES ASSUME NEW b \in DOMAIN without(t.map, a)
                   PROVE  Held(P, without(t.map, a)[b])
        BY DEF AllHeld
      <3>1. b \in DOMAIN t.map /\ without(t.map, a)[b] = t.map[b]
        BY DEF without
      <3> QED
        BY <1>1, <1>2, <3>1 DEF AllHeld
    <2> HIDE DEF u
    <2>3. u \in Trusted(P)
      BY <1>1, <2>1, <2>2 DEF Trusted
    <2> QED
      BY <2>1, <2>3 DEF u
  <1> QED
    BY <1>3, <1>4

LEMMA SeqMore ==
  ASSUME NEW S, NEW T, S \subseteq T, NEW s \in Seq(S)
  PROVE  s \in Seq(T)
  <1>1. Len(s) \in Nat /\ s \in [1 .. Len(s) -> S]
    BY LenProperties
  <1>2. s \in [1 .. Len(s) -> T]
    BY <1>1
  <1> QED
    BY <1>1, <1>2


\* The object at hand, and the job after it.
LEMMA JobFacts ==
  ASSUME ArchiveInv, job # NoJob
  PROVE  /\ job \in Jobs(Backing) /\ job.tt \in Trusted(Backing) /\ job.tt.map \in States
         /\ job.batch \subseteq Items /\ job.objs \in Seq(Listed(Backing))
         /\ job.next \in 1 .. Len(job.objs) + 1 /\ Len(job.objs) \in Nat
         /\ job.next <= Len(job.objs) => job.objs[job.next] \in Listed(Backing)
  <1>1. job \in Jobs(Backing)
    BY DEF ArchiveInv
  <1>2. /\ job.tt \in Trusted(Backing) /\ job.tt.map \in States
        /\ job.batch \subseteq Items /\ job.objs \in Seq(Listed(Backing))
        /\ job.next \in 1 .. Len(job.objs) + 1
    BY <1>1 DEF Jobs
  <1>3. Len(job.objs) \in Nat
    BY <1>2, LenProperties
  <1>4. job.next <= Len(job.objs) => job.objs[job.next] \in Listed(Backing)
    <2>1. job.next <= Len(job.objs) => job.next \in 1 .. Len(job.objs)
      BY <1>2, <1>3
    <2> QED
      BY <1>2, <2>1, ElementOfSeq
  <1> QED
    BY <1>1, <1>2, <1>3, <1>4

LEMMA RunningJob ==
  \A P : NoJob \notin Jobs(P)
  <1>1. NoJob.next = 0 /\ NoJob.objs = << >>
    BY DEF NoJob
  <1>2. Len(<< >>) = 0
    OBVIOUS
  <1> QED
    BY <1>1, <1>2 DEF Jobs

LEMMA JobMore ==
  ASSUME NEW P, NEW Q, P \subseteq Q, NEW j \in Jobs(P), j.next <= Len(j.objs),
         NEW t \in Trusted(Q), t.map \in States, NEW b, b \subseteq Items
  PROVE  [j EXCEPT !.next = @ + 1, !.tt = t, !.batch = b] \in Jobs(Q)
  <1> DEFINE k == [j EXCEPT !.next = @ + 1, !.tt = t, !.batch = b]
  <1>1. /\ j \in [objs : Seq(Listed(P)), next : Nat, tt : Trusted(P), batch : SUBSET Items]
        /\ j.next \in 1 .. Len(j.objs) + 1 /\ j.objs \in Seq(Listed(P))
    BY DEF Jobs
  <1>2. j.objs \in Seq(Listed(Q)) /\ Len(j.objs) \in Nat
    BY <1>1, HeldMore, SeqMore, LenProperties
  <1>3. j.next + 1 \in 1 .. Len(j.objs) + 1 /\ j.next + 1 \in Nat
    BY <1>1, <1>2
  <1>4. k = [objs |-> j.objs, next |-> j.next + 1, tt |-> t, batch |-> b]
    <2> DEFINE r == [objs |-> j.objs, next |-> j.next + 1, tt |-> t, batch |-> b]
    <2>1. j = [f \in {"objs", "next", "tt", "batch"} |-> j[f]]
      BY <1>1
    <2>2. k = [f \in {"objs", "next", "tt", "batch"} |-> k[f]]
      BY <2>1
    <2>3. k.objs = r.objs /\ k.next = r.next /\ k.tt = r.tt /\ k.batch = r.batch
      BY <2>1
    <2> HIDE DEF k
    <2> QED
      BY <2>2, <2>3
  <1>5. b \in SUBSET Items
    BY Zenon
  <1> HIDE DEF k
  <1>6. /\ k \in [objs : Seq(Listed(Q)), next : Nat, tt : Trusted(Q), batch : SUBSET Items]
        /\ k.objs = j.objs /\ k.next = j.next + 1 /\ k.tt = t
    BY <1>2, <1>3, <1>4, <1>5
  <1>7. k \in Jobs(Q)
    BY <1>3, <1>6 DEF Jobs
  <1> QED
    BY <1>7 DEF k

\* One object.  Its storage trie's nodes and its code join what is backed: the
\* nodes by way of the batch, or of the storage where a batch writes through.
LEMMA ObjectStep ==
  ASSUME ArchiveInv, CommitObject
  PROVE  ArchiveInv'
  <1> DEFINE obj == job.objs[job.next]
             writes == obj.storage # Empty
             local == storageOf(obj)
             account == [root |-> IF writes THEN local.map ELSE obj.root, code |-> obj.code]
             puts == IF writes THEN freshNodes(local) ELSE {}
             B == Backing
  <1>1. job # NoJob /\ job.next <= Len(job.objs)
    BY DEF CommitObject
  <1>2. /\ job \in Jobs(B) /\ job.tt \in Trusted(B) /\ job.tt.map \in States
        /\ job.batch \subseteq Items /\ obj \in Listed(B)
    BY <1>1, JobFacts
  <1>3. obj \in Objects /\ nodes(obj.root) \subseteq B
    BY <1>2 DEF Listed
  <1>4. /\ obj.address \in Addrs /\ obj.root \in Slots /\ obj.code \in Codes
        /\ obj.storage \in EntrySets \cup {Empty}
    BY <1>3 DEF Objects
  <1>5. /\ Whole(B) /\ Whole(Stored) /\ Stored \subseteq B /\ B = Stored \cup job.batch
        /\ Stored \subseteq Items
        /\ kind = "memory" => job.batch = {}
        /\ cache \in Seq(Trusted(B)) /\ Len(cache) <= CacheSize
        /\ snap \in Trusted(B) /\ snap.map \in States
    BY <1>1, InvFacts DEF ArchiveInv
  <1>6. CASE obj.deleted
    <2>1. /\ job' = [job EXCEPT !.next = @ + 1, !.tt = TrieDelete(@, obj.address)]
          /\ UNCHANGED <<kind, log, cache, snap, returned, commits, crashes>>
      BY <1>6 DEF CommitObject
    <2>2. TrieDelete(job.tt, obj.address) \in Trusted(B) /\ TrieDelete(job.tt, obj.address).map \in States
      BY <1>2, <1>4, TrustWrite
    <2>3. job' = [job EXCEPT !.next = @ + 1, !.tt = TrieDelete(job.tt, obj.address), !.batch = job.batch]
      BY <1>2, <2>1 DEF Jobs
    <2>4. job' \in Jobs(B) /\ job'.batch = job.batch
      <3>1. job' \in Jobs(B)
        BY <1>1, <1>2, <2>2, <2>3, JobMore
      <3>2. job'.batch = job.batch
        BY <1>2, <2>3 DEF Jobs
      <3> QED
        BY <3>1, <3>2
    <2>5. Stored' = Stored /\ ReturnedIsStored'
      BY <2>1 DEF ArchiveInv, ReturnedIsStored, stateStored, accountStored, Stored
    <2>6. Backing' = B
      <3>1. job' # NoJob
        BY <2>4, RunningJob
      <3>2. Backing' = Stored' \cup job'.batch
        BY <3>1, Zenon DEF Backing
      <3> QED
        BY <1>5, <2>4, <2>5, <3>2
    <2> QED
      <3> HIDE DEF B, obj
      <3>1. job' \in Jobs(B) /\ (kind' = "memory" => job'.batch = {})
        BY <1>5, <2>1, <2>4
      <3> QED
        BY <1>5, <2>1, <2>5, <2>6, <3>1 DEF ArchiveInv
  <1>7. CASE ~obj.deleted /\ writes /\ ~found(cache, obj.root)
    <2>1. die(log) /\ crashes' = crashes
      BY <1>7 DEF CommitObject
    <2> QED
      BY <2>1, DieStep DEF ArchiveInv
  <1>8. CASE ~obj.deleted /\ ~(writes /\ ~found(cache, obj.root))
    <2> DEFINE C == codeWrites(obj)
               Q == puts \cup C
               now == putNow(puts) \cup C
    <2>1. /\ job' = [job EXCEPT !.next = @ + 1,
                                !.tt = TrieInsert(@, obj.address, account),
                                !.batch = @ \cup putLater(puts)]
          /\ cache' = IF writes THEN AddState(touched(cache, obj.root), hashedTrie(local))
                      ELSE cache
          /\ log' = append(log, now)
          /\ UNCHANGED <<kind, snap, returned, commits, crashes>>
      BY <1>8 DEF CommitObject
    <2>2. writes => /\ local \in Known /\ local.map \in Slots /\ local.hashed \subseteq B
      <3> SUFFICES ASSUME writes
                   PROVE  local \in Known /\ local.map \in Slots /\ local.hashed \subseteq B
        OBVIOUS
      <3> DEFINE t == NewSnapshotAt(cache, obj.root)
      <3>1. t \in Trusted(B) /\ t.map = obj.root
        BY <1>4, <1>5, <1>8, OpenIn DEF Maps
      <3>2. t \in Known /\ t.hashed \subseteq B
        BY <3>1 DEF Trusted
      <3> HIDE DEF t
      <3>3. LET u == applyEntries(t, obj.storage) IN
            u \in Known /\ u.map \in Slots /\ u.hashed \subseteq t.hashed
        BY <1>4, <3>1, <3>2, EntriesIn
      <3> QED
        BY <3>2, <3>3 DEF storageOf, t
    <2> HIDE DEF local
    <2>3. writes => /\ hashedTrie(local) \in Known /\ hashedTrie(local).map = local.map
                    /\ hashedTrie(local).hashed = nodes(local.map)
                    /\ nodes(local.map) \subseteq puts \cup local.hashed
                    /\ puts \subseteq nodes(local.map) /\ puts \subseteq Items
      BY <2>2, HashedIn
    <2>4. /\ obj.dirty => C = {codeItem(obj.code)}
          /\ \A n \in C : n \in Items /\ n.node = "code"
      BY <1>4 DEF codeWrites, codeItem, Items
    <2> HIDE DEF C
    <2>5. Q \subseteq Items
      BY <2>3, <2>4
    <2>6. /\ now = IF kind = "memory" THEN Q ELSE C
          /\ now \cup putLater(puts) = Q
          /\ kind = "memory" => putLater(puts) = {}
      BY DEF putNow, putLater
    <2>7. Whole(B \cup Q) /\ account \in Accounts /\ Held(B \cup Q, account)
      <3>1. CASE writes
        <4>1. local.map \in Maps /\ AllHeld(B \cup Q, local.map)
          BY <2>2, <3>1, SlotsHeld DEF Maps
        <4>2. nodes(local.map) \subseteq B \cup Q
          BY <2>2, <2>3, <3>1
        <4>3. \A n \in Q : n \in nodes(local.map) \/ n.node = "code"
          BY <2>3, <2>4, <3>1
        <4>4. Whole(B \cup Q)
          BY <1>5, <4>1, <4>2, <4>3, WholeMore
        <4>5. account.root = local.map /\ account.code = obj.code /\ account \in Accounts
          BY <1>4, <2>2, <3>1 DEF Accounts
        <4>6. obj.code = EmptyCode \/ codeItem(obj.code) \in B \cup Q
          BY <1>2, <2>4 DEF Listed
        <4> HIDE DEF account, Q
        <4> QED
          BY <4>2, <4>4, <4>5, <4>6 DEF Held
      <3>2. CASE ~writes
        <4>1. Empty \in Maps /\ AllHeld(B \cup Q, Empty) /\ nodes(Empty) = {}
          BY EmptyContents, SlotsHeld DEF Maps
        <4>2. \A n \in Q : n.node = "code"
          BY <2>4, <3>2
        <4>3. Whole(B \cup Q)
          BY <1>5, <4>1, <4>2, WholeMore
        <4>5. account.root = obj.root /\ account.code = obj.code /\ account \in Accounts
          BY <1>4, <3>2 DEF Accounts
        <4>6. obj.code = EmptyCode \/ codeItem(obj.code) \in B \cup Q
          BY <1>2, <2>4 DEF Listed
        <4> HIDE DEF account, Q
        <4> QED
          BY <1>3, <4>3, <4>5, <4>6 DEF Held
      <3> QED
        BY <3>1, <3>2
    <2>8. Whole(Stored \cup now)
      <3>1. CASE kind = "memory"
        <4>1. now = Q /\ Stored = B
          BY <1>5, <2>6, <3>1
        <4> HIDE DEF now, Q
        <4> QED
          BY <2>7, <4>1
      <3>2. CASE kind # "memory"
        <4>1. Empty \in Maps /\ AllHeld(Stored \cup C, Empty) /\ nodes(Empty) = {}
          BY EmptyContents, SlotsHeld DEF Maps
        <4>2. Whole(Stored \cup C)
          BY <1>5, <2>4, <4>1, WholeMore
        <4> QED
          BY <2>6, <3>2, <4>2
      <3> QED
        BY <3>1, <3>2
    <2> HIDE DEF now
    <2>9. now \subseteq Items /\ putLater(puts) \subseteq Q
      BY <2>5, <2>6
    <2>10. /\ log' \in Seq(SUBSET Items)
           /\ \A n \in 0 .. Len(log') : Whole(Upto(log', n))
           /\ Stored' = Stored \cup now
      BY <2>1, <2>8, <2>9, LogStep
    <2> DEFINE D == B \cup Q
               t == TrieInsert(job.tt, obj.address, account)
               b == job.batch \cup putLater(puts)
    <2> HIDE DEF Q, account, puts, writes, obj
    <2>11. job' = [job EXCEPT !.next = @ + 1, !.tt = t, !.batch = b]
      BY <1>2, <2>1 DEF Jobs
    <2>12. t \in Trusted(D) /\ t.map \in States
      <3>1. job.tt \in Trusted(D)
        BY <1>2, HeldMore
      <3> HIDE DEF D
      <3> QED
        BY <1>2, <1>4, <2>7, <3>1, TrustWrite DEF D
    <2>13. b \subseteq Items /\ (kind = "memory" => b = {})
      <3>1. kind = "memory" => job.batch = {} /\ putLater(puts) = {}
        BY <1>5, <2>6
      <3> QED
        BY <1>2, <2>5, <2>9, <3>1
    <2> HIDE DEF t, b
    <2>14. job' \in Jobs(D) /\ job'.batch = b
      <3>1. B \subseteq D
        OBVIOUS
      <3> HIDE DEF D
      <3>2. job' \in Jobs(D)
        BY <1>1, <1>2, <2>11, <2>12, <2>13, <3>1, JobMore
      <3>3. job'.batch = b
        BY <1>2, <2>11 DEF Jobs
      <3> QED
        BY <3>2, <3>3
    <2>15. Backing' = D /\ job' # NoJob
      <3>1. job' # NoJob
        BY <2>14, RunningJob
      <3>2. Backing' = Stored' \cup b
        BY <2>14, <3>1 DEF Backing
      <3> QED
        BY <1>5, <2>6, <2>10, <3>1, <3>2 DEF b
    <2>16. cache' \in Seq(Trusted(D)) /\ Len(cache') <= CacheSize
      <3>1. cache \in Seq(Trusted(D))
        BY <1>5, HeldMore, SeqMore
      <3>2. touched(cache, obj.root) \in Seq(Trusted(D)) /\ Len(touched(cache, obj.root)) <= CacheSize
        BY <1>5, <3>1, TouchedIn
      <3>3. writes => hashedTrie(local) \in Trusted(D)
        <4> SUFFICES ASSUME writes PROVE hashedTrie(local) \in Trusted(D)
          OBVIOUS
        <4>1. nodes(local.map) \subseteq D
          BY <2>2, <2>3 DEF Q
        <4>2. AllHeld(D, local.map)
          BY <2>2, SlotsHeld
        <4> QED
          BY <2>3, <4>1, <4>2 DEF Trusted
      <3> QED
        BY <1>5, <2>1, <3>1, <3>2, <3>3, AddStateIn
    <2>17. snap' \in Trusted(D) /\ snap'.map \in States
      BY <1>5, <2>1, HeldMore
    <2>18. ReturnedIsStored'
      <3>1. returned' = returned \cup {} /\ Stored \subseteq Stored' /\ ReturnedIsStored
        BY <2>1, <2>10 DEF ArchiveInv
      <3> QED
        BY <2>1, <3>1, ReturnedMore
    <2> HIDE DEF D, B
    <2>19. Whole(D)
      BY <2>7 DEF D
    <2> QED
      BY <2>1, <2>10, <2>13, <2>14, <2>15, <2>16, <2>17, <2>18, <2>19 DEF ArchiveInv
  <1> QED
    BY <1>6, <1>7, <1>8


\* After the loop: the nodes that are new, and the batch, are written at once.
LEMMA FinishStep ==
  ASSUME ArchiveInv, FinishCommit
  PROVE  ArchiveInv'
  <1> DEFINE tt == job.tt
             fresh == freshNodes(tt)
             q == job.batch \cup fresh
             B == Backing
             D == Stored \cup q
  <1>1. /\ job # NoJob /\ log' = append(log, q)
        /\ cache' = AddState(cache, hashedTrie(tt)) /\ snap' = hashedTrie(tt)
        /\ returned' = returned \cup {tt.map} /\ job' = NoJob
        /\ UNCHANGED <<kind, commits, crashes>>
    BY DEF FinishCommit
  <1>2. tt \in Trusted(B) /\ tt.map \in States /\ job.batch \subseteq Items
    BY <1>1, JobFacts
  <1>3. /\ Whole(B) /\ B = Stored \cup job.batch
        /\ cache \in Seq(Trusted(B)) /\ Len(cache) <= CacheSize
    BY <1>1, InvFacts DEF ArchiveInv
  <1> HIDE DEF B, tt, fresh
  <1>4. tt \in Known /\ tt.hashed \subseteq B /\ AllHeld(B, tt.map) /\ tt.map \in Maps
    BY <1>2 DEF Trusted, Maps
  <1>5. /\ hashedTrie(tt) \in Known /\ hashedTrie(tt).map = tt.map
        /\ hashedTrie(tt).hashed = nodes(tt.map)
        /\ nodes(tt.map) \subseteq fresh \cup tt.hashed
        /\ fresh \subseteq nodes(tt.map) /\ fresh \subseteq Items
    BY <1>4, HashedIn DEF fresh
  <1>6. D = B \cup fresh /\ B \subseteq D /\ nodes(tt.map) \subseteq D /\ q \subseteq Items
    BY <1>2, <1>3, <1>4, <1>5
  <1>7. AllHeld(D, tt.map) /\ Trusted(B) \subseteq Trusted(D)
    <2> HIDE DEF D
    <2> QED
      BY <1>4, <1>6, HeldMore
  <1>8. Whole(D)
    <2>1. Whole(B \cup fresh)
      <3>1. \A n \in fresh : n \in nodes(tt.map) \/ n.node = "code"
        BY <1>5
      <3>2. nodes(tt.map) \subseteq B \cup fresh /\ AllHeld(B \cup fresh, tt.map)
        BY <1>6, <1>7
      <3> QED
        BY <1>3, <1>4, <3>1, <3>2, WholeMore
    <2> QED
      BY <1>6, <2>1
  <1> HIDE DEF q
  <1>9. /\ log' \in Seq(SUBSET Items)
        /\ \A n \in 0 .. Len(log') : Whole(Upto(log', n))
        /\ Stored' = D
    BY <1>1, <1>6, <1>8, LogStep
  <1>10. Backing' = D
    BY <1>1, <1>9 DEF Backing
  <1>11. hashedTrie(tt) \in Trusted(D) /\ hashedTrie(tt).map \in States
    BY <1>2, <1>5, <1>6, <1>7 DEF Trusted
  <1>12. cache' \in Seq(Trusted(D)) /\ Len(cache') <= CacheSize
    <2>1. cache \in Seq(Trusted(D))
      BY <1>3, <1>7, SeqMore
    <2> QED
      BY <1>1, <1>3, <1>11, <2>1, AddStateIn
  <1>13. ReturnedIsStored'
    <2>1. ASSUME NEW c \in {tt.map}
          PROVE  stateStored(c)'
      <3>1. DOMAIN c \subseteq Addrs /\ AllHeld(Stored', c) /\ nodes(c) \subseteq Stored'
        BY <1>2, <1>6, <1>7, <1>9, PartialDef DEF States
      <3>2. ASSUME NEW a \in DOMAIN c
            PROVE  accountStored(c[a])'
        BY <3>1 DEF AllHeld, accountStored, Held
      <3> QED
        BY <3>1, <3>2 DEF stateStored
    <2>2. Stored \subseteq Stored'
      BY <1>9
    <2>3. ReturnedIsStored
      BY DEF ArchiveInv
    <2> QED
      BY <1>1, <2>1, <2>2, <2>3, ReturnedMore
  <1>14. returned' \subseteq States
    BY <1>1, <1>2 DEF ArchiveInv
  <1> HIDE DEF D
  <1> QED
    BY <1>1, <1>8, <1>9, <1>10, <1>11, <1>12, <1>13, <1>14 DEF ArchiveInv

LEMMA ArchiveNext == ArchiveInv /\ [Next]_vars => ArchiveInv'
  <1> SUFFICES ASSUME ArchiveInv, [Next]_vars PROVE ArchiveInv'
    OBVIOUS
  <1>1. CASE \E root \in returned \cup {Empty} : Open(root)
    BY <1>1, OpenStep
  <1>2. CASE \E a \in Addrs : GetStorage(a)
    BY <1>2, ReadStep
  <1>3. CASE Commit
    BY <1>3, BeginStep
  <1>4. CASE CommitObject
    BY <1>4, ObjectStep
  <1>5. CASE FinishCommit
    BY <1>5, FinishStep
  <1>6. CASE \E n \in 0 .. Len(log) : Crash(n)
    BY <1>6, CrashStep
  <1>7. CASE UNCHANGED vars
    <2>1. UNCHANGED <<kind, log, cache, snap, job, returned, commits, crashes>>
      BY <1>7 DEF vars
    <2>2. Backing' = Backing /\ (ReturnedIsStored => ReturnedIsStored')
      BY <2>1 DEF Backing, Stored, ReturnedIsStored, stateStored, accountStored
    <2> QED
      BY <2>1, <2>2 DEF ArchiveInv
  <1> QED
    BY <1>1, <1>2, <1>3, <1>4, <1>5, <1>6, <1>7 DEF Next

-----------------------------------------------------------------------------
(* The theorems.                                                           *)

LEMMA ArchiveCorrect == Spec => []ArchiveInv
  BY ArchiveInit, ArchiveNext, PTL DEF Spec

LEMMA TriesTrusted ==
  ASSUME ArchiveInv, NEW t \in Tries
  PROVE  t \in Trusted(Backing)
  <1>1. job # NoJob => job.tt \in Trusted(Backing)
    BY JobFacts
  <1>2. \A i \in DOMAIN cache : cache[i] \in Trusted(Backing)
    BY ElementOfSeq, LenProperties DEF ArchiveInv
  <1> QED
    BY <1>1, <1>2 DEF Tries, ArchiveInv

\* Every state has its types, for any accounts, slots, codes, cache size and
\* numbers of commits and crashes: a trie marks as hashed only nodes of its own
\* contents, and the LRU cache never holds more than CacheSize tries.
THEOREM ArchiveTypeCorrect == Spec => []TypeOK
  <1>1. ArchiveInv => TypeOK
    <2> SUFFICES ASSUME ArchiveInv PROVE TypeOK
      OBVIOUS
    <2>1. ASSUME NEW t \in Tries
          PROVE  /\ t.hashed \subseteq nodes(t.map)
                 /\ DOMAIN t.map \subseteq Addrs \/ DOMAIN t.map \subseteq Keys
      <3>1. t \in Known
        BY TriesTrusted DEF Trusted
      <3>2. t.map \in States \/ t.map \in Slots
        BY <3>1 DEF Known, Maps
      <3> QED
        BY <3>1, <3>2, PartialDef DEF Known, States, Slots
    <2>2. ASSUME NEW a \in DOMAIN snap.map
          PROVE  DOMAIN snap.map[a].root \subseteq Keys /\ snap.map[a].code \in Codes
      <3>1. snap.map[a] \in Accounts
        BY PartialDef DEF ArchiveInv, States
      <3>2. snap.map[a].root \in Slots /\ snap.map[a].code \in Codes
        BY <3>1 DEF Accounts
      <3> QED
        BY <3>2, PartialDef DEF Slots
    <2>3. job = NoJob \/ job.next \in 1 .. Len(job.objs) + 1
      BY JobFacts
    <2> QED
      BY <2>1, <2>2, <2>3 DEF TypeOK, ArchiveInv
  <1> QED
    BY <1>1, ArchiveCorrect, PTL

\* Wherever a power loss cuts LevelDB's log, and wherever a Commit is taken down
\* half way, a root in the storage comes with all that hangs from it: its leaves,
\* its accounts' storage nodes and their codes.
THEOREM RootsAreComplete == Spec => []RootsComplete
  <1>1. ArchiveInv => RootsComplete
    <2> SUFFICES ASSUME ArchiveInv, NEW n \in Stored
                 PROVE  /\ n.node = "root" => nodes(n.of) \subseteq Stored
                        /\ (n.node # "code" /\ DOMAIN n.of \subseteq Addrs) =>
                             \A a \in DOMAIN n.of : accountStored(n.of[a])
      BY DEF RootsComplete
    <2>1. /\ n.node = "root" => nodes(n.of) \subseteq Stored
          /\ n.node # "code" => AllHeld(Stored, n.of)
      BY InvFacts DEF Whole
    <2>2. \A x : Held(Stored, x) => accountStored(x)
      BY DEF Held, accountStored
    <2> QED
      BY <2>1, <2>2 DEF AllHeld
  <1> QED
    BY <1>1, ArchiveCorrect, PTL

\* The nodes that Txn.hash leaves out of the batch because they carry a hash are
\* in the storage or in the batch of the running Commit, for every trie that the
\* cache, the snapshot or the Commit holds, whatever the LRU has dropped.
THEOREM SkippedNodesAreStored == Spec => []SkippedIsStored
  <1>1. ArchiveInv => SkippedIsStored
    <2> SUFFICES ASSUME ArchiveInv, NEW t \in Tries
                 PROVE  t.hashed \subseteq Backing
      BY DEF SkippedIsStored, Backing
    <2>1. t \in Trusted(Backing)
      BY TriesTrusted
    <2> QED
      BY <2>1 DEF Trusted
  <1> QED
    BY <1>1, ArchiveCorrect, PTL

\* A root that Commit returned is in LevelDB in full as long as no power was
\* lost, through any number of later Commits, evictions and panics.
THEOREM ReturnedRootsAreStored == Spec => []ReturnedIsStored
  <1>1. ArchiveInv => ReturnedIsStored
    BY DEF ArchiveInv
  <1> QED
    BY <1>1, ArchiveCorrect, PTL


-----------------------------------------------------------------------------
(* What Commit computes.                                                   *)

Distinct(objs) ==
  \A i, j \in DOMAIN objs : objs[i].address = objs[j].address => i = j

\* The state d is c with the first n objects applied.
Applied(c, objs, n, d) ==
  /\ \A i \in 1 .. n : objs[i].deleted => objs[i].address \notin DOMAIN d
  /\ \A i \in 1 .. n : ~objs[i].deleted =>
       /\ objs[i].address \in DOMAIN d
       /\ d[objs[i].address] = [root |-> storageMeant(objs[i]), code |-> objs[i].code]
  /\ \A a : (\A i \in 1 .. n : objs[i].address # a) => SameAt(d, c, a)

\* The inductive invariant: while the loop runs, its trie is the snapshot with the
\* objects before next applied, and the snapshot is the one it began with.
ProgressInv ==
  job # NoJob =>
    Distinct(job.objs) /\ Applied(snap.map, job.objs, job.next - 1, job.tt.map)

\* One more object.
LEMMA AppliedNext ==
  ASSUME NEW c, NEW objs, NEW n \in Nat, n + 1 \in DOMAIN objs, 1 .. n \subseteq DOMAIN objs,
         Distinct(objs), NEW d, Applied(c, objs, n, d), NEW m,
         \A a : a # objs[n + 1].address => SameAt(m, d, a),
         objs[n + 1].deleted => objs[n + 1].address \notin DOMAIN m,
         ~objs[n + 1].deleted =>
           /\ objs[n + 1].address \in DOMAIN m
           /\ m[objs[n + 1].address] = [root |-> storageMeant(objs[n + 1]), code |-> objs[n + 1].code]
  PROVE  Applied(c, objs, n + 1, m)
  <1>1. \A i \in 1 .. n + 1 : i = n + 1 \/ (i \in 1 .. n /\ i # n + 1)
    OBVIOUS
  <1>2. ASSUME NEW i \in 1 .. n + 1, objs[i].deleted
        PROVE  objs[i].address \notin DOMAIN m
    <2>1. CASE i = n + 1
      BY <1>2, <2>1
    <2>2. CASE i \in 1 .. n /\ i # n + 1
      <3>1. objs[i].address # objs[n + 1].address
        BY <2>2 DEF Distinct
      <3>2. objs[i].address \notin DOMAIN d
        BY <1>2, <2>2 DEF Applied
      <3> QED
        BY <3>1, <3>2 DEF SameAt
    <2> QED
      BY <1>1, <2>1, <2>2
  <1>3. ASSUME NEW i \in 1 .. n + 1, ~objs[i].deleted
        PROVE  /\ objs[i].address \in DOMAIN m
               /\ m[objs[i].address] = [root |-> storageMeant(objs[i]), code |-> objs[i].code]
    <2>1. CASE i = n + 1
      BY <1>3, <2>1
    <2>2. CASE i \in 1 .. n /\ i # n + 1
      <3>1. objs[i].address # objs[n + 1].address
        BY <2>2 DEF Distinct
      <3>2. /\ objs[i].address \in DOMAIN d
            /\ d[objs[i].address] = [root |-> storageMeant(objs[i]), code |-> objs[i].code]
        BY <1>3, <2>2 DEF Applied
      <3> QED
        BY <3>1, <3>2 DEF SameAt
    <2> QED
      BY <1>1, <2>1, <2>2
  <1>4. ASSUME NEW a, \A i \in 1 .. n + 1 : objs[i].address # a
        PROVE  SameAt(m, c, a)
    <2>1. n + 1 \in 1 .. n + 1 /\ 1 .. n \subseteq 1 .. n + 1
      OBVIOUS
    <2>2. SameAt(m, d, a) /\ SameAt(d, c, a)
      BY <1>4, <2>1 DEF Applied
    <2> QED
      BY <2>2 DEF SameAt
  <1> QED
    BY <1>2, <1>3, <1>4 DEF Applied

\* All of them.
LEMMA AppliedAll ==
  ASSUME NEW c, NEW objs, NEW n \in Nat, DOMAIN objs = 1 .. n, Distinct(objs),
         NEW d, d = [a \in DOMAIN d |-> d[a]], Applied(c, objs, n, d)
  PROVE  d = after(c, objs)
  <1> DEFINE listed == {objs[i].address : i \in DOMAIN objs}
             live == {i \in DOMAIN objs : ~objs[i].deleted}
             objAt(a) == objs[CHOOSE i \in live : objs[i].address = a]
             D == (DOMAIN c \ listed) \cup {objs[i].address : i \in live}
             val(a) == IF a \in listed THEN [root |-> storageMeant(objAt(a)), code |-> objAt(a).code]
                       ELSE c[a]
  <1>1. after(c, objs) = [a \in D |-> val(a)]
    BY DEF after
  <1>2. \A i \in live : objAt(objs[i].address) = objs[i]
    <2> SUFFICES ASSUME NEW i \in live PROVE objAt(objs[i].address) = objs[i]
      OBVIOUS
    <2> DEFINE j == CHOOSE j \in live : objs[j].address = objs[i].address
    <2>1. j \in live /\ objs[j].address = objs[i].address
      OBVIOUS
    <2> HIDE DEF j
    <2>2. j = i
      BY <2>1 DEF Distinct
    <2> QED
      BY <2>2 DEF j
  <1> HIDE DEF objAt
  <1>3. ASSUME NEW a
        PROVE  (a \in DOMAIN d <=> a \in D) /\ (a \in D => d[a] = val(a))
    <2>1. CASE a \notin listed
      <3>1. SameAt(d, c, a)
        BY <2>1 DEF Applied
      <3>2. a \in D <=> a \in DOMAIN c
        BY <2>1
      <3>3. val(a) = c[a]
        BY <2>1
      <3> QED
        BY <3>1, <3>2, <3>3 DEF SameAt
    <2>2. ASSUME NEW i \in DOMAIN objs, a = objs[i].address, objs[i].deleted
          PROVE  a \notin DOMAIN d /\ a \notin D
      <3>1. a \notin DOMAIN d
        BY <2>2 DEF Applied
      <3>2. a \in listed
        BY <2>2
      <3>3. ASSUME NEW j \in live, a = objs[j].address PROVE FALSE
        BY <2>2, <3>3 DEF Distinct
      <3> QED
        BY <3>1, <3>2, <3>3
    <2>3. ASSUME NEW i \in DOMAIN objs, a = objs[i].address, ~objs[i].deleted
          PROVE  a \in DOMAIN d /\ a \in D /\ d[a] = val(a)
      <3>1. a \in DOMAIN d /\ d[a] = [root |-> storageMeant(objs[i]), code |-> objs[i].code]
        BY <2>3 DEF Applied
      <3>2. a \in listed /\ i \in live /\ a \in D
        BY <2>3
      <3>3. objAt(a) = objs[i]
        BY <1>2, <2>3, <3>2
      <3>4. val(a) = [root |-> storageMeant(objAt(a)), code |-> objAt(a).code]
        BY <3>2
      <3> HIDE DEF val
      <3> QED
        BY <3>1, <3>2, <3>3, <3>4
    <2> QED
      BY <2>1, <2>2, <2>3
  <1> HIDE DEF D, val
  <1> QED
    BY <1>1, <1>3


\* The storage trie of an object is what the object stands for.
LEMMA StorageIsMeant ==
  ASSUME NEW o, o.root \in Slots, o.storage \in EntrySets \cup {Empty},
         NEW m \in Slots, \A k \in Keys : Entered(m, o.root, o.storage, k)
  PROVE  m = storageMeant(o)
  <1> DEFINE D == {x \in DOMAIN o.root \cup DOMAIN o.storage :
                     x \in DOMAIN o.storage => o.storage[x] # Zero}
             val(k) == IF k \in DOMAIN o.storage THEN o.storage[k] ELSE o.root[k]
  <1>1. storageMeant(o) = [k \in D |-> val(k)]
    BY DEF storageMeant
  <1>2. /\ m = [k \in DOMAIN m |-> m[k]] /\ DOMAIN m \subseteq Keys
        /\ DOMAIN o.root \subseteq Keys /\ DOMAIN o.storage \subseteq Keys
    BY PartialDef, ArchiveConstants, EmptyContents DEF Slots
  <1>3. ASSUME NEW k \in Keys
        PROVE  (k \in DOMAIN m <=> k \in D) /\ (k \in D => m[k] = val(k))
    BY DEF Entered, SameAt
  <1>4. D \subseteq Keys
    BY <1>2
  <1> HIDE DEF D, val
  <1> QED
    BY <1>1, <1>2, <1>3, <1>4

\* Each step keeps the invariant; the loop is where it moves.
LEMMA ProgressObject ==
  ASSUME ArchiveInv, ProgressInv, CommitObject
  PROVE  ProgressInv'
  <1> DEFINE obj == job.objs[job.next]
             writes == obj.storage # Empty
             local == storageOf(obj)
             account == [root |-> IF writes THEN local.map ELSE obj.root, code |-> obj.code]
  <1>1. job # NoJob /\ job.next <= Len(job.objs)
    BY DEF CommitObject
  <1>2. /\ job \in Jobs(Backing) /\ job.tt.map \in States
        /\ job.next \in 1 .. Len(job.objs) + 1 /\ Len(job.objs) \in Nat
        /\ job.objs \in Seq(Listed(Backing)) /\ obj \in Listed(Backing)
    BY <1>1, JobFacts
  <1>3. obj.root \in Slots /\ obj.storage \in EntrySets \cup {Empty}
    BY <1>2 DEF Listed, Objects
  <1>4. /\ Whole(Stored) /\ Stored \subseteq Backing /\ cache \in Seq(Trusted(Backing))
        /\ Distinct(job.objs) /\ Applied(snap.map, job.objs, job.next - 1, job.tt.map)
    BY <1>1, InvFacts DEF ArchiveInv, ProgressInv
  <1>5. DOMAIN job.objs = 1 .. Len(job.objs)
    BY <1>2, LenProperties
  <1> DEFINE n == job.next - 1
  <1>6. /\ n \in Nat /\ job.next = n + 1 /\ n + 1 \in DOMAIN job.objs
        /\ 1 .. n \subseteq DOMAIN job.objs
    BY <1>1, <1>2, <1>5
  <1>7. ASSUME NEW t, job'.objs = job.objs, job'.next = job.next + 1, job'.tt = t, snap' = snap,
               \A a : a # obj.address => SameAt(t.map, job.tt.map, a),
               obj.deleted => obj.address \notin DOMAIN t.map,
               ~obj.deleted =>
                 /\ obj.address \in DOMAIN t.map
                 /\ t.map[obj.address] = [root |-> storageMeant(obj), code |-> obj.code]
        PROVE  ProgressInv'
    <2>1. Applied(snap.map, job.objs, n + 1, t.map)
      <3> HIDE DEF n
      <3>1. Applied(snap.map, job.objs, n, job.tt.map)
        BY <1>4 DEF n
      <3> QED
        BY <1>4, <1>6, <1>7, <3>1, AppliedNext
    <2>2. job'.next - 1 = n + 1
      BY <1>6, <1>7
    <2>3. Distinct(job'.objs) /\ Applied(snap'.map, job'.objs, job'.next - 1, job'.tt.map)
      <3> HIDE DEF n
      <3> QED
        BY <1>4, <1>7, <2>1, <2>2
    <2> QED
      BY <2>3, Zenon DEF ProgressInv
  <1>8. job = [f \in {"objs", "next", "tt", "batch"} |-> job[f]]
    BY <1>2 DEF Jobs
  <1> HIDE DEF n
  <1>9. CASE obj.deleted
    <2> DEFINE t == TrieDelete(job.tt, obj.address)
    <2>1. job' = [job EXCEPT !.next = @ + 1, !.tt = t] /\ snap' = snap
      BY <1>9 DEF CommitObject
    <2>2. job'.objs = job.objs /\ job'.next = job.next + 1 /\ job'.tt = t
      BY <1>8, <2>1
    <2>3. obj.address \notin DOMAIN t.map /\ \A a : a # obj.address => SameAt(t.map, job.tt.map, a)
      BY DeletedMap DEF SameAt
    <2> HIDE DEF t, obj
    <2> QED
      BY <1>7, <1>9, <2>1, <2>2, <2>3
  <1>10. CASE ~obj.deleted /\ writes /\ ~found(cache, obj.root)
    <2>1. job' = NoJob
      BY <1>10 DEF CommitObject, die
    <2> QED
      BY <2>1, Zenon DEF ProgressInv
  <1>11. CASE ~obj.deleted /\ ~(writes /\ ~found(cache, obj.root))
    <2> DEFINE t == TrieInsert(job.tt, obj.address, account)
               b == job.batch \cup putLater(IF writes THEN freshNodes(local) ELSE {})
    <2>1. job' = [job EXCEPT !.next = @ + 1, !.tt = t, !.batch = b] /\ snap' = snap
      BY <1>8, <1>11 DEF CommitObject
    <2>2. account = [root |-> storageMeant(obj), code |-> obj.code]
      <3>1. CASE writes
        <4> DEFINE s == NewSnapshotAt(cache, obj.root)
        <4>1. s \in Trusted(Backing) /\ s.map = obj.root
          BY <1>3, <1>4, <1>11, <3>1, OpenIn DEF Maps
        <4>2. s \in Known
          BY <4>1 DEF Trusted
        <4> HIDE DEF s
        <4>3. LET u == applyEntries(s, obj.storage) IN
              u.map \in Slots /\ \A k \in Keys : Entered(u.map, obj.root, obj.storage, k)
          BY <1>3, <4>1, <4>2, EntriesIn
        <4>4. local.map \in Slots /\ \A k \in Keys : Entered(local.map, obj.root, obj.storage, k)
          BY <4>3 DEF storageOf, s
        <4> HIDE DEF local, obj
        <4>5. local.map = storageMeant(obj)
          BY <1>3, <4>4, StorageIsMeant
        <4> QED
          BY <3>1, <4>5
      <3>2. CASE ~writes
        <4>1. \A k \in Keys : Entered(obj.root, obj.root, obj.storage, k)
          BY <3>2, EmptyContents DEF Entered, SameAt
        <4> HIDE DEF obj, local
        <4>2. obj.root = storageMeant(obj)
          BY <1>3, <4>1, StorageIsMeant
        <4> QED
          BY <3>2, <4>2
      <3> QED
        BY <3>1, <3>2
    <2> HIDE DEF account, b
    <2>3. job'.objs = job.objs /\ job'.next = job.next + 1 /\ job'.tt = t
      BY <1>8, <2>1
    <2>4. /\ obj.address \in DOMAIN t.map /\ t.map[obj.address] = account
          /\ \A a : a # obj.address => SameAt(t.map, job.tt.map, a)
      BY InsertedMap DEF SameAt
    <2> HIDE DEF t, obj
    <2> QED
      BY <1>7, <1>11, <2>1, <2>2, <2>3, <2>4
  <1> QED
    BY <1>9, <1>10, <1>11

\* The objects of a job are listed in the order of the walk.
LEMMA ProgressBegin ==
  ASSUME ArchiveInv, Commit
  PROVE  ProgressInv'
  <1>1. PICK n \in 0 .. MaxObjects[commits + 1] :
          \E objs \in [1 .. n -> UNION {objectsAt(a) : a \in Addrs}] :
            inWalk(objs) /\ BeginCommit(objs)
    BY DEF Commit
  <1>2. PICK objs \in [1 .. n -> UNION {objectsAt(a) : a \in Addrs}] :
          inWalk(objs) /\ BeginCommit(objs)
    BY <1>1
  <1>3. job' = [objs |-> objs, next |-> 1, tt |-> snap, batch |-> {}] /\ snap' = snap
    BY <1>2 DEF BeginCommit
  <1>4. job'.objs = objs /\ job'.next - 1 = 0 /\ job'.tt.map = snap.map
    BY <1>3
  <1>5. Applied(snap.map, objs, 0, snap.map)
    <2>1. 1 .. 0 = {}
      OBVIOUS
    <2> QED
      BY <2>1 DEF Applied, SameAt
  <1>6. PICK at \in [DOMAIN objs -> DOMAIN AddrWalk] :
          \A i \in DOMAIN objs : /\ objs[i].address = AddrWalk[at[i]]
                                 /\ \A j \in 1 .. i - 1 : at[j] < at[i]
    BY <1>2 DEF inWalk
  <1>7. Distinct(objs)
    <2> SUFFICES ASSUME NEW i \in DOMAIN objs, NEW j \in DOMAIN objs,
                        objs[i].address = objs[j].address, i # j
                 PROVE  FALSE
      BY DEF Distinct
    <2>1. i \in Nat /\ j \in Nat /\ i >= 1 /\ j >= 1
      BY <1>2
    <2>2. at[i] = at[j] /\ at[i] \in Nat
      <3>1. at[i] \in DOMAIN AddrWalk /\ at[j] \in DOMAIN AddrWalk
        BY <1>6
      <3>2. DOMAIN AddrWalk = 1 .. Len(AddrWalk)
        BY ArchiveConstants, LenProperties
      <3>3. AddrWalk[at[i]] = AddrWalk[at[j]]
        BY <1>6
      <3> QED
        BY <3>1, <3>2, <3>3, ArchiveConstants
    <2>3. i \in 1 .. j - 1 \/ j \in 1 .. i - 1
      BY <2>1
    <2>4. at[i] < at[j] \/ at[j] < at[i]
      BY <1>6, <2>3
    <2> QED
      BY <2>2, <2>4
  <1> QED
    BY <1>3, <1>4, <1>5, <1>7 DEF ProgressInv

LEMMA ProgressNext ==
  ArchiveInv /\ ProgressInv /\ [Next]_vars => ProgressInv'
  <1> SUFFICES ASSUME ArchiveInv, ProgressInv, [Next]_vars PROVE ProgressInv'
    OBVIOUS
  <1>1. ASSUME job' = NoJob PROVE ProgressInv'
    BY <1>1, Zenon DEF ProgressInv
  <1>2. ASSUME NEW root \in returned \cup {Empty}, Open(root) PROVE ProgressInv'
    BY <1>1, <1>2 DEF Open
  <1>3. ASSUME NEW a \in Addrs, GetStorage(a) PROVE ProgressInv'
    BY <1>1, <1>3 DEF GetStorage, die
  <1>4. CASE Commit
    BY <1>4, ProgressBegin
  <1>5. CASE CommitObject
    BY <1>5, ProgressObject
  <1>6. CASE FinishCommit
    BY <1>1, <1>6 DEF FinishCommit
  <1>7. ASSUME NEW n \in 0 .. Len(log), Crash(n) PROVE ProgressInv'
    BY <1>1, <1>7 DEF Crash, die
  <1>8. CASE UNCHANGED vars
    BY <1>8 DEF vars, ProgressInv
  <1> QED
    BY <1>2, <1>3, <1>4, <1>5, <1>6, <1>7, <1>8 DEF Next

\* The snapshot that Commit returns is the one it began with and the objects
\* applied at once: what Txn relies on, for every list of objects with distinct
\* addresses, every order of the walks and every content of the cache.
THEOREM CommitIsExact == Spec => CommitAppliesObjects
  <1>1. Init => ProgressInv
    BY DEF Init, ProgressInv
  <1>2. ArchiveInv /\ ProgressInv /\ [Next]_vars =>
          [FinishCommit => snap'.map = after(snap.map, job.objs)]_vars
    <2> SUFFICES ASSUME ArchiveInv, ProgressInv, FinishCommit
                 PROVE  snap'.map = after(snap.map, job.objs)
      OBVIOUS
    <2>1. job # NoJob /\ job.next > Len(job.objs) /\ snap'.map = job.tt.map
      BY DEF FinishCommit, hashedTrie, trieOf
    <2>2. /\ job.tt.map \in States /\ job.next \in 1 .. Len(job.objs) + 1
          /\ Len(job.objs) \in Nat /\ job.objs \in Seq(Listed(Backing))
      BY <2>1, JobFacts
    <2>3. DOMAIN job.objs = 1 .. Len(job.objs) /\ job.next - 1 = Len(job.objs)
      BY <2>1, <2>2, LenProperties
    <2>4. Distinct(job.objs) /\ Applied(snap.map, job.objs, Len(job.objs), job.tt.map)
      BY <2>1, <2>3 DEF ProgressInv
    <2>5. job.tt.map = [a \in DOMAIN job.tt.map |-> job.tt.map[a]]
      BY <2>2, PartialDef DEF States
    <2>6. job.tt.map = after(snap.map, job.objs)
      BY <2>2, <2>3, <2>4, <2>5, AppliedAll
    <2> QED
      BY <2>1, <2>6
  <1> QED
    BY <1>1, <1>2, ArchiveCorrect, ProgressNext, PTL DEF Spec, CommitAppliesObjects
=============================================================================

------------------------------- MODULE MCTrie -------------------------------
(* Small tries for TLC: keys of two bytes, that is of four nibbles.        *)
EXTENDS Trie

CONSTANTS va, vb, nil

\* Prefixes of length 0 to 3 in common, and a key that leaves the extension of
\* 0000 and 0001 halfway.
MCKeys == {<<0, 0>>, <<0, 1>>, <<0, 16>>, <<1, 1>>, <<16, 0>>}

\* Two of them, in different branches, also get the longer value.
MCValuesOf == [k \in Keys |-> IF k \in {<<0, 1>>, <<1, 1>>} THEN {va, vb} ELSE {va}]

\* With HashLen 21 a leaf with va is inside its parent; a leaf with vb is hashed,
\* unless little of its key is left.
MCValueLen == [v \in Values |-> IF v = vb THEN 19 ELSE 1]
=============================================================================

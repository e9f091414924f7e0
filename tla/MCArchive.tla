----------------------------- MODULE MCArchive -----------------------------
(* A small archive for TLC: two accounts, two slots, a cache of two tries. *)
EXTENDS Archive, TLC

CONSTANTS A, B, k1, k2, v0, v1, code0, code1

MCAddrWalk == <<A, B>>
MCKeyWalk == <<k1, k2>>
MCMaxObjects == <<1, 2, 1>>

\* No entry, one slot cleared, both set.
MCEntrySets == {Empty, k1 :> v0, (k1 :> v1) @@ (k2 :> v1)}
=============================================================================

------------------------------- MODULE MCTxn -------------------------------
(* Small instances of Txn for TLC.                                         *)
EXTENDS Txn

CONSTANTS A, B, k1, v0, v1, v2, code0, code1, none

MCAddrs == {A, B}
MCKeys == {k1}
MCVals == {v0, v1, v2}
MCCodes == {code0, code1}

\* An account with code, a balance and every slot set.
contract ==
  [nonce |-> 1, balance |-> 1, root |-> [k \in Keys |-> v1], codeHash |-> code1]

\* A contract at A and nothing at B; or an empty world.
MCBases == {[a \in Addrs |-> IF a = A THEN contract ELSE NoAccount],
            [a \in Addrs |-> NoAccount]}

ForksUpTo(names) == [f \in ForkNames |-> f \in names]

Istanbul == ForksUpTo(ForkNames)
=============================================================================

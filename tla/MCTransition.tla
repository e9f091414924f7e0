---------------------------- MODULE MCTransition ----------------------------
(* Small blocks for TLC.                                                   *)
EXTENDS Transition

CONSTANTS S, M, C, D, N, Q, R, P, k1, v0, v1, code0, code1, code2, code3, none, nomsg, create

MCKeys == {k1}
MCVals == {v0, v1}
MCCodes == {code0, code1}
MCDeployed == {code0, code1, code2, code3}

\* code1 is small, code2 is over the limit of 24576 bytes, and code3 is within
\* it but costs more than any gas of the runs.
MCCodeSize ==
  [c \in Codes |-> CASE c = code1 -> 2 [] c = code2 -> 24577 [] c = code3 -> 2000
                      [] OTHER -> 0]

eoa(n) == [nonce |-> 0, balance |-> n, root |-> EmptyStateHash, codeHash |-> code0]
contract(n) == [nonce |-> 1, balance |-> n, root |-> [k \in Keys |-> v1],
                codeHash |-> code1]

\* S sends the transactions, M is the coinbase, C and D are contracts, and the
\* precompiled P has no account.
MCBase ==
  [a \in Addrs |-> IF a = S THEN eoa(700000)
                   ELSE IF a \in {C, D} THEN contract(1) ELSE NoAccount]

MCPrecompiles == {P} \cap Addrs

\* Creations by S go to N, CREATE by a contract goes to Q, CREATE2 to R.  (A
\* second CREATE meets the first at Q: a collision that needs CREATE2, or a
\* hash collision, in the code.)
MCCreateAddress(a, nonce) == IF a = S THEN N ELSE Q
MCCreateAddress2(a, init) == R

ForksUpTo(names) == [f \in ForkNames |-> f \in names]
Frontier == ForksUpTo({})
Istanbul == ForksUpTo(ForkNames)

tx(to, nonce, value, gas) ==
  [from |-> S, to |-> to, nonce |-> nonce, value |-> value, gas |-> gas,
   gasPrice |-> 1, zeros |-> 1, nonZeros |-> 1, input |-> code1]

\* Two transactions that are fine, and one that fails each check: too little
\* gas, too much value once the gas is bought, more gas than S can buy, and
\* more data than any gas can pay for.  S can pay for all the gas of a block.
CallTxs == {tx(C, n, 1, 80000) : n \in {0, 1}}
           \cup {tx(C, 0, 0, 20000), tx(C, 0, 700000, 80000),
                 tx(C, 0, 0, 701000),
                 [tx(C, 0, 0, 80000) EXCEPT !.nonZeros = Word],
                 [tx(C, 0, 0, 80000) EXCEPT !.zeros = Word]}
CreateTxs == {tx(create, 0, 1, 150000), tx(C, 0, 0, 150000)}
MintTxs == {tx(C, 0, 0, 110000)}
ShortTxs == {tx(C, 0, 0, 23600)}
=============================================================================

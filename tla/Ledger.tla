------------------------------- MODULE Ledger -------------------------------
(***************************************************************************)
(* What Txn (txn.go) promises to the EVM and to the block: one plain map   *)
(* of accounts and one list of logs, updated in place, whose earlier       *)
(* states can be saved and brought back.  No overlay, no snapshot under    *)
(* it, no deleted markers, no code store, no storage roots.                *)
(*                                                                         *)
(* Txn implements it: see ImplementsLedger in module Txn.                  *)
(***************************************************************************)
EXTENDS Integers, Sequences

CONSTANTS Addrs, Keys, Vals, Zero, Codes, EmptyCode, Amounts, Nonces

VARIABLES
  accounts,  \* what the readers of Txn answer for every address
  logs,      \* what Logs() would hand over
  saved      \* the states that RevertToSnapshot can bring back

world == [accounts |-> accounts, logs |-> logs]

Ledgers ==
  [Addrs -> [exists: BOOLEAN, nonce: Nat, balance: Nat, code: Codes,
             codeHash: Codes \cup {Zero}, storage: [Keys -> Vals],
             doomed: BOOLEAN]]

fresh ==
  [exists |-> TRUE, nonce |-> 0, balance |-> 0, code |-> EmptyCode,
   codeHash |-> EmptyCode, storage |-> [k \in Keys |-> Zero], doomed |-> FALSE]

absent == [fresh EXCEPT !.exists = FALSE, !.codeHash = Zero]

\* An account that is about to be written: it exists from now on.
live(r) == IF r.exists THEN r ELSE fresh

empty(r) == r.nonce = 0 /\ r.balance = 0 /\ r.codeHash = EmptyCode

-----------------------------------------------------------------------------

\* What one write can make of the account r, as s: touched, counted up, created
\* anew over its balance, paid, charged, rewarded (a doomed account starts over
\* with the reward), given a balance, a nonce, a code or a storage word.
Written(r, s) ==
  LET o == live(r) IN
  \/ s \in {o, [o EXCEPT !.nonce = @ + 1], [fresh EXCEPT !.balance = r.balance]}
  \/ \E n \in Amounts : \/ s = [o EXCEPT !.balance = @ + n]
                        \/ s = [o EXCEPT !.balance = @ - n] /\ n <= r.balance
                        \/ s = [o EXCEPT !.balance = n]
                        \/ s = [fresh EXCEPT !.balance = n] /\ r.doomed
  \/ \E n \in Nonces : s = [o EXCEPT !.nonce = n]
  \/ \E c \in Codes : s = [o EXCEPT !.code = c, !.codeHash = c]
  \/ \E k \in Keys, v \in Vals : s = [o EXCEPT !.storage[k] = v]

\* One account is written, and nothing else changes.
Write(a) ==
  /\ \A b \in Addrs \ {a} : accounts'[b] = accounts[b]
  /\ \E r \in {accounts[a]}, s \in {accounts'[a]} : Written(r, s)
  /\ UNCHANGED <<logs, saved>>

\* The balance goes to the beneficiary first; what is then at a is burnt.
Destruct(a, b) ==
  LET paid == [accounts EXCEPT ![b] = [live(accounts[b]) EXCEPT
                                         !.balance = @ + accounts[a].balance]]
  IN /\ accounts' = IF paid[a].exists
                    THEN [paid EXCEPT ![a] = [@ EXCEPT !.balance = 0, !.doomed = TRUE]]
                    ELSE paid
     /\ UNCHANGED <<logs, saved>>

Emit(a) ==
  /\ logs' = Append(logs, [address |-> a])
  /\ UNCHANGED <<accounts, saved>>

TakeLogs == logs' = << >> /\ UNCHANGED <<accounts, saved>>

Save == saved' = Append(saved, world) /\ UNCHANGED <<accounts, logs>>

Restore ==
  /\ \E i \in 1 .. Len(saved) : saved[i].accounts = accounts' /\ saved[i].logs = logs'
  /\ UNCHANGED saved

\* The end of a transaction: the doomed accounts go, and some of the empty.
Clean ==
  /\ \A a \in Addrs :
       \/ accounts'[a] = absent /\ (accounts[a].doomed \/ empty(accounts[a]))
       \/ accounts'[a] = accounts[a] /\ ~accounts[a].doomed
  /\ UNCHANGED <<logs, saved>>

\* The next overlay starts from the same accounts; what was only meant for the
\* transactions of this one is forgotten.
Reopen ==
  /\ accounts' = [a \in Addrs |-> [accounts[a] EXCEPT !.doomed = FALSE]]
  /\ logs' = << >>
  /\ saved' = << >>

Init ==
  /\ accounts \in Ledgers
  /\ \A a \in Addrs : /\ accounts[a].exists \/ accounts[a] = absent
                      /\ accounts[a].code = accounts[a].codeHash \/ ~accounts[a].exists
                      /\ ~accounts[a].doomed
  /\ logs = << >>
  /\ saved = << >>

Next ==
  \/ \E a \in Addrs : Write(a) \/ Emit(a)
  \/ \E a, b \in Addrs : Destruct(a, b)
  \/ TakeLogs
  \/ Save
  \/ Restore
  \/ Clean
  \/ Reopen

Spec == Init /\ [][Next]_<<accounts, logs, saved>>
=============================================================================

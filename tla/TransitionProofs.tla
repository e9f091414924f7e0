-------------------------- MODULE TransitionProofs --------------------------
(***************************************************************************)
(* Proofs about Transition, for every block: any accounts, transactions,   *)
(* codes, fork rules and bounds.                                           *)
(***************************************************************************)
EXTENDS Transition, TxnOpsProofs, SequenceTheorems

Gas == 0 .. Word - 1

\* What Callx is given.
Calls ==
  [type: CallTypes, op: CallOps, caller: Addrs, address: Addrs, codeAddress: Addrs,
   code: Codes, value: Nat, gas: Gas, static: BOOLEAN]

\* What EVM.Run returns.
Runs == [err: RunErrors, ret: Codes, gasLeft: Gas]

\* What a call returns to its caller.
Results == [err: RunErrors \cup HostErrors, gasLeft: Gas, tree: Trees, created: BOOLEAN]

\* The topmost of the frames q with the gas g.
setGas(q, g) == [q EXCEPT ![Len(q)].gas = g]

\* New contracts are accounts: helper.CreateAddress and CreateAddress2 return
\* addresses.
CreationsStay ==
  \A a \in Addrs : /\ \A n \in Nat : CreateAddress(a, n) \in Addrs
                   /\ \A c \in Codes : CreateAddress2(a, c) \in Addrs

-----------------------------------------------------------------------------
(* Operators.                                                              *)

\* consumeGas: what is left of a gas counter.
LEMMA GasMinus ==
  ASSUME NEW x \in Gas, NEW y \in Nat, ~(x < y)
  PROVE  x - y \in Gas /\ x - y <= x
  BY TxnConstants DEF Gas

\* Only the gas of the topmost frame changes.
LEMMA SetGas ==
  ASSUME NEW q \in Seq(Frames), q # << >>, NEW g \in Gas
  PROVE  /\ setGas(q, g) \in Seq(Frames)
         /\ Len(setGas(q, g)) = Len(q)
         /\ setGas(q, g) # << >>
         /\ setGas(q, g)[Len(q)] = [q[Len(q)] EXCEPT !.gas = g]
         /\ \A i \in 1 .. Len(q) - 1 : setGas(q, g)[i] = q[i]
  <1>1. Len(q) \in 1 .. Len(q) /\ q[Len(q)] \in Frames
    OBVIOUS
  <1>2. [q[Len(q)] EXCEPT !.gas = g] \in Frames
    BY <1>1 DEF Frames, Gas
  <1> QED
    BY <1>1, <1>2 DEF setGas

\* The topmost frame, and those below it.
LEMMA Topmost ==
  ASSUME frames \in Seq(Frames), frames # << >>
  PROVE  /\ running \in Frames
         /\ callers \in Seq(Frames)
         /\ Len(callers) = Len(frames) - 1
         /\ Len(frames) \in Nat \ {0}
         /\ \A i \in 1 .. Len(frames) - 1 : callers[i] = frames[i]
         /\ running.gas \in Gas
  <1>1. Len(frames) \in Nat \ {0} /\ Len(frames) \in 1 .. Len(frames)
    OBVIOUS
  <1>2. running \in Frames
    BY <1>1 DEF running
  <1>3. running.gas \in Gas
    BY <1>2 DEF Frames, Gas
  <1>4. 1 \in Int /\ Len(frames) - 1 \in Int
    BY <1>1
  <1>5. /\ callers \in Seq(Frames)
        /\ Len(callers) = Len(frames) - 1
        /\ \A i \in 1 .. Len(frames) - 1 : callers[i] = frames[i]
    <2>1. \A i \in 1 .. Len(frames) - 1 : frames[i] \in Frames
      BY <1>1
    <2> DEFINE q == SubSeq(frames, 1, Len(frames) - 1)
    <2>2. /\ q \in Seq(Frames)
          /\ Len(q) = IF 1 <= Len(frames) - 1 THEN Len(frames) - 1 - 1 + 1 ELSE 0
          /\ \A i \in 1 .. Len(frames) - 1 - 1 + 1 : q[i] = frames[1 + i - 1]
      BY <1>4, <2>1, SubSeqProperties
    <2>3. callers = q
      BY DEF callers
    <2> HIDE DEF q
    <2> QED
      BY <1>1, <2>2, <2>3
  <1> QED
    BY <1>1, <1>2, <1>3, <1>5

\* What a reader of an account gets.
LEMMA ReadType ==
  ASSUME NEW t \in Trees, NEW a \in Addrs
  PROVE  /\ GetBalance(Base, t, a) \in Nat
         /\ GetNonce(Base, t, a) \in Nat
         /\ GetCode(Base, Codes, t, a) \in Codes
  <1>1. objectOrNew(Base, t, a) \in Objects
    BY ObjectType, BlockConstants
  <1> QED
    BY <1>1, TxnConstants DEF GetBalance, GetNonce, GetCode, Objects

\* TransactionGasCost.
LEMMA IntrinsicType ==
  ASSUME NEW m \in Messages
  PROVE  intrinsicGas(m).cost \in Nat /\ intrinsicGas(m).err \in {"", "ErrIntrinsicGasOverflow"}
  <1>1. m.zeros \in Nat /\ m.nonZeros \in Nat
    BY DEF Messages
  <1> DEFINE start == IF m.to = Creation /\ Forks["Homestead"] THEN 53000 ELSE 21000
             nonZeroCost == IF Forks["Istanbul"] THEN 16 ELSE 68
             withNonZeros == start + m.nonZeros * nonZeroCost
  <1>2. start \in Nat /\ nonZeroCost \in Nat
    OBVIOUS
  <1> HIDE DEF nonZeroCost, start
  <1>3. withNonZeros \in Nat
    BY <1>1, <1>2
  <1> HIDE DEF withNonZeros
  <1>4. withNonZeros + m.zeros * 4 \in Nat
    BY <1>1, <1>3
  <1>5. intrinsicGas(m).cost \in Nat
    BY <1>4 DEF intrinsicGas, withNonZeros, nonZeroCost, start
  <1>6. intrinsicGas(m).err \in {"", "ErrIntrinsicGasOverflow"}
    BY DEF intrinsicGas
  <1> QED
    BY <1>5, <1>6

\* Transfers keep the types.
LEMMA TransferType ==
  ASSUME NEW t \in Trees, NEW a \in Addrs, NEW b \in Addrs, NEW n \in Nat
  PROVE  transfer(t, a, b, n) \in Trees
  BY WriterType, BlockConstants DEF transfer

\* So does SELFDESTRUCT.
LEMMA SelfdestructType ==
  ASSUME NEW t \in Trees, NEW a \in Addrs, NEW b \in Addrs
  PROVE  Selfdestruct(Base, t, a, b) \in Trees
  <1> DEFINE r == IF HasSuicided(Base, t, a) THEN t ELSE AddRefund(t, 24000)
             p == AddBalance(Base, r, b, GetBalance(Base, r, a))
  <1>1. r \in Trees
    BY RefundType
  <1> HIDE DEF r
  <1>2. GetBalance(Base, r, a) \in Nat
    BY <1>1, ReadType
  <1>3. p \in Trees
    BY <1>1, <1>2, WriterType, BlockConstants
  <1> HIDE DEF p
  <1>4. Suicide(Base, p, a) \in Trees
    BY <1>3, WriterType, BlockConstants
  <1> QED
    BY <1>4 DEF Selfdestruct, p, r

\* The first halves of applyCall and applyCreate.
LEMMA EnterType ==
  ASSUME NEW t \in Trees, NEW c \in Calls, NEW d \in Nat
  PROVE  /\ enter(t, c, d).tree \in Trees
         /\ enter(t, c, d).snapshot \in Trees
         /\ enter(t, c, d).gasLeft \in Gas
         /\ enter(t, c, d).gasLeft <= c.gas
         /\ enter(t, c, d).err \in {"", "ErrDepth", "ErrInsufficientBalance",
                                    "ErrContractAddressCollision"}
  <1> DEFINE touched == TouchAccount(Base, t, c.address)
             bumped == IncrNonce(Base, t, c.caller)
             made == CreateAccount(Base, bumped, c.address)
             forced == IF Forks["EIP158"] THEN IncrNonce(Base, made, c.address) ELSE bumped
  <1>1. c.caller \in Addrs /\ c.address \in Addrs /\ c.value \in Nat /\ c.gas \in Gas
    BY DEF Calls
  <1>2. touched \in Trees /\ bumped \in Trees
    BY <1>1, WriterType, BlockConstants
  <1>3. made \in Trees
    BY <1>1, <1>2, WriterType, BlockConstants
  <1>4. forced \in Trees
    <2> HIDE DEF made, bumped
    <2> QED
      BY <1>1, <1>2, <1>3, WriterType, BlockConstants
  <1>5. /\ transfer(touched, c.caller, c.address, c.value) \in Trees
        /\ transfer(forced, c.caller, c.address, c.value) \in Trees
    <2> HIDE DEF touched, forced
    <2> QED
      BY <1>1, <1>2, <1>4, TransferType
  <1>6. 0 \in Gas /\ 0 <= c.gas /\ c.gas <= c.gas
    BY <1>1, TxnConstants DEF Gas
  <1> QED
    BY <1>1, <1>2, <1>4, <1>5, <1>6 DEF enter, enterCall, enterCreate

\* What a call returns has its types.
LEMMA ResultType ==
  ASSUME NEW e \in RunErrors \cup HostErrors, NEW g \in Gas, NEW t \in Trees
  PROVE  /\ result(e, g, t) \in Results /\ created(e, g, t) \in Results
         /\ result(e, g, t).err = e /\ created(e, g, t).err = e
         /\ result(e, g, t).gasLeft = g /\ created(e, g, t).gasLeft = g
         /\ result(e, g, t).tree = t /\ created(e, g, t).tree = t
  BY Zenon DEF result, created, Results

LEMMA ResultMade ==
  ASSUME NEW e, NEW g, NEW t
  PROVE  ~result(e, g, t).created /\ created(e, g, t).created
  BY Zenon DEF result, created

\* The second halves of applyCall and applyCreate, case by case.
LEMMA LeaveForm ==
  ASSUME NEW f \in Frames, NEW t \in Trees, NEW res \in Runs
  PROVE  LET n == CodeSize[res.ret]
             r == leave(f, t, res)
         IN /\ res.err # "" => r = result(res.err, res.gasLeft, f.snapshot)
            /\ res.err = "" /\ f.type # "Create" => r = result("", res.gasLeft, t)
            /\ res.err = "" /\ f.type = "Create" =>
                 \/ r = result("ErrMaxCodeSizeExceeded", 0, f.snapshot)
                 \/ Forks["Homestead"] /\ r = result("ErrCodeStoreOutOfGas", 0, f.snapshot)
                 \/ /\ ~Forks["Homestead"]
                    /\ r = created("ErrCodeStoreOutOfGas", res.gasLeft, t)
                 \/ /\ ~(res.gasLeft < n * 200)
                    /\ r = created("", res.gasLeft - n * 200,
                                   SetCode(Base, t, f.address, res.ret))
  BY Zenon DEF leave, leaveCall, leaveCreate

\* What a callee leaves has its types; its gas was part of what it was given.
LEMMA LeaveType ==
  ASSUME NEW f \in Frames, NEW t \in Trees, NEW res \in Runs
  PROVE  /\ leave(f, t, res) \in Results
         /\ leave(f, t, res).gasLeft <= res.gasLeft
  <1> DEFINE n == CodeSize[res.ret]
             s == SetCode(Base, t, f.address, res.ret)
             r == leave(f, t, res)
             e == res.err
             g == res.gasLeft
             h == res.gasLeft - n * 200
             u == f.snapshot
             Errs == RunErrors \cup HostErrors
  <1>1. u \in Trees /\ f.address \in Addrs
    BY DEF Frames
  <1>2. res.ret \in Codes /\ g \in Gas
    BY DEF Runs
  <1>3. s \in Trees
    BY <1>1, <1>2, WriterType, BlockConstants
  <1>4. n \in Nat
    BY <1>2, BlockConstants
  <1>5. /\ 0 \in Gas /\ 0 <= g /\ g <= g
        /\ ~(g < n * 200) => h \in Gas /\ h <= g
    BY <1>2, <1>4, TxnConstants DEF Gas
  <1>6. /\ e \in Errs /\ "" \in Errs /\ "ErrMaxCodeSizeExceeded" \in Errs
        /\ "ErrCodeStoreOutOfGas" \in Errs
    BY DEF Runs, RunErrors, HostErrors
  <1>7. \/ r = result(e, g, u)
        \/ r = result("", g, t)
        \/ r = result("ErrMaxCodeSizeExceeded", 0, u)
        \/ r = result("ErrCodeStoreOutOfGas", 0, u)
        \/ r = created("ErrCodeStoreOutOfGas", g, t)
        \/ ~(g < n * 200) /\ r = created("", h, s)
    BY LeaveForm, ZenonT(60)
  <1>8. \A x \in Errs, y \in Gas, z \in Trees :
          /\ result(x, y, z) \in Results /\ created(x, y, z) \in Results
          /\ result(x, y, z).gasLeft = y /\ created(x, y, z).gasLeft = y
    BY ResultType
  <1> SUFFICES r \in Results /\ r.gasLeft <= g
    OBVIOUS
  <1> HIDE DEF n, s, r, e, g, h, u, Errs
  <1>9. CASE r = result(e, g, u)
    BY <1>1, <1>2, <1>5, <1>6, <1>8, <1>9, ZenonT(60)
  <1>10. CASE r = result("", g, t)
    BY <1>2, <1>5, <1>6, <1>8, <1>10, ZenonT(60)
  <1>11. CASE \/ r = result("ErrMaxCodeSizeExceeded", 0, u)
              \/ r = result("ErrCodeStoreOutOfGas", 0, u)
    <2>1. \A y \in Gas : \A x \in Errs : result(x, y, u) \in Results /\ result(x, y, u).gasLeft = y
      BY <1>1, <1>8
    <2>2. \A x \in Errs : result(x, 0, u) \in Results /\ result(x, 0, u).gasLeft = 0
      BY <1>5, <2>1
    <2>3. 0 <= g
      BY <1>5
    <2> QED
      BY <1>6, <1>11, <2>2, <2>3
  <1>12. CASE r = created("ErrCodeStoreOutOfGas", g, t)
    BY <1>2, <1>5, <1>6, <1>8, <1>12, ZenonT(60)
  <1>13. CASE ~(g < n * 200) /\ r = created("", h, s)
    <2>1. h \in Gas /\ h <= g
      BY <1>5, <1>13
    <2> QED
      BY <1>3, <1>6, <1>8, <1>13, <2>1
  <1> QED
    BY <1>7, <1>9, <1>10, <1>11, <1>12, <1>13

-----------------------------------------------------------------------------
(* Types.                                                                  *)

Lasts ==
  [op: CallOps \cup {"", "TX", "REJECTED"},
   err: RunErrors \cup HostErrors \cup CheckErrors,
   pushed: BOOLEAN, created: BOOLEAN, used: Nat, logs: Nat]

\* Only a running transaction has frames, and it has paid its intrinsic gas.
Started ==
  /\ frames # << >> => msg # NoMsg
  /\ msg # NoMsg => intrinsicGas(msg).cost <= msg.gas

TypeInv == TypeOK /\ Started

\* The smaller of two numbers.
LEMMA MinPair ==
  ASSUME NEW a \in Int, NEW b \in Int
  PROVE  Min({a, b}) \in {a, b} /\ Min({a, b}) <= a /\ Min({a, b}) <= b
  <1>1. \E x \in {a, b} : \A y \in {a, b} : x <= y
    OBVIOUS
  <1> QED
    BY <1>1 DEF Min

\* preCheck's answers, and what holds when it lets a transaction pass.
LEMMA Checked ==
  ASSUME NEW m \in Messages
  PROVE  /\ preCheck(m) \in CheckErrors \cup {""}
         /\ preCheck(m) \in LateErrors => ~(gasPool < m.gas)
         /\ preCheck(m) = "" =>
              /\ GetNonce(Base, tree, m.from) = m.nonce
              /\ ~NotEnoughFunds(Base, tree, m.from, upfrontGasCost(m))
              /\ ~(gasPool < m.gas)
              /\ ~(m.gas < intrinsicGas(m).cost)
              /\ ~(GetBalance(Base, SubBalance(Base, tree, m.from, upfrontGasCost(m)),
                              m.from) < m.value)
  <1> DEFINE i == intrinsicGas(m)
             low == gasPool < m.gas
             short == m.gas < i.cost
             poor == GetBalance(Base, SubBalance(Base, tree, m.from, upfrontGasCost(m)),
                                m.from) < m.value
  <1>1. i.err \in {"", "ErrIntrinsicGasOverflow"}
    BY IntrinsicType
  <1>2. preCheck(m) = IF GetNonce(Base, tree, m.from) # m.nonce THEN "ErrNonceIncorrect"
                      ELSE IF NotEnoughFunds(Base, tree, m.from, upfrontGasCost(m))
                      THEN "ErrNotEnoughFundsForGas"
                      ELSE IF low THEN "ErrBlockLimitReached"
                      ELSE IF i.err # "" THEN i.err
                      ELSE IF short THEN "ErrNotEnoughIntrinsicGas"
                      ELSE IF poor THEN "ErrNotEnoughFunds"
                      ELSE ""
    BY Zenon DEF preCheck
  <1> HIDE DEF i, low, short, poor
  <1>3. /\ preCheck(m) \in CheckErrors \cup {""}
        /\ preCheck(m) \in LateErrors => ~low
        /\ preCheck(m) = "" =>
             /\ GetNonce(Base, tree, m.from) = m.nonce
             /\ ~NotEnoughFunds(Base, tree, m.from, upfrontGasCost(m))
             /\ ~low /\ ~short /\ ~poor
    BY <1>1, <1>2 DEF CheckErrors, LateErrors
  <1> QED
    BY <1>3 DEF i, low, short, poor

\* The result of the last call has its type.
LEMMA LastType ==
  /\ NoResult \in Lasts
  /\ \A e \in RunErrors \cup HostErrors, n \in Nat, k \in Nat :
       [NoResult EXCEPT !.op = "TX", !.err = e, !.used = n, !.logs = k] \in Lasts
  /\ \A e \in CheckErrors, n \in Nat :
       [NoResult EXCEPT !.op = "REJECTED", !.err = e, !.used = n] \in Lasts
  /\ \A o \in CallOps, e \in RunErrors \cup HostErrors, p \in BOOLEAN, c \in BOOLEAN :
       [NoResult EXCEPT !.op = o, !.err = e, !.pushed = p, !.created = c] \in Lasts
  <1>1. "" \in RunErrors
    BY DEF RunErrors
  <1>2. NoResult \in Lasts
    BY <1>1 DEF NoResult, Lasts
  <1> QED
    BY <1>2 DEF Lasts

\* The state after a transaction that left the state t: left is the gas paid
\* back to the sender, used the gas paid to the coinbase.
settled(t, left, used) ==
  CleanDeleteObjects(
    DropLogs(AddBalance(Base, AddBalance(Base, t, msg.from, left * msg.gasPrice),
                        Coinbase, used * msg.gasPrice)),
    Forks["Byzantium"] \/ Forks["EIP158"])

\* The settlement: the used gas and the gas left over, in the code's arithmetic.
\* Together they are the gas of the transaction.
LEMMA SettleForm ==
  ASSUME TypeInv, msg # NoMsg, NEW t \in Trees, NEW e, NEW g \in Gas, Settle(t, e, g)
  PROVE  \E left \in Gas, used \in Gas :
           /\ g <= msg.gas => left + used = msg.gas
           /\ tree' = settled(t, left, used)
           /\ gasPool' = (gasPool + left) % Word
           /\ totalGas' = (totalGas + used) % Word
           /\ frames' = << >>
           /\ last' = [NoResult EXCEPT !.op = "TX", !.err = e, !.used = used,
                                       !.logs = Len(t.logs)]
           /\ msg' = NoMsg
           /\ txs' = txs /\ txStart' = txStart /\ applied' = applied
  <1> DEFINE gasUsed == (msg.gas - g) % Word
             half == gasUsed \div 2
             refund == Min({t.refund, half})
             left == (g + refund) % Word
             used == gasUsed - refund
  <1>1. msg.gas \in Gas /\ Word \in Nat \ {0}
    BY TxnConstants DEF TypeInv, TypeOK, Messages, Gas
  <1>2. t.refund \in Gas
    BY DEF Trees, Gas
  <1>3. gasUsed \in Gas /\ (g <= msg.gas => gasUsed = msg.gas - g)
    BY <1>1 DEF Gas
  <1> HIDE DEF gasUsed
  <1>4. half \in Nat /\ half <= gasUsed
    BY <1>3 DEF Gas
  <1> HIDE DEF half
  <1>5. refund \in Nat /\ refund <= half
    <2>1. t.refund \in Int /\ t.refund \in Nat /\ half \in Int
      BY <1>2, <1>4 DEF Gas
    <2>2. refund \in {t.refund, half} /\ refund <= half
      BY <2>1, MinPair
    <2> QED
      BY <1>4, <2>1, <2>2
  <1> HIDE DEF refund
  <1>6. left \in Gas /\ used \in Gas
    BY <1>1, <1>3, <1>4, <1>5 DEF Gas
  <1>7. g <= msg.gas => left + used = msg.gas
    <2> SUFFICES ASSUME g <= msg.gas PROVE left + used = msg.gas
      OBVIOUS
    <2>1. gasUsed = msg.gas - g /\ refund <= gasUsed
      BY <1>3, <1>4, <1>5 DEF Gas
    <2>2. g + refund \in Gas
      BY <1>1, <1>5, <2>1 DEF Gas
    <2>3. left = g + refund
      BY <1>1, <2>2 DEF Gas
    <2>4. used = gasUsed - refund
      OBVIOUS
    <2>5. msg.gas \in Int /\ g \in Int
      BY <1>1 DEF Gas
    <2> HIDE DEF left, used
    <2> QED
      BY <1>5, <2>1, <2>3, <2>4, <2>5
  <1>8. /\ tree' = settled(t, left, used)
        /\ gasPool' = (gasPool + left) % Word
        /\ totalGas' = (totalGas + used) % Word
        /\ frames' = << >>
        /\ last' = [NoResult EXCEPT !.op = "TX", !.err = e, !.used = used,
                                    !.logs = Len(t.logs)]
        /\ msg' = NoMsg
        /\ txs' = txs /\ txStart' = txStart /\ applied' = applied
    BY Zenon DEF Settle, settled, gasUsed, half, refund
  <1> HIDE DEF left, used
  <1> QED
    BY <1>6, <1>7, <1>8

LEMMA SettleType ==
  ASSUME TypeInv, msg # NoMsg, NEW t \in Trees, NEW e \in RunErrors \cup HostErrors,
         NEW g \in Gas, Settle(t, e, g)
  PROVE  /\ tree' \in Trees /\ gasPool' \in Gas /\ totalGas' \in Gas
         /\ frames' = << >> /\ last' \in Lasts /\ msg' = NoMsg
         /\ UNCHANGED <<txs, txStart, applied>>
  <1>1. PICK left \in Gas, used \in Gas :
          /\ tree' = settled(t, left, used)
          /\ gasPool' = (gasPool + left) % Word
          /\ totalGas' = (totalGas + used) % Word
          /\ frames' = << >>
          /\ last' = [NoResult EXCEPT !.op = "TX", !.err = e, !.used = used,
                                      !.logs = Len(t.logs)]
          /\ msg' = NoMsg
          /\ txs' = txs /\ txStart' = txStart /\ applied' = applied
    BY SettleForm, ZenonT(60)
  <1> DEFINE repaid == AddBalance(Base, t, msg.from, left * msg.gasPrice)
             paid == AddBalance(Base, repaid, Coinbase, used * msg.gasPrice)
             d == Forks["Byzantium"] \/ Forks["EIP158"]
  <1>2. /\ msg.gasPrice \in Nat /\ msg.from \in Addrs /\ Word \in Nat \ {0}
        /\ Coinbase \in Addrs /\ gasPool \in Gas /\ totalGas \in Gas
    BY TxnConstants, BlockConstants DEF TypeInv, TypeOK, Messages, Gas
  <1>3. left \in Nat /\ used \in Nat
    BY TxnConstants DEF Gas
  <1>4. left * msg.gasPrice \in Nat /\ used * msg.gasPrice \in Nat
    BY <1>2, <1>3
  <1>5. repaid \in Trees
    BY <1>2, <1>4, WriterType, BlockConstants
  <1> HIDE DEF repaid
  <1>6. paid \in Trees
    BY <1>2, <1>4, <1>5, WriterType, BlockConstants
  <1> HIDE DEF paid
  <1>7. DropLogs(paid) \in Trees
    BY <1>2, <1>6, WriterType, BlockConstants
  <1>8. d \in BOOLEAN
    OBVIOUS
  <1> HIDE DEF d
  <1>9. CleanDeleteObjects(DropLogs(paid), d) \in Trees
    BY <1>7, <1>8, EndType, BlockConstants
  <1>10. tree' \in Trees
    BY <1>1, <1>9, Zenon DEF settled, d, paid, repaid
  <1>11. (gasPool + left) % Word \in Gas /\ (totalGas + used) % Word \in Gas
    BY <1>2, <1>3 DEF Gas
  <1>12. Len(t.logs) \in Nat
    BY DEF Trees
  <1>13. last' \in Lasts
    BY <1>1, <1>3, <1>12, LastType
  <1> QED
    BY <1>1, <1>10, <1>11, <1>13

\* A call returns to apply, or to the frame below it.
LEMMA ReturnForm ==
  ASSUME NEW below, NEW op, NEW r, Return(below, op, r)
  PROVE  /\ below = << >> => Settle(r.tree, r.err, r.gasLeft)
         /\ below # << >> =>
              /\ tree' = r.tree
              /\ frames' = setGas(below, (below[Len(below)].gas + r.gasLeft) % Word)
              /\ last' = [NoResult EXCEPT !.op = op, !.err = r.err,
                                          !.pushed = pushed(op, r.err),
                                          !.created = r.created]
              /\ gasPool' = gasPool /\ totalGas' = totalGas /\ msg' = msg
              /\ txs' = txs /\ txStart' = txStart /\ applied' = applied
  BY Zenon DEF Return, setGas, block

\* A return keeps the types.
LEMMA ReturnType ==
  ASSUME TypeInv, msg # NoMsg, NEW below \in Seq(Frames), NEW op \in CallOps,
         NEW r \in Results, Return(below, op, r),
         destroyed' \in BOOLEAN, steps' \in Nat
  PROVE  TypeInv'
  <1>1. /\ r.tree \in Trees /\ r.gasLeft \in Gas /\ r.created \in BOOLEAN
        /\ r.err \in RunErrors \cup HostErrors
    BY DEF Results
  <1>2. CASE below = << >>
    <2>1. Settle(r.tree, r.err, r.gasLeft)
      BY <1>2, ReturnForm
    <2>2. /\ tree' \in Trees /\ gasPool' \in Gas /\ totalGas' \in Gas
          /\ frames' = << >> /\ last' \in Lasts /\ msg' = NoMsg
          /\ UNCHANGED <<txs, txStart, applied>>
      BY <1>1, <2>1, SettleType
    <2>3. << >> \in Seq(Frames)
      OBVIOUS
    <2>4. TypeOK'
      BY <2>2, <2>3 DEF TypeInv, TypeOK, Lasts, Gas
    <2> QED
      BY <2>2, <2>4 DEF TypeInv, Started
  <1>3. CASE below # << >>
    <2> DEFINE f == below[Len(below)]
               g == (f.gas + r.gasLeft) % Word
    <2>1. f \in Frames
      BY <1>3
    <2>2. g \in Gas
      BY <1>1, <2>1, TxnConstants DEF Frames, Gas
    <2>3. /\ tree' = r.tree
          /\ frames' = setGas(below, g)
          /\ last' = [NoResult EXCEPT !.op = op, !.err = r.err,
                                      !.pushed = pushed(op, r.err),
                                      !.created = r.created]
          /\ gasPool' = gasPool /\ totalGas' = totalGas /\ msg' = msg
          /\ txs' = txs /\ txStart' = txStart /\ applied' = applied
      BY <1>3, ReturnForm
    <2>4. pushed(op, r.err) \in BOOLEAN
      BY DEF pushed
    <2>5. last' \in Lasts
      BY <1>1, <2>3, <2>4, LastType
    <2> HIDE DEF g
    <2>6. frames' \in Seq(Frames)
      BY <1>3, <2>2, <2>3, SetGas
    <2> QED
      BY <1>1, <2>3, <2>5, <2>6 DEF TypeInv, TypeOK, Started, Lasts
  <1> QED
    BY <1>2, <1>3

\* The frame of the contract c.
frameOf(c, t) ==
  [type |-> c.type, op |-> c.op, address |-> c.address,
   codeAddress |-> c.codeAddress, code |-> c.code, gas |-> c.gas,
   static |-> c.static, snapshot |-> t]

LEMMA FrameType ==
  ASSUME NEW c \in Calls, NEW t \in Trees
  PROVE  frameOf(c, t) \in Frames
  BY DEF frameOf, Calls, Frames, Gas

\* Callx fails at once, or the contract's frame goes on the stack.
LEMMA CallxForm ==
  ASSUME NEW below, NEW c, Callx(below, tree, c)
  PROVE  LET e == enter(tree, c, Len(below) + 1) IN
         \/ e.err # "" /\ Return(below, c.op, result(e.err, e.gasLeft, e.tree))
         \/ /\ e.err = "" /\ tree' = e.tree
            /\ frames' = Append(below, frameOf(c, e.snapshot))
            /\ gasPool' = gasPool /\ totalGas' = totalGas /\ msg' = msg
            /\ txs' = txs /\ txStart' = txStart /\ applied' = applied
            /\ last' = last
  BY Zenon DEF Callx, frameOf, block

\* A call keeps the types.
LEMMA CallxType ==
  ASSUME TypeInv, msg # NoMsg, NEW below \in Seq(Frames), NEW c \in Calls,
         Callx(below, tree, c), destroyed' \in BOOLEAN, steps' \in Nat
  PROVE  TypeInv'
  <1> DEFINE e == enter(tree, c, Len(below) + 1)
  <1>1. tree \in Trees /\ Len(below) + 1 \in Nat /\ c.op \in CallOps
    <2>1. Len(below) \in Nat
      BY LenProperties
    <2>2. c.op \in CallOps
      BY DEF Calls
    <2>3. tree \in Trees
      BY DEF TypeInv, TypeOK
    <2>4. Len(below) + 1 \in Nat
      BY <2>1
    <2> QED
      BY <2>2, <2>3, <2>4
  <1>2. /\ e.tree \in Trees /\ e.snapshot \in Trees /\ e.gasLeft \in Gas
        /\ e.err \in {"", "ErrDepth", "ErrInsufficientBalance",
                      "ErrContractAddressCollision"}
    BY <1>1, EnterType
  <1>3. \/ e.err # "" /\ Return(below, c.op, result(e.err, e.gasLeft, e.tree))
        \/ /\ e.err = "" /\ tree' = e.tree
           /\ frames' = Append(below, frameOf(c, e.snapshot))
           /\ gasPool' = gasPool /\ totalGas' = totalGas /\ msg' = msg
           /\ txs' = txs /\ txStart' = txStart /\ applied' = applied
           /\ last' = last
    BY CallxForm
  <1> HIDE DEF e
  <1>4. CASE Return(below, c.op, result(e.err, e.gasLeft, e.tree))
    <2>1. e.err \in RunErrors \cup HostErrors
      BY <1>2 DEF RunErrors, HostErrors
    <2>2. result(e.err, e.gasLeft, e.tree) \in Results
      BY <1>2, <2>1, ResultType
    <2> QED
      BY <1>1, <1>4, <2>2, ReturnType
  <1>5. CASE /\ e.err = "" /\ tree' = e.tree
             /\ frames' = Append(below, frameOf(c, e.snapshot))
             /\ gasPool' = gasPool /\ totalGas' = totalGas /\ msg' = msg
             /\ txs' = txs /\ txStart' = txStart /\ applied' = applied
             /\ last' = last
    <2>1. frameOf(c, e.snapshot) \in Frames
      BY <1>2, FrameType
    <2>2. frames' \in Seq(Frames)
      BY <1>5, <2>1, AppendProperties
    <2> QED
      BY <1>2, <1>5, <2>2 DEF TypeInv, TypeOK, Started
  <1> QED
    BY <1>3, <1>4, <1>5

-----------------------------------------------------------------------------
(* What a step does: every instruction goes on, ends its frame, or calls.   *)

\* The state t that an instruction leaves when its frame goes on.
Wrote(t) ==
  \/ t = tree
  \/ /\ ~running.static
     /\ running.code # EmptyCode
     /\ \/ \E k \in Keys, v \in Vals : t = SetStorage(Base, tree, running.address, k, v)
        \/ t = EmitLog(tree, running.address)

\* The frame goes on with the gas g.
Goes(t, g) ==
  /\ Wrote(t)
  /\ g <= running.gas
  /\ tree' = t
  /\ frames' = setGas(frames, g)
  /\ UNCHANGED <<block, last, destroyed>>

\* The state t that a contract leaves when its code has run.
RanTo(t) ==
  \/ t = tree /\ destroyed' = destroyed
  \/ /\ ~running.static
     /\ running.code # EmptyCode
     /\ \E b \in Targets : t = Selfdestruct(Base, tree, running.address, b)
     /\ destroyed'

\* EVM.Run returns res.
Ends(t, res) ==
  /\ RanTo(t)
  /\ res.gasLeft <= running.gas
  /\ Return(callers, running.op, leave(running, t, res))

\* The running contract may call c, and keeps the gas g.
Outgoing(c, g) ==
  /\ c.caller = running.address
  /\ running.code # EmptyCode
  /\ running.static => c.static
  /\ c.static => running.static \/ c.type = "StaticCall"
  /\ c.type = "Create" <=> c.op \in {"CREATE", "CREATE2"}
  /\ c.type = "Create" =>
       /\ ~running.static
       /\ \/ c.address = CreateAddress(running.address,
                                       GetNonce(Base, tree, running.address))
          \/ c.address = CreateAddress2(running.address, c.code)
  /\ c.type = "Call" /\ running.static => c.value = 0
  /\ c.type \in {"Call", "Create"} => ~NotEnoughFunds(Base, tree, running.address, c.value)
  /\ c.type \in {"Call", "StaticCall"} => c.code = GetCode(Base, Codes, tree, c.address)
  /\ c.type \in {"CallCode", "DelegateCall"} => c.address = running.address
  /\ Forks["EIP150"] => g + c.gas <= running.gas

CallsOut(c, g) ==
  Outgoing(c, g) /\ Callx(setGas(frames, g), tree, c) /\ UNCHANGED destroyed

\* The running contract cannot pay what it wants to send: it gets back given.
CannotPay(op, g, given) ==
  /\ Forks["EIP150"] => g + given <= running.gas
  /\ Return(setGas(frames, g), op, result("bad", given, tree))
  /\ UNCHANGED destroyed

\* The end of EVM.Run.
LEMMA FinishForm ==
  ASSUME frames \in Seq(Frames), frames # << >>, NEW t, NEW err \in RunErrors,
         NEW gas \in Gas, gas <= running.gas, NEW ret \in Codes,
         Finish(t, err, gas, ret), RanTo(t)
  PROVE  \E res \in Runs : Ends(t, res)
  <1> DEFINE left == IF err \in {"", "ErrExecutionReverted"} THEN gas ELSE 0
             res == [err |-> err, ret |-> ret, gasLeft |-> left]
  <1>1. running.gas \in Gas
    BY Topmost
  <1>2. left \in Gas /\ left <= running.gas
    <2>1. 0 \in Gas /\ 0 <= running.gas
      BY <1>1, TxnConstants DEF Gas
    <2>2. left = gas \/ left = 0
      OBVIOUS
    <2> HIDE DEF left
    <2> QED
      BY <2>1, <2>2
  <1>3. Return(callers, running.op, leave(running, t, res))
    BY Zenon DEF Finish
  <1> HIDE DEF left
  <1>4. res \in Runs /\ res.gasLeft = left
    BY <1>2 DEF Runs
  <1> HIDE DEF res
  <1>5. Ends(t, res)
    BY <1>2, <1>3, <1>4 DEF Ends
  <1> QED
    BY <1>4, <1>5

\* A failing instruction.
LEMMA ExitForm ==
  ASSUME frames \in Seq(Frames), frames # << >>, NEW err \in RunErrors, exit(err)
  PROVE  \E res \in Runs : Ends(tree, res)
  <1>1. running.gas \in Gas
    BY Topmost
  <1>2. 0 \in Gas /\ 0 <= running.gas /\ EmptyCode \in Codes
    BY <1>1, TxnConstants DEF Gas
  <1>3. Finish(tree, err, 0, EmptyCode) /\ RanTo(tree)
    BY DEF exit, RanTo
  <1> QED
    BY <1>2, <1>3, FinishForm

\* An instruction goes on or fails.
LEMMA InstructionForm ==
  ASSUME frames \in Seq(Frames), frames # << >>, NEW err \in RunErrors,
         NEW gas \in Nat, NEW t, err = "" => Wrote(t), Instruction(err, gas, t)
  PROVE  \/ \E g \in Gas : Goes(t, g)
         \/ \E res \in Runs : Ends(tree, res)
  <1>1. running.gas \in Gas
    BY Topmost
  <1>2. CASE err # ""
    <2>1. exit(err)
      BY <1>2 DEF Instruction
    <2> QED
      BY <2>1, ExitForm
  <1>3. CASE err = "" /\ running.gas < gas
    <2>1. exit("ErrOutOfGas")
      BY <1>3 DEF Instruction
    <2>2. "ErrOutOfGas" \in RunErrors
      BY DEF RunErrors
    <2> QED
      BY <2>1, <2>2, ExitForm
  <1>4. CASE err = "" /\ ~(running.gas < gas)
    <2> DEFINE g == running.gas - gas
    <2>1. g \in Gas /\ g <= running.gas
      BY <1>1, <1>4, GasMinus
    <2>2. /\ tree' = t
          /\ frames' = [frames EXCEPT ![Len(frames)].gas = @ - gas]
          /\ UNCHANGED <<block, last, destroyed>>
      BY <1>4 DEF Instruction
    <2>3. frames' = setGas(frames, g)
      BY <2>2, Zenon DEF setGas, running
    <2> HIDE DEF g
    <2>4. Goes(t, g)
      BY <1>4, <2>1, <2>2, <2>3 DEF Goes
    <2> QED
      BY <2>1, <2>4
  <1> QED
    BY <1>2, <1>3, <1>4

\* A contract that runs, and the counter of the instructions.
LEMMA InEVMForm ==
  ASSUME TypeInv, InEVM
  PROVE  frames # << >> /\ running.code # EmptyCode /\ steps' \in Nat
  <1>1. frames # << >> /\ running.code # EmptyCode
    BY DEF InEVM
  <1>2. steps \in Nat
    BY DEF TypeInv, TypeOK
  <1>3. steps' = steps \/ steps' = steps + 1
    BY Zenon DEF InEVM, CanStep
  <1> QED
    BY <1>1, <1>2, <1>3

\* A step of the running contract.
Stepped ==
  /\ frames # << >>
  /\ steps' \in Nat
  /\ \/ \E t \in Trees, g \in Gas : Goes(t, g)
     \/ \E t \in Trees, res \in Runs : Ends(t, res)
     \/ \E c \in Calls, g \in Gas : CallsOut(c, g)
     \/ \E op \in CallOps, g \in Gas, given \in Gas : CannotPay(op, g, given)

\* SSTORE, LOG and the instructions that change no state.
LEMMA InstructionStep ==
  ASSUME TypeInv, InEVM, NEW err \in RunErrors, NEW gas \in Nat, NEW t \in Trees,
         err = "" => Wrote(t), Instruction(err, gas, t)
  PROVE  Stepped
  <1>1. frames \in Seq(Frames) /\ tree \in Trees
    BY DEF TypeInv, TypeOK
  <1>2. frames # << >> /\ steps' \in Nat
    BY InEVMForm
  <1>3. \/ \E g \in Gas : Goes(t, g)
        \/ \E res \in Runs : Ends(tree, res)
    BY <1>1, <1>2, InstructionForm
  <1> QED
    BY <1>1, <1>2, <1>3 DEF Stepped

LEMMA ExitStep ==
  ASSUME TypeInv, InEVM, NEW err \in RunErrors, exit(err)
  PROVE  Stepped
  <1>1. frames \in Seq(Frames) /\ tree \in Trees
    BY DEF TypeInv, TypeOK
  <1>2. frames # << >> /\ steps' \in Nat
    BY InEVMForm
  <1>3. \E res \in Runs : Ends(tree, res)
    BY <1>1, <1>2, ExitForm
  <1> QED
    BY <1>1, <1>2, <1>3 DEF Stepped

LEMMA FinishStep ==
  ASSUME TypeInv, frames # << >>, steps' \in Nat, NEW t \in Trees,
         NEW err \in RunErrors, NEW gas \in Gas, gas <= running.gas,
         NEW ret \in Codes, Finish(t, err, gas, ret), RanTo(t)
  PROVE  Stepped
  <1>1. frames \in Seq(Frames)
    BY DEF TypeInv, TypeOK
  <1>2. \E res \in Runs : Ends(t, res)
    BY <1>1, FinishForm
  <1> QED
    BY <1>2 DEF Stepped

LEMMA SStoreStep ==
  ASSUME TypeInv, NEW k \in Keys, NEW v \in Vals, opSStore(k, v)
  PROVE  Stepped
  <1> DEFINE a == running.address
             t == SetStorage(Base, tree, a, k, v)
             status == StorageStatus(GetCommittedState(Base, tree, a, k),
                                     GetState(Base, tree, a, k), v)
             stipend == Forks["Istanbul"] /\ running.gas <= 2300
             err == IF running.static THEN "errWriteProtection"
                    ELSE IF stipend THEN "ErrOutOfGas" ELSE ""
  <1>1. InEVM /\ Instruction(err, sstoreCost(status), t)
    BY DEF opSStore
  <1>2. frames # << >> /\ running.code # EmptyCode /\ frames \in Seq(Frames) /\ tree \in Trees
    BY <1>1, InEVMForm DEF TypeInv, TypeOK
  <1>3. running \in Frames
    BY <1>2, Topmost
  <1>4. a \in Addrs
    BY <1>3 DEF Frames
  <1>5. t \in Trees
    BY <1>2, <1>4, SetStorageType, BlockConstants
  <1>6. sstoreCost(status) \in Nat
    BY DEF sstoreCost
  <1> HIDE DEF status, stipend
  <1>7. err \in RunErrors /\ (err = "" => ~running.static)
    BY DEF RunErrors
  <1> HIDE DEF err
  <1>8. err = "" => Wrote(t)
    BY <1>2, <1>7 DEF Wrote
  <1> HIDE DEF t
  <1> QED
    BY <1>1, <1>5, <1>6, <1>7, <1>8, InstructionStep

LEMMA LogStep ==
  ASSUME TypeInv, NEW topics \in {0, 1}, opLog(topics)
  PROVE  Stepped
  <1> DEFINE t == EmitLog(tree, running.address)
             gas == 375 + 375 * topics
  <1>1. InEVM /\ Instruction(writeProtection, gas, t)
    BY DEF opLog
  <1>2. frames # << >> /\ running.code # EmptyCode /\ frames \in Seq(Frames) /\ tree \in Trees
    BY <1>1, InEVMForm DEF TypeInv, TypeOK
  <1>3. running \in Frames
    BY <1>2, Topmost
  <1>4. running.address \in Addrs
    BY <1>3 DEF Frames
  <1>5. t \in Trees
    BY <1>2, <1>4, WriterType, BlockConstants
  <1>6. gas \in Nat
    OBVIOUS
  <1>7. /\ writeProtection \in RunErrors
        /\ writeProtection = "" => ~running.static
    BY DEF RunErrors, writeProtection
  <1>8. writeProtection = "" => Wrote(t)
    BY <1>2, <1>7 DEF Wrote
  <1> HIDE DEF t, gas
  <1> QED
    BY <1>1, <1>5, <1>6, <1>7, <1>8, InstructionStep

LEMMA ComputeStep ==
  ASSUME TypeInv, NEW gas \in Computing, Compute(gas)
  PROVE  Stepped
  <1>1. InEVM /\ Instruction("", gas, tree) /\ gas \in Nat /\ tree \in Trees
    BY BlockConstants DEF Compute, TypeInv, TypeOK
  <1>2. "" \in RunErrors /\ Wrote(tree)
    BY DEF RunErrors, Wrote
  <1> QED
    BY <1>1, <1>2, InstructionStep

LEMMA SelfDestructStep ==
  ASSUME TypeInv, NEW b \in Targets, opSelfDestruct(b)
  PROVE  Stepped
  <1> DEFINE a == running.address
             t == Selfdestruct(Base, tree, a, b)
             gas == selfDestructCost(a, b)
  <1>1. /\ InEVM
        /\ \/ exit("errWriteProtection")
           \/ exit("ErrOutOfGas")
           \/ /\ ~running.static
              /\ ~(running.gas < gas)
              /\ Finish(t, "", running.gas - gas, EmptyCode)
              /\ destroyed'
    BY Zenon DEF opSelfDestruct
  <1>2. /\ frames # << >> /\ running.code # EmptyCode /\ frames \in Seq(Frames)
        /\ tree \in Trees /\ steps' \in Nat
    BY <1>1, InEVMForm DEF TypeInv, TypeOK
  <1>3. "errWriteProtection" \in RunErrors /\ "ErrOutOfGas" \in RunErrors /\ "" \in RunErrors
    BY DEF RunErrors
  <1>4. CASE exit("errWriteProtection") \/ exit("ErrOutOfGas")
    BY <1>1, <1>3, <1>4, ExitStep
  <1>5. CASE /\ ~running.static
             /\ ~(running.gas < gas)
             /\ Finish(t, "", running.gas - gas, EmptyCode)
             /\ destroyed'
    <2>1. running \in Frames /\ running.gas \in Gas
      BY <1>2, Topmost
    <2>2. a \in Addrs /\ b \in Addrs
      BY <2>1, BlockConstants DEF Frames
    <2>3. t \in Trees
      BY <1>2, <2>2, SelfdestructType
    <2>4. gas \in Nat
      BY DEF selfDestructCost
    <2> HIDE DEF gas
    <2>5. running.gas - gas \in Gas /\ running.gas - gas <= running.gas
      BY <1>5, <2>1, <2>4, GasMinus
    <2>6. RanTo(t)
      BY <1>2, <1>5 DEF RanTo
    <2> HIDE DEF t
    <2> QED
      BY <1>2, <1>3, <1>5, <2>3, <2>5, <2>6, FinishStep, TxnConstants
  <1> QED
    BY <1>1, <1>4, <1>5

LEMMA ReturnStep ==
  ASSUME TypeInv, NEW ret \in Codes, opReturn(ret)
  PROVE  Stepped
  <1>1. /\ frames # << >> /\ frames \in Seq(Frames) /\ tree \in Trees /\ steps' \in Nat
        /\ Finish(tree, "", running.gas, ret) /\ RanTo(tree)
    BY DEF opReturn, TypeInv, TypeOK, RanTo
  <1>2. running.gas \in Gas
    BY <1>1, Topmost
  <1>3. running.gas <= running.gas
    BY <1>2, TxnConstants DEF Gas
  <1>4. "" \in RunErrors
    BY DEF RunErrors
  <1> QED
    BY <1>1, <1>2, <1>3, <1>4, FinishStep

LEMMA RevertStep ==
  ASSUME TypeInv, opRevert
  PROVE  Stepped
  <1>1. /\ InEVM
        /\ \/ Finish(tree, "ErrExecutionReverted", running.gas, EmptyCode) /\ RanTo(tree)
           \/ exit("errOpCodeNotFound")
    BY DEF opRevert, RanTo
  <1>2. frames # << >> /\ frames \in Seq(Frames) /\ tree \in Trees /\ steps' \in Nat
    BY <1>1, InEVMForm DEF TypeInv, TypeOK
  <1>3. running.gas \in Gas
    BY <1>2, Topmost
  <1>4. running.gas <= running.gas /\ EmptyCode \in Codes
    BY <1>3, TxnConstants DEF Gas
  <1>5. "ErrExecutionReverted" \in RunErrors /\ "errOpCodeNotFound" \in RunErrors
    BY DEF RunErrors
  <1> QED
    BY <1>1, <1>2, <1>3, <1>4, <1>5, FinishStep, ExitStep

LEMMA PrecompiledStep ==
  ASSUME TypeInv, NEW gas \in Computing, NEW ok \in BOOLEAN, RunPrecompiled(gas, ok)
  PROVE  Stepped
  <1>1. frames # << >> /\ frames \in Seq(Frames) /\ tree \in Trees /\ steps' \in Nat
    BY DEF RunPrecompiled, TypeInv, TypeOK
  <1>2. running.gas \in Gas /\ gas \in Nat
    BY <1>1, Topmost, BlockConstants
  <1>3. 0 \in Gas /\ 0 <= running.gas /\ EmptyCode \in Codes
    BY <1>2, TxnConstants DEF Gas
  <1>4. "ErrOutOfGas" \in RunErrors /\ "" \in RunErrors /\ "errInput" \in RunErrors
    BY DEF RunErrors
  <1>5. RanTo(tree)
    BY DEF RunPrecompiled, RanTo
  <1>6. CASE running.gas < gas
    <2>1. Finish(tree, "ErrOutOfGas", 0, EmptyCode)
      BY <1>6 DEF RunPrecompiled
    <2> QED
      BY <1>1, <1>3, <1>4, <1>5, <2>1, FinishStep
  <1>7. CASE ~(running.gas < gas)
    <2> DEFINE err == IF ok THEN "" ELSE "errInput"
    <2>1. Finish(tree, err, running.gas - gas, EmptyCode)
      BY <1>7 DEF RunPrecompiled
    <2>2. err \in RunErrors
      BY <1>4
    <2>3. running.gas - gas \in Gas /\ running.gas - gas <= running.gas
      BY <1>2, <1>7, GasMinus
    <2> HIDE DEF err
    <2> QED
      BY <1>1, <1>3, <1>5, <2>1, <2>2, <2>3, FinishStep
  <1> QED
    BY <1>6, <1>7

\* Since EIP-150 the cost of a call and the callee's gas do not wrap: a call
\* that passes the check of its gas pays for both.
LEMMA CallGasFits ==
  ASSUME NEW x \in Gas, NEW cost \in Nat, cost <= 34700, NEW left, NEW gas \in Nat,
         left = (x - cost) % Word, gas <= left - (left \div 64),
         ~(x < (cost + gas) % Word)
  PROVE  cost + gas <= x /\ (cost + gas) % Word = cost + gas
  <1>1. Word \in Nat /\ Word > 65 * 34700 /\ x < Word /\ x \in Nat
    BY TxnConstants, GasWidth DEF Gas
  <1>2. CASE cost <= x
    <2>1. left = x - cost
      <3>1. x - cost \in Nat /\ x - cost < Word
        BY <1>1, <1>2
      <3>2. (x - cost) % Word = x - cost
        BY <1>1, <3>1
      <3> QED
        BY <3>2
    <2>2. cost + gas <= x
      BY <1>1, <1>2, <2>1
    <2> QED
      BY <1>1, <2>2
  <1>3. CASE x < cost
    <2>1. left = Word + x - cost
      BY <1>1, <1>3
    <2>2. left \in Nat /\ left > 64 * 34700
      BY <1>1, <1>3, <2>1
    <2>3. left \div 64 \in Nat /\ left \div 64 >= 34700
      BY <2>2
    <2>4. cost + gas < Word
      BY <1>1, <1>3, <2>1, <2>2, <2>3
    <2>5. (cost + gas) % Word = cost + gas
      BY <1>1, <2>4
    <2> QED
      BY <1>1, <1>3, <2>5
  <1> QED
    BY <1>1, <1>2, <1>3

\* The instructions behind the four kinds of call.
LEMMA CallKinds ==
  ASSUME NEW op \in DOMAIN types
  PROVE  /\ op \in CallOps \ {"CREATE", "CREATE2"}
         /\ types[op] \in CallTypes \ {"Create"}
         /\ types[op] = "Call" <=> op = "CALL"
         /\ types[op] = "StaticCall" <=> op = "STATICCALL"
  <1>1. op \in {"CALL", "CALLCODE", "DELEGATECALL", "STATICCALL"}
    BY DEF types
  <1>2. /\ types["CALL"] = "Call" /\ types["CALLCODE"] = "CallCode"
        /\ types["DELEGATECALL"] = "DelegateCall" /\ types["STATICCALL"] = "StaticCall"
    BY DEF types
  <1> HIDE DEF types
  <1> QED
    BY <1>1, <1>2 DEF CallOps, CallTypes

LEMMA CallStep ==
  ASSUME TypeInv, NEW op \in DOMAIN types, NEW a \in Targets, NEW value \in CallValues,
         NEW asked \in CallGas, opCall(op, a, value, asked)
  PROVE  Stepped
  <1> DEFINE x == running.gas
             cost == callCost(op, a, value)
             left == (x - cost) % Word
             gas == calleeGas(asked, cost)
             gasCost == (cost + gas) % Word
             given == IF value # 0 THEN (gas + 2300) % Word ELSE gas
             address == IF op \in {"CALLCODE", "DELEGATECALL"}
                        THEN running.address ELSE a
             c == [type |-> types[op], op |-> op, caller |-> running.address,
                   address |-> address, codeAddress |-> a, value |-> value,
                   gas |-> given, static |-> childStatic(op),
                   code |-> GetCode(Base, Codes, tree, a)]
             paid == [frames EXCEPT ![Len(frames)].gas = @ - gasCost]
             g == x - gasCost
  <1>1. /\ InEVM
        /\ \/ exit(callError(op, value)) /\ callError(op, value) # ""
           \/ exit("ErrOutOfGas")
           \/ /\ ~(x < gasCost)
              /\ Return(paid, op, result("bad", given, tree)) /\ UNCHANGED destroyed
           \/ /\ callError(op, value) = "" /\ ~(x < gasCost) /\ canPay(value)
              /\ Callx(paid, tree, c) /\ UNCHANGED destroyed
    BY Zenon DEF opCall
  <1>2. /\ frames # << >> /\ running.code # EmptyCode /\ frames \in Seq(Frames)
        /\ tree \in Trees /\ steps' \in Nat
    BY <1>1, InEVMForm DEF TypeInv, TypeOK
  <1>3. running \in Frames /\ x \in Gas
    BY <1>2, Topmost
  <1>4. /\ running.address \in Addrs /\ a \in Addrs /\ value \in Nat
        /\ asked \in Gas /\ running.static \in BOOLEAN
    BY <1>3, BlockConstants DEF Frames, Gas
  <1>5. "ErrOutOfGas" \in RunErrors /\ callError(op, value) \in RunErrors
    BY DEF RunErrors, callError
  <1>6. CASE \/ exit(callError(op, value)) \/ exit("ErrOutOfGas")
    BY <1>1, <1>5, <1>6, ExitStep
  <1>7. cost \in Nat /\ cost <= 34700 /\ (value # 0 => cost >= 2300)
    BY <1>4 DEF callCost
  <1> HIDE DEF cost
  <1>8. left \in Gas
    BY <1>3, <1>7, TxnConstants DEF Gas
  <1>9. gas \in Gas /\ (Forks["EIP150"] => gas <= left - (left \div 64))
    <2> DEFINE available == left - (left \div 64)
    <2>1. gas = IF Forks["EIP150"] /\ available < asked THEN available ELSE asked
      BY DEF calleeGas
    <2> HIDE DEF gas, left
    <2>2. available \in Gas
      BY <1>8, TxnConstants DEF Gas
    <2> HIDE DEF available
    <2>3. available \in Int /\ asked \in Int
      BY <1>4, <2>2, TxnConstants DEF Gas
    <2>4. gas \in Gas /\ (Forks["EIP150"] => gas <= available)
      BY <1>4, <2>1, <2>2, <2>3
    <2> QED
      BY <2>4 DEF available
  <1> HIDE DEF gas
  <1>10. gasCost \in Gas /\ given \in Gas
    BY <1>7, <1>9, TxnConstants DEF Gas
  <1>11. ASSUME ~(x < gasCost)
         PROVE  /\ g \in Gas
                /\ Forks["EIP150"] => g + given <= x
                /\ paid = setGas(frames, g)
    <2>1. g \in Gas
      <3> HIDE DEF gasCost, x
      <3>1. gasCost \in Nat
        BY <1>10 DEF Gas
      <3> QED
        BY <1>3, <1>11, <3>1, GasMinus
    <2>2. paid = setGas(frames, g)
      BY Zenon DEF setGas, running
    <2>3. ASSUME Forks["EIP150"] PROVE g + given <= x
      <3>1. gas \in Nat /\ gas < Word /\ x \in Nat /\ x < Word /\ Word \in Nat \ {0}
        BY <1>3, <1>9, TxnConstants DEF Gas
      <3>2. cost + gas <= x /\ gasCost = cost + gas
        BY <1>3, <1>7, <1>9, <1>11, <2>3, <3>1, CallGasFits
      <3> HIDE DEF gasCost
      <3>3. given = IF value # 0 THEN gas + 2300 ELSE gas
        <4>1. value # 0 => gas + 2300 <= x
          BY <1>7, <3>1, <3>2
        <4>2. value # 0 => (gas + 2300) % Word = gas + 2300
          BY <3>1, <4>1
        <4> QED
          BY <4>2
      <3>4. given \in Nat /\ given <= cost + gas
        BY <1>7, <3>1, <3>3
      <3> HIDE DEF given
      <3> QED
        BY <1>7, <3>1, <3>2, <3>4
    <2> QED
      BY <2>1, <2>2, <2>3
  <1>12. CASE /\ ~(x < gasCost)
              /\ Return(paid, op, result("bad", given, tree)) /\ UNCHANGED destroyed
    <2>1. op \in CallOps
      BY CallKinds
    <2> HIDE DEF paid, g, given, gasCost
    <2>2. CannotPay(op, g, given)
      BY <1>11, <1>12 DEF CannotPay
    <2> QED
      BY <1>2, <1>10, <1>11, <1>12, <2>1, <2>2 DEF Stepped
  <1>13. CASE /\ callError(op, value) = "" /\ ~(x < gasCost) /\ canPay(value)
              /\ Callx(paid, tree, c) /\ UNCHANGED destroyed
    <2>1. /\ op \in CallOps \ {"CREATE", "CREATE2"} /\ types[op] \in CallTypes \ {"Create"}
          /\ types[op] = "Call" <=> op = "CALL"
          /\ types[op] = "StaticCall" <=> op = "STATICCALL"
      BY CallKinds
    <2>2. address \in Addrs
      BY <1>4
    <2>3. GetCode(Base, Codes, tree, a) \in Codes
      BY <1>2, <1>4, ReadType
    <2>4. /\ childStatic(op) \in BOOLEAN /\ (running.static => childStatic(op))
          /\ childStatic(op) => running.static \/ op = "STATICCALL"
      BY DEF childStatic
    <2>5. op = "CALL" /\ running.static => value = 0
      BY <1>13 DEF callError
    <2>6. ~NotEnoughFunds(Base, tree, running.address, value)
      <3>1. GetBalance(Base, tree, running.address) \in Nat
        BY <1>2, <1>4, ReadType
      <3>2. value = 0 \/ GetBalance(Base, tree, running.address) >= value
        BY <1>13 DEF canPay
      <3> QED
        BY <1>4, <3>1, <3>2 DEF NotEnoughFunds
    <2>7. op \notin {"CALLCODE", "DELEGATECALL"} => address = a
      OBVIOUS
    <2>8. op \in {"CALLCODE", "DELEGATECALL"} => address = running.address
      OBVIOUS
    <2>9. types[op] \in {"CallCode", "DelegateCall"} => op \in {"CALLCODE", "DELEGATECALL"}
      BY <2>1 DEF CallOps
    <2> DEFINE code == GetCode(Base, Codes, tree, a)
               static == childStatic(op)
               type == types[op]
    <2> HIDE DEF address, given, code, static, type
    <2>10. c \in Calls
      BY <1>4, <1>10, <2>1, <2>2, <2>3, <2>4 DEF Calls, code, static, type
    <2>11. /\ c.type = type /\ c.op = op /\ c.caller = running.address
           /\ c.address = address /\ c.value = value /\ c.gas = given
           /\ c.static = static /\ c.code = code
      BY DEF code, static, type
    <2>12. c.static <=> static
      BY <2>11
    <2> HIDE DEF c, paid, g, gasCost, x
    <2>13. Outgoing(c, g)
      <3>1. c.caller = running.address /\ running.code # EmptyCode
        BY <1>2, <2>11
      <3>2. /\ running.static => c.static
            /\ c.static => running.static \/ c.type = "StaticCall"
        BY <2>1, <2>4, <2>11, <2>12 DEF static, type
      <3>3. c.type # "Create" /\ c.op \notin {"CREATE", "CREATE2"}
        BY <2>1, <2>11 DEF type
      <3>4. /\ c.type = "Call" /\ running.static => c.value = 0
            /\ ~NotEnoughFunds(Base, tree, running.address, c.value)
        BY <2>1, <2>5, <2>6, <2>11 DEF type
      <3>5. c.type \in {"Call", "StaticCall"} => c.code = GetCode(Base, Codes, tree, c.address)
        BY <2>1, <2>7, <2>11 DEF type, code
      <3>6. c.type \in {"CallCode", "DelegateCall"} => c.address = running.address
        BY <2>8, <2>9, <2>11 DEF type
      <3>7. Forks["EIP150"] => g + c.gas <= running.gas
        BY <1>11, <1>13, <2>11 DEF x
      <3> QED
        BY <3>1, <3>2, <3>3, <3>4, <3>5, <3>6, <3>7 DEF Outgoing
    <2>14. CallsOut(c, g)
      BY <1>11, <1>13, <2>13 DEF CallsOut
    <2> QED
      BY <1>2, <1>11, <1>13, <2>10, <2>14 DEF Stepped
  <1> QED
    BY <1>1, <1>6, <1>12, <1>13

\* A contract that may write.
LEMMA ContractType ==
  ASSUME NEW type \in CallTypes, NEW op \in CallOps, NEW from \in Addrs,
         NEW to \in Addrs, NEW value \in Nat, NEW gas \in Gas, NEW code \in Codes
  PROVE  LET c == NewContract(type, op, from, to, value, gas, code) IN
         /\ c \in Calls
         /\ c.type = type /\ c.op = op /\ c.caller = from /\ c.address = to
         /\ c.value = value /\ c.gas = gas /\ c.code = code /\ c.codeAddress = to
  BY Zenon DEF NewContract, Calls

LEMMA ContractWrites ==
  ASSUME NEW type, NEW op, NEW from, NEW to, NEW value, NEW gas, NEW code
  PROVE  ~NewContract(type, op, from, to, value, gas, code).static
  BY Zenon DEF NewContract

LEMMA CreateStep ==
  ASSUME CreationsStay, TypeInv, NEW op \in {"CREATE", "CREATE2"},
         NEW init \in InitCodes, NEW value \in CallValues, opCreate(op, init, value)
  PROVE  Stepped
  <1> DEFINE x == running.gas
             hashing == IF op = "CREATE2" THEN ((CodeSize[init] + 31) \div 32) * 6 ELSE 0
             rest == x - createGas - hashing
             gas == IF Forks["EIP150"] \/ op = "CREATE2" THEN rest - (rest \div 64)
                    ELSE rest
             a == running.address
             address == IF op = "CREATE" THEN CreateAddress(a, GetNonce(Base, tree, a))
                        ELSE CreateAddress2(a, init)
             c == NewContract("Create", op, a, address, value, gas, init)
             minus(n) == [frames EXCEPT ![Len(frames)].gas = @ - n]
             spent == createGas + hashing + gas
  <1>1. /\ InEVM
        /\ \/ exit("ErrOutOfGas")
           \/ exit(createError(op)) /\ createError(op) # ""
           \/ /\ ~(x < createGas) /\ Return(minus(createGas), op, result("bad", 0, tree))
              /\ UNCHANGED destroyed
           \/ /\ createError(op) = "" /\ canPay(value) /\ ~(rest < 0)
              /\ Callx(minus(spent), tree, c) /\ UNCHANGED destroyed
    BY Zenon DEF opCreate
  <1>2. /\ frames # << >> /\ running.code # EmptyCode /\ frames \in Seq(Frames)
        /\ tree \in Trees /\ steps' \in Nat
    BY <1>1, InEVMForm DEF TypeInv, TypeOK
  <1>3. running \in Frames /\ x \in Gas
    BY <1>2, Topmost
  <1>4. a \in Addrs /\ value \in Nat /\ init \in Codes /\ running.static \in BOOLEAN
    BY <1>3, BlockConstants DEF Frames, Gas
  <1>5. "ErrOutOfGas" \in RunErrors /\ createError(op) \in RunErrors
    BY DEF RunErrors, createError
  <1>6. CASE exit(createError(op)) \/ exit("ErrOutOfGas")
    BY <1>1, <1>5, <1>6, ExitStep
  <1>7. op \in CallOps /\ "Create" \in CallTypes
    BY DEF CallOps, CallTypes
  <1>8. \A n \in Nat : minus(n) = setGas(frames, x - n)
    BY Zenon DEF setGas, running
  <1>9. createGas \in Nat
    BY DEF createGas
  <1>10. CASE /\ ~(x < createGas) /\ Return(minus(createGas), op, result("bad", 0, tree))
              /\ UNCHANGED destroyed
    <2> DEFINE g == x - createGas
    <2>1. g \in Gas /\ g <= x
      BY <1>3, <1>9, <1>10, GasMinus
    <2>2. Return(setGas(frames, g), op, result("bad", 0, tree))
      BY <1>8, <1>9, <1>10
    <2>3. 0 \in Gas /\ g + 0 <= x
      BY <1>3, <2>1, TxnConstants DEF Gas
    <2> HIDE DEF g
    <2>4. CannotPay(op, g, 0)
      BY <1>10, <2>2, <2>3 DEF CannotPay
    <2> QED
      BY <1>2, <1>7, <2>1, <2>3, <2>4 DEF Stepped
  <1>11. CASE /\ createError(op) = "" /\ canPay(value) /\ ~(rest < 0)
              /\ Callx(minus(spent), tree, c) /\ UNCHANGED destroyed
    <2>1. hashing \in Nat
      <3>1. CodeSize[init] \in Nat
        BY <1>4, BlockConstants
      <3> QED
        BY <3>1
    <2> HIDE DEF hashing
    <2>2. x \in Nat /\ x < Word /\ Word \in Nat
      BY <1>3, TxnConstants DEF Gas
    <2>3. rest \in Nat /\ rest <= x
      <3>1. ~(rest < 0)
        BY <1>11
      <3> QED
        BY <1>9, <2>1, <2>2, <3>1
    <2>4. gas \in Nat /\ gas <= rest
      <3> HIDE DEF rest
      <3>1. rest \div 64 \in Nat /\ rest \div 64 <= rest
        BY <2>3
      <3> QED
        BY <2>3, <3>1
    <2> DEFINE g == x - spent
    <2> HIDE DEF gas
    <2>5. spent \in Nat /\ g \in Nat /\ g + gas <= x
      BY <1>9, <2>1, <2>2, <2>3, <2>4
    <2>6. g \in Gas /\ gas \in Gas
      BY <2>2, <2>4, <2>5 DEF Gas
    <2>7. Callx(setGas(frames, g), tree, c)
      <3> HIDE DEF spent
      <3> QED
        BY <1>8, <1>11, <2>5
    <2>8. GetNonce(Base, tree, a) \in Nat
      BY <1>2, <1>4, ReadType
    <2>9. address \in Addrs
      BY <1>4, <2>8 DEF CreationsStay
    <2>10. \/ address = CreateAddress(a, GetNonce(Base, tree, a))
           \/ address = CreateAddress2(a, init)
      OBVIOUS
    <2> HIDE DEF address, g
    <2>11. /\ c \in Calls /\ c.type = "Create" /\ c.op = op /\ c.caller = a
           /\ c.address = address /\ c.value = value /\ c.gas = gas /\ c.code = init
      BY <1>4, <1>7, <2>6, <2>9, ContractType
    <2>12. ~running.static /\ ~c.static
      BY <1>11, ContractWrites DEF createError
    <2>13. ~NotEnoughFunds(Base, tree, running.address, value)
      <3>1. GetBalance(Base, tree, running.address) \in Nat
        BY <1>2, <1>4, ReadType
      <3>2. value = 0 \/ GetBalance(Base, tree, running.address) >= value
        BY <1>11 DEF canPay
      <3> QED
        BY <1>4, <3>1, <3>2 DEF NotEnoughFunds
    <2> HIDE DEF c
    <2>14. Outgoing(c, g)
      BY <1>2, <2>5, <2>10, <2>11, <2>12, <2>13 DEF Outgoing
    <2>15. CallsOut(c, g)
      BY <1>11, <2>7, <2>14 DEF CallsOut
    <2> QED
      BY <1>2, <2>6, <2>11, <2>15 DEF Stepped
  <1> QED
    BY <1>1, <1>6, <1>10, <1>11

\* Every step begins the topmost call or is one of the running contract.
LEMMA StepForm ==
  ASSUME CreationsStay, TypeInv, Step
  PROVE  Begin \/ Stepped
  <1>1. ASSUME Fault PROVE Stepped
    <2>1. "errFault" \in RunErrors
      BY DEF RunErrors
    <2> QED
      BY <1>1, <2>1, ExitStep DEF Fault
  <1> QED
    BY <1>1, SStoreStep, LogStep, ComputeStep, SelfDestructStep, ReturnStep, RevertStep,
       PrecompiledStep, CallStep, CreateStep DEF Step

\* The topmost contract.
LEMMA TopmostCall ==
  ASSUME CreationsStay, TypeInv, msg # NoMsg
  PROVE  /\ topmost(msg) \in Calls
         /\ topmost(msg).gas = msg.gas - intrinsicGas(msg).cost
         /\ topmost(msg).caller = msg.from
         /\ topmost(msg).value = msg.value
         /\ msg.to = Creation =>
              /\ topmost(msg).type = "Create" /\ topmost(msg).op = "CREATE"
              /\ topmost(msg).address = CreateAddress(msg.from, GetNonce(Base, tree, msg.from))
         /\ msg.to # Creation =>
              /\ topmost(msg).type = "Call" /\ topmost(msg).op = "CALL"
              /\ topmost(msg).address = msg.to
              /\ topmost(msg).code = GetCode(Base, Codes, tree, msg.to)
  <1> DEFINE gas == msg.gas - intrinsicGas(msg).cost
             new == CreateAddress(msg.from, GetNonce(Base, tree, msg.from))
             code == GetCode(Base, Codes, tree, msg.to)
  <1>1. msg \in Messages /\ tree \in Trees
    BY DEF TypeInv, TypeOK
  <1>2. /\ msg.from \in Addrs /\ msg.value \in Nat /\ msg.gas \in Gas
        /\ msg.input \in Codes /\ msg.to \in Addrs \cup {Creation}
    BY <1>1 DEF Messages, Gas
  <1>3. gas \in Gas
    <2>1. intrinsicGas(msg).cost \in Nat /\ msg.gas \in Nat
      <3>1. intrinsicGas(msg).cost \in Nat
        BY <1>1, IntrinsicType
      <3> QED
        BY <1>2, <3>1, TxnConstants DEF Gas
    <2>2. ~(msg.gas < intrinsicGas(msg).cost)
      BY <2>1 DEF TypeInv, Started
    <2> QED
      BY <1>2, <2>1, <2>2, GasMinus
  <1>4. new \in Addrs
    BY <1>1, <1>2, ReadType DEF CreationsStay
  <1>5. msg.to # Creation => code \in Codes
    BY <1>1, <1>2, ReadType
  <1>6. {"Create", "Call"} \subseteq CallTypes /\ {"CREATE", "CALL"} \subseteq CallOps
    BY DEF CallTypes, CallOps
  <1>7. topmost(msg) =
          IF msg.to = Creation
          THEN NewContract("Create", "CREATE", msg.from, new, msg.value, gas, msg.input)
          ELSE NewContract("Call", "CALL", msg.from, msg.to, msg.value, gas, code)
    BY Zenon DEF topmost
  <1> HIDE DEF gas, new, code
  <1>8. CASE msg.to = Creation
    <2> DEFINE c == NewContract("Create", "CREATE", msg.from, new, msg.value, gas, msg.input)
    <2>1. /\ c \in Calls /\ c.type = "Create" /\ c.op = "CREATE" /\ c.caller = msg.from
          /\ c.address = new /\ c.value = msg.value /\ c.gas = gas
      BY <1>2, <1>3, <1>4, <1>6, ContractType
    <2> HIDE DEF c
    <2> QED
      BY <1>7, <1>8, <2>1 DEF c, new, gas
  <1>9. CASE msg.to # Creation
    <2> DEFINE c == NewContract("Call", "CALL", msg.from, msg.to, msg.value, gas, code)
    <2>1. /\ c \in Calls /\ c.type = "Call" /\ c.op = "CALL" /\ c.caller = msg.from
          /\ c.address = msg.to /\ c.value = msg.value /\ c.gas = gas /\ c.code = code
      BY <1>2, <1>3, <1>5, <1>6, <1>9, ContractType
    <2> HIDE DEF c
    <2> QED
      BY <1>7, <1>9, <2>1 DEF c, code, gas
  <1> QED
    BY <1>8, <1>9

\* It may write.
LEMMA TopmostWrites == ~topmost(msg).static
  <1>1. \E type, op, from, to, value, gas, code :
          topmost(msg) = NewContract(type, op, from, to, value, gas, code)
    BY Zenon DEF topmost
  <1> QED
    BY <1>1, ContractWrites, Zenon

-----------------------------------------------------------------------------
(* Every behaviour is well typed.                                          *)

LEMMA TypeInit == Init => TypeInv
  <1> SUFFICES ASSUME Init PROVE TypeInv
    OBVIOUS
  <1>1. << >> \in Seq(Frames) /\ 0 \in 0 .. Word - 1 /\ NewTree \in Trees
    BY TxnConstants, NewTreeType
  <1>2. NoResult \in Lasts
    BY LastType
  <1>3. TypeOK
    BY <1>1, <1>2, BlockConstants DEF Init, TypeOK, Lasts
  <1> QED
    BY <1>3 DEF Init, TypeInv, Started

LEMMA AcceptType ==
  ASSUME TypeInv, NEW m \in Transactions, Accept(m)
  PROVE  TypeInv'
  <1> DEFINE bought == SubBalance(Base, tree, m.from, upfrontGasCost(m))
  <1>1. m \in Messages /\ tree \in Trees /\ gasPool \in Gas
    BY BlockConstants DEF TypeInv, TypeOK, Gas
  <1>2. m.from \in Addrs /\ m.gas \in Gas /\ m.gasPrice \in Nat /\ m.nonce \in Nat
    BY <1>1 DEF Messages, Gas
  <1>3. m.gas \in Nat
    BY <1>2, TxnConstants DEF Gas
  <1>4. upfrontGasCost(m) \in Nat
    BY <1>2, <1>3 DEF upfrontGasCost
  <1>5. bought \in Trees
    BY <1>1, <1>2, <1>4, WriterType, BlockConstants
  <1>6. IncrNonce(Base, bought, m.from) \in Trees
    <2> HIDE DEF bought
    <2> QED
      BY <1>2, <1>5, WriterType, BlockConstants
  <1>7. /\ preCheck(m) = "" /\ msg' = m /\ gasPool' = gasPool - m.gas /\ txs' = txs + 1
        /\ tree' = IF m.to = Creation THEN bought ELSE IncrNonce(Base, bought, m.from)
        /\ txStart' = tree /\ applied' = applied \cup {<<m.from, m.nonce>>}
        /\ UNCHANGED <<totalGas, frames, last, steps, destroyed>>
    BY DEF Accept
  <1>8. ~(gasPool < m.gas) /\ ~(m.gas < intrinsicGas(m).cost)
    BY <1>1, <1>7, Checked
  <1>9. intrinsicGas(m).cost <= m.gas
    <2>1. intrinsicGas(m).cost \in Nat
      BY <1>1, IntrinsicType
    <2> QED
      BY <1>3, <1>8, <2>1
  <1>10. gasPool' \in Gas
    BY <1>1, <1>3, <1>7, <1>8, GasMinus
  <1>11. tree' \in Trees
    BY <1>5, <1>6, <1>7
  <1>12. applied' \subseteq Addrs \X Nat
    <2>1. <<m.from, m.nonce>> \in Addrs \X Nat
      BY <1>2
    <2>2. applied \subseteq Addrs \X Nat
      BY DEF TypeInv, TypeOK
    <2> QED
      BY <1>7, <2>1, <2>2
  <1>13. m # NoMsg
    BY <1>1, BlockConstants
  <1>14. TypeOK'
    <2>1. /\ totalGas \in Gas /\ frames \in Seq(Frames) /\ last \in Lasts /\ txs \in Nat
          /\ steps \in Nat /\ destroyed \in BOOLEAN
      BY DEF TypeInv, TypeOK, Gas, Lasts
    <2>2. /\ totalGas' \in Gas /\ frames' \in Seq(Frames) /\ last' \in Lasts
          /\ steps' \in Nat /\ destroyed' \in BOOLEAN
          /\ txStart' \in Trees /\ msg' \in Messages \cup {NoMsg}
      BY <1>1, <1>7, <2>1, Zenon
    <2>3. txs' \in Nat
      <3>1. txs' = txs + 1 /\ txs \in Nat
        BY <1>7, <2>1, Zenon
      <3> QED
        BY <3>1
    <2> QED
      BY <1>10, <1>11, <1>12, <2>2, <2>3 DEF TypeOK, Gas, Lasts
  <1> QED
    BY <1>7, <1>9, <1>13, <1>14 DEF TypeInv, Started

LEMMA RejectType ==
  ASSUME TypeInv, NEW m \in Transactions, Reject(m)
  PROVE  TypeInv'
  <1>1. m \in Messages /\ gasPool \in Gas
    BY BlockConstants DEF TypeInv, TypeOK, Gas
  <1>2. m.gas \in Gas
    BY <1>1 DEF Messages, Gas
  <1>3. m.gas \in Nat
    BY <1>2, TxnConstants DEF Gas
  <1>4. /\ preCheck(m) # "" /\ txs' = txs + 1
        /\ gasPool' = IF preCheck(m) \in LateErrors THEN gasPool - m.gas ELSE gasPool
        /\ last' = [NoResult EXCEPT !.op = "REJECTED", !.err = preCheck(m), !.used = m.gas]
        /\ UNCHANGED <<tree, totalGas, msg, frames, steps, txStart, applied, destroyed>>
    BY Zenon DEF Reject
  <1>5. preCheck(m) \in CheckErrors /\ (preCheck(m) \in LateErrors => ~(gasPool < m.gas))
    BY <1>1, <1>4, Checked
  <1>6. gasPool' \in Gas
    BY <1>1, <1>3, <1>4, <1>5, GasMinus
  <1>7. last' \in Lasts
    BY <1>3, <1>4, <1>5, LastType
  <1>8. TypeOK'
    <2>1. /\ tree \in Trees /\ totalGas \in Gas /\ frames \in Seq(Frames) /\ txs \in Nat
          /\ steps \in Nat /\ destroyed \in BOOLEAN /\ txStart \in Trees
          /\ msg \in Messages \cup {NoMsg} /\ applied \subseteq Addrs \X Nat
      BY DEF TypeInv, TypeOK, Gas
    <2>2. /\ tree' \in Trees /\ totalGas' \in Gas /\ frames' \in Seq(Frames)
          /\ steps' \in Nat /\ destroyed' \in BOOLEAN
          /\ txStart' \in Trees /\ msg' \in Messages \cup {NoMsg}
          /\ applied' \subseteq Addrs \X Nat
      BY <1>4, <2>1, Zenon
    <2>3. txs' \in Nat
      <3>1. txs' = txs + 1 /\ txs \in Nat
        BY <1>4, <2>1, Zenon
      <3> QED
        BY <3>1
    <2> QED
      BY <1>6, <1>7, <2>2, <2>3 DEF TypeOK, Gas, Lasts
  <1> QED
    BY <1>4, <1>8 DEF TypeInv, Started

LEMMA BeginType ==
  ASSUME CreationsStay, TypeInv, Begin
  PROVE  TypeInv'
  <1>1. /\ msg # NoMsg /\ Callx(<< >>, tree, topmost(msg))
        /\ steps' \in Nat /\ destroyed' \in BOOLEAN
    BY DEF Begin, TypeInv, TypeOK
  <1>2. << >> \in Seq(Frames)
    OBVIOUS
  <1>3. topmost(msg) \in Calls
    BY <1>1, TopmostCall
  <1> QED
    BY <1>1, <1>2, <1>3, CallxType

LEMMA StepType ==
  ASSUME TypeInv, Stepped
  PROVE  TypeInv'
  <1>1. /\ frames # << >> /\ frames \in Seq(Frames) /\ tree \in Trees
        /\ steps' \in Nat /\ destroyed \in BOOLEAN
    BY DEF Stepped, TypeInv, TypeOK
  <1>2. msg # NoMsg
    BY <1>1 DEF TypeInv, Started
  <1>3. running \in Frames /\ callers \in Seq(Frames)
    BY <1>1, Topmost
  <1>4. running.op \in CallOps
    BY <1>3 DEF Frames
  <1>5. CASE \E t \in Trees, g \in Gas : Goes(t, g)
    <2>1. PICK t \in Trees, g \in Gas : Goes(t, g)
      BY <1>5
    <2>2. /\ tree' = t /\ frames' = setGas(frames, g)
          /\ UNCHANGED <<gasPool, totalGas, msg, txs, txStart, applied, last, destroyed>>
      BY <2>1 DEF Goes, block
    <2>3. frames' \in Seq(Frames) /\ frames' # << >>
      BY <1>1, <2>2, SetGas
    <2>4. /\ gasPool \in Gas /\ totalGas \in Gas /\ msg \in Messages \cup {NoMsg}
          /\ last \in Lasts /\ txs \in Nat /\ txStart \in Trees
          /\ applied \subseteq Addrs \X Nat
      BY DEF TypeInv, TypeOK, Gas, Lasts
    <2>5. /\ gasPool' \in Gas /\ totalGas' \in Gas /\ msg' \in Messages \cup {NoMsg}
          /\ last' \in Lasts /\ txs' \in Nat /\ txStart' \in Trees
          /\ applied' \subseteq Addrs \X Nat /\ destroyed' \in BOOLEAN /\ tree' \in Trees
      BY <1>1, <2>2, <2>4
    <2>6. TypeOK'
      BY <1>1, <2>3, <2>5 DEF TypeOK, Gas, Lasts
    <2> QED
      BY <1>2, <2>2, <2>6 DEF TypeInv, Started
  <1>6. CASE \E t \in Trees, res \in Runs : Ends(t, res)
    <2>1. PICK t \in Trees, res \in Runs : Ends(t, res)
      BY <1>6
    <2>2. Return(callers, running.op, leave(running, t, res)) /\ destroyed' \in BOOLEAN
      BY <1>1, <2>1 DEF Ends, RanTo
    <2>3. leave(running, t, res) \in Results
      BY <1>3, LeaveType
    <2> QED
      BY <1>1, <1>2, <1>3, <1>4, <2>2, <2>3, ReturnType
  <1>7. CASE \E c \in Calls, g \in Gas : CallsOut(c, g)
    <2>1. PICK c \in Calls, g \in Gas : CallsOut(c, g)
      BY <1>7
    <2>2. Callx(setGas(frames, g), tree, c) /\ destroyed' \in BOOLEAN
      BY <1>1, <2>1 DEF CallsOut
    <2>3. setGas(frames, g) \in Seq(Frames)
      BY <1>1, SetGas
    <2> QED
      BY <1>1, <1>2, <2>2, <2>3, CallxType
  <1>8. CASE \E op \in CallOps, g \in Gas, given \in Gas : CannotPay(op, g, given)
    <2>1. PICK op \in CallOps, g \in Gas, given \in Gas : CannotPay(op, g, given)
      BY <1>8
    <2>2. /\ Return(setGas(frames, g), op, result("bad", given, tree))
          /\ destroyed' \in BOOLEAN
      BY <1>1, <2>1 DEF CannotPay
    <2>3. setGas(frames, g) \in Seq(Frames)
      BY <1>1, SetGas
    <2>4. "bad" \in RunErrors \cup HostErrors
      BY DEF HostErrors
    <2>5. result("bad", given, tree) \in Results
      BY <1>1, <2>4, ResultType
    <2> QED
      BY <1>1, <1>2, <2>2, <2>3, <2>5, ReturnType
  <1> QED
    BY <1>5, <1>6, <1>7, <1>8 DEF Stepped

LEMMA TypeNext ==
  ASSUME CreationsStay, TypeInv, [Next]_vars
  PROVE  TypeInv'
  <1>1. CASE UNCHANGED vars
    BY <1>1 DEF vars, TypeInv, TypeOK, Started
  <1>2. CASE Next
    BY <1>2, AcceptType, RejectType, StepForm, StepType, BeginType DEF Next
  <1> QED
    BY <1>1, <1>2

LEMMA TypeAlways ==
  ASSUME CreationsStay
  PROVE  Spec => []TypeInv
  <1>1. Init => TypeInv
    BY TypeInit
  <1>2. TypeInv /\ [Next]_vars => TypeInv'
    BY TypeNext
  <1> QED
    BY <1>1, <1>2, PTL DEF Spec

\* TypeOK: transactions, calls and settlements keep every counter of gas in a
\* uint64 (no check of consumeGas or of the pool is ever passed with less gas
\* than is taken), every balance a natural number, and every frame's snapshot
\* a tree, for all contracts, transactions and fork rules.
THEOREM BlockTypeCorrect ==
  ASSUME CreationsStay
  PROVE  Spec => []TypeOK
  <1>1. TypeInv => TypeOK
    BY DEF TypeInv
  <1>2. Spec => []TypeInv
    BY TypeAlways
  <1> QED
    BY <1>1, <1>2, PTL
=============================================================================

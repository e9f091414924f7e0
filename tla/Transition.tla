----------------------------- MODULE Transition -----------------------------
(***************************************************************************)
(* Transition (transition.go): the transactions of a block run one after   *)
(* the other on a shared overlay (TxnOps), each through the checks of      *)
(* apply, a stack of call frames, and the settlement of gas and fees.      *)
(*                                                                         *)
(* A frame runs the instructions that reach the state (runtime/evm/        *)
(* instructions.go) in any order: which ones a contract executes is its    *)
(* code's business.  Instructions that only compute are one action, and    *)
(* a precompiled contract is a frame of its own kind.  Gas is counted in   *)
(* uint64 arithmetic, modulo Word.  Op_word is Op with a plausible bug.    *)
(***************************************************************************)
EXTENDS TxnOps, FiniteSetsExt

CONSTANTS
  Base,             \* the accounts of the block's snapshot
  Transactions,     \* what Write may be given
  Coinbase,         \* TxContext.Coinbase
  GasLimit,         \* TxContext.GasLimit
  MaxCallDepth,     \* 1024 in the code
  CodeSize,         \* the length of each code
  Precompiles,      \* the addresses whose Precompiled.CanRun is true
  CreateAddress(_, _),   \* helper.CreateAddress(caller, nonce)
  CreateAddress2(_, _),  \* helper.CreateAddress2(caller, init code)
  Creation,         \* Transaction.To = nil
  NoMsg,            \* no transaction is running
  Targets,          \* addresses that instructions name
  CallGas,          \* gas that a call instruction asks for
  CallValues,       \* value that an instruction sends
  InitCodes,        \* init codes that CREATE and CREATE2 run
  Computing,        \* gas that the other instructions cost
  MaxTxs,           \* bound on the transactions of a block
  MaxSteps          \* bound on the instructions; 0: the gas is the bound

CallTypes == {"Call", "CallCode", "DelegateCall", "StaticCall", "Create"}

CallOps == {"CALL", "CALLCODE", "DELEGATECALL", "STATICCALL", "CREATE", "CREATE2"}

\* What EVM.Run and Precompiled.Run return ("": no error), what applyCall and
\* applyCreate return besides ("bad": the caller could not pay), and why
\* preCheck refuses a transaction.
RunErrors == {"", "ErrOutOfGas", "ErrExecutionReverted", "errWriteProtection",
              "errOpCodeNotFound", "errFault", "errInput"}

HostErrors == {"ErrDepth", "ErrContractAddressCollision", "ErrInsufficientBalance",
               "ErrCodeStoreOutOfGas", "ErrMaxCodeSizeExceeded", "bad"}

CheckErrors == {"ErrNonceIncorrect", "ErrNotEnoughFundsForGas",
                "ErrBlockLimitReached", "ErrIntrinsicGasOverflow",
                "ErrNotEnoughIntrinsicGas", "ErrNotEnoughFunds"}

Frames ==
  [type: CallTypes, op: CallOps,
   address: Addrs, codeAddress: Addrs, code: Codes, gas: 0 .. Word - 1,
   static: BOOLEAN, snapshot: Trees]

Messages ==
  [from: Addrs, to: Addrs \cup {Creation}, nonce: Nat, value: Nat,
   gas: 0 .. Word - 1, gasPrice: Nat, zeros: Nat, nonZeros: Nat, input: Codes]

ASSUME BlockConstants ==
  /\ Base \in Bases
  /\ Transactions \subseteq Messages
  /\ Coinbase \in Addrs
  /\ GasLimit \in 0 .. Word - 1
  /\ MaxCallDepth \in Nat
  /\ CodeSize \in [Codes -> Nat] /\ CodeSize[EmptyCode] = 0
  /\ Precompiles \subseteq Addrs
  /\ NoMsg \notin Messages /\ Creation \notin Addrs
  /\ Targets \subseteq Addrs
  /\ CallGas \subseteq 0 .. Word - 1
  /\ CallValues \subseteq Nat
  /\ InitCodes \subseteq Codes
  /\ Computing \subseteq Nat \ {0}

\* The gas counter is much wider than the cost of any one call (callCost).
ASSUME GasWidth == Word > 65 * 34700

VARIABLES
  tree,       \* the overlay's tree (Txn.txn)
  gasPool,    \* Transition.gasPool
  totalGas,   \* Transition.totalGas
  msg,        \* the transaction apply is running, or NoMsg
  frames,     \* the nested calls, the running one last
  last,       \* the result of the call or transaction that ended last
  txs, steps, \* counters for the bounds
  txStart,    \* the tree before the running, or the last, transaction
  applied,    \* sender and nonce of every transaction that passed preCheck
  destroyed   \* whether SELFDESTRUCT ever ran

vars == <<tree, gasPool, totalGas, msg, frames, last, txs, steps, txStart,
          applied, destroyed>>

block == <<gasPool, totalGas, msg, txs, txStart, applied>>

\* op: what ended ("" for none, "TX" for a transaction); err: its error;
\* pushed: whether the caller got a nonzero word; created: whether the state
\* of a creation was kept; used: the gas a transaction used, or asked for when
\* it was rejected; logs: how many its receipt has.
NoResult == [op |-> "", err |-> "", pushed |-> FALSE, created |-> FALSE,
             used |-> 0, logs |-> 0]

Init ==
  /\ tree = NewTree
  /\ gasPool = GasLimit
  /\ totalGas = 0
  /\ msg = NoMsg
  /\ frames = << >>
  /\ last = NoResult
  /\ txs = 0
  /\ steps = 0
  /\ txStart = NewTree
  /\ applied = {}
  /\ destroyed = FALSE

-----------------------------------------------------------------------------
(* Entering and leaving a call.                                            *)

\* A variant that reads the recipient's balance before the sender pays.
transfer_stale(t, from, to, amount) ==
  SetBalance(Base, SubBalance(Base, t, from, amount), to,
             GetBalance(Base, t, to) + amount)

transfer(t, from, to, amount) ==
  AddBalance(Base, SubBalance(Base, t, from, amount), to, amount)

hasCodeOrNonce(t, a) ==
  GetNonce(Base, t, a) # 0 \/ GetCodeHash(Base, t, a) \notin {EmptyCode, Zero}

\* The first half of applyCall, up to run: the tree, and the error and gas of
\* a call that does not get that far.  A failed transfer leaves the touch.
enterCall(t, c, depth) ==
  LET touched == TouchAccount(Base, t, c.address)
      broke == c.type = "Call" /\ NotEnoughFunds(Base, touched, c.caller, c.value)
  IN IF depth > MaxCallDepth + 1
     THEN [err |-> "ErrDepth", gasLeft |-> c.gas, tree |-> t, snapshot |-> t]
     ELSE IF broke
     THEN [err |-> "ErrInsufficientBalance", gasLeft |-> c.gas,
           tree |-> touched, snapshot |-> t]
     ELSE [err |-> "", gasLeft |-> c.gas, snapshot |-> t,
           tree |-> IF c.type = "Call"
                    THEN transfer(touched, c.caller, c.address, c.value)
                    ELSE touched]

\* A variant that takes the snapshot before it bumps the nonce.
enterCreate_snapshotFirst(t, c, depth) ==
  LET bumped == IncrNonce(Base, t, c.caller) IN
  IF hasCodeOrNonce(bumped, c.address)
  THEN [err |-> "ErrContractAddressCollision", gasLeft |-> 0,
        tree |-> bumped, snapshot |-> t]
  ELSE [err |-> "", gasLeft |-> c.gas, snapshot |-> t,
        tree |-> transfer(bumped, c.caller, c.address, c.value)]

\* The first half of applyCreate.  The caller's nonce stays bumped whatever
\* happens to the creation: it is bumped before the snapshot.
enterCreate(t, c, depth) ==
  LET bumped == IncrNonce(Base, t, c.caller)
      forced == IF Forks["EIP158"]
                THEN IncrNonce(Base, CreateAccount(Base, bumped, c.address), c.address)
                ELSE bumped
  IN IF depth > MaxCallDepth + 1
     THEN [err |-> "ErrDepth", gasLeft |-> c.gas, tree |-> t, snapshot |-> t]
     ELSE IF hasCodeOrNonce(bumped, c.address)
     THEN [err |-> "ErrContractAddressCollision", gasLeft |-> 0,
           tree |-> bumped, snapshot |-> bumped]
     ELSE IF NotEnoughFunds(Base, forced, c.caller, c.value)
     THEN [err |-> "ErrInsufficientBalance", gasLeft |-> c.gas,
           tree |-> forced, snapshot |-> bumped]
     ELSE [err |-> "", gasLeft |-> c.gas, snapshot |-> bumped,
           tree |-> transfer(forced, c.caller, c.address, c.value)]

enter(t, c, depth) ==
  IF c.type = "Create" THEN enterCreate(t, c, depth) ELSE enterCall(t, c, depth)

spuriousDragonMaxCodeSize == 24576

\* The ExecutionResult of a call: its error, its gas, the state it leaves;
\* created for a creation whose contract stays.
result(e, g, t) == [err |-> e, gasLeft |-> g, tree |-> t, created |-> FALSE]
created(e, g, t) == [err |-> e, gasLeft |-> g, tree |-> t, created |-> TRUE]

\* A variant that takes a revert for a success.
leaveCall_keepsReverted(f, t, res) ==
  result(res.err, res.gasLeft,
         IF res.err \in {"", "ErrExecutionReverted"} THEN t ELSE f.snapshot)

\* The second half of applyCall: an error, a revert included, takes the state
\* back to the snapshot.
leaveCall(f, t, res) ==
  result(res.err, res.gasLeft, IF res.err # "" THEN f.snapshot ELSE t)

\* A variant that refuses oversized code without reverting the creation.
leaveCreate_keepsOversized(f, t, res) ==
  IF res.err # "" \/ res.gasLeft < CodeSize[res.ret] * 200
  THEN result("failed", 0, IF CodeSize[res.ret] > spuriousDragonMaxCodeSize
                           THEN t ELSE f.snapshot)
  ELSE created("", 0, SetCode(Base, t, f.address, res.ret))

\* The second half of applyCreate: the returned code is paid for and stored.
\* Before Homestead a contract that cannot pay stays, without code.
leaveCreate(f, t, res) ==
  LET size == CodeSize[res.ret]
      gasCost == size * 200
  IN IF res.err # "" THEN result(res.err, res.gasLeft, f.snapshot)
     ELSE IF Forks["EIP158"] /\ size > spuriousDragonMaxCodeSize
     THEN result("ErrMaxCodeSizeExceeded", 0, f.snapshot)
     ELSE IF res.gasLeft < gasCost
     THEN IF Forks["Homestead"] THEN result("ErrCodeStoreOutOfGas", 0, f.snapshot)
          ELSE created("ErrCodeStoreOutOfGas", res.gasLeft, t)
     ELSE created("", res.gasLeft - gasCost, SetCode(Base, t, f.address, res.ret))

leave(f, t, res) ==
  IF f.type = "Create" THEN leaveCreate(f, t, res) ELSE leaveCall(f, t, res)

\* Variants: a code that could not be paid for always counts as a success, or
\* never does.
pushed_ignoresHomestead(op, err) == err \in {"", "ErrCodeStoreOutOfGas"}
pushed_successOnly(op, err) == err = ""

\* What opCall and opCreate push: zero for a failure, except that the address
\* of a creation that could not pay for its code is pushed where it stays.
pushed(op, err) ==
  IF op = "CREATE" /\ Forks["Homestead"] /\ err = "ErrCodeStoreOutOfGas" THEN FALSE
  ELSE err = "" \/ (op \in {"CREATE", "CREATE2"} /\ err = "ErrCodeStoreOutOfGas")

-----------------------------------------------------------------------------
(* Settling a transaction.                                                 *)

\* A variant that counts the used gas before the refund is taken off.
Settle_beforeRefund(t, err, callGas) ==
  LET gasUsed == msg.gas - callGas
      refund == Min({t.refund, gasUsed \div 2})
      fee == (gasUsed - refund) * msg.gasPrice
      repaid == AddBalance(Base, t, msg.from, msg.gas * msg.gasPrice - fee)
  IN /\ tree' = CleanDeleteObjects(DropLogs(AddBalance(Base, repaid, Coinbase, fee)), TRUE)
     /\ gasPool' = gasPool + callGas + refund
     /\ totalGas' = totalGas + gasUsed
     /\ frames' = << >>
     /\ last' = [NoResult EXCEPT !.op = "TX", !.err = err, !.used = gasUsed - refund]
     /\ msg' = NoMsg
     /\ UNCHANGED <<txs, txStart, applied>>

\* A variant that gives the refund to the sender and not back to the pool.
Settle_keepsRefund(t, err, callGas) ==
  LET gasUsed == msg.gas - callGas
      refund == Min({t.refund, gasUsed \div 2})
      fee == (gasUsed - refund) * msg.gasPrice
      repaid == AddBalance(Base, t, msg.from, msg.gas * msg.gasPrice - fee)
  IN /\ tree' = CleanDeleteObjects(DropLogs(AddBalance(Base, repaid, Coinbase, fee)), TRUE)
     /\ gasPool' = gasPool + callGas
     /\ totalGas' = totalGas + gasUsed - refund
     /\ frames' = << >>
     /\ last' = [NoResult EXCEPT !.op = "TX", !.err = err, !.used = gasUsed - refund]
     /\ msg' = NoMsg
     /\ UNCHANGED <<txs, txStart, applied>>

\* The rest of apply and of Write after the topmost call: the refund, capped
\* at half the gas used; the sender's unused gas; the coinbase's fee; the
\* pool; the logs; and CleanDeleteObjects.
Settle(t, err, callGas) ==
  LET gasUsed == (msg.gas - callGas) % Word
      maxRefund == gasUsed \div 2
      refund == Min({t.refund, maxRefund})
      left == (callGas + refund) % Word
      used == gasUsed - refund
      repaid == AddBalance(Base, t, msg.from, left * msg.gasPrice)
      paid == AddBalance(Base, repaid, Coinbase, used * msg.gasPrice)
  IN /\ tree' = CleanDeleteObjects(DropLogs(paid),
                                   Forks["Byzantium"] \/ Forks["EIP158"])
     /\ gasPool' = (gasPool + left) % Word
     /\ totalGas' = (totalGas + used) % Word
     /\ frames' = << >>
     /\ last' = [NoResult EXCEPT !.op = "TX", !.err = err, !.used = used,
                                !.logs = Len(t.logs)]
     /\ msg' = NoMsg
     /\ UNCHANGED <<txs, txStart, applied>>

\* A call with result r returns to the frames below it; the caller gets the
\* gas left over.  Below the first frame is apply.
Return(below, op, r) ==
  IF below = << >> THEN Settle(r.tree, r.err, r.gasLeft)
  ELSE /\ tree' = r.tree
       /\ frames' = [below EXCEPT ![Len(below)].gas = (@ + r.gasLeft) % Word]
       /\ last' = [NoResult EXCEPT !.op = op, !.err = r.err,
                                  !.pushed = pushed(op, r.err),
                                  !.created = r.created]
       /\ UNCHANGED block

\* Callx: the contract's frame goes on the stack, unless the call fails first.
Callx(below, t, c) ==
  LET e == enter(t, c, Len(below) + 1)
      f == [type |-> c.type, op |-> c.op, address |-> c.address,
            codeAddress |-> c.codeAddress, code |-> c.code, gas |-> c.gas,
            static |-> c.static, snapshot |-> e.snapshot]
  IN IF e.err # ""
     THEN Return(below, c.op, result(e.err, e.gasLeft, e.tree))
     ELSE /\ tree' = e.tree
          /\ frames' = Append(below, f)
          /\ UNCHANGED <<block, last>>

-----------------------------------------------------------------------------
(* Accepting a transaction.                                                *)

\* TransactionGasCost, "" standing for no error.
intrinsicGas(m) ==
  LET start == IF m.to = Creation /\ Forks["Homestead"] THEN 53000 ELSE 21000
      nonZeroCost == IF Forks["Istanbul"] THEN 16 ELSE 68
      withNonZeros == start + m.nonZeros * nonZeroCost
      overflow == \/ (Word - 1 - start) \div nonZeroCost < m.nonZeros
                  \/ (Word - 1 - withNonZeros) \div 4 < m.zeros
  IN IF overflow THEN [err |-> "ErrIntrinsicGasOverflow", cost |-> 0]
     ELSE [err |-> "", cost |-> withNonZeros + m.zeros * 4]

upfrontGasCost(m) == m.gas * m.gasPrice

\* A variant that checks the value on the balance before the gas is bought.
preCheck_valueFirst(m) ==
  IF GetNonce(Base, tree, m.from) # m.nonce THEN "ErrNonceIncorrect"
  ELSE IF NotEnoughFunds(Base, tree, m.from, upfrontGasCost(m))
  THEN "ErrNotEnoughFundsForGas"
  ELSE IF gasPool < m.gas THEN "ErrBlockLimitReached"
  ELSE IF intrinsicGas(m).err # "" THEN intrinsicGas(m).err
  ELSE IF m.gas < intrinsicGas(m).cost THEN "ErrNotEnoughIntrinsicGas"
  ELSE IF GetBalance(Base, tree, m.from) < m.value THEN "ErrNotEnoughFunds"
  ELSE ""

\* The error of the first check of preCheck that fails, "" if all pass.  The
\* last one is made on the balance that is left after buying the gas.
preCheck(m) ==
  LET bought == SubBalance(Base, tree, m.from, upfrontGasCost(m)) IN
  IF GetNonce(Base, tree, m.from) # m.nonce THEN "ErrNonceIncorrect"
  ELSE IF NotEnoughFunds(Base, tree, m.from, upfrontGasCost(m))
  THEN "ErrNotEnoughFundsForGas"
  ELSE IF gasPool < m.gas THEN "ErrBlockLimitReached"
  ELSE IF intrinsicGas(m).err # "" THEN intrinsicGas(m).err
  ELSE IF m.gas < intrinsicGas(m).cost THEN "ErrNotEnoughIntrinsicGas"
  ELSE IF GetBalance(Base, bought, m.from) < m.value THEN "ErrNotEnoughFunds"
  ELSE ""

\* The checks that come after subGasPool.
LateErrors ==
  {"ErrIntrinsicGasOverflow", "ErrNotEnoughIntrinsicGas", "ErrNotEnoughFunds"}

\* Write, when preCheck fails: applyImpl reverts the overlay; the gas taken
\* from the pool is not given back.
Reject(m) ==
  LET err == preCheck(m) IN
  /\ msg = NoMsg
  /\ txs < MaxTxs
  /\ err # ""
  /\ txs' = txs + 1
  /\ gasPool' = IF err \in LateErrors THEN gasPool - m.gas ELSE gasPool
  /\ last' = [NoResult EXCEPT !.op = "REJECTED", !.err = err, !.used = m.gas]
  /\ UNCHANGED <<tree, totalGas, msg, frames, steps, txStart, applied, destroyed>>

\* A variant that leaves the nonce to the creations.
Accept_noNonce(m) ==
  /\ msg = NoMsg
  /\ txs < MaxTxs
  /\ preCheck(m) = ""
  /\ txs' = txs + 1
  /\ msg' = m
  /\ gasPool' = gasPool - m.gas
  /\ tree' = SubBalance(Base, tree, m.from, upfrontGasCost(m))
  /\ txStart' = tree
  /\ applied' = applied \cup {<<m.from, m.nonce>>}
  /\ UNCHANGED <<totalGas, frames, last, steps, destroyed>>

\* Write and apply up to Call or Create.
Accept(m) ==
  LET bought == SubBalance(Base, tree, m.from, upfrontGasCost(m)) IN
  /\ msg = NoMsg
  /\ txs < MaxTxs
  /\ preCheck(m) = ""
  /\ txs' = txs + 1
  /\ msg' = m
  /\ gasPool' = gasPool - m.gas
  /\ tree' = IF m.to = Creation THEN bought ELSE IncrNonce(Base, bought, m.from)
  /\ txStart' = tree
  /\ applied' = applied \cup {<<m.from, m.nonce>>}
  /\ UNCHANGED <<totalGas, frames, last, steps, destroyed>>

\* A contract that may write: NewContractCreation and NewContractCall.
NewContract(type, op, from, to, value, gas, code) ==
  [type |-> type, op |-> op, caller |-> from, address |-> to, codeAddress |-> to,
   value |-> value, gas |-> gas, static |-> FALSE, code |-> code]

\* Transition.Create and Transition.Call: the topmost contract, at depth 1.
topmost(m) ==
  LET gas == m.gas - intrinsicGas(m).cost
      new == CreateAddress(m.from, GetNonce(Base, tree, m.from))
  IN IF m.to = Creation
     THEN NewContract("Create", "CREATE", m.from, new, m.value, gas, m.input)
     ELSE NewContract("Call", "CALL", m.from, m.to, m.value, gas,
                      GetCode(Base, Codes, tree, m.to))

Begin ==
  /\ msg # NoMsg
  /\ frames = << >>
  /\ Callx(<< >>, tree, topmost(msg))
  /\ UNCHANGED <<steps, destroyed>>

-----------------------------------------------------------------------------
(* The instructions, run by the last frame.                                *)

running == frames[Len(frames)]
callers == SubSeq(frames, 1, Len(frames) - 1)

CanStep ==
  /\ frames # << >>
  /\ IF MaxSteps = 0 THEN UNCHANGED steps
     ELSE steps < MaxSteps /\ steps' = steps + 1

\* A frame of the EVM that has an instruction left: empty code just stops.
InEVM ==
  /\ frames # << >>
  /\ running.codeAddress \notin Precompiles
  /\ running.code # EmptyCode
  /\ CanStep

\* EVM.Run returns with the state t: an error other than a revert takes all
\* the gas.
Finish(t, err, gas, ret) ==
  Return(callers, running.op,
         leave(running, t, [err |-> err, ret |-> ret,
                            gasLeft |-> IF err \in {"", "ErrExecutionReverted"}
                                        THEN gas ELSE 0]))

exit(err) == Finish(tree, err, 0, EmptyCode) /\ UNCHANGED destroyed

\* A variant of consumeGas that does not look at what is left.
Instruction_unchecked(err, gas, t) ==
  IF err # "" THEN exit(err)
  ELSE /\ tree' = t
       /\ frames' = [frames EXCEPT ![Len(frames)].gas = @ - gas]
       /\ UNCHANGED <<block, last, destroyed>>

\* An instruction that costs gas, fails for the reason err if there is one,
\* and otherwise leaves the tree t.
Instruction(err, gas, t) ==
  IF err # "" THEN exit(err)
  ELSE IF running.gas < gas THEN exit("ErrOutOfGas")
  ELSE /\ tree' = t
       /\ frames' = [frames EXCEPT ![Len(frames)].gas = @ - gas]
       /\ UNCHANGED <<block, last, destroyed>>

writeProtection == IF running.static THEN "errWriteProtection" ELSE ""

\* The cost opSStore charges for each StorageStatus.
sstoreCost(status) ==
  IF status \in {"Unchanged", "ModifiedAgain"}
  THEN IF Forks["Istanbul"] THEN 800 ELSE IF legacyGasMetering THEN 5000 ELSE 200
  ELSE IF status = "Added" THEN 20000 ELSE 5000

opSStore(k, v) ==
  LET a == running.address
      status == StorageStatus(GetCommittedState(Base, tree, a, k),
                              GetState(Base, tree, a, k), v)
      stipend == Forks["Istanbul"] /\ running.gas <= 2300
  IN /\ InEVM
     /\ Instruction(IF running.static THEN "errWriteProtection"
                    ELSE IF stipend THEN "ErrOutOfGas" ELSE "",
                    sstoreCost(status), SetStorage(Base, tree, a, k, v))

opLog(topics) ==
  /\ InEVM
  /\ Instruction(writeProtection, 375 + 375 * topics, EmitLog(tree, running.address))

\* Arithmetic, memory, jumps and reads: they cost gas and change no state.
Compute(gas) == InEVM /\ Instruction("", gas, tree)

\* An unknown opcode, a bad jump, the stack's limits, and so on.
Fault == InEVM /\ exit("errFault")

\* The cost of a SELFDESTRUCT, higher when it makes a new account.
selfDestructCost(a, beneficiary) ==
  LET fresh == IF Forks["EIP158"]
               THEN Empty(Base, tree, beneficiary) /\ GetBalance(Base, tree, a) # 0
               ELSE ~Exist(Base, tree, beneficiary)
  IN IF ~Forks["EIP150"] THEN 0 ELSE IF fresh THEN 30000 ELSE 5000

opSelfDestruct(beneficiary) ==
  LET a == running.address
      gas == selfDestructCost(a, beneficiary)
  IN /\ InEVM
     /\ IF running.static THEN exit("errWriteProtection")
        ELSE IF running.gas < gas THEN exit("ErrOutOfGas")
        ELSE /\ Finish(Selfdestruct(Base, tree, a, beneficiary), "",
                       running.gas - gas, EmptyCode)
             /\ destroyed' = TRUE

\* STOP, RETURN and running off the end of the code.  Only a creation's return
\* value is looked at: it is the new contract's code.
opReturn(ret) ==
  /\ frames # << >>
  /\ running.codeAddress \notin Precompiles
  /\ ret = EmptyCode \/ (running.type = "Create" /\ running.code # EmptyCode)
  /\ Finish(tree, "", running.gas, ret)
  /\ UNCHANGED <<steps, destroyed>>

opRevert ==
  /\ InEVM
  /\ IF Forks["Byzantium"]
     THEN Finish(tree, "ErrExecutionReverted", running.gas, EmptyCode)
          /\ UNCHANGED destroyed
     ELSE exit("errOpCodeNotFound")

\* Precompiled.Run: it costs gas, and may reject its input.
RunPrecompiled(gas, ok) ==
  /\ frames # << >>
  /\ running.codeAddress \in Precompiles
  /\ IF running.gas < gas THEN Finish(tree, "ErrOutOfGas", 0, EmptyCode)
     ELSE Finish(tree, IF ok THEN "" ELSE "errInput", running.gas - gas, EmptyCode)
  /\ UNCHANGED <<steps, destroyed>>

types == [CALL |-> "Call", CALLCODE |-> "CallCode",
          DELEGATECALL |-> "DelegateCall", STATICCALL |-> "StaticCall"]

\* Why opCall stops before it pops its arguments.
callError(op, value) ==
  IF op = "CALL" /\ running.static /\ value # 0 THEN "errWriteProtection"
  ELSE IF \/ op = "DELEGATECALL" /\ ~Forks["Homestead"]
          \/ op = "STATICCALL" /\ ~Forks["Byzantium"]
  THEN "errOpCodeNotFound" ELSE ""

\* Variants: sending value, or any call at all, costs nothing.
callCost_freeValue(op, a, value) == 700
callCost_free(op, a, value) == 0

\* The part of a call's cost that is not handed to the callee.
callCost(op, a, value) ==
  LET unknown == IF Forks["EIP158"] THEN value # 0 /\ Empty(Base, tree, a)
                 ELSE ~Exist(Base, tree, a)
  IN (IF Forks["EIP150"] THEN 700 ELSE 40)
     + (IF op = "CALL" /\ unknown THEN 25000 ELSE 0)
     + (IF value # 0 THEN 9000 ELSE 0)

\* The gas handed to the callee: since EIP-150 all but a 64th of what is left
\* at most, before it whatever was asked for.
calleeGas(asked, cost) ==
  LET left == (running.gas - cost) % Word
      available == left - (left \div 64)
  IN IF Forks["EIP150"] /\ available < asked THEN available ELSE asked

\* A variant: only the STATICCALL itself is static.
childStatic_ownOnly(op) == op = "STATICCALL"

\* Whether the running contract can send the value.
canPay(value) == value = 0 \/ GetBalance(Base, tree, running.address) >= value

\* Static is inherited by everything a static call runs.
childStatic(op) == op = "STATICCALL" \/ running.static

\* opCall and buildCallContract.  The sum of cost and callee gas is a uint64.
opCall(op, a, value, asked) ==
  LET cost == callCost(op, a, value)
      gas == calleeGas(asked, cost)
      gasCost == (cost + gas) % Word
      given == IF value # 0 THEN (gas + 2300) % Word ELSE gas
      c == [type |-> types[op], op |-> op, caller |-> running.address,
            address |-> IF op \in {"CALLCODE", "DELEGATECALL"}
                        THEN running.address ELSE a,
            codeAddress |-> a, value |-> value, gas |-> given,
            static |-> childStatic(op),
            code |-> GetCode(Base, Codes, tree, a)]
      paid == [frames EXCEPT ![Len(frames)].gas = @ - gasCost]
  IN /\ InEVM
     /\ op \in {"DELEGATECALL", "STATICCALL"} => value = 0
     /\ IF callError(op, value) # "" THEN exit(callError(op, value))
        ELSE IF running.gas < gasCost THEN exit("ErrOutOfGas")
        ELSE IF ~canPay(value)
        THEN /\ Return(paid, op, result("bad", given, tree))
             /\ UNCHANGED destroyed
        ELSE Callx(paid, tree, c) /\ UNCHANGED destroyed

createError(op) ==
  IF running.static THEN "errWriteProtection"
  ELSE IF op = "CREATE2" /\ ~Forks["Constantinople"] THEN "errOpCodeNotFound"
  ELSE ""

createGas == 32000

\* opCreate and buildCreateContract: createGas, for CREATE2 the hash of the init
\* code too, and since EIP-150 all but a 64th of the rest for the creation.  A
\* caller that cannot pay the value just gets a zero.
opCreate(op, init, value) ==
  LET hashing == IF op = "CREATE2" THEN ((CodeSize[init] + 31) \div 32) * 6 ELSE 0
      rest == running.gas - createGas - hashing
      gas == IF Forks["EIP150"] \/ op = "CREATE2" THEN rest - (rest \div 64) ELSE rest
      a == running.address
      address == IF op = "CREATE" THEN CreateAddress(a, GetNonce(Base, tree, a))
                 ELSE CreateAddress2(a, init)
      c == NewContract("Create", op, a, address, value, gas, init)
      minus(n) == [frames EXCEPT ![Len(frames)].gas = @ - n]
  IN /\ InEVM
     /\ IF running.gas < createGas THEN exit("ErrOutOfGas")
        ELSE IF createError(op) # "" THEN exit(createError(op))
        ELSE IF ~canPay(value)
        THEN /\ Return(minus(createGas), op, result("bad", 0, tree))
             /\ UNCHANGED destroyed
        ELSE IF rest < 0 THEN exit("ErrOutOfGas")
        ELSE Callx(minus(createGas + hashing + gas), tree, c) /\ UNCHANGED destroyed

Step ==
  \/ Begin
  \/ \E k \in Keys, v \in Vals : opSStore(k, v)
  \/ \E topics \in {0, 1} : opLog(topics)
  \/ \E gas \in Computing : Compute(gas)
  \/ Fault
  \/ \E beneficiary \in Targets : opSelfDestruct(beneficiary)
  \/ \E ret \in Codes : opReturn(ret)
  \/ opRevert
  \/ \E gas \in Computing, ok \in BOOLEAN : RunPrecompiled(gas, ok)
  \/ \E op \in DOMAIN types, a \in Targets, value \in CallValues, gas \in CallGas :
       opCall(op, a, value, gas)
  \/ \E op \in {"CREATE", "CREATE2"}, init \in InitCodes, value \in CallValues :
       opCreate(op, init, value)

Next ==
  \/ \E m \in Transactions : Accept(m)
  \/ \E m \in Transactions : Reject(m)
  \/ Step

Spec == Init /\ [][Next]_vars

\* Write is synchronous: once a transaction runs, its instructions go on.
FairSpec == Spec /\ WF_vars(Step)

-----------------------------------------------------------------------------
(* Properties.                                                             *)

\* The state has its types: the tree and the frames' snapshots are trees, and
\* gas counters stay in their width.
TypeOK ==
  /\ tree \in Trees
  /\ gasPool \in 0 .. Word - 1
  /\ totalGas \in 0 .. Word - 1
  /\ msg \in Messages \cup {NoMsg}
  /\ frames \in Seq(Frames)
  /\ last \in [op: CallOps \cup {"", "TX", "REJECTED"},
               err: RunErrors \cup HostErrors \cup CheckErrors,
               pushed: BOOLEAN, created: BOOLEAN, used: Nat, logs: Nat]
  /\ txs \in Nat /\ steps \in Nat
  /\ txStart \in Trees
  /\ applied \subseteq Addrs \X Nat
  /\ destroyed \in BOOLEAN

Total(f) == MapThenSumSet(LAMBDA x : f[x], DOMAIN f)

Worth(t) == Total([a \in Addrs |-> GetBalance(Base, t, a)])

\* The ether of the block: the balances and the gas that was bought.
Supply == Worth(tree) + (IF msg = NoMsg THEN 0 ELSE msg.gas * msg.gasPrice)

\* Buying gas, transfers, nested failures, refunds and fees neither mint nor
\* lose ether, at any point of any transaction; only SELFDESTRUCT may burn it.
SupplyConserved ==
  /\ Supply <= Worth(NewTree)
  /\ ~destroyed => Supply = Worth(NewTree)

\* A transaction whose topmost call fails changes nothing but the sender's
\* nonce, the sender's balance and the coinbase's by the fee; its receipt has
\* no logs.  (Before Homestead a creation that cannot pay for its code stays.)
FailedTxOnlyPaysFee ==
  [][(msg # NoMsg /\ msg' = NoMsg /\ last'.err # "" /\ Forks["Homestead"]) =>
       LET fee == last'.used * msg.gasPrice IN
       /\ last'.logs = 0
       /\ \A a \in Addrs :
            /\ GetBalance(Base, tree', a) = GetBalance(Base, txStart, a)
                 - (IF a = msg.from THEN fee ELSE 0)
                 + (IF a = Coinbase THEN fee ELSE 0)
            /\ GetNonce(Base, tree', a) = GetNonce(Base, txStart, a)
                 + (IF a = msg.from THEN 1 ELSE 0)
            /\ GetCode(Base, Codes, tree', a) = GetCode(Base, Codes, txStart, a)
            /\ \A k \in Keys :
                 GetState(Base, tree', a, k) = GetState(Base, txStart, a, k)]_vars

\* What a static call must leave alone; touching an account is no write.
Writes(t) ==
  [logs |-> t.logs, refund |-> t.refund,
   accounts |-> [a \in Addrs |->
     [nonce |-> GetNonce(Base, t, a), balance |-> GetBalance(Base, t, a),
      code |-> GetCode(Base, Codes, t, a), suicide |-> HasSuicided(Base, t, a),
      storage |-> [k \in Keys |-> GetState(Base, t, a, k)]]]]

\* Nothing that runs under a STATICCALL, however deep and through whatever kind
\* of call, writes: the state is the one the static frame started from.
StaticCallWritesNothing ==
  \A i \in 1 .. Len(frames) :
    frames[i].static => Writes(tree) = Writes(frames[i].snapshot)

\* The gas of all nested frames together never exceeds what the sender bought
\* beyond the intrinsic cost: calls divide gas, they do not create it.
GasNeverMinted ==
  frames # << >> =>
    Total([i \in DOMAIN frames |-> frames[i].gas]) <= msg.gas - intrinsicGas(msg).cost

\* The gas that the block has used, is using and may still use.
BlockGas == gasPool + totalGas + (IF msg = NoMsg THEN 0 ELSE msg.gas)

\* It fits the limit of the block.
PoolBounded == BlockGas <= GasLimit

\* And none of it gets lost: what a transaction bought is used or goes back to
\* the pool, refund and leftover of the calls included.  The one exception is
\* what apply does when check 4, 5 or 6 fails: preCheck has taken the gas from
\* the pool, and applyImpl reverts the overlay only.
PoolConserved ==
  [][BlockGas' # BlockGas =>
       /\ msg = NoMsg /\ msg' = NoMsg
       /\ last'.op = "REJECTED" /\ last'.err \in LateErrors
       /\ BlockGas' = BlockGas - last'.used]_vars

\* Whether Write asks CleanDeleteObjects to delete the empty accounts.
Clearing == Forks["Byzantium"] \/ Forks["EIP158"]

\* No logs, no refund, and among the accounts that were written none that is
\* marked by SELFDESTRUCT and, if those are cleared, none that is empty.
Swept(t) ==
  /\ t.logs = << >> /\ t.refund = 0
  /\ \A a \in Addrs : t.objs[a] # NoObject /\ ~t.objs[a].deleted =>
       ~t.objs[a].suicide /\ (Clearing => ~isEmpty(t.objs[a]))

\* Txn.Commit cleans nothing up, so Write must: between two transactions, and
\* when the block is committed, nothing is left over of the one before, whether
\* it succeeded, failed or was rejected, and whom it paid or touched last.
NothingLeftOver == msg = NoMsg => Swept(tree)

\* A transaction that passed preCheck cannot pass it again: the sender's nonce
\* has moved on, also when the transaction failed and was reverted.
NoReplay ==
  (msg = NoMsg \/ frames # << >>) =>
    \A p \in applied : GetNonce(Base, tree, p[1]) > p[2]

\* The transfers of applyCall and applyCreate, whose failure path forgets to
\* revert, never fail: preCheck and the call instructions made sure of it.
TransferNeverFails == last.err # "ErrInsufficientBalance"

\* CREATE gives its caller an address exactly when a contract was left there.
CreateTellsTruth == last.op = "CREATE" => (last.pushed <=> last.created)

\* Every transaction ends: its gas runs out if nothing else stops it.
Terminates == (msg # NoMsg) ~> (msg = NoMsg)
=============================================================================

------------------------------ MODULE Machine ------------------------------
(***************************************************************************)
(* EVM.Run and state.Run (runtime/evm/evm.go, state.go): contracts run on  *)
(* machines taken from a pool, instruction by instruction, with a stack of *)
(* reused slots, a memory that is paid for as it grows, a bitmap of jump   *)
(* destinations, and calls that run on a machine of their own.             *)
(*                                                                         *)
(* The dispatch table and the instructions are the code's; SSTORE,         *)
(* SELFDESTRUCT, CREATE and CREATE2, which are about the state, are        *)
(* modelled in Transition and do not occur in the programs here.  What the *)
(* host answers, and keccak, are given operators.  A call of a precompiled *)
(* contract goes to Precompiled.  Byte slices are values.                  *)
(***************************************************************************)
EXTENDS Precompiled, TLC

CONSTANTS
  StackSize,      \* 1024 in the code
  MemLimit,       \* 0xffffffffe0
  QuadDivisor,    \* 512
  MaxRuns,        \* how many runs are started from outside
  Programs(_),    \* the contracts of the first, second, ... of them
  Contracts,      \* the code at each address
  HostWord(_, _), \* what the host answers to an instruction about a word
  Keccak(_),      \* the hash of some bytes
  AddressSpan,    \* 2^160: an address is a word modulo this
  NilValue        \* Contract.Value = nil

\* The dearest call costs 700 + 25000 + 9000 besides the gas that it passes on.
CallMost == 34700

ASSUME MachineConstants ==
  /\ StackSize \in Nat /\ MaxRuns \in Nat /\ MemLimit \in Nat /\ GasRoot \in Nat
  /\ QuadDivisor \in Nat \ {0, 1} /\ AddressSpan \in Nat \ {0}
  /\ WordBytes >= 2 /\ 2 * MemLimit + WordBytes < tt256
  /\ GasWord > 65 * CallMost
  /\ 6 * MemLimit + 6 * WordBytes + GasWord \div 2 <= GasWord

VARIABLES
  pool,      \* statePool: the machines that were released
  frames,    \* the machines of the nested calls, the running one last
  runs,      \* runs started from outside
  panicked,  \* the Go runtime stopped the process
  buf        \* Precompiled.buf

vars == <<pool, frames, runs, panicked, buf>>

-----------------------------------------------------------------------------
(* Code: every byte can be read as an instruction and as data of a push.   *)

PushOps == [PUSH1 |-> 1, PUSH2 |-> 2, PUSH32 |-> WordBytes]
DupOps == [DUP1 |-> 1, DUP2 |-> 2, DUP3 |-> 3]
SwapOps == [SWAP1 |-> 1, SWAP2 |-> 2]
LogOps == [LOG0 |-> 0, LOG1 |-> 1]
EnvOps == {"ADDRESS", "ORIGIN", "CALLER", "GASPRICE", "COINBASE", "TIMESTAMP",
           "NUMBER", "DIFFICULTY", "GASLIMIT", "CHAINID", "SELFBALANCE"}
SizeOps == {"CALLDATASIZE", "CODESIZE", "RETURNDATASIZE", "PC", "MSIZE", "GAS",
            "CALLVALUE"}
QueryOps == {"BALANCE", "EXTCODESIZE", "EXTCODEHASH", "SLOAD", "BLOCKHASH"}
CopyOps == {"CALLDATACOPY", "CODECOPY", "EXTCODECOPY"}
CallOps == [CALL |-> 7, CALLCODE |-> 7, DELEGATECALL |-> 6, STATICCALL |-> 6]

\* What is deployed and sent, and what the host answers.
IsCode(code) ==
  code \in Seq([op : STRING, data : 0 .. Byte - 1]) /\ Len(code) \in Word

IsContract(c) ==
  /\ IsCode(c.code) /\ c.input \in Bytes
  /\ c.gas \in 0 .. GasWord - 1
  /\ c.value \in Word \cup {NilValue} /\ c.static \in BOOLEAN

ASSUME Deployed ==
  /\ \A n \in 1 .. MaxRuns : \A c \in Programs(n) : IsContract(c)
  /\ \A a \in DOMAIN Contracts : IsCode(Contracts[a])
  /\ \A op \in EnvOps \cup QueryOps, x \in Word : HostWord(op, x) \in Word

\* A row: how deep the stack must be for some instructions, and what they cost.
register(ops, stack, gas) == [ops |-> ops, stack |-> stack, gas |-> gas]

rows == {
  register({"STOP"}, 0, 0),
  register({"RETURN", "REVERT"}, 2, 0),
  register({"ADD", "SUB", "AND", "OR", "XOR", "BYTE", "EQ", "LT", "GT", "SLT",
            "SGT", "SHL", "SHR", "SAR"}, 2, 3),
  register({"MUL", "DIV", "SDIV", "MOD", "SMOD"}, 2, 5),
  register({"EXP"}, 2, 10),
  register({"SIGNEXTEND"}, 1, 5),
  register(Ternary, 3, 8),
  register(Unary, 1, 3),
  register(DOMAIN PushOps \cup DOMAIN DupOps \cup DOMAIN SwapOps, 0, 3),
  register(DOMAIN LogOps, 0, 375),
  register({"POP"}, 1, 2),
  register((EnvOps \cup SizeOps) \ {"SELFBALANCE"}, 0, 2),
  register({"SELFBALANCE"}, 0, 5),
  register(QueryOps \ {"BLOCKHASH"}, 1, 0),
  register({"BLOCKHASH"}, 1, 20),
  register({"MLOAD", "CALLDATALOAD"}, 1, 3),
  register({"MSTORE", "MSTORE8"}, 2, 3),
  register({"SHA3"}, 2, 30),
  register({"CALLDATACOPY", "CODECOPY", "RETURNDATACOPY"}, 3, 3),
  register({"EXTCODECOPY"}, 4, 0),
  register({"JUMP"}, 1, 8),
  register({"JUMPI"}, 2, 10),
  register({"JUMPDEST"}, 0, 1),
  register({"CALL", "CALLCODE"}, 7, 0),
  register({"DELEGATECALL", "STATICCALL"}, 6, 0)}

dispatchTable ==
  [op \in UNION {r.ops : r \in rows} |-> CHOOSE r \in rows : op \in r.ops]

\* The instructions that a fork brought.
neededFork(op) ==
  CASE op \in {"SHL", "SHR", "SAR", "EXTCODEHASH"} -> {"Constantinople"}
    [] op \in {"SELFBALANCE", "CHAINID"} -> {"Istanbul"}
    [] op \in {"RETURNDATASIZE", "RETURNDATACOPY", "REVERT", "STATICCALL"} -> {"Byzantium"}
    [] op = "DELEGATECALL" -> {"Homestead"}
    [] OTHER -> {}

pushBytes(code, i) ==
  IF code[i].op \in DOMAIN PushOps THEN PushOps[code[i].op] ELSE 0

\* Where the loop of setCode stands after each turn, skip(i) being how far it
\* goes on from i; and the JUMPDESTs that it meets there.
marked(code, skip(_)) ==
  LET at[turn \in 0 .. Len(code)] ==
        IF turn = 0 THEN 0
        ELSE LET i == at[turn - 1] IN IF i >= Len(code) THEN i ELSE i + skip(i)
  IN {p \in {at[turn] : turn \in 0 .. Len(code)} :
        p < Len(code) /\ code[p + 1].op = "JUMPDEST"}

\* A variant that steps over one byte of a push too few.
setCode_shortSkip(code) ==
  marked(code, LAMBDA i : IF pushBytes(code, i + 1) = 0 THEN 1 ELSE pushBytes(code, i + 1))

\* bitmap.setCode: the loop steps over the data of the pushes.
setCode(code) == marked(code, LAMBDA i : 1 + pushBytes(code, i + 1))

-----------------------------------------------------------------------------
(* The pooled machine.                                                     *)

\* new(state).
newState ==
  [ip |-> 0, code |-> << >>, slots |-> << >>, sp |-> 0, memory |-> << >>,
   len |-> 0, lastGasCost |-> 0, gas |-> 0, bitmap |-> {}, returnData |-> << >>,
   ret |-> << >>, stop |-> FALSE, err |-> "", value |-> NilValue, static |-> FALSE,
   config |-> {}, input |-> << >>, given |-> 0, spent |-> 0, called |-> FALSE,
   out |-> <<0, 0>>]

\* Variants of reset that forget one thing.
reset_keepsMemory(m) ==
  [newState EXCEPT !.slots = m.slots, !.memory = m.memory, !.returnData = m.returnData]
reset_keepsBitmap(m) ==
  [newState EXCEPT !.slots = m.slots, !.returnData = m.returnData, !.bitmap = m.bitmap,
                   !.memory = [i \in DOMAIN m.memory |-> IF i <= m.len THEN 0 ELSE m.memory[i]]]

\* reset: the slots of the stack and the bytes of the memory stay allocated;
\* the bytes in use are zeroed, the slots and the return data are not.
reset(m) ==
  [newState EXCEPT !.slots = m.slots, !.returnData = m.returnData,
                   !.memory = [i \in DOMAIN m.memory |-> IF i <= m.len THEN 0 ELSE m.memory[i]]]

\* The fields that EVM.Run sets before it runs a contract on machine m.
\* (given, spent, called and out are the contract's gas, what its instructions have
\* cost by the table, whether it has made a call, and where its answer goes.)
loaded_keepsReturnData(m, c) ==
  [m EXCEPT !.code = c.code, !.gas = c.gas, !.given = c.gas,
            !.value = c.value, !.static = c.static, !.input = c.input, !.config = c.config,
            !.bitmap = @ \cup setCode(c.code)]

loaded(m, c) ==
  [m EXCEPT !.returnData = << >>, !.code = c.code, !.gas = c.gas, !.given = c.gas,
            !.value = c.value, !.static = c.static, !.input = c.input, !.config = c.config,
            !.bitmap = @ \cup setCode(c.code)]

exit(m, err) == [m EXCEPT !.stop = TRUE, !.err = err]

halt(m) == [m EXCEPT !.stop = TRUE]

consumeGas(m, gas) ==
  IF m.gas < gas THEN exit(m, "errOutOfGas") ELSE [m EXCEPT !.gas = @ - gas]

\* The nth word from the top.
peekAt(m, n) == m.slots[m.sp - n + 1]

pop(m, n) == [m EXCEPT !.sp = @ - n]

\* push1 and a Set: the slot above the top is reused if there is one.
push(m, v) ==
  [m EXCEPT !.sp = @ + 1,
            !.slots = IF Len(m.slots) > m.sp THEN [@ EXCEPT ![m.sp + 1] = v]
                      ELSE Append(@, v)]

\* n words are popped, and what is then the top is set to v.
replace(m, n, v) == [m EXCEPT !.sp = @ - n, !.slots[m.sp - n] = v]

\* The gas of w words of memory, in uint64 arithmetic.
memoryCost(w) == (3 * w + ((w * w) % GasWord) \div QuadDivisor) % GasWord

\* Whether the range is outside what a uint64 or the limit allows.
badRange(offset, size) ==
  \/ offset >= tt64 \/ size >= tt64
  \/ offset > MemLimit \/ size > MemLimit

\* What the machine does next, unless it has stopped.
then(m, Go(_)) == IF m.stop THEN m ELSE Go(m)

resized(m, n) == [m EXCEPT !.memory = extendByteSlice(@, n), !.len = n]

\* A variant that pays for whole words only.
checkMemory_roundsDown(m, offset, size) ==
  LET newCost == memoryCost((offset + size) \div WordBytes)
  IN IF size = 0 THEN m
     ELSE IF badRange(offset, size) THEN exit(m, "errGasUintOverflow")
     ELSE IF m.len >= offset + size THEN m
     ELSE then(consumeGas([m EXCEPT !.lastGasCost = newCost],
                          (newCost - m.lastGasCost) % GasWord),
               LAMBDA paid : resized(paid, wordsOf(offset + size) * WordBytes))

\* checkMemory: the memory grows to hold the range, for the difference in cost,
\* which is noted before it is paid.  An empty range is not looked at.
checkMemory(m, offset, size) ==
  LET w == wordsOf(offset + size)
      newCost == memoryCost(w)
  IN IF size = 0 THEN m
     ELSE IF badRange(offset, size) THEN exit(m, "errGasUintOverflow")
     ELSE IF m.len >= offset + size THEN m
     ELSE then(consumeGas([m EXCEPT !.lastGasCost = newCost],
                          (newCost - m.lastGasCost) % GasWord),
               LAMBDA paid : resized(paid, w * WordBytes))

\* get2's bytes, once checkMemory has passed.
bytesAt(m, offset, size) ==
  IF size = 0 THEN << >> ELSE SubSeq(m.memory, offset + 1, offset + size)

store(m, offset, bytes) ==
  [m EXCEPT !.memory = [i \in DOMAIN @ |-> IF i > offset /\ i <= offset + Len(bytes)
                                           THEN bytes[i - offset] ELSE @[i]]]

\* setBytes: size bytes of the input from the offset on, zeros beyond its end.
setBytes(input, size, offset) ==
  [i \in 1 .. size |-> IF offset < tt64 /\ offset + i <= Len(input)
                       THEN input[offset + i] ELSE 0]

dataOf(code) == [i \in DOMAIN code |-> code[i].data]

\* popAddr: the low bytes of a word.
addressOf(x) == x % AddressSpan

-----------------------------------------------------------------------------
(* The instructions, each as what it does to the machine.                  *)

\* runtime.ForksInTime: the names of the active forks.
active(m, fork) == fork \in m.config

enabled(m, op) == neededFork(op) \subseteq m.config

compute1(op, a) == IF op = "NOT" THEN opNot(a) ELSE opIsZero(a)

compute2(op, a, b) ==
  CASE op = "ADD" -> opAdd(a, b) [] op = "MUL" -> opMul(a, b)
    [] op = "SUB" -> opSub(a, b) [] op = "DIV" -> opDiv(a, b)
    [] op = "SDIV" -> opSDiv(a, b) [] op = "MOD" -> opMod(a, b)
    [] op = "SMOD" -> opSMod(a, b) [] op = "EXP" -> opExp(a, b)
    [] op = "AND" -> opAnd(a, b) [] op = "OR" -> opOr(a, b)
    [] op = "XOR" -> opXor(a, b) [] op = "BYTE" -> opByte(a, b)
    [] op = "EQ" -> opEq(a, b) [] op = "LT" -> opLt(a, b)
    [] op = "GT" -> opGt(a, b) [] op = "SLT" -> opSlt(a, b)
    [] op = "SGT" -> opSgt(a, b) [] op = "SHL" -> opShl(a, b)
    [] op = "SHR" -> opShr(a, b) [] op = "SAR" -> opSar(a, b)
    [] op = "SIGNEXTEND" -> opSignExtension(a, b)

compute3(op, a, b, z) == IF op = "ADDMOD" THEN opAddMod(a, b, z) ELSE opMulMod(a, b, z)

\* EXP pays for every byte of its exponent.
expGas(m, y) ==
  ((bitLen(y) + ByteBits - 1) \div ByteBits) * (IF active(m, "EIP158") THEN 50 ELSE 10)

unary(m, op) == replace(m, 0, compute1(op, peekAt(m, 1)))

\* SIGNEXTEND is let in with one word: it pops it and finds no other.
binary(m, op) ==
  IF m.sp = 1 THEN pop(m, 1)
  ELSE LET a == peekAt(m, 1)
           b == peekAt(m, 2)
       IN then(IF op = "EXP" THEN consumeGas(pop(m, 1), expGas(m, b)) ELSE pop(m, 1),
               LAMBDA p : replace(p, 0, compute2(op, a, b)))

ternary(m, op) ==
  replace(m, 2, compute3(op, peekAt(m, 1), peekAt(m, 2), peekAt(m, 3)))

\* Past the end of the code, n zeros follow what there is, and the machine stops.
opPush(m, n) ==
  LET rest == SubSeq(dataOf(m.code), m.ip + 2, Len(m.code))
      bytes == IF Len(rest) < n THEN rest \o [i \in 1 .. n |-> 0] ELSE SubSeq(rest, 1, n)
  IN [push(m, fromBytes(bytes)) EXCEPT !.ip = @ + n]

opDup(m, n) ==
  IF m.sp < n THEN exit(m, "errStackUnderflow") ELSE push(m, peekAt(m, n))

opSwap(m, n) ==
  IF m.sp < n + 1 THEN exit(m, "errStackUnderflow")
  ELSE [m EXCEPT !.slots[m.sp] = peekAt(m, n + 1), !.slots[m.sp - n] = peekAt(m, 1)]

\* The instructions that push a word and take none.
context(m, op) ==
  CASE op = "CALLVALUE" -> IF m.value = NilValue THEN 0 ELSE m.value
    [] op = "CALLDATASIZE" -> Len(m.input)
    [] op = "CODESIZE" -> Len(m.code)
    [] op = "RETURNDATASIZE" -> Len(m.returnData)
    [] op = "PC" -> m.ip
    [] op = "MSIZE" -> m.len
    [] op = "GAS" -> m.gas
    [] OTHER -> HostWord(op, 0)

queryGas(m, op) ==
  CASE op = "BALANCE" -> IF active(m, "Istanbul") THEN 700
                         ELSE IF active(m, "EIP150") THEN 400 ELSE 20
    [] op = "SLOAD" -> IF active(m, "Istanbul") THEN 800
                       ELSE IF active(m, "EIP150") THEN 200 ELSE 50
    [] op = "EXTCODESIZE" -> IF active(m, "EIP150") THEN 700 ELSE 20
    [] op = "EXTCODEHASH" -> IF active(m, "Istanbul") THEN 700 ELSE 400
    [] op = "BLOCKHASH" -> 0

\* Only the last blocks have a hash: 256 of them.
blockHash(x) ==
  LET last == HostWord("NUMBER", 0)
  IN IF x < tt64 \div 2 /\ last - 257 < x /\ x < last THEN HostWord("BLOCKHASH", x) ELSE 0

\* EXTCODEHASH is 0 for an empty account.
answer(op, x) ==
  CASE op = "BLOCKHASH" -> blockHash(x)
    [] op = "SLOAD" -> HostWord(op, x)
    [] op = "EXTCODEHASH" /\ HostWord("EMPTY", addressOf(x)) = 1 -> 0
    [] OTHER -> HostWord(op, addressOf(x))

query(m, op) ==
  then(consumeGas(m, queryGas(m, op)), LAMBDA p : replace(p, 0, answer(op, peekAt(p, 1))))

opCallDataLoad(m) ==
  replace(m, 0, fromBytes(setBytes(m.input, WordBytes, peekAt(m, 1))))

opMload(m) ==
  LET o == peekAt(m, 1)
  IN then(checkMemory(pop(m, 1), o, WordBytes),
          LAMBDA p : push(p, fromBytes(bytesAt(p, o, WordBytes))))

opMStore(m) ==
  LET o == peekAt(m, 1)
  IN then(checkMemory(pop(m, 2), o, WordBytes),
          LAMBDA p : store(p, o, toBytes(peekAt(m, 2))))

opMStore8(m) ==
  LET o == peekAt(m, 1)
  IN then(checkMemory(pop(m, 2), o, 1),
          LAMBDA p : store(p, o, <<peekAt(m, 2) % Byte>>))

opSha3(m) ==
  LET o == peekAt(m, 1)
      size == peekAt(m, 2)
  IN then(checkMemory(pop(m, 2), o, size),
          LAMBDA p : then(consumeGas(p, wordsOf(size) * 6),
                          LAMBDA q : push(q, Keccak(bytesAt(q, o, size)))))

\* The copies: the memory, the words copied, and the account's price are paid.
copyTo(m, memOffset, size, extra) ==
  then(checkMemory(m, memOffset, size),
       LAMBDA p : then(consumeGas(p, wordsOf(size) * 3), LAMBDA q : consumeGas(q, extra)))

codeAt(a) == IF a \in DOMAIN Contracts THEN Contracts[a] ELSE << >>

opCopy(m, op) ==
  LET k == IF op = "EXTCODECOPY" THEN 1 ELSE 0
      memOffset == peekAt(m, k + 1)
      size == peekAt(m, k + 3)
      input == CASE op = "CALLDATACOPY" -> m.input
                 [] op = "CODECOPY" -> dataOf(m.code)
                 [] op = "EXTCODECOPY" -> dataOf(codeAt(addressOf(peekAt(m, 1))))
  IN then(copyTo(pop(m, k + 3), memOffset, size,
                 IF k = 0 THEN 0 ELSE IF active(m, "EIP150") THEN 700 ELSE 20),
          LAMBDA p : store(p, memOffset, setBytes(input, size, peekAt(m, k + 2))))

validJumpdest(m, dest) ==
  dest < tt64 \div 4 /\ dest < Len(m.code) /\ dest \in m.bitmap

\* The loop adds one to the instruction pointer afterwards.
jumpTo(m, dest) ==
  IF validJumpdest(m, dest) THEN [m EXCEPT !.ip = dest - 1] ELSE exit(m, "errInvalidJump")

opJump(m) == jumpTo(pop(m, 1), peekAt(m, 1))

opJumpi(m) == IF peekAt(m, 2) = 0 THEN pop(m, 2) ELSE jumpTo(pop(m, 2), peekAt(m, 1))

\* The log itself goes to the host (Transition's opLog).
opLog(m, n) ==
  IF m.static THEN exit(m, "errWriteProtection")
  ELSE IF m.sp < 2 + n THEN exit(m, "errStackUnderflow")
  ELSE LET size == peekAt(m, 2)
       IN then(checkMemory(pop(m, 2 + n), peekAt(m, 1), size),
               LAMBDA p : then(consumeGas(p, n * 375), LAMBDA q : consumeGas(q, size * 8)))

opHalt(m, op) ==
  LET o == peekAt(m, 1)
      size == peekAt(m, 2)
  IN then(checkMemory(pop(m, 2), o, size),
          LAMBDA p : [(IF op = "REVERT" THEN exit(p, "errRevert") ELSE halt(p))
                        EXCEPT !.ret = bytesAt(p, o, size)])

-----------------------------------------------------------------------------
(* The loop of state.Run.                                                  *)

running == frames[Len(frames)]

opOf(m) == m.code[m.ip + 1].op

\* A variant whose instructions cost nothing but what they charge themselves.
charged_free(m) == m

\* The gas of the instruction is taken before it runs.
charged(m) ==
  LET gas == dispatchTable[opOf(m)].gas IN [m EXCEPT !.gas = @ - gas, !.spent = @ + gas]

\* A variant that forgets the limit of the stack.
stepped_unlimited(m) == [m EXCEPT !.ip = @ + 1]

\* What the loop does after every instruction.
stepped(m) ==
  IF m.sp > StackSize THEN exit(m, "errStackOverflow") ELSE [m EXCEPT !.ip = @ + 1]

inLoop == frames # << >> /\ ~panicked /\ ~running.stop

inCode == inLoop /\ running.ip < Len(running.code)

affordable(m) ==
  /\ opOf(m) \in DOMAIN dispatchTable
  /\ m.sp >= dispatchTable[opOf(m)].stack
  /\ m.gas >= dispatchTable[opOf(m)].gas

\* The running machine becomes m.
continue(m) ==
  /\ frames' = [frames EXCEPT ![Len(frames)] = m]
  /\ UNCHANGED <<pool, runs, panicked, buf>>

panic == panicked' = TRUE /\ UNCHANGED <<pool, frames, runs, buf>>

\* An instruction among ops does Does to the machine.
Instruction(ops, Does(_, _)) ==
  /\ inCode
  /\ opOf(running) \in ops
  /\ affordable(running)
  /\ continue(stepped(IF enabled(running, opOf(running))
                      THEN Does(charged(running), opOf(running))
                      ELSE exit(charged(running), "errOpCodeNotFound")))

Init ==
  /\ pool = {}
  /\ frames = << >>
  /\ runs = 0
  /\ panicked = FALSE
  /\ buf = << >>

\* EVM.Run from outside.  sync.Pool may hand out any released machine or none.
Start ==
  /\ frames = << >> /\ ~panicked
  /\ runs < MaxRuns
  /\ \E c \in Programs(runs + 1), s \in pool \cup {newState} :
       /\ frames' = <<loaded(s, c)>>
       /\ pool' = pool \ {s}
  /\ runs' = runs + 1
  /\ UNCHANGED <<panicked, buf>>

\* The code is at its end.
EndOfCode ==
  /\ inLoop
  /\ running.ip >= Len(running.code)
  /\ continue(halt(running))

\* No such instruction, too few words, or not enough gas.
Fault ==
  /\ inCode
  /\ ~affordable(running)
  /\ continue(exit(running,
       IF opOf(running) \notin DOMAIN dispatchTable THEN "errOpCodeNotFound"
       ELSE IF running.sp < dispatchTable[opOf(running)].stack THEN "errStackUnderflow"
       ELSE "errOutOfGas"))

Compute ==
  \/ Instruction(Unary, unary)
  \/ Instruction(Binary, binary)
  \/ Instruction(Ternary, ternary)

StackMoves ==
  \/ Instruction({"POP"}, LAMBDA m, op : pop(m, 1))
  \/ Instruction(DOMAIN PushOps, LAMBDA m, op : opPush(m, PushOps[op]))
  \/ Instruction(DOMAIN DupOps, LAMBDA m, op : opDup(m, DupOps[op]))
  \/ Instruction(DOMAIN SwapOps, LAMBDA m, op : opSwap(m, SwapOps[op]))

Context ==
  \/ Instruction(EnvOps \cup SizeOps, LAMBDA m, op : push(m, context(m, op)))
  \/ Instruction(QueryOps, query)
  \/ Instruction({"CALLDATALOAD"}, LAMBDA m, op : opCallDataLoad(m))

Memory ==
  \/ Instruction({"MLOAD"}, LAMBDA m, op : opMload(m))
  \/ Instruction({"MSTORE"}, LAMBDA m, op : opMStore(m))
  \/ Instruction({"MSTORE8"}, LAMBDA m, op : opMStore8(m))
  \/ Instruction({"SHA3"}, LAMBDA m, op : opSha3(m))
  \/ Instruction(CopyOps, opCopy)

Jumps ==
  \/ Instruction({"JUMP"}, LAMBDA m, op : opJump(m))
  \/ Instruction({"JUMPI"}, LAMBDA m, op : opJumpi(m))
  \/ Instruction({"JUMPDEST"}, LAMBDA m, op : m)

Endings ==
  \/ Instruction({"STOP"}, LAMBDA m, op : halt(m))
  \/ Instruction({"RETURN", "REVERT"}, opHalt)

Log == Instruction(DOMAIN LogOps, LAMBDA m, op : opLog(m, LogOps[op]))

\* opReturnDataCopy, once the memory and the gas are settled.  With length 0 the
\* memory was not looked at, and its slice still begins at the offset.
ReturnDataCopy ==
  /\ inCode
  /\ opOf(running) = "RETURNDATACOPY"
  /\ affordable(running)
  /\ LET m == charged(running)
         memOffset == peekAt(m, 1)
         end == peekAt(m, 2) + peekAt(m, 3)
         p == IF ~enabled(m, "RETURNDATACOPY") THEN exit(m, "errOpCodeNotFound")
              ELSE then(copyTo(pop(m, 3), memOffset, peekAt(m, 3), 0),
                        LAMBDA q : IF end >= tt64 \/ Len(q.returnData) < end
                                   THEN exit(q, "errReturnDataOutOfBounds") ELSE q)
     IN IF p.stop THEN continue(stepped(p))
        ELSE IF Uint64(memOffset) > p.len THEN panic
        ELSE continue(stepped(store(p, memOffset, SubSeq(p.returnData, peekAt(m, 2) + 1, end))))

-----------------------------------------------------------------------------
(* Calls.                                                                  *)

\* The words that a call takes from the stack.
callArgs(m, op) ==
  LET k == IF op \in {"CALL", "CALLCODE"} THEN 1 ELSE 0
  IN [gas |-> peekAt(m, 1), address |-> addressOf(peekAt(m, 2)),
      value |-> IF k = 1 THEN peekAt(m, 3) ELSE NilValue,
      inOffset |-> peekAt(m, k + 3), inSize |-> peekAt(m, k + 4),
      retOffset |-> peekAt(m, k + 5), retSize |-> peekAt(m, k + 6)]

transfersValue(a) == a.value \notin {NilValue, 0}

\* Why opCall stops before it builds a contract.
callRefusal(m, a, op) ==
  IF op = "CALL" /\ m.static /\ transfersValue(a) THEN "errWriteProtection"
  ELSE IF ~enabled(m, op) THEN "errOpCodeNotFound" ELSE ""

makesAccount(m, a, op) ==
  /\ op = "CALL"
  /\ IF active(m, "EIP158") THEN transfersValue(a) /\ HostWord("EMPTY", a.address) = 1
     ELSE HostWord("EXISTS", a.address) = 0

callGas(m, a, op) ==
  (IF active(m, "EIP150") THEN 700 ELSE 40)
  + (IF makesAccount(m, a, op) THEN 25000 ELSE 0)
  + (IF transfersValue(a) THEN 9000 ELSE 0)

\* All but one 64th of what is left, if the caller asks for as much.
passedGas(m, a, cost) ==
  LET available == (m.gas - cost) % GasWord
      most == available - available \div 64
  IN IF active(m, "EIP150") /\ (a.gas >= tt64 \/ most < a.gas) THEN most ELSE a.gas

\* The input and the output range are paid for.
sizedCall(m, a, op) ==
  IF callRefusal(m, a, op) # "" THEN exit(m, callRefusal(m, a, op))
  ELSE then(checkMemory(pop(m, CallOps[op]), a.inOffset, a.inSize),
            LAMBDA p : checkMemory(p, a.retOffset, a.retSize))

\* Then the call, with the gas that it passes on.
paidCall(m, a, op) ==
  IF ~active(m, "EIP150") /\ a.gas >= tt64 THEN exit(m, "errOutOfGas")
  ELSE LET cost == callGas(m, a, op)
       IN consumeGas(m, (cost + passedGas(m, a, cost)) % GasWord)

\* The contract of a call that m, sized, is about to pay: a stipend comes on top.
callee(m, a, op) ==
  [code |-> codeAt(a.address),
   gas |-> (passedGas(m, a, callGas(m, a, op))
            + (IF transfersValue(a) THEN 2300 ELSE 0)) % GasWord,
   value |-> IF op = "DELEGATECALL" THEN m.value ELSE a.value,
   static |-> m.static \/ op = "STATICCALL",
   input |-> bytesAt(m, a.inOffset, a.inSize),
   config |-> m.config]

\* An error other than a revert takes the gas.
gasLeft(r) == IF r.err \in {"", "errRevert"} THEN r.gas ELSE 0

\* The rest of opCall in the caller m, with the result r (err, ret and gas).  The
\* slice of the memory may reach up to its capacity.
copies(r) == r.err \in {"", "errRevert"} /\ r.ret # << >>

outOfBounds(m, r) == copies(r) /\ m.out[1] + m.out[2] > Len(m.memory)

answered(m, r) ==
  LET n == IF copies(r) THEN Min({m.out[2], Len(r.ret)}) ELSE 0
  IN [store(push(m, truth(r.err = "")), m.out[1], SubSeq(r.ret, 1, n))
        EXCEPT !.gas = (@ + gasLeft(r)) % GasWord, !.returnData = r.ret]

\* The caller while its call runs: called, with a place for the answer.
calling(m, a) ==
  [m EXCEPT !.called = TRUE, !.out = <<Uint64(a.retOffset), Uint64(a.retSize)>>]

\* host.Callx finds a precompiled contract, and has its result r at once.
CallPrecompiled(m, r) ==
  /\ buf' = r.buf
  /\ IF outOfBounds(m, r) THEN panicked' = TRUE /\ UNCHANGED frames
     ELSE /\ frames' = [frames EXCEPT ![Len(frames)] = stepped(answered(m, r))]
          /\ UNCHANGED panicked
  /\ UNCHANGED <<pool, runs>>

\* Or it runs the contract's code, on a machine of its own.
CallContract(m, c) ==
  /\ \E s \in pool \cup {newState} :
       /\ frames' = Append([frames EXCEPT ![Len(frames)] = m], loaded(s, c))
       /\ pool' = pool \ {s}
  /\ UNCHANGED <<runs, panicked, buf>>

\* opCall.  What the host itself may refuse is in Transition.
Call ==
  /\ inCode
  /\ opOf(running) \in DOMAIN CallOps
  /\ affordable(running)
  /\ LET op == opOf(running)
         a == callArgs(running, op)
         sized == sizedCall([charged(running) EXCEPT !.returnData = << >>], a, op)
         paid == then(sized, LAMBDA m : paidCall(m, a, op))
         c == callee(sized, a, op)
         poor == transfersValue(a) /\ HostWord("SELFBALANCE", 0) < a.value
     IN \/ paid.stop /\ continue(stepped(paid))
        \/ ~paid.stop /\ poor /\ continue(stepped(push([paid EXCEPT !.gas = (@ + c.gas) % GasWord], 0)))
        \/ /\ ~paid.stop /\ ~poor /\ CanRun(a.address, c.config)
           /\ CallPrecompiled(calling(paid, a),
                              Run(contracts[a.address], buf, c.input, c.gas, c.config))
        \/ /\ ~paid.stop /\ ~poor /\ ~CanRun(a.address, c.config)
           /\ CallContract(calling(paid, a), c)

\* A stopped machine goes back to the pool, and its caller goes on.
Return ==
  /\ Len(frames) > 1 /\ ~panicked /\ running.stop
  /\ LET m == frames[Len(frames) - 1]
     IN IF outOfBounds(m, running) THEN panic
        ELSE /\ frames' = [SubSeq(frames, 1, Len(frames) - 1) EXCEPT ![Len(frames) - 1] =
                             stepped(answered(m, running))]
             /\ pool' = pool \cup {reset(running)}
             /\ UNCHANGED <<runs, panicked, buf>>

Leave ==
  /\ Len(frames) = 1 /\ ~panicked /\ running.stop
  /\ frames' = << >>
  /\ pool' = pool \cup {reset(running)}
  /\ UNCHANGED <<runs, panicked, buf>>

Next ==
  \/ Start \/ EndOfCode \/ Fault
  \/ Compute \/ StackMoves \/ Context \/ Memory \/ Jumps \/ Endings \/ Log
  \/ ReturnDataCopy \/ Call \/ Return \/ Leave

\* Nothing is left to do: ENABLED Next is its negation.
Idle == panicked \/ (frames = << >> /\ runs = MaxRuns)

\* The loop goes on until the machine stops: WF_vars(Next), written without
\* ENABLED, which takes TLC too long here.
Spec == Init /\ [][Next]_vars /\ ([]<>Idle \/ []<><<TRUE>>_vars)

-----------------------------------------------------------------------------
(* Properties.                                                             *)

Machines == {frames[i] : i \in DOMAIN frames} \cup pool

\* The live part of the stack holds words and never more than the limit, though
\* slots are reused; only a push that runs off the code may leave a longer number.
TypeOK ==
  /\ runs \in 0 .. MaxRuns
  /\ panicked \in BOOLEAN
  /\ \A i \in DOMAIN buf : buf[i] \in 0 .. Byte - 1
  /\ \A m \in Machines :
       /\ m.sp \in 0 .. Len(m.slots)
       /\ m.sp > StackSize => m.stop
       /\ \A i \in 1 .. m.sp : m.slots[i] \in Word \/ (i = m.sp /\ m.ip >= Len(m.code))
       /\ m.len \in 0 .. Len(m.memory) /\ m.len % WordBytes = 0
       /\ \A i \in DOMAIN m.memory : m.memory[i] \in 0 .. Byte - 1
       /\ m.gas \in 0 .. GasWord - 1

\* How many words an instruction takes, and leaves.
Effect(op) ==
  CASE op \in Binary -> <<2, 1>>
    [] op \in Unary \cup QueryOps \cup {"CALLDATALOAD", "MLOAD"} -> <<1, 1>>
    [] op \in Ternary -> <<3, 1>>
    [] op \in DOMAIN PushOps \cup EnvOps \cup SizeOps -> <<0, 1>>
    [] op \in DOMAIN DupOps -> <<DupOps[op], DupOps[op] + 1>>
    [] op \in DOMAIN SwapOps -> <<SwapOps[op] + 1, SwapOps[op] + 1>>
    [] op \in {"POP", "JUMP"} -> <<1, 0>>
    [] op \in {"MSTORE", "MSTORE8", "JUMPI"} -> <<2, 0>>
    [] op = "SHA3" -> <<2, 1>>
    [] op \in {"CALLDATACOPY", "CODECOPY", "RETURNDATACOPY"} -> <<3, 0>>
    [] op = "EXTCODECOPY" -> <<4, 0>>
    [] op \in DOMAIN LogOps -> <<2 + LogOps[op], 0>>
    [] op \in DOMAIN CallOps -> <<CallOps[op], 1>>
    [] OTHER -> <<0, 0>>

\* The word that an instruction leaves on top, as far as it follows from the stack.
Meant(m, op) ==
  CASE op \in Binary -> <<Result2(op, peekAt(m, 1), peekAt(m, 2))>>
    [] op \in Unary -> <<Result1(op, peekAt(m, 1))>>
    [] op \in Ternary -> <<Result3(op, peekAt(m, 1), peekAt(m, 2), peekAt(m, 3))>>
    [] op \in DOMAIN DupOps -> <<peekAt(m, DupOps[op])>>
    [] op \in DOMAIN SwapOps -> <<peekAt(m, SwapOps[op] + 1)>>
    [] OTHER -> << >>

\* Two instructions are known to do something else: SIGNEXTEND on one word, which
\* the dispatch table lets in, and BYTE with an index that an int64 does not hold.
\* And two do not what opcodes.go says: LT and GT, an "int256 comparison" there,
\* compare as uint256, which differs where one word only has its top bit set.
Deviates(m, op) ==
  \/ op = "SIGNEXTEND" /\ m.sp = 1
  \/ op = "BYTE" /\ peekAt(m, 1) >= tt64 \div 2
  \/ op \in {"LT", "GT"} /\ (peekAt(m, 1) >= tt255 <=> peekAt(m, 2) < tt255)

\* An instruction that succeeds takes its own words and leaves its results, in
\* arithmetic modulo the word; what was below them on the stack stays as it was
\* (instructions.go, dispatch_table.go: slots are shared and changed in place).
StackEffect ==
  [][LET m == running
         n == frames'[Len(frames')]
         op == opOf(m)
         took == Effect(op)
     IN (inCode /\ Len(frames') = Len(frames) /\ ~n.stop /\ ~panicked'
           /\ ~(op = "SIGNEXTEND" /\ Deviates(m, op)))
        => /\ n.sp = m.sp - took[1] + took[2]
           /\ \A i \in 1 .. m.sp - took[1] : n.slots[i] = m.slots[i]
           /\ (Meant(m, op) # << >> /\ ~Deviates(m, op)) =>
                n.slots[n.sp] = Meant(m, op)[1]]_vars

\* The memory that a contract uses has been paid from its gas, to the word and on
\* top of its instructions (the difference to lastGasCost, at every growth), as long
\* as its gas is below three times the root of 2^64: for more, w*w in checkMemory
\* would wrap around before the words became too dear.
MemoryPaid ==
  \A i \in DOMAIN frames :
    LET m == frames[i]
        w == m.len \div WordBytes
    IN m.given < 3 * GasRoot => m.gas + m.spent + 3 * w + (w * w) \div QuadDivisor <= m.given

\* Whatever part of its memory a contract has not written reads as zero: behind
\* the length, also of a machine in the pool, there is nothing left of an earlier
\* contract (state.reset, extendByteSlice).
CleanBeyond ==
  \A m \in Machines : \A i \in DOMAIN m.memory : i > m.len => m.memory[i] = 0

\* RETURNDATASIZE and RETURNDATACOPY see only what the contract's own calls
\* returned: reset leaves the return data of an earlier contract in the machine.
NoForeignReturnData ==
  \A i \in DOMAIN frames : ~frames[i].called => frames[i].returnData = << >>

\* A call of a precompiled contract that succeeds returns what the contract is for,
\* as a function of its input alone: the buffer that all of them read through keeps
\* the bytes of earlier inputs, and is longer than some (Precompiled.get).
PrecompiledAnswers ==
  [][LET n == frames'[Len(frames')]
         a == callArgs(running, opOf(running))
     IN (/\ inCode /\ ~panicked' /\ Len(frames') = Len(frames)
         /\ opOf(running) \in DOMAIN CallOps
         /\ ~n.stop /\ n.slots[n.sp] = 1)
        => n.returnData = Expected(contracts[a.address],
                                   [i \in 1 .. a.inSize |->
                                      IF a.inOffset + i <= running.len
                                      THEN running.memory[a.inOffset + i] ELSE 0])]_vars

\* The instructions of a code, as positions: the bytes that are not data.  left[p]
\* bytes of data of a push are still to come at p.
InstructionStarts(code) ==
  LET left[p \in 0 .. Len(code)] ==
        IF p = 0 THEN 0
        ELSE LET n == left[p - 1] IN IF n > 0 THEN n - 1 ELSE pushBytes(code, p)
  IN {p \in 0 .. Len(code) - 1 : left[p] = 0}

\* A jump that is taken lands on a JUMPDEST that is an instruction of the running
\* code, not data of a push and not one of an earlier contract (bitmap.go).
JumpsLand ==
  [][LET m == running
         n == frames'[Len(frames')]
     IN (inCode /\ opOf(m) \in {"JUMP", "JUMPI"} /\ Len(frames') = Len(frames)
         /\ ~n.stop /\ n.ip # m.ip + 1)
        => /\ n.ip \in InstructionStarts(n.code)
           /\ opOf(n) = "JUMPDEST"]_vars

\* Every contract ends: gas runs out in a loop and in a recursion.
Halts == frames # << >> ~> (frames = << >> \/ panicked)

\* "Check if the memory return offsets are out of bounds" (instructions.go:1149):
\* no instruction slices the memory beyond its end.
InBounds == ~panicked
=============================================================================

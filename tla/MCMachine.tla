----------------------------- MODULE MCMachine -----------------------------
(* Programs for Machine: words of seven bytes of two bits.                 *)
EXTENDS Machine

CONSTANTS Full   \* all the programs, or those about the bounds of the memory

join(codes) ==
  LET f[i \in 0 .. Len(codes)] == IF i = 0 THEN << >> ELSE f[i - 1] \o codes[i] IN f[Len(codes)]

\* A byte of data that is 3 reads as a JUMPDEST, the others as no instruction.
cell(byte) == [op |-> IF byte = 3 THEN "JUMPDEST" ELSE "INVALID", data |-> byte]
I(op) == <<[op |-> op, data |-> IF op = "JUMPDEST" THEN 3 ELSE 1]>>
P1(x) == I("PUSH1") \o <<cell(x)>>
P2(x) == I("PUSH2") \o <<cell(x \div Byte), cell(x % Byte)>>
P(x) == I("PUSH32") \o [i \in 1 .. WordBytes |-> cell(toBytes(x)[i])]

Latest == {"Homestead", "EIP150", "EIP158", "Byzantium", "Constantinople", "Istanbul"}
Byzantium == {"Homestead", "EIP150", "EIP158", "Byzantium"}

contract(code, gas, forks) ==
  [code |-> code, gas |-> gas, value |-> 1, static |-> FALSE, input |-> <<1, 2, 3>>,
   config |-> forks]

\* Every instruction on the words x and y, which stay below; each result is dropped.
ops2 == <<"ADD", "MUL", "SUB", "DIV", "MOD", "SDIV", "SMOD", "EXP", "AND", "OR", "XOR",
          "EQ", "LT", "GT", "SLT", "SGT", "BYTE", "SIGNEXTEND", "SHL", "SHR", "SAR">>
arithmetic(x, y) ==
  P(y) \o P(x)
  \o join([i \in DOMAIN ops2 |-> I("DUP2") \o I("DUP2") \o I(ops2[i]) \o I("POP")])
  \o join([i \in 1 .. 2 |-> I("DUP3") \o I("DUP2") \o I("DUP2")
                            \o I(<<"ADDMOD", "MULMOD">>[i]) \o I("POP")])
  \o I("NOT") \o I("SWAP1") \o I("ISZERO")

Edges == {0, 1, 2, 3, 6, 7, 8, 13, 14, 100, tt64 \div 2, tt64 - 1, tt64, tt255 - 1,
          tt255 + 1, tt256 - 100, tt256 - 1}

Arithmetic ==
  {contract(P(z) \o arithmetic(x, y), 5000, Latest) : x \in Edges, y \in Edges, z \in {0, 100}}

Control ==
  {contract(c, g, Latest) : g \in {20, 200}, c \in {
     I("JUMPDEST") \o P1(1) \o P1(0) \o I("JUMP"),
     I("JUMPDEST") \o P1(0) \o I("JUMP"),
     P2(5) \o I("JUMP") \o I("PUSH2") \o <<cell(3), cell(3)>>,
     P2(6) \o I("JUMP") \o I("PUSH2") \o <<cell(3), cell(3)>>,
     P2(7) \o I("JUMP") \o P1(3) \o I("STOP") \o I("JUMPDEST"),
     P(tt64 + 7) \o I("JUMP") \o I("JUMPDEST"),
     P1(0) \o P2(7) \o I("JUMPI") \o I("STOP"),
     P1(1) \o P2(7) \o I("JUMPI") \o I("JUMPDEST"),
     P1(1) \o P1(2) \o I("SWAP2"), I("DUP1"), I("ADD"), I("INVALID"), I("SIGNEXTEND"),
     P1(1) \o I("SIGNEXTEND"), P1(1) \o I("PUSH2") \o <<cell(1)>>,
     P1(1) \o I("SWAP1")}}

Contexts ==
  {contract(I(op), 10, f) : op \in EnvOps \cup SizeOps, f \in {{}, Latest}}
  \cup {contract(P(x) \o I(op), 900, f) : op \in QueryOps \cup {"CALLDATALOAD"},
                                  x \in {1, 2, 299, tt64, tt256 - 1}, f \in {{}, Byzantium, Latest}}
  \cup {contract(P1(2) \o P1(1) \o I(op), 50, {}) : op \in {"SHL", "REVERT", "EXP"}}

\* Two writes to the memory and a read, within and beyond what can be paid.
offsets == {0, 1, 7, 30, MemLimit, MemLimit + 1, tt64, tt256 - 1}
Memories ==
  {contract(P(tt256 - 1) \o P(o) \o I("MSTORE") \o P1(3) \o P2(9) \o I("MSTORE8")
            \o P(p) \o I("MLOAD") \o P(p) \o P1(1) \o I("SHA3") \o I("MSIZE"), g, Latest) :
     o \in offsets, p \in offsets, g \in {60, 90, 400}}
  \cup {contract(P(s) \o P1(1) \o P(o) \o I(op), g, Byzantium) :
     o \in {0, 13, tt256 - 1}, s \in {0, 8, MemLimit, tt64 + 1}, g \in {40, 100},
     op \in {"CALLDATACOPY", "CODECOPY", "RETURNDATACOPY"}}
  \cup {contract(P(s) \o P(0) \o P1(2) \o P2(12) \o I("EXTCODECOPY"), 800, f) :
     s \in {0, 8}, f \in {{}, Latest}}
  \cup {contract(P(s) \o P(o) \o I(op), 3 * GasRoot - 1, Latest) :
     o \in {0, MemLimit}, s \in {0, 9, MemLimit}, op \in {"SHA3", "RETURN", "REVERT", "LOG0"}}
  \cup {contract(P1(1) \o P1(3) \o P1(1) \o I("LOG1"), g, Latest) : g \in {400, 800}}

call(op, gas, a, value, in, out) ==
  P(out[2]) \o P(out[1]) \o P(in[2]) \o P(in[1])
  \o (IF op \in {"CALL", "CALLCODE"} THEN P1(value) ELSE << >>) \o P2(a) \o P(gas) \o I(op)

\* What a contract does after its call: it uses the answer.
afterCall == I("RETURNDATASIZE") \o P1(0) \o P1(1) \o I("RETURNDATACOPY") \o P1(0) \o I("MLOAD")

\* 12 returns some of its memory, 13 reverts with some, 14 calls itself, 15 logs.
MCContracts ==
  12 :> (P1(3) \o P1(0) \o I("MSTORE") \o P2(8) \o P1(0) \o I("RETURN"))
  @@ 13 :> (I("RETURNDATASIZE") \o P1(1) \o P1(2) \o I("MSTORE") \o P2(4) \o P2(5) \o I("REVERT"))
  @@ 14 :> call("CALLCODE", tt256 - 1, 14, 0, <<0, 0>>, <<0, 7>>)
  @@ 15 :> (P1(0) \o P1(0) \o I("LOG0") \o P1(0) \o P1(0) \o P1(1) \o I("CREATE"))

Calls ==
  {contract(call(op, g, a, v, <<1, 3>>, out) \o afterCall, 1700, f) :
     op \in DOMAIN CallOps, g \in {100, tt64}, a \in 11 .. 15, v \in {0}, out \in {<<0, 0>>, <<2, 5>>},
     f \in {{}, Latest}}
  \cup {contract(call(op, 100, a, v, <<0, 0>>, <<0, 7>>), 12000, Latest) :
     op \in {"CALL", "CALLCODE", "DELEGATECALL"}, a \in {12, 13}, v \in {1, 2}}
  \cup {[contract(call(op, 100, 15, v, <<0, 0>>, <<0, 7>>), 12000, Latest) EXCEPT !.static = TRUE] :
     op \in {"CALL", "STATICCALL"}, v \in {0, 1}}
  \cup {contract(call("CALL", 1000, 14, 0, <<0, 0>>, <<0, 7>>), 5000, Latest)}

\* Words in the memory, one after the other, and a call with the first n bytes.
words(ws) == join([i \in DOMAIN ws |-> P(ws[i]) \o P((i - 1) * WordBytes) \o I("MSTORE")])
precompiled(ws, n, a, out) ==
  contract(words(ws) \o call("CALL", 800, a, 0, <<0, n>>, out), 3000, Latest)

\* Lengths, then bytes of base, exponent and modulus, some of them beyond the input;
\* and lengths alone: beyond what can be paid, and beyond a uint64.
ModExps ==
  {precompiled(<<b, e, m, 9000, 5555>>, n, 5, <<0, 3>>) :
     b \in {0, 2, 5}, e \in {0, 1, 3}, m \in {0, 1, 4}, n \in {23, 25, 35}}
  \cup {precompiled(<<b, e, m>>, n, 5, <<0, 3>>) :
     b \in {0, 9, tt64}, e \in {0, 30, tt64}, m \in {0, 70, tt64 + 1}, n \in {10, 21}}

Precompileds ==
  {[precompiled(<<w, v, tt256 - 1>>, n, a, <<0, 0>>) EXCEPT !.gas = 8000, !.config = f] :
     w \in {7, 5555}, v \in {0, 1, 5555}, n \in {0, 12, 21, 28, 42}, a \in {1, 2, 3, 4, 6, 7, 8, 9},
     f \in {{}, Byzantium, Latest}}

\* Ranges of no bytes.
Bounds ==
  {contract(call("CALL", 500, 12, 0, <<0, 0>>, <<100, 0>>), 1700, Latest),
   contract(P1(0) \o P1(0) \o P1(1) \o I("RETURNDATACOPY"), 100, Latest)}

Probes ==
  {contract(P2(6) \o I("JUMP") \o I("STOP") \o I("STOP") \o I("STOP"), 50, Latest),
   contract(P1(1) \o I("MLOAD") \o P1(0) \o I("MSTORE"), 50, Latest),
   [contract(I("CALLVALUE") \o I("RETURNDATASIZE"), 50, Latest) EXCEPT !.value = NilValue],
   contract(call("STATICCALL", 500, 13, 0, <<0, 0>>, <<0, 0>>) \o afterCall, 1700, Latest),
   precompiled(<<2, 1, 3, 5555>>, 26, 5, <<0, 3>>)}

MCPrograms(n) ==
  IF ~Full THEN Bounds
  ELSE IF n = 1 THEN Arithmetic \cup Control \cup Contexts \cup Memories \cup Calls
                       \cup ModExps \cup Precompileds \cup Bounds
  ELSE Probes

MCHostWord(op, x) ==
  CASE op = "NUMBER" -> 300
    [] op = "SELFBALANCE" -> 1
    [] op = "EMPTY" -> truth(x \notin DOMAIN MCContracts)
    [] op = "EXISTS" -> truth(x \in DOMAIN MCContracts)
    [] op = "EXTCODESIZE" -> Len(codeAt(x))
    [] OTHER -> (x * 5 + 11) % tt256

\* Different for different short inputs.
MCDigest(name, bytes) == toBytes((MapThenSumSet(LAMBDA i : i * bytes[i], DOMAIN bytes) + Len(bytes)) % tt256)
MCValid(name, bytes) == bytes # << >> /\ bytes[Len(bytes)] # 2

MCKeccak(bytes) == (MapThenSumSet(LAMBDA i : i * bytes[i], DOMAIN bytes) * 7 + Len(bytes)) % tt256
=============================================================================

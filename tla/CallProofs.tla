----------------------------- MODULE CallProofs -----------------------------
(***************************************************************************)
(* Proofs about the calls of Transition: what a call tells its caller, that *)
(* its transfers are covered, that static calls write nothing and that no  *)
(* transaction is applied twice.                                           *)
(***************************************************************************)
EXTENDS TransitionProofs

-----------------------------------------------------------------------------
(* The steps, by what they do to the stack of frames.                      *)

\* Callx is about to run the contract c above the frames below.
Calling(below, c) ==
  \/ /\ frames = << >> /\ msg # NoMsg
     /\ below = << >> /\ c = topmost(msg)
  \/ /\ frames # << >>
     /\ \E g \in Gas : below = setGas(frames, g) /\ Outgoing(c, g)

\* The contract c starts to run.
Enters(below, c) ==
  LET e == enter(tree, c, Len(below) + 1) IN
  /\ Calling(below, c)
  /\ e.err = ""
  /\ tree' = e.tree
  /\ frames' = Append(below, frameOf(c, e.snapshot))
  /\ gasPool' = gasPool /\ totalGas' = totalGas /\ msg' = msg
  /\ txs' = txs /\ txStart' = txStart /\ applied' = applied
  /\ last' = last /\ destroyed' = destroyed

\* Where the result r of the call op, handed to the frames below, comes from:
\* the running contract ended, a call failed before it ran, or it could not be
\* paid for.
Ended(below, op, r) ==
  /\ frames # << >> /\ below = callers /\ op = running.op
  /\ \E t \in Trees, res \in Runs :
       RanTo(t) /\ res.gasLeft <= running.gas /\ r = leave(running, t, res)

Failed(below, op, r) ==
  \E c \in Calls :
    LET e == enter(tree, c, Len(below) + 1) IN
    /\ Calling(below, c) /\ op = c.op /\ destroyed' = destroyed
    /\ e.err # "" /\ r = result(e.err, e.gasLeft, e.tree)

Unpaid(below, op, r) ==
  /\ frames # << >> /\ destroyed' = destroyed
  /\ \E g \in Gas, given \in Gas :
       /\ below = setGas(frames, g) /\ r = result("bad", given, tree)
       /\ Forks["EIP150"] => g + given <= running.gas

Hands(below, op, r) ==
  /\ msg # NoMsg
  /\ Return(below, op, r)
  /\ Ended(below, op, r) \/ Failed(below, op, r) \/ Unpaid(below, op, r)

Transacts ==
  \/ frames # << >> /\ \E t \in Trees, g \in Gas : Goes(t, g)
  \/ \E below \in Seq(Frames), op \in CallOps, r \in Results : Hands(below, op, r)
  \/ \E below \in Seq(Frames), c \in Calls : Enters(below, c)

\* A call that Callx is given starts to run or fails.
LEMMA CallingForm ==
  ASSUME TypeInv, msg # NoMsg, NEW below \in Seq(Frames), NEW c \in Calls,
         Calling(below, c), Callx(below, tree, c), destroyed' = destroyed
  PROVE  Transacts
  <1> DEFINE e == enter(tree, c, Len(below) + 1)
  <1>1. tree \in Trees /\ Len(below) + 1 \in Nat /\ c.op \in CallOps
    <2>1. Len(below) \in Nat
      BY LenProperties
    <2>2. c.op \in CallOps
      BY DEF Calls
    <2>3. tree \in Trees
      BY DEF TypeInv, TypeOK
    <2>4. Len(below) + 1 \in Nat
      BY <2>1
    <2> QED
      BY <2>2, <2>3, <2>4
  <1>2. /\ e.tree \in Trees /\ e.gasLeft \in Gas
        /\ e.err \in {"", "ErrDepth", "ErrInsufficientBalance",
                      "ErrContractAddressCollision"}
    BY <1>1, EnterType
  <1>3. \/ e.err # "" /\ Return(below, c.op, result(e.err, e.gasLeft, e.tree))
        \/ /\ e.err = "" /\ tree' = e.tree
           /\ frames' = Append(below, frameOf(c, e.snapshot))
           /\ gasPool' = gasPool /\ totalGas' = totalGas /\ msg' = msg
           /\ txs' = txs /\ txStart' = txStart /\ applied' = applied
           /\ last' = last
    BY CallxForm
  <1>4. CASE e.err # "" /\ Return(below, c.op, result(e.err, e.gasLeft, e.tree))
    <2> DEFINE r == result(e.err, e.gasLeft, e.tree)
    <2>1. e.err \in RunErrors \cup HostErrors
      BY <1>2 DEF RunErrors, HostErrors
    <2>2. r \in Results
      BY <1>2, <2>1, ResultType
    <2>3. Failed(below, c.op, r)
      BY <1>4 DEF Failed
    <2>4. Hands(below, c.op, r)
      BY <1>4, <2>3 DEF Hands
    <2> QED
      BY <1>1, <2>2, <2>4 DEF Transacts
  <1>5. CASE /\ e.err = "" /\ tree' = e.tree
             /\ frames' = Append(below, frameOf(c, e.snapshot))
             /\ gasPool' = gasPool /\ totalGas' = totalGas /\ msg' = msg
             /\ txs' = txs /\ txStart' = txStart /\ applied' = applied
             /\ last' = last
    <2>1. Enters(below, c)
      BY <1>5, Zenon DEF Enters
    <2> QED
      BY <2>1 DEF Transacts
  <1> QED
    BY <1>3, <1>4, <1>5

\* Every step of a transaction goes on, returns or calls.
LEMMA TransactForm ==
  ASSUME CreationsStay, TypeInv, Step
  PROVE  Transacts
  <1>1. CASE Begin
    <2>1. /\ msg # NoMsg /\ frames = << >> /\ Callx(<< >>, tree, topmost(msg))
          /\ destroyed' = destroyed
      BY <1>1 DEF Begin
    <2>2. << >> \in Seq(Frames)
      OBVIOUS
    <2>3. topmost(msg) \in Calls
      BY <2>1, TopmostCall
    <2>4. Calling(<< >>, topmost(msg))
      BY <2>1 DEF Calling
    <2> QED
      BY <2>1, <2>2, <2>3, <2>4, CallingForm
  <1>2. CASE Stepped
    <2>1. frames # << >> /\ frames \in Seq(Frames) /\ tree \in Trees
      BY <1>2 DEF Stepped, TypeInv, TypeOK
    <2>2. msg # NoMsg
      BY <2>1 DEF TypeInv, Started
    <2>3. running \in Frames /\ callers \in Seq(Frames)
      BY <2>1, Topmost
    <2>4. running.op \in CallOps
      BY <2>3 DEF Frames
    <2>5. ASSUME NEW t \in Trees, NEW g \in Gas, Goes(t, g)
          PROVE  Transacts
      BY <2>1, <2>5 DEF Transacts
    <2>6. ASSUME NEW t \in Trees, NEW res \in Runs, Ends(t, res)
          PROVE  Transacts
      <3> DEFINE r == leave(running, t, res)
      <3>1. r \in Results
        BY <2>3, LeaveType
      <3>2. /\ RanTo(t) /\ res.gasLeft <= running.gas
            /\ Return(callers, running.op, r)
        BY <2>6 DEF Ends
      <3>3. Ended(callers, running.op, r)
        BY <2>1, <3>2 DEF Ended
      <3>4. Hands(callers, running.op, r)
        BY <2>2, <3>2, <3>3 DEF Hands
      <3> QED
        BY <2>3, <2>4, <3>1, <3>4 DEF Transacts
    <2>7. ASSUME NEW c \in Calls, NEW g \in Gas, CallsOut(c, g)
          PROVE  Transacts
      <3>1. /\ Outgoing(c, g) /\ Callx(setGas(frames, g), tree, c)
            /\ destroyed' = destroyed
        BY <2>7 DEF CallsOut
      <3>2. setGas(frames, g) \in Seq(Frames)
        BY <2>1, SetGas
      <3>3. Calling(setGas(frames, g), c)
        BY <2>1, <3>1 DEF Calling
      <3> QED
        BY <2>2, <3>1, <3>2, <3>3, CallingForm
    <2>8. ASSUME NEW op \in CallOps, NEW g \in Gas, NEW given \in Gas,
                 CannotPay(op, g, given)
          PROVE  Transacts
      <3> DEFINE q == setGas(frames, g)
                 r == result("bad", given, tree)
      <3>1. /\ Forks["EIP150"] => g + given <= running.gas
            /\ Return(q, op, r)
            /\ destroyed' = destroyed
        BY <2>8 DEF CannotPay
      <3>2. q \in Seq(Frames)
        BY <2>1, SetGas
      <3>3. r \in Results
        <4>1. "bad" \in RunErrors \cup HostErrors
          BY DEF HostErrors
        <4> QED
          BY <2>1, <4>1, ResultType
      <3>4. Unpaid(q, op, r)
        BY <2>1, <3>1 DEF Unpaid
      <3>5. Hands(q, op, r)
        BY <2>2, <3>1, <3>4 DEF Hands
      <3> QED
        BY <3>2, <3>3, <3>5 DEF Transacts
    <2> QED
      BY <1>2, <2>5, <2>6, <2>7, <2>8 DEF Stepped
  <1> QED
    BY <1>1, <1>2, StepForm


\* What every frame of the stack satisfies, whatever gas it has, is kept by the
\* operations on the stack.
LEMMA StackKept ==
  ASSUME NEW G \in SUBSET Frames, \A f \in G, g \in Gas : [f EXCEPT !.gas = g] \in G
  PROVE  /\ \A q \in Seq(G), g \in Gas : q # << >> => setGas(q, g) \in Seq(G)
         /\ frames \in Seq(G) /\ frames # << >> => callers \in Seq(G) /\ running \in G
         /\ \A q \in Seq(G), f \in G : Append(q, f) \in Seq(G)
  <1>1. ASSUME NEW q \in Seq(G), NEW g \in Gas, q # << >>
        PROVE  setGas(q, g) \in Seq(G)
    <2>1. Len(q) \in 1 .. Len(q) /\ q[Len(q)] \in G
      BY <1>1
    <2>2. [q[Len(q)] EXCEPT !.gas = g] \in G
      BY <2>1
    <2> QED
      BY <2>1, <2>2 DEF setGas
  <1>2. ASSUME frames \in Seq(G), frames # << >>
        PROVE  callers \in Seq(G) /\ running \in G
    <2>1. Len(frames) \in Nat \ {0} /\ Len(frames) \in 1 .. Len(frames)
      BY <1>2
    <2>2. running \in G
      BY <1>2, <2>1 DEF running
    <2>3. \A i \in 1 .. Len(frames) - 1 : frames[i] \in G
      BY <1>2, <2>1
    <2>4. 1 \in Int /\ Len(frames) - 1 \in Int
      BY <2>1
    <2>5. SubSeq(frames, 1, Len(frames) - 1) \in Seq(G)
      BY <2>3, <2>4, SubSeqProperties
    <2> QED
      BY <2>2, <2>5 DEF callers
  <1>3. \A q \in Seq(G), f \in G : Append(q, f) \in Seq(G)
    BY AppendProperties
  <1> QED
    BY <1>1, <1>2, <1>3

\* The frames after a return: those below, the topmost with the gas it got back.
LEMMA ReturnFrames ==
  ASSUME NEW G \in SUBSET Frames, \A f \in G, g \in Gas : [f EXCEPT !.gas = g] \in G,
         NEW below \in Seq(G), NEW op, NEW r \in Results, Return(below, op, r)
  PROVE  frames' \in Seq(G)
  <1>1. CASE below = << >>
    <2>1. Settle(r.tree, r.err, r.gasLeft)
      BY <1>1, ReturnForm
    <2>2. frames' = << >>
      BY <2>1, Zenon DEF Settle
    <2> QED
      BY <2>2
  <1>2. CASE below # << >>
    <2> DEFINE g == (below[Len(below)].gas + r.gasLeft) % Word
    <2>1. frames' = setGas(below, g)
      BY <1>2, ReturnForm
    <2>2. g \in Gas
      <3>1. below[Len(below)] \in Frames
        BY <1>2
      <3>2. below[Len(below)].gas \in Gas /\ r.gasLeft \in Gas
        BY <3>1 DEF Frames, Results, Gas
      <3> QED
        BY <3>2, TxnConstants DEF Gas
    <2> HIDE DEF g
    <2> QED
      BY <1>2, <2>1, <2>2, StackKept
  <1> QED
    BY <1>1, <1>2

\* What every frame satisfies when it is pushed, every frame satisfies.
LEMMA StepFrames ==
  ASSUME NEW G \in SUBSET Frames, \A f \in G, g \in Gas : [f EXCEPT !.gas = g] \in G,
         frames \in Seq(G), Transacts,
         \A below \in Seq(Frames), c \in Calls :
           Enters(below, c) => frameOf(c, enter(tree, c, Len(below) + 1).snapshot) \in G
  PROVE  frames' \in Seq(G)
  <1>1. ASSUME NEW below, NEW c, Calling(below, c)
        PROVE  below \in Seq(G)
    <2>1. << >> \in Seq(G)
      OBVIOUS
    <2>2. ASSUME NEW g \in Gas, frames # << >>, below = setGas(frames, g)
          PROVE  below \in Seq(G)
      BY <2>2, StackKept
    <2> QED
      BY <1>1, <2>1, <2>2 DEF Calling
  <1>2. ASSUME NEW t \in Trees, NEW g \in Gas, Goes(t, g), frames # << >>
        PROVE  frames' \in Seq(G)
    <2>1. frames' = setGas(frames, g)
      BY <1>2 DEF Goes
    <2> QED
      BY <1>2, <2>1, StackKept
  <1>3. ASSUME NEW below \in Seq(Frames), NEW op \in CallOps, NEW r \in Results,
               Hands(below, op, r)
        PROVE  frames' \in Seq(G)
    <2>2. below \in Seq(G)
      <3>1. CASE Ended(below, op, r)
        BY <3>1, StackKept DEF Ended
      <3>2. CASE Failed(below, op, r)
        BY <1>1, <3>2 DEF Failed
      <3>3. CASE Unpaid(below, op, r)
        BY <3>3, StackKept DEF Unpaid
      <3> QED
        BY <1>3, <3>1, <3>2, <3>3 DEF Hands
    <2>3. Return(below, op, r)
      BY <1>3 DEF Hands
    <2> QED
      BY <2>2, <2>3, ReturnFrames
  <1>4. ASSUME NEW below \in Seq(Frames), NEW c \in Calls, Enters(below, c)
        PROVE  frames' \in Seq(G)
    <2> DEFINE f == frameOf(c, enter(tree, c, Len(below) + 1).snapshot)
    <2>1. Calling(below, c) /\ frames' = Append(below, f)
      BY <1>4 DEF Enters
    <2>2. f \in G
      BY <1>4
    <2> HIDE DEF f
    <2> QED
      BY <1>1, <2>1, <2>2, StackKept
  <1> QED
    BY <1>2, <1>3, <1>4 DEF Transacts


-----------------------------------------------------------------------------
(* What a call tells its caller.                                           *)

\* The creations are the frames of CREATE and CREATE2.
Honest == {f \in Frames : f.type = "Create" <=> f.op \in {"CREATE", "CREATE2"}}

\* Between preCheck and the topmost call the sender still has the value.
Funded ==
  msg # NoMsg /\ frames = << >> => ~NotEnoughFunds(Base, tree, msg.from, msg.value)

CallInv ==
  /\ TypeInv
  /\ frames \in Seq(Honest)
  /\ Funded
  /\ TransferNeverFails
  /\ CreateTellsTruth

\* The balances after the writers that move no ether.
LEMMA SameBalance ==
  ASSUME NEW t \in Trees, NEW a \in Addrs, NEW x \in Addrs
  PROVE  /\ GetBalance(Base, TouchAccount(Base, t, a), x) = GetBalance(Base, t, x)
         /\ GetBalance(Base, IncrNonce(Base, t, a), x) = GetBalance(Base, t, x)
         /\ GetBalance(Base, CreateAccount(Base, t, a), x) = GetBalance(Base, t, x)
  <1> DEFINE o == objectOrNew(Base, t, a)
             other == objectOrNew(Base, t, x)
  <1>1. o \in Objects
    BY ObjectType, BlockConstants
  <1>2. newStateObject \in Objects
    BY NewObjectType
  <1>3. /\ objectOrNew(Base, TouchAccount(Base, t, a), x) = other
        /\ objectOrNew(Base, IncrNonce(Base, t, a), x) =
             IF x = a THEN [o EXCEPT !.nonce = o.nonce + 1] ELSE other
        /\ objectOrNew(Base, CreateAccount(Base, t, a), x) =
             IF x = a THEN [newStateObject EXCEPT !.balance = o.balance] ELSE other
    BY WriterReads, BlockConstants
  <1>4. x = a => other = o
    OBVIOUS
  <1> HIDE DEF o, other
  <1>5. /\ [o EXCEPT !.nonce = o.nonce + 1].balance = o.balance
        /\ [newStateObject EXCEPT !.balance = o.balance].balance = o.balance
    BY <1>1, <1>2 DEF Objects
  <1> QED
    BY <1>3, <1>4, <1>5 DEF GetBalance, o, other

\* A call or creation whose value its caller has does not fail to transfer it.
LEMMA EnterFunded ==
  ASSUME NEW t \in Trees, NEW c \in Calls, NEW d \in Nat,
         c.type \in {"Call", "Create"} => ~NotEnoughFunds(Base, t, c.caller, c.value)
  PROVE  enter(t, c, d).err # "ErrInsufficientBalance"
  <1> DEFINE touched == TouchAccount(Base, t, c.address)
             bumped == IncrNonce(Base, t, c.caller)
             made == CreateAccount(Base, bumped, c.address)
             forced == IF Forks["EIP158"] THEN IncrNonce(Base, made, c.address) ELSE bumped
  <1>1. c.caller \in Addrs /\ c.address \in Addrs
    BY DEF Calls
  <1>2. bumped \in Trees
    BY <1>1, WriterType, BlockConstants
  <1>3. made \in Trees
    BY <1>1, <1>2, WriterType, BlockConstants
  <1>4. /\ GetBalance(Base, touched, c.caller) = GetBalance(Base, t, c.caller)
        /\ GetBalance(Base, bumped, c.caller) = GetBalance(Base, t, c.caller)
    BY <1>1, SameBalance
  <1>5. GetBalance(Base, made, c.caller) = GetBalance(Base, bumped, c.caller)
    <2> HIDE DEF bumped
    <2> QED
      BY <1>1, <1>2, SameBalance
  <1>6. GetBalance(Base, IncrNonce(Base, made, c.address), c.caller)
          = GetBalance(Base, made, c.caller)
    <2> HIDE DEF made
    <2> QED
      BY <1>1, <1>3, SameBalance
  <1>7. GetBalance(Base, forced, c.caller) = GetBalance(Base, t, c.caller)
    BY <1>4, <1>5, <1>6
  <1>8. c.type = "Call" => ~NotEnoughFunds(Base, touched, c.caller, c.value)
    BY <1>4 DEF NotEnoughFunds
  <1>9. c.type = "Create" => ~NotEnoughFunds(Base, forced, c.caller, c.value)
    <2> HIDE DEF forced
    <2> QED
      BY <1>7 DEF NotEnoughFunds
  <1> QED
    BY <1>8, <1>9 DEF enter, enterCall, enterCreate

\* What a return writes about the call that ended.
LEMMA ReturnLast ==
  ASSUME NEW below, NEW op, NEW r, Return(below, op, r)
  PROVE  /\ last'.err = r.err
         /\ below = << >> => last'.op = "TX"
         /\ below # << >> => /\ last'.op = op
                             /\ last'.pushed = pushed(op, r.err)
                             /\ last'.created = r.created
  <1>1. CASE below = << >>
    <2>1. Settle(r.tree, r.err, r.gasLeft)
      BY <1>1, ReturnForm
    <2>2. \E n, k : last' = [NoResult EXCEPT !.op = "TX", !.err = r.err, !.used = n, !.logs = k]
      BY <2>1, Zenon DEF Settle
    <2>3. last'.err = r.err /\ last'.op = "TX"
      BY <2>2, Zenon DEF NoResult
    <2> QED
      BY <1>1, <2>3
  <1>2. CASE below # << >>
    <2>1. last' = [NoResult EXCEPT !.op = op, !.err = r.err, !.pushed = pushed(op, r.err),
                                   !.created = r.created]
      BY <1>2, Zenon DEF Return
    <2> QED
      BY <1>2, <2>1, Zenon DEF NoResult
  <1> QED
    BY <1>1, <1>2

\* The state that a call leaves: its own, with its code if it is a creation, or
\* the one from before the call.
LEMMA LeaveTree ==
  ASSUME NEW f \in Frames, NEW t \in Trees, NEW res \in Runs
  PROVE  LET r == leave(f, t, res) IN
         \/ r.tree = f.snapshot
         \/ r.tree = t
         \/ f.type = "Create" /\ r.tree = SetCode(Base, t, f.address, res.ret)
  <1> DEFINE r == leave(f, t, res)
             s == SetCode(Base, t, f.address, res.ret)
             u == f.snapshot
             g == res.gasLeft
             h == res.gasLeft - CodeSize[res.ret] * 200
  <1>1. \/ r = result(res.err, g, u)
        \/ r = result("", g, t)
        \/ r = result("ErrMaxCodeSizeExceeded", 0, u)
        \/ r = result("ErrCodeStoreOutOfGas", 0, u)
        \/ r = created("ErrCodeStoreOutOfGas", g, t)
        \/ f.type = "Create" /\ r = created("", h, s)
    BY LeaveForm, ZenonT(60)
  <1> SUFFICES r.tree = u \/ r.tree = t \/ (f.type = "Create" /\ r.tree = s)
    OBVIOUS
  <1> HIDE DEF r, s, u, g, h
  <1>2. ASSUME NEW x, NEW y, NEW z, r = result(x, y, z) \/ r = created(x, y, z)
        PROVE  r.tree = z
    <2>1. CASE r = result(x, y, z)
      BY <2>1, Zenon DEF result
    <2>2. CASE r = created(x, y, z)
      BY <2>2, Zenon DEF created
    <2> QED
      BY <1>2, <2>1, <2>2
  <1>3. CASE r = result(res.err, g, u)
    BY <1>2, <1>3
  <1>4. CASE r = result("", g, t) \/ r = created("ErrCodeStoreOutOfGas", g, t)
    BY <1>2, <1>4
  <1>5. CASE \/ r = result("ErrMaxCodeSizeExceeded", 0, u)
             \/ r = result("ErrCodeStoreOutOfGas", 0, u)
    BY <1>2, <1>5
  <1>6. CASE f.type = "Create" /\ r = created("", h, s)
    BY <1>2, <1>6
  <1> QED
    BY <1>1, <1>3, <1>4, <1>5, <1>6

\* The running contract's result: CREATE pushes an address exactly when the
\* contract stays.
LEMMA LeaveTells ==
  ASSUME NEW f \in Honest, NEW t \in Trees, NEW res \in Runs
  PROVE  /\ leave(f, t, res).err # "ErrInsufficientBalance"
         /\ f.op = "CREATE" =>
              (pushed(f.op, leave(f, t, res).err) <=> leave(f, t, res).created)
  <1> DEFINE r == leave(f, t, res)
             n == CodeSize[res.ret]
  <1>1. f \in Frames /\ (f.op = "CREATE" => f.type = "Create")
    BY DEF Honest
  <1>2. /\ res.err # "" => r = result(res.err, res.gasLeft, f.snapshot)
        /\ res.err = "" /\ f.type # "Create" => r = result("", res.gasLeft, t)
        /\ res.err = "" /\ f.type = "Create" =>
             \/ r = result("ErrMaxCodeSizeExceeded", 0, f.snapshot)
             \/ Forks["Homestead"] /\ r = result("ErrCodeStoreOutOfGas", 0, f.snapshot)
             \/ /\ ~Forks["Homestead"]
                /\ r = created("ErrCodeStoreOutOfGas", res.gasLeft, t)
             \/ /\ ~(res.gasLeft < n * 200)
                /\ r = created("", res.gasLeft - n * 200,
                               SetCode(Base, t, f.address, res.ret))
    BY <1>1, LeaveForm, ZenonT(60)
  <1>3. res.err \in RunErrors
    BY DEF Runs
  <1> HIDE DEF r, n
  <1>4. ASSUME NEW e, NEW g, NEW u
        PROVE  /\ r = result(e, g, u) => r.err = e /\ ~r.created
               /\ r = created(e, g, u) => r.err = e /\ r.created
    <2>1. ASSUME r = result(e, g, u) PROVE r.err = e /\ ~r.created
      BY <2>1, Zenon DEF result
    <2>2. ASSUME r = created(e, g, u) PROVE r.err = e /\ r.created
      BY <2>2, Zenon DEF created
    <2> QED
      BY <2>1, <2>2
  <1>5. \/ r.err = res.err /\ r.err # "" /\ ~r.created
        \/ r.err = "" /\ f.type # "Create"
        \/ r.err = "ErrMaxCodeSizeExceeded" /\ ~r.created
        \/ r.err = "ErrCodeStoreOutOfGas" /\ Forks["Homestead"] /\ ~r.created
        \/ r.err = "ErrCodeStoreOutOfGas" /\ ~Forks["Homestead"] /\ r.created
        \/ r.err = "" /\ r.created
    <2>1. CASE res.err # ""
      <3>1. r = result(res.err, res.gasLeft, f.snapshot)
        BY <1>2, <2>1
      <3>2. r.err = res.err /\ ~r.created
        BY <1>4, <3>1, Zenon
      <3> QED
        BY <2>1, <3>2
    <2>2. CASE res.err = "" /\ f.type # "Create"
      <3>1. r = result("", res.gasLeft, t)
        BY <1>2, <2>2
      <3>2. r.err = ""
        BY <1>4, <3>1, Zenon
      <3> QED
        BY <2>2, <3>2
    <2>3. CASE res.err = "" /\ f.type = "Create"
      <3>1. \/ r = result("ErrMaxCodeSizeExceeded", 0, f.snapshot)
            \/ Forks["Homestead"] /\ r = result("ErrCodeStoreOutOfGas", 0, f.snapshot)
            \/ /\ ~Forks["Homestead"]
               /\ r = created("ErrCodeStoreOutOfGas", res.gasLeft, t)
            \/ \E g, u : r = created("", g, u)
        BY <1>2, <2>3
      <3> QED
        BY <1>4, <3>1, Zenon
    <2> QED
      BY <2>1, <2>2, <2>3
  <1>6. r.err # "ErrInsufficientBalance"
    BY <1>3, <1>5 DEF RunErrors
  <1>7. f.op = "CREATE" => (pushed(f.op, r.err) <=> r.created)
    <2>1. f.op = "CREATE" =>
            \/ r.err \notin {"", "ErrCodeStoreOutOfGas"} /\ ~r.created
            \/ r.err = "ErrCodeStoreOutOfGas" /\ Forks["Homestead"] /\ ~r.created
            \/ r.err = "ErrCodeStoreOutOfGas" /\ ~Forks["Homestead"] /\ r.created
            \/ r.err = "" /\ r.created
      BY <1>1, <1>3, <1>5 DEF RunErrors
    <2> QED
      BY <2>1 DEF pushed
  <1> QED
    BY <1>6, <1>7 DEF r


\* Whoever calls has the value it sends.
LEMMA CallingFunded ==
  ASSUME CreationsStay, TypeInv, Funded, NEW below, NEW c \in Calls, Calling(below, c)
  PROVE  /\ c.type = "Create" <=> c.op \in {"CREATE", "CREATE2"}
         /\ c.type \in {"Call", "Create"} => ~NotEnoughFunds(Base, tree, c.caller, c.value)
  <1>1. CASE frames = << >> /\ msg # NoMsg /\ c = topmost(msg)
    <2>1. ~NotEnoughFunds(Base, tree, msg.from, msg.value)
      BY <1>1 DEF Funded
    <2>2. /\ c.caller = msg.from /\ c.value = msg.value
          /\ \/ c.type = "Create" /\ c.op = "CREATE"
             \/ c.type = "Call" /\ c.op = "CALL"
      BY <1>1, TopmostCall
    <2> QED
      BY <2>1, <2>2
  <1>2. ASSUME NEW g \in Gas, Outgoing(c, g)
        PROVE  /\ c.type = "Create" <=> c.op \in {"CREATE", "CREATE2"}
               /\ c.type \in {"Call", "Create"} =>
                    ~NotEnoughFunds(Base, tree, c.caller, c.value)
    BY <1>2 DEF Outgoing
  <1> QED
    BY <1>1, <1>2 DEF Calling

\* The depth that enter is given.
LEMMA DepthType ==
  ASSUME NEW below \in Seq(Frames)
  PROVE  Len(below) + 1 \in Nat
  <1>1. Len(below) \in Nat
    BY LenProperties
  <1> QED
    BY <1>1

\* A result handed to a caller tells the truth.
LEMMA HandsTells ==
  ASSUME CreationsStay, CallInv, NEW below \in Seq(Frames), NEW op \in CallOps,
         NEW r \in Results, Hands(below, op, r)
  PROVE  TransferNeverFails' /\ CreateTellsTruth'
  <1>1. TypeInv /\ Funded /\ frames \in Seq(Honest) /\ tree \in Trees
    BY DEF CallInv, TypeInv, TypeOK
  <1>2. /\ r.err # "ErrInsufficientBalance"
        /\ op = "CREATE" => (pushed(op, r.err) <=> r.created)
    <2>1. CASE Ended(below, op, r)
      <3>1. PICK t \in Trees, res \in Runs : r = leave(running, t, res)
        BY <2>1 DEF Ended
      <3>2. frames # << >> /\ op = running.op
        BY <2>1 DEF Ended
      <3>3. running \in Honest
        <4>1. Len(frames) \in 1 .. Len(frames)
          BY <1>1, <3>2
        <4> QED
          BY <1>1, <4>1 DEF running
      <3> QED
        BY <3>1, <3>2, <3>3, LeaveTells
    <2>2. CASE Failed(below, op, r)
      <3>1. PICK c \in Calls : LET e == enter(tree, c, Len(below) + 1) IN
                               /\ Calling(below, c) /\ e.err # ""
                               /\ r = result(e.err, e.gasLeft, e.tree)
        BY <2>2 DEF Failed
      <3> DEFINE e == enter(tree, c, Len(below) + 1)
      <3>2. c.type \in {"Call", "Create"} => ~NotEnoughFunds(Base, tree, c.caller, c.value)
        BY <1>1, <3>1, CallingFunded
      <3>3. e.err \in {"", "ErrDepth", "ErrInsufficientBalance", "ErrContractAddressCollision"}
        BY <1>1, DepthType, EnterType
      <3>4. e.err # "ErrInsufficientBalance"
        BY <1>1, <3>2, DepthType, EnterFunded
      <3>5. r = result(e.err, e.gasLeft, e.tree)
        BY <3>1
      <3> HIDE DEF e
      <3>6. r.err = e.err /\ ~r.created
        BY <3>5, Zenon DEF result
      <3>7. r.err \in {"ErrDepth", "ErrContractAddressCollision"}
        BY <3>1, <3>3, <3>4, <3>6 DEF e
      <3>8. ~pushed(op, r.err)
        BY <3>7 DEF pushed
      <3> QED
        BY <3>6, <3>7, <3>8
    <2>3. CASE Unpaid(below, op, r)
      <3>1. PICK given \in Gas : r = result("bad", given, tree)
        BY <2>3 DEF Unpaid
      <3>2. r.err = "bad" /\ ~r.created
        BY <3>1, Zenon DEF result
      <3>3. ~pushed(op, r.err)
        BY <3>2 DEF pushed
      <3> QED
        BY <3>2, <3>3
    <2> QED
      BY <2>1, <2>2, <2>3 DEF Hands
  <1>3. Return(below, op, r)
    BY DEF Hands
  <1>4. /\ last'.err = r.err
        /\ below = << >> => last'.op = "TX"
        /\ below # << >> => /\ last'.op = op
                            /\ last'.pushed = pushed(op, r.err)
                            /\ last'.created = r.created
    BY <1>3, ReturnLast
  <1>5. TransferNeverFails'
    BY <1>2, <1>4 DEF TransferNeverFails
  <1>6. CreateTellsTruth'
    <2>1. CASE below = << >>
      BY <1>4, <2>1 DEF CreateTellsTruth
    <2>2. CASE below # << >>
      BY <1>2, <1>4, <2>2, Zenon DEF CreateTellsTruth
    <2> QED
      BY <2>1, <2>2
  <1> QED
    BY <1>5, <1>6

\* A return leaves frames, or ends the transaction.
LEMMA ReturnEnds ==
  ASSUME NEW below \in Seq(Frames), NEW op, NEW r, Return(below, op, r)
  PROVE  msg' = NoMsg \/ (frames' # << >> /\ msg' = msg)
  <1>1. CASE below = << >>
    <2>1. Settle(r.tree, r.err, r.gasLeft)
      BY <1>1, ReturnForm
    <2> QED
      BY <2>1, Zenon DEF Settle
  <1>2. CASE below # << >>
    <2>1. frames' = setGas(below, (below[Len(below)].gas + r.gasLeft) % Word) /\ msg' = msg
      BY <1>2, ReturnForm
    <2>2. \A g : setGas(below, g) # << >>
      BY <1>2 DEF setGas
    <2> QED
      BY <2>1, <2>2
  <1> QED
    BY <1>1, <1>2

\* While a transaction runs its topmost call is on the stack.
LEMMA TransactFrames ==
  ASSUME TypeInv, Transacts
  PROVE  msg' = NoMsg \/ (frames' # << >> /\ msg' = msg)
  <1>1. ASSUME NEW t \in Trees, NEW g \in Gas, frames # << >>, Goes(t, g)
        PROVE  frames' # << >> /\ msg' = msg
    <2>1. frames' = setGas(frames, g) /\ msg' = msg
      BY <1>1 DEF Goes, block
    <2>2. frames \in Seq(Frames)
      BY DEF TypeInv, TypeOK
    <2> QED
      BY <1>1, <2>1, <2>2, SetGas
  <1>2. ASSUME NEW below \in Seq(Frames), NEW op, NEW r, Hands(below, op, r)
        PROVE  msg' = NoMsg \/ (frames' # << >> /\ msg' = msg)
    BY <1>2, ReturnEnds DEF Hands
  <1>3. ASSUME NEW below \in Seq(Frames), NEW c \in Calls, Enters(below, c)
        PROVE  frames' # << >> /\ msg' = msg
    <2>1. /\ frames' = Append(below, frameOf(c, enter(tree, c, Len(below) + 1).snapshot))
          /\ msg' = msg
      BY <1>3 DEF Enters
    <2>2. tree \in Trees
      BY DEF TypeInv, TypeOK
    <2>3. frameOf(c, enter(tree, c, Len(below) + 1).snapshot) \in Frames
      BY <2>2, DepthType, EnterType, FrameType
    <2>4. \A f \in Frames : Append(below, f) # << >>
      BY AppendProperties
    <2> QED
      BY <2>1, <2>3, <2>4
  <1> QED
    BY <1>1, <1>2, <1>3 DEF Transacts


LEMMA CallInit == Init => CallInv
  <1> SUFFICES ASSUME Init PROVE CallInv
    OBVIOUS
  <1>1. TypeInv
    BY TypeInit
  <1>2. frames = << >> /\ msg = NoMsg /\ last = NoResult
    BY DEF Init
  <1>3. NoResult.err = "" /\ NoResult.op = ""
    BY Zenon DEF NoResult
  <1>4. TransferNeverFails /\ CreateTellsTruth
    BY <1>2, <1>3 DEF TransferNeverFails, CreateTellsTruth
  <1>5. frames \in Seq(Honest)
    BY <1>2
  <1> QED
    BY <1>1, <1>2, <1>4, <1>5 DEF CallInv, Funded

\* Buying the gas leaves the sender the value: preCheck looked.
LEMMA AcceptFunded ==
  ASSUME TypeInv, NEW m \in Transactions, Accept(m)
  PROVE  Funded'
  <1> DEFINE bought == SubBalance(Base, tree, m.from, upfrontGasCost(m))
  <1>1. m \in Messages /\ tree \in Trees
    BY BlockConstants DEF TypeInv, TypeOK
  <1>2. m.from \in Addrs /\ m.gas \in Nat /\ m.gasPrice \in Nat /\ m.value \in Nat
    BY <1>1, TxnConstants DEF Messages
  <1>3. bought \in Trees
    <2>1. upfrontGasCost(m) \in Nat
      BY <1>2 DEF upfrontGasCost
    <2> QED
      BY <1>1, <1>2, <2>1, WriterType, BlockConstants
  <1>4. /\ preCheck(m) = "" /\ msg' = m
        /\ tree' = IF m.to = Creation THEN bought ELSE IncrNonce(Base, bought, m.from)
    BY DEF Accept
  <1>5. ~(GetBalance(Base, bought, m.from) < m.value)
    BY <1>1, <1>4, Checked
  <1>6. GetBalance(Base, tree', m.from) = GetBalance(Base, bought, m.from)
    <2> HIDE DEF bought
    <2> QED
      BY <1>2, <1>3, <1>4, SameBalance
  <1> HIDE DEF bought
  <1>7. ~NotEnoughFunds(Base, tree', m.from, m.value)
    BY <1>5, <1>6 DEF NotEnoughFunds
  <1> QED
    BY <1>4, <1>7 DEF Funded

LEMMA CallNext ==
  ASSUME CreationsStay, CallInv, [Next]_vars
  PROVE  CallInv'
  <1>1. TypeInv /\ TypeInv'
    BY TypeNext DEF CallInv
  <1>2. CASE UNCHANGED vars
    BY <1>1, <1>2 DEF vars, CallInv, Funded, TransferNeverFails, CreateTellsTruth
  <1>3. ASSUME NEW m \in Transactions, Accept(m)
        PROVE  CallInv'
    <2>1. frames' = frames /\ last' = last
      BY <1>3 DEF Accept
    <2>2. Funded'
      BY <1>1, <1>3, AcceptFunded
    <2> QED
      BY <1>1, <2>1, <2>2 DEF CallInv, TransferNeverFails, CreateTellsTruth
  <1>4. ASSUME NEW m \in Transactions, Reject(m)
        PROVE  CallInv'
    <2>1. /\ frames' = frames /\ msg' = msg /\ tree' = tree /\ preCheck(m) # ""
          /\ last' = [NoResult EXCEPT !.op = "REJECTED", !.err = preCheck(m), !.used = m.gas]
      BY <1>4, Zenon DEF Reject
    <2>2. last'.op = "REJECTED" /\ last'.err = preCheck(m)
      BY <2>1, Zenon DEF NoResult
    <2>3. preCheck(m) \in CheckErrors
      BY <2>1, BlockConstants, Checked
    <2>4. TransferNeverFails' /\ CreateTellsTruth'
      BY <2>2, <2>3 DEF TransferNeverFails, CreateTellsTruth, CheckErrors
    <2> QED
      BY <1>1, <2>1, <2>4 DEF CallInv, Funded
  <1>5. CASE Step
    <2>1. Transacts
      BY <1>1, <1>5, TransactForm
    <2>2. frames' \in Seq(Honest)
      <3>1. \A f \in Honest, g \in Gas : [f EXCEPT !.gas = g] \in Honest
        BY DEF Honest, Frames, Gas
      <3>2. ASSUME NEW below \in Seq(Frames), NEW c \in Calls, Enters(below, c)
            PROVE  frameOf(c, enter(tree, c, Len(below) + 1).snapshot) \in Honest
        <4> DEFINE s == enter(tree, c, Len(below) + 1).snapshot
        <4>1. s \in Trees
          BY <1>1, DepthType, EnterType DEF TypeInv, TypeOK
        <4>2. c.type = "Create" <=> c.op \in {"CREATE", "CREATE2"}
          BY <1>1, <3>2, CallingFunded DEF Enters, CallInv
        <4> HIDE DEF s
        <4>3. frameOf(c, s) \in Frames
          BY <4>1, FrameType
        <4>4. frameOf(c, s).type = c.type /\ frameOf(c, s).op = c.op
          BY DEF frameOf
        <4>5. frameOf(c, s) \in Honest
          BY <4>2, <4>3, <4>4 DEF Honest
        <4> QED
          BY <4>5 DEF s
      <3>3. frames \in Seq(Honest) /\ Honest \in SUBSET Frames
        BY DEF CallInv, Honest
      <3> QED
        BY <2>1, <3>1, <3>2, <3>3, StepFrames
    <2>3. Funded'
      BY <1>1, <2>1, TransactFrames DEF Funded
    <2>4. TransferNeverFails' /\ CreateTellsTruth'
      <3>1. ASSUME last' = last
            PROVE  TransferNeverFails' /\ CreateTellsTruth'
        BY <3>1 DEF CallInv, TransferNeverFails, CreateTellsTruth
      <3>2. ASSUME NEW t, NEW g, Goes(t, g)
            PROVE  last' = last
        BY <3>2 DEF Goes
      <3>3. ASSUME NEW below, NEW c, Enters(below, c)
            PROVE  last' = last
        BY <3>3 DEF Enters
      <3> QED
        BY <2>1, <3>1, <3>2, <3>3, HandsTells DEF Transacts
    <2> QED
      BY <1>1, <2>2, <2>3, <2>4 DEF CallInv
  <1> QED
    BY <1>2, <1>3, <1>4, <1>5 DEF Next

LEMMA CallAlways ==
  ASSUME CreationsStay
  PROVE  Spec => []CallInv
  <1>1. Init => CallInv
    BY CallInit
  <1>2. CallInv /\ [Next]_vars => CallInv'
    BY CallNext
  <1> QED
    BY <1>1, <1>2, PTL DEF Spec

\* TransferNeverFails: applyCall and applyCreate transfer after the snapshot
\* and return from a failed transfer without reverting to it; no contract gets
\* them to do so, because preCheck looked at the balance after buying the gas,
\* and opCall and opCreate at the caller's, and nothing in between spends it.
THEOREM TransfersNeverFail ==
  ASSUME CreationsStay
  PROVE  Spec => []TransferNeverFails
  <1>1. CallInv => TransferNeverFails
    BY DEF CallInv
  <1> QED
    BY <1>1, CallAlways, PTL

\* CreateTellsTruth: under every fork rule and however the init code ends,
\* CREATE pushes the address exactly when a contract was left at it.
THEOREM CreateIsHonest ==
  ASSUME CreationsStay
  PROVE  Spec => []CreateTellsTruth
  <1>1. CallInv => CreateTellsTruth
    BY DEF CallInv
  <1> QED
    BY <1>1, CallAlways, PTL


-----------------------------------------------------------------------------
(* No transaction is applied twice.                                        *)

Senders == {m.from : m \in Transactions}

\* A sender signs, it is no contract: its account has no code, and no contract
\* is created at its address, which is the hash of a public key.
SendersSign ==
  \A s \in Senders :
    /\ Base[s] # NoAccount => Base[s].codeHash = EmptyCode
    /\ \A a \in Addrs : /\ \A n \in Nat : CreateAddress(a, n) # s
                        /\ \A c \in Codes : CreateAddress2(a, c) # s

\* An account without code that was not destroyed.
plain(o) == ~o.suicide /\ ~o.dirtyCode /\ o.codeHash = EmptyCode

\* No sender's nonce is lower in u than in t, and none has become a contract.
Keeps(t, u) ==
  \A s \in Senders :
    /\ objectOrNew(Base, u, s).nonce >= objectOrNew(Base, t, s).nonce
    /\ plain(objectOrNew(Base, t, s)) => plain(objectOrNew(Base, u, s))

LEMMA SenderType == \A s \in Senders : s \in Addrs
  BY BlockConstants DEF Senders, Messages

LEMMA KeepsSelf ==
  ASSUME NEW t \in Trees
  PROVE  Keeps(t, t)
  <1>1. \A s \in Senders : objectOrNew(Base, t, s).nonce \in Nat
    BY SenderType, ObjectType, BlockConstants DEF Objects
  <1> QED
    BY <1>1 DEF Keeps

LEMMA KeepsTwice ==
  ASSUME NEW t \in Trees, NEW u \in Trees, NEW w \in Trees, Keeps(t, u), Keeps(u, w)
  PROVE  Keeps(t, w)
  <1>1. \A s \in Senders : /\ objectOrNew(Base, t, s).nonce \in Nat
                           /\ objectOrNew(Base, u, s).nonce \in Nat
                           /\ objectOrNew(Base, w, s).nonce \in Nat
    BY SenderType, ObjectType, BlockConstants DEF Objects
  <1> QED
    BY <1>1 DEF Keeps

\* The readers see the senders' accounts through one object each.
LEMMA KeepsObjects ==
  ASSUME NEW t \in Trees, NEW u,
         \A s \in Senders : objectOrNew(Base, u, s) = objectOrNew(Base, t, s)
  PROVE  Keeps(t, u)
  <1>1. \A s \in Senders : objectOrNew(Base, t, s).nonce \in Nat
    BY SenderType, ObjectType, BlockConstants DEF Objects
  <1> QED
    BY <1>1 DEF Keeps

\* A writer that changes other fields, or raises the nonce.
LEMMA KeepsField ==
  ASSUME NEW t \in Trees, NEW u, NEW a \in Addrs, NEW p,
         p.nonce >= objectOrNew(Base, t, a).nonce,
         plain(objectOrNew(Base, t, a)) => plain(p),
         \A x \in Addrs : objectOrNew(Base, u, x) =
                            IF x = a THEN p ELSE objectOrNew(Base, t, x)
  PROVE  Keeps(t, u)
  <1>1. \A s \in Senders : s \in Addrs /\ objectOrNew(Base, t, s).nonce \in Nat
    BY SenderType, ObjectType, BlockConstants DEF Objects
  <1> SUFFICES ASSUME NEW s \in Senders
               PROVE  /\ objectOrNew(Base, u, s).nonce >= objectOrNew(Base, t, s).nonce
                      /\ plain(objectOrNew(Base, t, s)) => plain(objectOrNew(Base, u, s))
    BY DEF Keeps
  <1>2. CASE s = a
    BY <1>1, <1>2
  <1>3. CASE s # a
    BY <1>1, <1>3
  <1> QED
    BY <1>2, <1>3

\* Every writer of the calls keeps the senders; those that could spoil one are
\* only used on other accounts.
LEMMA WriterKeeps ==
  ASSUME NEW t \in Trees, NEW a \in Addrs
  PROVE  /\ Keeps(t, TouchAccount(Base, t, a))
         /\ Keeps(t, IncrNonce(Base, t, a))
         /\ \A n \in Nat : /\ Keeps(t, AddBalance(Base, t, a, n))
                           /\ Keeps(t, SubBalance(Base, t, a, n))
         /\ \A k \in Keys, v \in Vals : Keeps(t, SetStorage(Base, t, a, k, v))
         /\ Keeps(t, EmitLog(t, a))
         /\ Keeps(t, DropLogs(t))
         /\ a \notin Senders => /\ \A c \in Codes : Keeps(t, SetCode(Base, t, a, c))
                                /\ Keeps(t, Suicide(Base, t, a))
                                /\ Keeps(t, CreateAccount(Base, t, a))
  <1> DEFINE o == objectOrNew(Base, t, a)
  <1>1. o \in Objects
    BY ObjectType, BlockConstants
  <1>2. o.balance \in Nat /\ o.nonce \in Nat
    BY <1>1 DEF Objects
  <1>3. \A s \in Senders : s \in Addrs
    BY BlockConstants DEF Senders, Messages
  <1>4. /\ Keeps(t, TouchAccount(Base, t, a)) /\ Keeps(t, EmitLog(t, a))
        /\ Keeps(t, DropLogs(t))
    <2>1. \A x \in Addrs :
            /\ objectOrNew(Base, TouchAccount(Base, t, a), x) = objectOrNew(Base, t, x)
            /\ objectOrNew(Base, EmitLog(t, a), x) = objectOrNew(Base, t, x)
            /\ objectOrNew(Base, DropLogs(t), x) = objectOrNew(Base, t, x)
      BY WriterReads, BlockConstants
    <2> QED
      BY <1>3, <2>1, KeepsObjects
  <1>5. Keeps(t, IncrNonce(Base, t, a))
    <2> DEFINE p == [o EXCEPT !.nonce = o.nonce + 1]
               u == IncrNonce(Base, t, a)
    <2>1. \A x \in Addrs :
            objectOrNew(Base, u, x) = IF x = a THEN p ELSE objectOrNew(Base, t, x)
      BY WriterReads, BlockConstants
    <2>2. p.nonce >= o.nonce /\ (plain(o) => plain(p))
      <3> HIDE DEF o
      <3> QED
        BY <1>1, <1>2 DEF plain, Objects
    <2> HIDE DEF p, u
    <2>3. Keeps(t, u)
      BY <2>1, <2>2, KeepsField
    <2> QED
      BY <2>3 DEF u
  <1>6. ASSUME NEW n \in Nat
        PROVE  Keeps(t, AddBalance(Base, t, a, n)) /\ Keeps(t, SubBalance(Base, t, a, n))
    <2>1. ASSUME NEW u, NEW y,
                 \A x \in Addrs : objectOrNew(Base, u, x) =
                   IF x = a THEN [o EXCEPT !.balance = y] ELSE objectOrNew(Base, t, x)
          PROVE  Keeps(t, u)
      <3> DEFINE p == [o EXCEPT !.balance = y]
      <3>1. p.nonce >= o.nonce /\ (plain(o) => plain(p))
        <4> HIDE DEF o
        <4> QED
          BY <1>1, <1>2 DEF plain, Objects
      <3>2. \A x \in Addrs :
              objectOrNew(Base, u, x) = IF x = a THEN p ELSE objectOrNew(Base, t, x)
        BY <2>1
      <3> HIDE DEF p
      <3> QED
        BY <3>1, <3>2, KeepsField
    <2>2. Keeps(t, AddBalance(Base, t, a, n))
      <3>1. \A x \in Addrs : objectOrNew(Base, AddBalance(Base, t, a, n), x) =
              IF x = a THEN [o EXCEPT !.balance = o.balance + n] ELSE objectOrNew(Base, t, x)
        BY WriterReads, BlockConstants
      <3> QED
        BY <2>1, <3>1
    <2>3. Keeps(t, SubBalance(Base, t, a, n))
      <3>1. CASE n = 0 \/ NotEnoughFunds(Base, t, a, n)
        BY <3>1, KeepsSelf DEF SubBalance
      <3>2. CASE n # 0 /\ ~NotEnoughFunds(Base, t, a, n)
        <4>1. \A x \in Addrs : objectOrNew(Base, SubBalance(Base, t, a, n), x) =
                IF x = a THEN [o EXCEPT !.balance = o.balance - n] ELSE objectOrNew(Base, t, x)
          BY <3>2, WriterReads, BlockConstants
        <4> QED
          BY <2>1, <4>1
      <3> QED
        BY <3>1, <3>2
    <2> QED
      BY <2>2, <2>3
  <1>7. ASSUME NEW k \in Keys, NEW v \in Vals
        PROVE  Keeps(t, SetStorage(Base, t, a, k, v))
    <2> DEFINE p == [o EXCEPT !.slots[k] = v]
               u == SetStorage(Base, t, a, k, v)
    <2>1. CASE u = t
      BY <2>1, KeepsSelf
    <2>2. CASE u.objs = SetState(Base, t, a, k, v).objs
      <3>1. \A x \in Addrs :
              objectOrNew(Base, u, x) = IF x = a THEN p ELSE objectOrNew(Base, t, x)
        <4>1. \A x : objectOrNew(Base, u, x) = objectOrNew(Base, SetState(Base, t, a, k, v), x)
          BY <2>2, SameObjects
        <4>2. \A x \in Addrs : objectOrNew(Base, SetState(Base, t, a, k, v), x) =
                IF x = a THEN p ELSE objectOrNew(Base, t, x)
          BY WriterReads, BlockConstants
        <4> QED
          BY <4>1, <4>2
      <3>2. p.nonce >= o.nonce /\ (plain(o) => plain(p))
        <4> HIDE DEF o
        <4> QED
          BY <1>1, <1>2 DEF plain, Objects
      <3> HIDE DEF p, u
      <3> QED
        BY <3>1, <3>2, KeepsField DEF u
    <2> QED
      BY <2>1, <2>2, SetStorageForm, BlockConstants
  <1>8. ASSUME a \notin Senders
        PROVE  /\ \A c \in Codes : Keeps(t, SetCode(Base, t, a, c))
               /\ Keeps(t, Suicide(Base, t, a))
               /\ Keeps(t, CreateAccount(Base, t, a))
    <2>1. \A s \in Senders : s \in Addrs \ {a}
      BY <1>3, <1>8
    <2>2. \A s \in Senders :
            /\ \A c : objectOrNew(Base, SetCode(Base, t, a, c), s) = objectOrNew(Base, t, s)
            /\ objectOrNew(Base, Suicide(Base, t, a), s) = objectOrNew(Base, t, s)
      BY <2>1, OthersUntouched
    <2>3. \A s \in Senders :
            objectOrNew(Base, CreateAccount(Base, t, a), s) = objectOrNew(Base, t, s)
      BY <2>1, WriterReads, BlockConstants
    <2> QED
      BY <2>2, <2>3, KeepsObjects
  <1> QED
    BY <1>4, <1>5, <1>6, <1>7, <1>8


LEMMA TransferKeeps ==
  ASSUME NEW t \in Trees, NEW a \in Addrs, NEW b \in Addrs, NEW n \in Nat
  PROVE  Keeps(t, transfer(t, a, b, n))
  <1> DEFINE u == SubBalance(Base, t, a, n)
  <1>1. u \in Trees /\ Keeps(t, u)
    BY WriterType, WriterKeeps, BlockConstants
  <1> HIDE DEF u
  <1>2. AddBalance(Base, u, b, n) \in Trees /\ Keeps(u, AddBalance(Base, u, b, n))
    BY <1>1, WriterType, WriterKeeps, BlockConstants
  <1> QED
    BY <1>1, <1>2, KeepsTwice DEF transfer, u

LEMMA SelfdestructKeeps ==
  ASSUME NEW t \in Trees, NEW a \in Addrs \ Senders, NEW b \in Addrs
  PROVE  Keeps(t, Selfdestruct(Base, t, a, b))
  <1> DEFINE r == IF HasSuicided(Base, t, a) THEN t ELSE AddRefund(t, 24000)
             p == AddBalance(Base, r, b, GetBalance(Base, r, a))
  <1>1. r \in Trees /\ r.objs = t.objs
    BY RefundType
  <1> HIDE DEF r
  <1>2. Keeps(t, r)
    BY <1>1, SameObjects, KeepsObjects
  <1>3. GetBalance(Base, r, a) \in Nat
    BY <1>1, ReadType
  <1>4. p \in Trees /\ Keeps(r, p)
    BY <1>1, <1>3, WriterType, WriterKeeps, BlockConstants
  <1> HIDE DEF p
  <1>5. Suicide(Base, p, a) \in Trees /\ Keeps(p, Suicide(Base, p, a))
    BY <1>4, WriterType, WriterKeeps, BlockConstants
  <1>6. Selfdestruct(Base, t, a, b) = Suicide(Base, p, a)
    BY DEF Selfdestruct, p, r
  <1> QED
    BY <1>1, <1>2, <1>4, <1>5, <1>6, KeepsTwice

\* Closing a transaction keeps accounts that were not destroyed; an empty one
\* that it deletes had nonce 0.
LEMMA CleanKeeps ==
  ASSUME NEW t \in Trees, NEW d \in BOOLEAN,
         \A s \in Senders : plain(objectOrNew(Base, t, s))
  PROVE  Keeps(t, CleanDeleteObjects(t, d))
  <1> DEFINE u == CleanDeleteObjects(t, d)
  <1> SUFFICES ASSUME NEW s \in Senders
               PROVE  /\ objectOrNew(Base, u, s).nonce >= objectOrNew(Base, t, s).nonce
                      /\ plain(objectOrNew(Base, t, s)) => plain(objectOrNew(Base, u, s))
    BY Zenon DEF Keeps
  <1> DEFINE o == t.objs[s]
             gone == o # NoObject /\ (o.suicide \/ (isEmpty(o) /\ d))
  <1>1. s \in Addrs /\ objectOrNew(Base, t, s).nonce \in Nat
    BY SenderType, ObjectType, BlockConstants DEF Objects
  <1>2. /\ gone => objectOrNew(Base, u, s) = newStateObject
        /\ ~gone => objectOrNew(Base, u, s) = objectOrNew(Base, t, s)
    BY <1>1, CleanReads, BlockConstants
  <1>3. newStateObject.nonce = 0
    BY DEF newStateObject
  <1>4. plain(newStateObject)
    BY Zenon DEF plain, newStateObject
  <1>5. gone => objectOrNew(Base, t, s).nonce = 0
    <2>1. CASE o.deleted
      BY <1>3, <2>1 DEF objectOrNew, Exist, getStateObject
    <2>2. CASE ~o.deleted
      <3>1. gone => objectOrNew(Base, t, s) = o
        BY <2>2 DEF objectOrNew, Exist, getStateObject
      <3>2. gone => ~o.suicide
        BY <3>1 DEF plain
      <3> QED
        BY <3>1, <3>2 DEF isEmpty
    <2> QED
      BY <2>1, <2>2
  <1> HIDE DEF u, gone
  <1>6. CASE gone
    BY <1>1, <1>2, <1>3, <1>4, <1>5, <1>6
  <1>7. CASE ~gone
    BY <1>1, <1>2, <1>7
  <1> QED
    BY <1>6, <1>7

\* Entering a call keeps the senders; a creation does not start before the
\* caller's nonce is bumped, and it is bumped for good.
LEMMA EnterKeeps ==
  ASSUME NEW t \in Trees, NEW c \in Calls, NEW d \in Nat,
         c.type = "Create" => c.address \notin Senders
  PROVE  /\ Keeps(t, enter(t, c, d).tree)
         /\ Keeps(t, enter(t, c, d).snapshot)
         /\ c.type = "Create" /\ d = 1 =>
              /\ Keeps(IncrNonce(Base, t, c.caller), enter(t, c, d).tree)
              /\ Keeps(IncrNonce(Base, t, c.caller), enter(t, c, d).snapshot)
  <1> DEFINE touched == TouchAccount(Base, t, c.address)
             bumped == IncrNonce(Base, t, c.caller)
             made == CreateAccount(Base, bumped, c.address)
             marked == IncrNonce(Base, made, c.address)
             forced == IF Forks["EIP158"] THEN marked ELSE bumped
             called == transfer(touched, c.caller, c.address, c.value)
             paid == transfer(forced, c.caller, c.address, c.value)
             e == enter(t, c, d)
  <1>1. c.caller \in Addrs /\ c.address \in Addrs /\ c.value \in Nat
    BY DEF Calls
  <1>2. /\ touched \in Trees /\ bumped \in Trees
        /\ Keeps(t, touched) /\ Keeps(t, bumped) /\ Keeps(t, t)
    BY <1>1, WriterType, WriterKeeps, KeepsSelf, BlockConstants
  <1>3. Keeps(bumped, bumped)
    BY <1>2, KeepsSelf
  <1>4. called \in Trees /\ Keeps(touched, called)
    <2> HIDE DEF touched
    <2> QED
      BY <1>1, <1>2, TransferType, TransferKeeps
  <1>5. Keeps(t, called)
    BY <1>2, <1>4, KeepsTwice
  <1>6. /\ c.type = "Create" => forced \in Trees /\ Keeps(bumped, forced)
    <2> HIDE DEF bumped
    <2>1. made \in Trees
      BY <1>1, <1>2, WriterType, BlockConstants
    <2>2. c.type = "Create" => Keeps(bumped, made)
      BY <1>1, <1>2, WriterKeeps
    <2> HIDE DEF made
    <2>3. marked \in Trees /\ Keeps(made, marked)
      BY <1>1, <2>1, WriterType, WriterKeeps, BlockConstants
    <2>4. c.type = "Create" => Keeps(bumped, marked)
      BY <1>2, <2>1, <2>2, <2>3, KeepsTwice
    <2> QED
      BY <1>2, <1>3, <2>3, <2>4
  <1>7. c.type = "Create" => /\ paid \in Trees /\ Keeps(bumped, paid)
    <2> HIDE DEF forced, bumped
    <2>1. c.type = "Create" => paid \in Trees /\ Keeps(forced, paid)
      BY <1>1, <1>6, TransferType, TransferKeeps
    <2> HIDE DEF paid
    <2> QED
      BY <1>2, <1>6, <2>1, KeepsTwice
  <1>8. c.type = "Create" => Keeps(t, forced) /\ Keeps(t, paid)
    <2> HIDE DEF forced, bumped, paid
    <2> QED
      BY <1>2, <1>6, <1>7, KeepsTwice
  <1>9. c.type # "Create" => e.tree \in {t, touched, called} /\ e.snapshot = t
    BY DEF enter, enterCall
  <1>10. c.type = "Create" =>
           \/ d > MaxCallDepth + 1 /\ e.tree = t /\ e.snapshot = t
           \/ e.tree \in {bumped, forced, paid} /\ e.snapshot = bumped
    BY DEF enter, enterCreate
  <1>11. ~(1 > MaxCallDepth + 1)
    BY BlockConstants
  <1> HIDE DEF touched, bumped, made, marked, forced, called, paid, e
  <1>12. CASE c.type # "Create"
    BY <1>2, <1>5, <1>9, <1>12 DEF e
  <1>13. CASE c.type = "Create"
    <2>1. CASE d > MaxCallDepth + 1 /\ e.tree = t /\ e.snapshot = t
      BY <1>2, <1>11, <2>1 DEF e
    <2>2. CASE e.tree \in {bumped, forced, paid} /\ e.snapshot = bumped
      BY <1>2, <1>3, <1>6, <1>7, <1>8, <1>13, <2>2 DEF e, bumped
    <2> QED
      BY <1>10, <1>13, <2>1, <2>2
  <1> QED
    BY <1>12, <1>13


\* No sender has become a contract, and every transaction applied so far is
\* behind its sender's nonce.
Good(t) ==
  /\ \A s \in Senders : plain(objectOrNew(Base, t, s))
  /\ \A p \in applied : GetNonce(Base, t, p[1]) > p[2]

\* A frame that gives way to a good state, and runs no code as a sender.
Guests ==
  {f \in Frames : /\ Good(f.snapshot)
                  /\ f.address \in Senders => f.code = EmptyCode /\ f.type # "Create"}

\* A creation is accepted, and its sender's nonce is not bumped yet.
Waiting == msg # NoMsg /\ frames = << >> /\ msg.to = Creation

\* The strengthening of NoReplay: also the snapshots are behind no nonce, for a
\* failing call goes back to them.
NonceInv ==
  /\ TypeInv
  /\ applied \subseteq Senders \X Nat
  /\ frames \in Seq(Guests)
  /\ \A s \in Senders : plain(objectOrNew(Base, tree, s))
  /\ \A p \in applied :
       \/ GetNonce(Base, tree, p[1]) > p[2]
       \/ Waiting /\ p[1] = msg.from /\ GetNonce(Base, tree, p[1]) >= p[2]

LEMMA GoodKept ==
  ASSUME applied \subseteq Senders \X Nat, NEW t \in Trees, NEW u \in Trees,
         Good(t), Keeps(t, u)
  PROVE  Good(u)
  <1>1. \A s \in Senders : plain(objectOrNew(Base, u, s))
    BY DEF Good, Keeps
  <1>2. ASSUME NEW p \in applied
        PROVE  GetNonce(Base, u, p[1]) > p[2]
    <2>1. p[1] \in Senders /\ p[2] \in Nat
      OBVIOUS
    <2>2. p[1] \in Addrs
      BY <2>1, BlockConstants DEF Senders, Messages
    <2>3. GetNonce(Base, t, p[1]) \in Nat /\ GetNonce(Base, u, p[1]) \in Nat
      BY <2>2, ReadType
    <2>4. GetNonce(Base, t, p[1]) > p[2]
      BY DEF Good
    <2>5. GetNonce(Base, u, p[1]) >= GetNonce(Base, t, p[1])
      BY <2>1 DEF Keeps, GetNonce
    <2> QED
      BY <2>1, <2>3, <2>4, <2>5
  <1> QED
    BY <1>1, <1>2 DEF Good

\* The fees and the end of a transaction.
LEMMA SettledGood ==
  ASSUME TypeInv, msg # NoMsg, applied \subseteq Senders \X Nat,
         NEW t \in Trees, Good(t), NEW left \in Gas, NEW used \in Gas
  PROVE  Good(settled(t, left, used))
  <1> DEFINE repaid == AddBalance(Base, t, msg.from, left * msg.gasPrice)
             paid == AddBalance(Base, repaid, Coinbase, used * msg.gasPrice)
             dropped == DropLogs(paid)
             d == Forks["Byzantium"] \/ Forks["EIP158"]
  <1>1. msg.gasPrice \in Nat /\ msg.from \in Addrs /\ Coinbase \in Addrs
    BY BlockConstants DEF TypeInv, TypeOK, Messages
  <1>2. left * msg.gasPrice \in Nat /\ used * msg.gasPrice \in Nat
    BY <1>1, TxnConstants DEF Gas
  <1>3. repaid \in Trees /\ Keeps(t, repaid)
    BY <1>1, <1>2, WriterType, WriterKeeps, BlockConstants
  <1> HIDE DEF repaid
  <1>4. paid \in Trees /\ Keeps(repaid, paid)
    BY <1>1, <1>2, <1>3, WriterType, WriterKeeps, BlockConstants
  <1> HIDE DEF paid
  <1>5. dropped \in Trees /\ Keeps(paid, dropped)
    BY <1>1, <1>4, WriterType, WriterKeeps, BlockConstants
  <1>6. d \in BOOLEAN
    OBVIOUS
  <1> HIDE DEF d, dropped
  <1>7. Good(dropped)
    BY <1>3, <1>4, <1>5, GoodKept
  <1>8. CleanDeleteObjects(dropped, d) \in Trees /\ Keeps(dropped, CleanDeleteObjects(dropped, d))
    BY <1>5, <1>6, <1>7, EndType, CleanKeeps, BlockConstants DEF Good
  <1>9. Good(CleanDeleteObjects(dropped, d))
    BY <1>5, <1>7, <1>8, GoodKept
  <1>10. settled(t, left, used) = CleanDeleteObjects(dropped, d)
    BY Zenon DEF settled, dropped, paid, repaid, d
  <1> QED
    BY <1>9, <1>10, Zenon

\* A sender's account has no code to run.
LEMMA PlainCode ==
  ASSUME NEW t \in Trees, NEW s \in Senders, plain(objectOrNew(Base, t, s))
  PROVE  GetCode(Base, Codes, t, s) = EmptyCode
  BY TxnConstants DEF plain, GetCode

\* What is called is no sender with code, and the state a call starts from, and
\* goes back to, is good.
LEMMA CallingGood ==
  ASSUME CreationsStay, SendersSign, NonceInv, NEW below \in Seq(Frames),
         NEW c \in Calls, Calling(below, c)
  PROVE  /\ c.address \in Senders => c.code = EmptyCode /\ c.type # "Create"
         /\ Good(enter(tree, c, Len(below) + 1).tree)
         /\ Good(enter(tree, c, Len(below) + 1).snapshot)
  <1> DEFINE e == enter(tree, c, Len(below) + 1)
  <1>1. /\ TypeInv /\ tree \in Trees /\ frames \in Seq(Frames)
        /\ applied \subseteq Senders \X Nat
        /\ \A s \in Senders : s \in Addrs /\ plain(objectOrNew(Base, tree, s))
    BY SenderType DEF NonceInv, TypeInv, TypeOK
  <1>2. e.tree \in Trees /\ e.snapshot \in Trees
    BY <1>1, DepthType, EnterType
  <1>3. c.address \in Senders => c.code = EmptyCode /\ c.type # "Create"
    <2>1. CASE frames = << >> /\ msg # NoMsg /\ c = topmost(msg)
      <3>1. /\ msg.to = Creation =>
                 c.address = CreateAddress(msg.from, GetNonce(Base, tree, msg.from))
            /\ msg.to # Creation => /\ c.type = "Call" /\ c.address = msg.to
                                    /\ c.code = GetCode(Base, Codes, tree, msg.to)
        BY <1>1, <2>1, TopmostCall
      <3>2. msg.from \in Addrs
        BY <1>1, <2>1 DEF TypeInv, TypeOK, Messages
      <3>3. GetNonce(Base, tree, msg.from) \in Nat
        BY <1>1, <3>2, ReadType
      <3>4. CASE msg.to = Creation
        BY <3>1, <3>2, <3>3, <3>4 DEF SendersSign
      <3>5. CASE msg.to # Creation
        BY <1>1, <3>1, <3>5, PlainCode
      <3> QED
        BY <3>4, <3>5
    <2>2. ASSUME NEW g \in Gas, frames # << >>, Outgoing(c, g)
          PROVE  c.address \in Senders => c.code = EmptyCode /\ c.type # "Create"
      <3>1. running \in Guests
        <4>1. frames \in Seq(Guests) /\ Len(frames) \in 1 .. Len(frames)
          BY <1>1, <2>2 DEF NonceInv
        <4> QED
          BY <4>1 DEF running
      <3>2. /\ c.type \in CallTypes /\ c.code \in Codes
            /\ running.code # EmptyCode
            /\ c.type = "Create" =>
                 \/ c.address = CreateAddress(running.address,
                                              GetNonce(Base, tree, running.address))
                 \/ c.address = CreateAddress2(running.address, c.code)
            /\ c.type \in {"Call", "StaticCall"} => c.code = GetCode(Base, Codes, tree, c.address)
            /\ c.type \in {"CallCode", "DelegateCall"} => c.address = running.address
        BY <2>2 DEF Outgoing, Calls
      <3>3. running.address \in Addrs /\ running.address \notin Senders
        BY <3>1, <3>2 DEF Guests, Frames
      <3>4. GetNonce(Base, tree, running.address) \in Nat
        BY <1>1, <3>3, ReadType
      <3>5. CASE c.type = "Create"
        BY <3>2, <3>3, <3>4, <3>5 DEF SendersSign
      <3>6. CASE c.type \in {"Call", "StaticCall"}
        BY <1>1, <3>2, <3>6, PlainCode
      <3>7. CASE c.type \in {"CallCode", "DelegateCall"}
        BY <3>2, <3>3, <3>7
      <3> QED
        BY <3>2, <3>5, <3>6, <3>7 DEF CallTypes
    <2> QED
      BY <2>1, <2>2 DEF Calling
  <1>4. c.type = "Create" => c.address \notin Senders
    BY <1>3
  <1>5. CASE ~Waiting
    <2>1. Good(tree)
      BY <1>1, <1>5 DEF Good, NonceInv
    <2>2. Keeps(tree, e.tree) /\ Keeps(tree, e.snapshot)
      BY <1>1, <1>4, DepthType, EnterKeeps
    <2> HIDE DEF e
    <2>3. Good(e.tree) /\ Good(e.snapshot)
      BY <1>1, <1>2, <2>1, <2>2, GoodKept
    <2> QED
      BY <1>3, <2>3 DEF e
  <1>6. CASE Waiting
    <2> DEFINE bumped == IncrNonce(Base, tree, msg.from)
    <2>1. /\ below = << >> /\ c = topmost(msg) /\ msg # NoMsg /\ msg.to = Creation
      BY <1>6 DEF Waiting, Calling
    <2>2. c.type = "Create" /\ c.caller = msg.from
      BY <1>1, <2>1, TopmostCall
    <2>3. msg.from \in Addrs
      BY <1>1, <2>1 DEF TypeInv, TypeOK, Messages
    <2>4. bumped \in Trees /\ Keeps(tree, bumped)
      BY <1>1, <2>3, WriterType, WriterKeeps, BlockConstants
    <2>5. Good(bumped)
      <3>1. \A s \in Senders : plain(objectOrNew(Base, bumped, s))
        BY <1>1, <2>4 DEF Keeps
      <3>2. ASSUME NEW p \in applied
            PROVE  GetNonce(Base, bumped, p[1]) > p[2]
        <4>1. p[1] \in Senders /\ p[2] \in Nat
          BY <1>1
        <4>2. p[1] \in Addrs
          BY <1>1, <4>1
        <4>3. GetNonce(Base, tree, p[1]) \in Nat /\ GetNonce(Base, bumped, p[1]) \in Nat
          BY <1>1, <2>4, <4>2, ReadType
        <4>4. GetNonce(Base, bumped, p[1]) >= GetNonce(Base, tree, p[1])
          BY <2>4, <4>1 DEF Keeps, GetNonce
        <4>5. p[1] = msg.from =>
                GetNonce(Base, bumped, p[1]) = GetNonce(Base, tree, p[1]) + 1
          <5> DEFINE o == objectOrNew(Base, tree, msg.from)
          <5>1. o \in Objects
            BY <1>1, <2>3, ObjectType, BlockConstants
          <5>2. objectOrNew(Base, bumped, msg.from) = [o EXCEPT !.nonce = o.nonce + 1]
            BY <1>1, <2>3, WriterReads, BlockConstants
          <5> HIDE DEF o, bumped
          <5>3. [o EXCEPT !.nonce = o.nonce + 1].nonce = o.nonce + 1
            BY <5>1 DEF Objects
          <5> QED
            BY <5>2, <5>3 DEF GetNonce, o
        <4>6. \/ GetNonce(Base, tree, p[1]) > p[2]
              \/ p[1] = msg.from /\ GetNonce(Base, tree, p[1]) >= p[2]
          BY DEF NonceInv
        <4> HIDE DEF bumped
        <4> QED
          BY <4>1, <4>3, <4>4, <4>5, <4>6
      <3> QED
        BY <3>1, <3>2 DEF Good
    <2>6. Len(below) + 1 = 1
      BY <2>1
    <2>7. Keeps(bumped, e.tree) /\ Keeps(bumped, e.snapshot)
      BY <1>1, <1>4, <2>2, <2>6, EnterKeeps
    <2> HIDE DEF e, bumped
    <2>8. Good(e.tree) /\ Good(e.snapshot)
      BY <1>1, <1>2, <2>4, <2>5, <2>7, GoodKept
    <2> QED
      BY <1>3, <2>8 DEF e
  <1> QED
    BY <1>5, <1>6


\* What a call leaves is good.
LEMMA HandsGood ==
  ASSUME CreationsStay, SendersSign, NonceInv, NEW below \in Seq(Frames),
         NEW op \in CallOps, NEW r \in Results, Hands(below, op, r)
  PROVE  Good(r.tree)
  <1>1. /\ TypeInv /\ tree \in Trees /\ frames \in Seq(Frames)
        /\ applied \subseteq Senders \X Nat
    BY DEF NonceInv, TypeInv, TypeOK
  <1>2. frames # << >> => Good(tree)
    BY DEF Good, NonceInv, Waiting
  <1>3. CASE Ended(below, op, r)
    <2>1. PICK t \in Trees, res \in Runs : RanTo(t) /\ r = leave(running, t, res)
      BY <1>3 DEF Ended
    <2>2. frames # << >>
      BY <1>3 DEF Ended
    <2>3. running \in Guests
      <3>1. frames \in Seq(Guests) /\ Len(frames) \in 1 .. Len(frames)
        BY <1>1, <2>2 DEF NonceInv
      <3> QED
        BY <3>1 DEF running
    <2>4. /\ running \in Frames /\ Good(running.snapshot)
          /\ running.address \in Senders => running.code = EmptyCode /\ running.type # "Create"
      BY <2>3 DEF Guests
    <2>5. running.address \in Addrs /\ running.snapshot \in Trees
      BY <2>4 DEF Frames
    <2>6. Good(t)
      <3>1. CASE t = tree
        BY <1>2, <2>2, <3>1
      <3>2. ASSUME NEW b \in Targets, running.code # EmptyCode,
                   t = Selfdestruct(Base, tree, running.address, b)
            PROVE  Good(t)
        <4>1. b \in Addrs /\ running.address \in Addrs \ Senders
          BY <2>4, <2>5, <3>2, BlockConstants
        <4>2. Keeps(tree, t)
          BY <1>1, <3>2, <4>1, SelfdestructKeeps
        <4> QED
          BY <1>1, <1>2, <2>2, <4>2, GoodKept
      <3> QED
        BY <2>1, <3>1, <3>2 DEF RanTo
    <2> DEFINE s == SetCode(Base, t, running.address, res.ret)
    <2>7. running.type = "Create" => Good(s)
      <3>1. res.ret \in Codes
        BY DEF Runs
      <3>2. s \in Trees
        BY <2>5, <3>1, WriterType, BlockConstants
      <3>3. running.type = "Create" => Keeps(t, s)
        BY <2>4, <2>5, <3>1, WriterKeeps
      <3> HIDE DEF s
      <3> QED
        BY <1>1, <2>6, <3>2, <3>3, GoodKept
    <2>8. \/ r.tree = running.snapshot
          \/ r.tree = t
          \/ running.type = "Create" /\ r.tree = s
      BY <2>1, <2>4, LeaveTree
    <2> HIDE DEF s
    <2> QED
      BY <2>4, <2>6, <2>7, <2>8
  <1>4. CASE Failed(below, op, r)
    <2>1. PICK c \in Calls : LET e == enter(tree, c, Len(below) + 1) IN
                             /\ Calling(below, c)
                             /\ r = result(e.err, e.gasLeft, e.tree)
      BY <1>4 DEF Failed
    <2>2. r.tree = enter(tree, c, Len(below) + 1).tree
      BY <2>1, Zenon DEF result
    <2> QED
      BY <2>1, <2>2, CallingGood
  <1>5. CASE Unpaid(below, op, r)
    <2>1. PICK given \in Gas : r = result("bad", given, tree)
      BY <1>5 DEF Unpaid
    <2>2. r.tree = tree
      BY <2>1, Zenon DEF result
    <2> QED
      BY <1>2, <1>5, <2>2 DEF Unpaid
  <1> QED
    BY <1>3, <1>4, <1>5 DEF Hands

\* So is the state after a step of a transaction.
LEMMA TransactGood ==
  ASSUME CreationsStay, SendersSign, NonceInv, Transacts
  PROVE  applied' = applied /\ Good(tree')
  <1>1. /\ TypeInv /\ tree \in Trees /\ frames \in Seq(Frames)
        /\ applied \subseteq Senders \X Nat
    BY DEF NonceInv, TypeInv, TypeOK
  <1>2. ASSUME NEW t \in Trees, NEW g \in Gas, frames # << >>, Goes(t, g)
        PROVE  applied' = applied /\ Good(tree')
    <2>1. Wrote(t) /\ tree' = t /\ applied' = applied
      BY <1>2 DEF Goes, block
    <2>2. running.address \in Addrs
      BY <1>1, <1>2, Topmost DEF Frames
    <2>3. Keeps(tree, t)
      <3>1. CASE t = tree
        BY <1>1, <3>1, KeepsSelf
      <3>2. ASSUME NEW k \in Keys, NEW v \in Vals,
                   t = SetStorage(Base, tree, running.address, k, v)
            PROVE  Keeps(tree, t)
        BY <1>1, <2>2, <3>2, WriterKeeps
      <3>3. CASE t = EmitLog(tree, running.address)
        BY <1>1, <2>2, <3>3, WriterKeeps
      <3> QED
        BY <2>1, <3>1, <3>2, <3>3 DEF Wrote
    <2>4. Good(tree)
      BY <1>2 DEF Good, NonceInv, Waiting
    <2> QED
      BY <1>1, <2>1, <2>3, <2>4, GoodKept
  <1>3. ASSUME NEW below \in Seq(Frames), NEW op \in CallOps, NEW r \in Results,
               Hands(below, op, r)
        PROVE  applied' = applied /\ Good(tree')
    <2>1. Good(r.tree)
      BY <1>3, HandsGood
    <2>2. Return(below, op, r) /\ msg # NoMsg
      BY <1>3 DEF Hands
    <2>3. r.tree \in Trees /\ r.gasLeft \in Gas
      BY DEF Results
    <2>4. CASE below = << >>
      <3>1. Settle(r.tree, r.err, r.gasLeft)
        BY <2>2, <2>4, ReturnForm
      <3>2. PICK left \in Gas, used \in Gas :
              tree' = settled(r.tree, left, used) /\ applied' = applied
        BY <1>1, <2>2, <2>3, <3>1, SettleForm
      <3> QED
        BY <1>1, <2>1, <2>2, <2>3, <3>2, SettledGood
    <2>5. CASE below # << >>
      <3>1. tree' = r.tree /\ applied' = applied
        BY <2>2, <2>5, ReturnForm
      <3> QED
        BY <2>1, <3>1
    <2> QED
      BY <2>4, <2>5
  <1>4. ASSUME NEW below \in Seq(Frames), NEW c \in Calls, Enters(below, c)
        PROVE  applied' = applied /\ Good(tree')
    BY <1>4, CallingGood DEF Enters
  <1> QED
    BY <1>2, <1>3, <1>4 DEF Transacts


\* An accepted transaction joins those that are behind the nonces.
LEMMA AcceptNonces ==
  ASSUME NonceInv, NEW m \in Transactions, Accept(m), TypeInv'
  PROVE  NonceInv'
  <1> DEFINE bought == SubBalance(Base, tree, m.from, upfrontGasCost(m))
             bumped == IncrNonce(Base, bought, m.from)
  <1>1. /\ m \in Messages /\ tree \in Trees /\ applied \subseteq Senders \X Nat
        /\ m.from \in Senders
    BY BlockConstants DEF NonceInv, TypeInv, TypeOK, Senders
  <1>2. m.from \in Addrs /\ upfrontGasCost(m) \in Nat /\ m.nonce \in Nat
    BY <1>1, TxnConstants DEF Messages, upfrontGasCost
  <1>3. /\ msg = NoMsg /\ preCheck(m) = "" /\ msg' = m /\ frames' = frames
        /\ applied' = applied \cup {<<m.from, m.nonce>>}
        /\ tree' = IF m.to = Creation THEN bought ELSE bumped
    BY DEF Accept
  <1>4. frames = << >>
    BY <1>3 DEF NonceInv, TypeInv, Started
  <1>5. GetNonce(Base, tree, m.from) = m.nonce
    BY <1>1, <1>3, Checked
  <1>6. bought \in Trees /\ Keeps(tree, bought)
    BY <1>1, <1>2, WriterType, WriterKeeps, BlockConstants
  <1> HIDE DEF bought
  <1>7. bumped \in Trees /\ Keeps(bought, bumped)
    BY <1>2, <1>6, WriterType, WriterKeeps, BlockConstants
  <1>8. GetNonce(Base, bumped, m.from) = GetNonce(Base, bought, m.from) + 1
    <2> DEFINE o == objectOrNew(Base, bought, m.from)
    <2>1. o \in Objects
      BY <1>2, <1>6, ObjectType, BlockConstants
    <2>2. objectOrNew(Base, bumped, m.from) = [o EXCEPT !.nonce = o.nonce + 1]
      BY <1>2, <1>6, WriterReads, BlockConstants
    <2> HIDE DEF o, bumped
    <2>3. [o EXCEPT !.nonce = o.nonce + 1].nonce = o.nonce + 1
      BY <2>1 DEF Objects
    <2> QED
      BY <2>2, <2>3 DEF GetNonce, o
  <1>9. Good(tree)
    BY <1>3 DEF Good, NonceInv, Waiting
  <1>10. Good(bought)
    BY <1>1, <1>6, <1>9, GoodKept
  <1> HIDE DEF bumped
  <1>11. Good(bumped)
    BY <1>1, <1>6, <1>7, <1>10, GoodKept
  <1>12. /\ GetNonce(Base, bought, m.from) >= m.nonce
         /\ GetNonce(Base, bumped, m.from) > m.nonce
    <2>1. GetNonce(Base, bought, m.from) \in Nat
      BY <1>2, <1>6, ReadType
    <2>2. GetNonce(Base, bought, m.from) >= GetNonce(Base, tree, m.from)
      BY <1>1, <1>6 DEF Keeps, GetNonce
    <2> QED
      BY <1>2, <1>5, <1>8, <2>1, <2>2
  <1>13. applied' \subseteq Senders \X Nat
    <2>1. <<m.from, m.nonce>> \in Senders \X Nat
      BY <1>1, <1>2
    <2>2. applied' = applied \cup {<<m.from, m.nonce>>}
      BY <1>3
    <2> QED
      BY <1>1, <2>1, <2>2, Zenon
  <1>14. frames' \in Seq(Guests')
    <2>1. frames' = << >>
      BY <1>3, <1>4
    <2> QED
      BY <2>1, EmptySeq
  <1>15. \A s \in Senders : plain(objectOrNew(Base, tree', s))
    BY <1>3, <1>10, <1>11 DEF Good
  <1>16. ASSUME NEW p \in applied'
         PROVE  \/ GetNonce(Base, tree', p[1]) > p[2]
                \/ Waiting' /\ p[1] = msg'.from /\ GetNonce(Base, tree', p[1]) >= p[2]
    <2>1. Waiting' <=> m.to = Creation
      BY <1>1, <1>3, <1>4, BlockConstants DEF Waiting
    <2>2. CASE p \in applied
      BY <1>3, <1>10, <1>11, <2>2 DEF Good
    <2>3. CASE p = <<m.from, m.nonce>>
      <3>1. p[1] = m.from /\ p[2] = m.nonce
        BY <2>3
      <3>2. CASE m.to = Creation
        BY <1>3, <1>12, <2>1, <3>1, <3>2
      <3>3. CASE m.to # Creation
        BY <1>3, <1>12, <3>1, <3>3
      <3> QED
        BY <3>2, <3>3
    <2> QED
      BY <1>3, <2>2, <2>3
  <1> QED
    BY <1>13, <1>14, <1>15, <1>16, Zenon DEF NonceInv

LEMMA NonceInit ==
  ASSUME SendersSign, Init
  PROVE  NonceInv
  <1>1. TypeInv
    BY TypeInit
  <1>2. frames = << >> /\ applied = {} /\ tree = NewTree
    BY DEF Init
  <1>3. ASSUME NEW s \in Senders
        PROVE  plain(objectOrNew(Base, NewTree, s))
    <2>1. s \in Addrs
      BY SenderType
    <2>2. NewTree.objs[s] = NoObject
      BY <2>1 DEF NewTree
    <2>3. objectOrNew(Base, NewTree, s) = newStateObject
            \/ (Base[s] # NoAccount /\ objectOrNew(Base, NewTree, s) = objectOf(Base[s]))
      BY <2>2 DEF objectOrNew, Exist, getStateObject
    <2>4. plain(newStateObject)
      BY Zenon DEF plain, newStateObject
    <2>5. Base[s] # NoAccount => plain(objectOf(Base[s]))
      <3>1. Base[s] # NoAccount => Base[s].codeHash = EmptyCode
        BY DEF SendersSign
      <3> QED
        BY <3>1, Zenon DEF plain, objectOf
    <2> QED
      BY <2>3, <2>4, <2>5
  <1> QED
    BY <1>1, <1>2, <1>3 DEF NonceInv

LEMMA NonceNext ==
  ASSUME CreationsStay, SendersSign, NonceInv, [Next]_vars
  PROVE  NonceInv'
  <1>1. TypeInv /\ TypeInv'
    BY TypeNext DEF NonceInv
  <1>2. ASSUME UNCHANGED <<tree, msg, frames, applied>>
        PROVE  NonceInv'
    BY <1>1, <1>2 DEF NonceInv, Guests, Good, Waiting
  <1>3. CASE Step
    <2>1. Transacts
      BY <1>1, <1>3, TransactForm
    <2>2. applied' = applied /\ Good(tree')
      BY <2>1, TransactGood
    <2>3. frames' \in Seq(Guests)
      <3>1. \A f \in Guests, g \in Gas : [f EXCEPT !.gas = g] \in Guests
        <4> SUFFICES ASSUME NEW f \in Guests, NEW g \in Gas
                     PROVE  [f EXCEPT !.gas = g] \in Guests
          OBVIOUS
        <4> DEFINE h == [f EXCEPT !.gas = g]
        <4>1. f \in Frames
          BY DEF Guests
        <4>2. /\ h \in Frames /\ h.address = f.address /\ h.code = f.code
              /\ h.type = f.type /\ h.snapshot = f.snapshot
          BY <4>1 DEF Frames, Gas
        <4> HIDE DEF h
        <4>3. h \in Guests
          BY <4>2 DEF Guests
        <4> QED
          BY <4>3 DEF h
      <3>2. ASSUME NEW below \in Seq(Frames), NEW c \in Calls, Enters(below, c)
            PROVE  frameOf(c, enter(tree, c, Len(below) + 1).snapshot) \in Guests
        <4> DEFINE s == enter(tree, c, Len(below) + 1).snapshot
                   f == frameOf(c, s)
        <4>1. s \in Trees
          BY <1>1, DepthType, EnterType DEF TypeInv, TypeOK
        <4>2. /\ c.address \in Senders => c.code = EmptyCode /\ c.type # "Create"
              /\ Good(s)
          BY <3>2, CallingGood DEF Enters
        <4> HIDE DEF s
        <4>3. /\ f \in Frames /\ f.address = c.address /\ f.code = c.code
              /\ f.type = c.type /\ f.snapshot = s
          BY <4>1, FrameType DEF frameOf
        <4> HIDE DEF f
        <4>4. f \in Guests
          BY <4>2, <4>3 DEF Guests
        <4> QED
          BY <4>4 DEF f, s
      <3>3. frames \in Seq(Guests) /\ Guests \in SUBSET Frames
        BY DEF NonceInv, Guests
      <3> QED
        BY <2>1, <3>1, <3>2, <3>3, StepFrames
    <2>4. Guests' = Guests
      BY <2>2 DEF Guests, Good
    <2>5. \A s \in Senders : plain(objectOrNew(Base, tree', s))
      BY <2>2 DEF Good
    <2>6. \A p \in applied' : GetNonce(Base, tree', p[1]) > p[2]
      BY <2>2 DEF Good
    <2> QED
      BY <1>1, <2>2, <2>3, <2>4, <2>5, <2>6 DEF NonceInv
  <1>4. ASSUME NEW m \in Transactions, Reject(m)
        PROVE  UNCHANGED <<tree, msg, frames, applied>>
    BY <1>4, Zenon DEF Reject
  <1>5. UNCHANGED vars => UNCHANGED <<tree, msg, frames, applied>>
    BY DEF vars
  <1> QED
    BY <1>1, <1>2, <1>3, <1>4, <1>5, AcceptNonces DEF Next

\* NoReplay: once a transaction has passed preCheck its sender's nonce is past
\* it for good: a failed call goes back to a snapshot that is past it too, and
\* no account that signs is ever destroyed or deleted with its nonce.
THEOREM NoTransactionReplays ==
  ASSUME CreationsStay, SendersSign
  PROVE  Spec => []NoReplay
  <1>1. Init => NonceInv
    BY NonceInit
  <1>2. NonceInv /\ [Next]_vars => NonceInv'
    BY NonceNext
  <1>3. NonceInv => NoReplay
    BY DEF NonceInv, NoReplay, Waiting
  <1> QED
    BY <1>1, <1>2, <1>3, PTL DEF Spec


-----------------------------------------------------------------------------
(* Static calls write nothing.                                             *)

\* Trees in which every address reads the same object, with the same logs and
\* refund, tell no writes apart.
LEMMA SameWrites ==
  ASSUME NEW t \in Trees, NEW u \in Trees, u.logs = t.logs, u.refund = t.refund,
         \A a \in Addrs : objectOrNew(Base, u, a) = objectOrNew(Base, t, a)
  PROVE  Writes(u) = Writes(t)
  <1> DEFINE acc(w, a) ==
               [nonce |-> GetNonce(Base, w, a), balance |-> GetBalance(Base, w, a),
                code |-> GetCode(Base, Codes, w, a), suicide |-> HasSuicided(Base, w, a),
                storage |-> [k \in Keys |-> GetState(Base, w, a, k)]]
  <1>1. ASSUME NEW a \in Addrs
        PROVE  acc(u, a) = acc(t, a)
    <2>1. objectOrNew(Base, u, a) = objectOrNew(Base, t, a)
      OBVIOUS
    <2>2. /\ GetNonce(Base, u, a) = GetNonce(Base, t, a)
          /\ GetBalance(Base, u, a) = GetBalance(Base, t, a)
      BY <2>1 DEF GetNonce, GetBalance
    <2>3. GetCode(Base, Codes, u, a) = GetCode(Base, Codes, t, a)
      BY <2>1, Zenon DEF GetCode
    <2>4. HasSuicided(Base, u, a) = HasSuicided(Base, t, a)
      <3>1. HasSuicided(Base, u, a) <=> HasSuicided(Base, t, a)
        BY <2>1, SuicideReads
      <3>2. HasSuicided(Base, u, a) \in BOOLEAN /\ HasSuicided(Base, t, a) \in BOOLEAN
        BY DEF HasSuicided
      <3> QED
        BY <3>1, <3>2
    <2>5. [k \in Keys |-> GetState(Base, u, a, k)] = [k \in Keys |-> GetState(Base, t, a, k)]
      <3>1. \A k \in Keys : GetState(Base, u, a, k) = GetState(Base, t, a, k)
        BY <2>1, SlotReads, BlockConstants
      <3> QED
        BY <3>1
    <2> QED
      BY <2>2, <2>3, <2>4, <2>5, Zenon
  <1>2. [a \in Addrs |-> acc(u, a)] = [a \in Addrs |-> acc(t, a)]
    <2> HIDE DEF acc
    <2> QED
      BY <1>1
  <1>3. /\ Writes(u) = [logs |-> u.logs, refund |-> u.refund,
                        accounts |-> [a \in Addrs |-> acc(u, a)]]
        /\ Writes(t) = [logs |-> t.logs, refund |-> t.refund,
                        accounts |-> [a \in Addrs |-> acc(t, a)]]
    BY Zenon DEF Writes
  <1> HIDE DEF acc
  <1> QED
    BY <1>2, <1>3, Zenon

\* Touching an account is no write, and neither is sending nothing.
LEMMA EnterWrites ==
  ASSUME NEW t \in Trees, NEW c \in Calls, NEW d \in Nat,
         c.type # "Create", c.type = "Call" => c.value = 0
  PROVE  /\ Writes(enter(t, c, d).tree) = Writes(t)
         /\ enter(t, c, d).snapshot = t
  <1> DEFINE a == c.address
             touched == TouchAccount(Base, t, a)
             called == AddBalance(Base, touched, a, 0)
             o == objectOrNew(Base, touched, a)
             e == enter(t, c, d)
  <1>1. c.caller \in Addrs /\ a \in Addrs
    BY DEF Calls
  <1>2. objectOrNew(Base, t, a) \in Objects /\ ~objectOrNew(Base, t, a).deleted
    BY <1>1, ObjectType, NotDeleted, BlockConstants
  <1>3. /\ touched \in Trees /\ touched.logs = t.logs /\ touched.refund = t.refund
        /\ \A x \in Addrs : objectOrNew(Base, touched, x) = objectOrNew(Base, t, x)
    <2>1. touched \in Trees
      BY <1>1, WriterType, BlockConstants
    <2>2. touched.logs = t.logs /\ touched.refund = t.refund
      BY <1>1, <1>2, Upsert, BlockConstants DEF TouchAccount
    <2>3. \A x \in Addrs : objectOrNew(Base, touched, x) = objectOrNew(Base, t, x)
      BY <1>1, WriterReads, BlockConstants
    <2> QED
      BY <2>1, <2>2, <2>3
  <1>4. Writes(touched) = Writes(t)
    <2> HIDE DEF touched
    <2> QED
      BY <1>3, SameWrites
  <1>5. Writes(called) = Writes(touched)
    <2> HIDE DEF touched
    <2>1. o \in Objects /\ ~o.deleted
      BY <1>1, <1>3, ObjectType, NotDeleted, BlockConstants
    <2>2. called = insert(touched, a, [o EXCEPT !.balance = o.balance + 0])
      BY DEF AddBalance
    <2>3. [o EXCEPT !.balance = o.balance + 0] = o
      <3> HIDE DEF o
      <3>1. o.balance + 0 = o.balance
        BY <2>1 DEF Objects
      <3> QED
        BY <2>1, <3>1 DEF Objects
    <2>4. called = insert(touched, a, o)
      BY <2>2, <2>3
    <2>5. called \in Trees /\ called.logs = touched.logs /\ called.refund = touched.refund
      BY <1>1, <1>3, <2>1, <2>4, InsertType, Upsert, BlockConstants
    <2>6. \A x \in Addrs : objectOrNew(Base, called, x) = objectOrNew(Base, touched, x)
      BY <1>1, <1>3, <2>1, <2>4, Upsert, BlockConstants
    <2> HIDE DEF called
    <2> QED
      BY <1>3, <2>5, <2>6, SameWrites
  <1>6. c.type = "Call" => transfer(touched, c.caller, c.address, c.value) = called
    BY DEF transfer, SubBalance
  <1>7. e.tree \in {t, touched, called} /\ e.snapshot = t
    BY <1>6 DEF enter, enterCall
  <1> HIDE DEF touched, called, e
  <1>8. Writes(e.tree) = Writes(t) /\ e.snapshot = t
    BY <1>4, <1>5, <1>7
  <1> QED
    BY <1>8 DEF e

\* Above a static frame every frame is static, is no creation, and started from
\* the state that the static frame started from.
Inherited(q) ==
  \A j \in 1 .. Len(q) : \A i \in 1 .. j - 1 :
    q[i].static => /\ q[j].static
                   /\ q[j].type # "Create"
                   /\ Writes(q[j].snapshot) = Writes(q[i].snapshot)

\* The state t is the one the static frames of q started from.
Quiet(q, t) ==
  \A i \in 1 .. Len(q) : q[i].static => Writes(t) = Writes(q[i].snapshot)

StaticInv == TypeInv /\ Inherited(frames) /\ Quiet(frames, tree)

\* Frames that differ in their gas only.
LEMMA SetGasQuiet ==
  ASSUME NEW q \in Seq(Frames), q # << >>, NEW g \in Gas, NEW t
  PROVE  /\ Inherited(q) => Inherited(setGas(q, g))
         /\ Quiet(q, t) => Quiet(setGas(q, g), t)
  <1> DEFINE n == setGas(q, g)
  <1>1. /\ Len(n) = Len(q) /\ n[Len(q)] = [q[Len(q)] EXCEPT !.gas = g]
        /\ \A i \in 1 .. Len(q) - 1 : n[i] = q[i]
    BY SetGas
  <1>2. Len(q) \in Nat /\ Len(q) \in 1 .. Len(q) /\ q[Len(q)] \in Frames
    OBVIOUS
  <1>3. LET h == [q[Len(q)] EXCEPT !.gas = g] IN
        /\ h.static <=> q[Len(q)].static
        /\ h.type = q[Len(q)].type
        /\ h.snapshot = q[Len(q)].snapshot
    BY <1>2 DEF Frames
  <1> HIDE DEF n
  <1>4. \A i \in 1 .. Len(q) : /\ n[i].static <=> q[i].static
                               /\ n[i].type = q[i].type
                               /\ n[i].snapshot = q[i].snapshot
    <2> SUFFICES ASSUME NEW i \in 1 .. Len(q)
                 PROVE  /\ n[i].static <=> q[i].static
                        /\ n[i].type = q[i].type
                        /\ n[i].snapshot = q[i].snapshot
      OBVIOUS
    <2>1. CASE i = Len(q)
      BY <1>1, <1>3, <2>1
    <2>2. CASE i # Len(q)
      <3>1. i \in 1 .. Len(q) - 1
        BY <1>2, <2>2
      <3> QED
        BY <1>1, <3>1
    <2> QED
      BY <2>1, <2>2
  <1>5. \A j \in 1 .. Len(q) : \A i \in 1 .. j - 1 : i \in 1 .. Len(q)
    BY <1>2
  <1>6. Inherited(q) => Inherited(n)
    BY <1>1, <1>4, <1>5, SMTT(60) DEF Inherited
  <1>7. Quiet(q, t) => Quiet(n, t)
    BY <1>1, <1>4 DEF Quiet
  <1> QED
    BY <1>6, <1>7 DEF n


\* Below a frame.
LEMMA CallersQuiet ==
  ASSUME frames \in Seq(Frames), frames # << >>, Inherited(frames)
  PROVE  Inherited(callers)
  <1>1. /\ Len(callers) = Len(frames) - 1 /\ Len(frames) \in Nat \ {0}
        /\ \A i \in 1 .. Len(frames) - 1 : callers[i] = frames[i]
    BY Topmost
  <1>2. \A j \in 1 .. Len(frames) - 1 :
          /\ j \in 1 .. Len(frames)
          /\ \A i \in 1 .. j - 1 : i \in 1 .. Len(frames) - 1
    BY <1>1
  <1> QED
    BY <1>1, <1>2 DEF Inherited

\* A frame on top of others.
LEMMA PushQuiet ==
  ASSUME NEW q \in Seq(Frames), NEW f \in Frames, NEW t, Inherited(q), Quiet(q, t),
         f.static => Writes(t) = Writes(f.snapshot),
         \A i \in 1 .. Len(q) :
           q[i].static => /\ f.static /\ f.type # "Create"
                          /\ Writes(f.snapshot) = Writes(q[i].snapshot)
  PROVE  Inherited(Append(q, f)) /\ Quiet(Append(q, f), t)
  <1> DEFINE n == Append(q, f)
  <1>1. /\ Len(n) = Len(q) + 1 /\ n[Len(q) + 1] = f /\ Len(q) \in Nat
        /\ \A i \in 1 .. Len(q) : n[i] = q[i]
    BY AppendProperties, LenProperties
  <1> HIDE DEF n
  <1>2. Inherited(n)
    <2> SUFFICES ASSUME NEW j \in 1 .. Len(n), NEW i \in 1 .. j - 1, n[i].static
                 PROVE  /\ n[j].static
                        /\ n[j].type # "Create"
                        /\ Writes(n[j].snapshot) = Writes(n[i].snapshot)
      BY DEF Inherited
    <2>1. i \in 1 .. Len(q)
      BY <1>1
    <2>2. CASE j = Len(q) + 1
      BY <1>1, <2>1, <2>2
    <2>3. CASE j # Len(q) + 1
      <3>1. j \in 1 .. Len(q)
        BY <1>1, <2>3
      <3> QED
        BY <1>1, <2>1, <3>1 DEF Inherited
    <2> QED
      BY <2>2, <2>3
  <1>3. Quiet(n, t)
    <2> SUFFICES ASSUME NEW i \in 1 .. Len(n), n[i].static
                 PROVE  Writes(t) = Writes(n[i].snapshot)
      BY DEF Quiet
    <2>1. CASE i = Len(q) + 1
      BY <1>1, <2>1
    <2>2. CASE i # Len(q) + 1
      <3>1. i \in 1 .. Len(q)
        BY <1>1, <2>2
      <3> QED
        BY <1>1, <3>1 DEF Quiet
    <2> QED
      BY <2>1, <2>2
  <1> QED
    BY <1>2, <1>3 DEF n

\* Whoever runs above a static frame is static.
LEMMA StaticTop ==
  ASSUME frames \in Seq(Frames), frames # << >>, Inherited(frames),
         NEW i \in 1 .. Len(frames), frames[i].static
  PROVE  /\ running.static
         /\ i # Len(frames) => /\ running.type # "Create"
                               /\ Writes(running.snapshot) = Writes(frames[i].snapshot)
  <1>1. Len(frames) \in Nat /\ Len(frames) \in 1 .. Len(frames)
    OBVIOUS
  <1>2. CASE i = Len(frames)
    BY <1>2 DEF running
  <1>3. CASE i # Len(frames)
    <2>1. i \in 1 .. Len(frames) - 1
      BY <1>1, <1>3
    <2> QED
      BY <1>1, <2>1 DEF Inherited, running
  <1> QED
    BY <1>2, <1>3

\* The call of a static frame.
LEMMA StaticCalls ==
  ASSUME StaticInv, NEW below \in Seq(Frames), NEW c \in Calls, Calling(below, c)
  PROVE  /\ Inherited(below) /\ Quiet(below, tree)
         /\ c.static => c.type # "Create" /\ (c.type = "Call" => c.value = 0)
         /\ \A i \in 1 .. Len(below) : below[i].static => c.static
  <1>1. frames \in Seq(Frames) /\ Inherited(frames) /\ Quiet(frames, tree)
    BY DEF StaticInv, TypeInv, TypeOK
  <1>2. CASE below = << >> /\ c = topmost(msg)
    <2>1. ~c.static
      BY <1>2, TopmostWrites
    <2>2. Len(below) = 0
      BY <1>2
    <2>3. \A i : i \notin 1 .. 0
      OBVIOUS
    <2> QED
      BY <2>1, <2>2, <2>3 DEF Inherited, Quiet
  <1>3. ASSUME NEW g \in Gas, frames # << >>, below = setGas(frames, g), Outgoing(c, g)
        PROVE  /\ Inherited(below) /\ Quiet(below, tree)
               /\ c.static => c.type # "Create" /\ (c.type = "Call" => c.value = 0)
               /\ \A i \in 1 .. Len(below) : below[i].static => c.static
    <2>1. Inherited(below) /\ Quiet(below, tree)
      BY <1>1, <1>3, SetGasQuiet
    <2>2. c.static => c.type # "Create" /\ (c.type = "Call" => c.value = 0)
      BY <1>3 DEF Outgoing
    <2>3. ASSUME NEW i \in 1 .. Len(below), below[i].static
          PROVE  c.static
      <3>1. /\ Len(below) = Len(frames) /\ Len(frames) \in Nat
            /\ below[Len(frames)] = [frames[Len(frames)] EXCEPT !.gas = g]
            /\ \A k \in 1 .. Len(frames) - 1 : below[k] = frames[k]
        BY <1>1, <1>3, SetGas, LenProperties
      <3>2. [frames[Len(frames)] EXCEPT !.gas = g].static <=> frames[Len(frames)].static
        <4>1. frames[Len(frames)] \in Frames
          BY <1>1, <1>3
        <4> QED
          BY <4>1 DEF Frames
      <3>3. i \in 1 .. Len(frames) /\ (i = Len(frames) \/ i \in 1 .. Len(frames) - 1)
        BY <3>1
      <3>4. frames[i].static
        BY <2>3, <3>1, <3>2, <3>3
      <3>5. running.static
        BY <1>1, <1>3, <3>3, <3>4, StaticTop
      <3> QED
        BY <1>3, <3>5 DEF Outgoing
    <2> QED
      BY <2>1, <2>2, <2>3
  <1> QED
    BY <1>2, <1>3 DEF Calling


\* What a call leaves to the static frames below it.
LEMMA HandsQuiet ==
  ASSUME StaticInv, NEW below \in Seq(Frames), NEW op \in CallOps, NEW r \in Results,
         Hands(below, op, r)
  PROVE  Inherited(below) /\ Quiet(below, r.tree)
  <1>1. frames \in Seq(Frames) /\ Inherited(frames) /\ Quiet(frames, tree) /\ tree \in Trees
    BY DEF StaticInv, TypeInv, TypeOK
  <1>2. CASE Ended(below, op, r)
    <2>1. PICK t \in Trees, res \in Runs : RanTo(t) /\ r = leave(running, t, res)
      BY <1>2 DEF Ended
    <2>2. frames # << >> /\ below = callers
      BY <1>2 DEF Ended
    <2>3. /\ running \in Frames /\ Len(below) = Len(frames) - 1
          /\ Len(frames) \in Nat \ {0}
          /\ \A i \in 1 .. Len(frames) - 1 : below[i] = frames[i]
      BY <1>1, <2>2, Topmost
    <2>4. Quiet(below, r.tree)
      <3> SUFFICES ASSUME NEW i \in 1 .. Len(below), below[i].static
                   PROVE  Writes(r.tree) = Writes(below[i].snapshot)
        BY DEF Quiet
      <3>1. i \in 1 .. Len(frames) /\ i # Len(frames) /\ below[i] = frames[i]
        BY <2>3
      <3>2. /\ running.static /\ running.type # "Create"
            /\ Writes(running.snapshot) = Writes(frames[i].snapshot)
        BY <1>1, <2>2, <3>1, StaticTop
      <3>3. t = tree
        BY <2>1, <3>2 DEF RanTo
      <3>4. r.tree = running.snapshot \/ r.tree = tree
        BY <2>1, <2>3, <3>2, <3>3, LeaveTree
      <3>5. Writes(tree) = Writes(frames[i].snapshot)
        BY <1>1, <3>1 DEF Quiet
      <3> QED
        BY <3>1, <3>2, <3>4, <3>5
    <2> QED
      BY <1>1, <2>2, <2>4, CallersQuiet
  <1>3. CASE Failed(below, op, r)
    <2>1. PICK c \in Calls : LET e == enter(tree, c, Len(below) + 1) IN
                             /\ Calling(below, c)
                             /\ r = result(e.err, e.gasLeft, e.tree)
      BY <1>3 DEF Failed
    <2> DEFINE e == enter(tree, c, Len(below) + 1)
    <2>2. r.tree = e.tree
      BY <2>1, Zenon DEF result
    <2>3. /\ Inherited(below) /\ Quiet(below, tree)
          /\ c.static => c.type # "Create" /\ (c.type = "Call" => c.value = 0)
          /\ \A i \in 1 .. Len(below) : below[i].static => c.static
      BY <2>1, StaticCalls
    <2>4. c.static => Writes(e.tree) = Writes(tree)
      BY <1>1, <2>3, DepthType, EnterWrites
    <2> HIDE DEF e
    <2> QED
      BY <2>2, <2>3, <2>4 DEF Quiet
  <1>4. CASE Unpaid(below, op, r)
    <2>1. PICK g \in Gas, given \in Gas :
            below = setGas(frames, g) /\ r = result("bad", given, tree)
      BY <1>4 DEF Unpaid
    <2>2. r.tree = tree
      BY <2>1, Zenon DEF result
    <2>3. frames # << >>
      BY <1>4 DEF Unpaid
    <2> QED
      BY <1>1, <2>1, <2>2, <2>3, SetGasQuiet
  <1> QED
    BY <1>2, <1>3, <1>4 DEF Hands

LEMMA StaticNext ==
  ASSUME CreationsStay, StaticInv, [Next]_vars
  PROVE  StaticInv'
  <1>1. TypeInv /\ TypeInv' /\ Inherited(frames) /\ Quiet(frames, tree)
    BY TypeNext DEF StaticInv
  <1>2. frames \in Seq(Frames) /\ tree \in Trees
    BY <1>1 DEF TypeInv, TypeOK
  <1>3. ASSUME frames' = << >>
        PROVE  StaticInv'
    <2>1. Len(frames') = 0
      BY <1>3
    <2>2. \A i : i \notin 1 .. 0
      OBVIOUS
    <2> QED
      BY <1>1, <2>1, <2>2 DEF StaticInv, Inherited, Quiet
  <1>4. ASSUME UNCHANGED <<frames, tree>>
        PROVE  StaticInv'
    BY <1>1, <1>4 DEF StaticInv, Inherited, Quiet
  <1>5. ASSUME Inherited(frames'), Quiet(frames', tree')
        PROVE  StaticInv'
    BY <1>1, <1>5 DEF StaticInv, Inherited, Quiet
  <1>6. ASSUME NEW m \in Transactions, Accept(m)
        PROVE  frames' = << >>
    <2>1. msg = NoMsg /\ frames' = frames
      BY <1>6 DEF Accept
    <2> QED
      BY <1>1, <2>1 DEF TypeInv, Started
  <1>7. ASSUME NEW m \in Transactions, Reject(m)
        PROVE  UNCHANGED <<frames, tree>>
    BY <1>7, Zenon DEF Reject
  <1>8. CASE Step
    <2>1. Transacts
      BY <1>1, <1>8, TransactForm
    <2>2. ASSUME NEW t \in Trees, NEW g \in Gas, frames # << >>, Goes(t, g)
          PROVE  StaticInv'
      <3>1. Wrote(t) /\ tree' = t /\ frames' = setGas(frames, g)
        BY <2>2 DEF Goes
      <3>2. Quiet(frames, t)
        <4> SUFFICES ASSUME NEW i \in 1 .. Len(frames), frames[i].static
                     PROVE  Writes(t) = Writes(frames[i].snapshot)
          BY DEF Quiet
        <4>1. running.static
          BY <1>1, <1>2, <2>2, StaticTop
        <4>2. t = tree
          BY <3>1, <4>1 DEF Wrote
        <4> QED
          BY <1>1, <4>2 DEF Quiet
      <3> QED
        BY <1>1, <1>2, <1>5, <2>2, <3>1, <3>2, SetGasQuiet
    <2>3. ASSUME NEW below \in Seq(Frames), NEW op \in CallOps, NEW r \in Results,
                 Hands(below, op, r)
          PROVE  StaticInv'
      <3>1. Return(below, op, r)
        BY <2>3 DEF Hands
      <3>2. CASE below = << >>
        <4>1. Settle(r.tree, r.err, r.gasLeft)
          BY <3>1, <3>2, ReturnForm
        <4>2. frames' = << >>
          BY <4>1, Zenon DEF Settle
        <4> QED
          BY <1>3, <4>2
      <3>3. CASE below # << >>
        <4> DEFINE g == (below[Len(below)].gas + r.gasLeft) % Word
        <4>1. tree' = r.tree /\ frames' = setGas(below, g)
          BY <3>1, <3>3, ReturnForm
        <4>2. g \in Gas
          <5>1. below[Len(below)] \in Frames
            BY <3>3
          <5>2. below[Len(below)].gas \in Gas /\ r.gasLeft \in Gas
            BY <5>1 DEF Frames, Results, Gas
          <5> QED
            BY <5>2, TxnConstants DEF Gas
        <4>3. Inherited(below) /\ Quiet(below, r.tree)
          BY <2>3, HandsQuiet
        <4> HIDE DEF g
        <4> QED
          BY <1>5, <3>3, <4>1, <4>2, <4>3, SetGasQuiet
      <3> QED
        BY <3>2, <3>3
    <2>4. ASSUME NEW below \in Seq(Frames), NEW c \in Calls, Enters(below, c)
          PROVE  StaticInv'
      <3> DEFINE e == enter(tree, c, Len(below) + 1)
                 f == frameOf(c, e.snapshot)
      <3>1. Calling(below, c) /\ tree' = e.tree /\ frames' = Append(below, f)
        BY <2>4 DEF Enters
      <3>2. /\ Inherited(below) /\ Quiet(below, tree)
            /\ c.static => c.type # "Create" /\ (c.type = "Call" => c.value = 0)
            /\ \A i \in 1 .. Len(below) : below[i].static => c.static
        BY <3>1, StaticCalls
      <3>3. e.tree \in Trees /\ e.snapshot \in Trees
        BY <1>2, DepthType, EnterType
      <3>4. c.static => Writes(e.tree) = Writes(tree) /\ e.snapshot = tree
        BY <1>2, <3>2, DepthType, EnterWrites
      <3> HIDE DEF e
      <3>5. /\ f \in Frames /\ (f.static <=> c.static) /\ f.type = c.type
            /\ f.snapshot = e.snapshot
        BY <3>3, FrameType DEF frameOf
      <3> HIDE DEF f
      <3>6. Quiet(below, e.tree)
        BY <3>2, <3>4 DEF Quiet
      <3>7. \A i \in 1 .. Len(below) :
              below[i].static => /\ f.static /\ f.type # "Create"
                                 /\ Writes(f.snapshot) = Writes(below[i].snapshot)
        BY <3>2, <3>4, <3>5 DEF Quiet
      <3>8. f.static => Writes(e.tree) = Writes(f.snapshot)
        BY <3>4, <3>5
      <3> QED
        BY <1>5, <3>1, <3>2, <3>5, <3>6, <3>7, <3>8, PushQuiet
    <2> QED
      BY <2>1, <2>2, <2>3, <2>4 DEF Transacts
  <1>9. UNCHANGED vars => UNCHANGED <<frames, tree>>
    BY DEF vars
  <1> QED
    BY <1>3, <1>4, <1>6, <1>7, <1>8, <1>9 DEF Next

\* StaticCallWritesNothing: whatever a contract runs under a STATICCALL, through
\* whatever chain of calls, and whichever of them fail or are reverted, no
\* account, slot, log or refund changes until the static call is over.
THEOREM StaticCallsWriteNothing ==
  ASSUME CreationsStay
  PROVE  Spec => []StaticCallWritesNothing
  <1>1. Init => StaticInv
    <2> SUFFICES ASSUME Init PROVE StaticInv
      OBVIOUS
    <2>1. TypeInv /\ frames = << >>
      BY TypeInit DEF Init
    <2>2. Len(frames) = 0
      BY <2>1
    <2>3. \A i : i \notin 1 .. 0
      OBVIOUS
    <2> QED
      BY <2>1, <2>2, <2>3 DEF StaticInv, Inherited, Quiet
  <1>2. StaticInv /\ [Next]_vars => StaticInv'
    BY StaticNext
  <1>3. StaticInv => StaticCallWritesNothing
    BY DEF StaticInv, Quiet, StaticCallWritesNothing
  <1> QED
    BY <1>1, <1>2, <1>3, PTL DEF Spec
=============================================================================

------------------------- MODULE InterpreterProofs -------------------------
(***************************************************************************)
(* Type correctness of the interpreter, and the fact every return rests    *)
(* on: execution never stands on nil, and a block always belongs to a      *)
(* method context.  The two are proved together: without HomeIsMethod the  *)
(* previousContext of a block's home need not be a context at all.         *)
(* Then the way back: unless an active block is invoked, no set of         *)
(* contexts keeps its previous contexts inside, so every process ends.     *)
(* Last the ghost stacks of a VM without tail calls: they agree with the   *)
(* contexts, so the tail calls cannot be observed and no saved stack is    *)
(* disturbed.                                                              *)
(***************************************************************************)
EXTENDS Interpreter, FiniteSetTheorems, WellFoundedInduction, TLAPS

\* A context that is not allocated yet is not a block.
Fresh == \A c \in Contexts : c > allocated => kind[c] = "method"

IInv == TypeOK /\ HomeIsMethod /\ Fresh

\* What the machine looks like while execute() runs an instruction.
LEMMA RunningFacts ==
  ASSUME IInv, running # None
  PROVE  /\ running \in Procs
         /\ current \in 1 .. allocated
         /\ current \in Contexts
         /\ 1 .. allocated \subseteq Contexts
         /\ kind[current] = "block" =>
              /\ creatingContext[current] \in 1 .. allocated
              /\ creatingContext[current] \in Contexts
              /\ kind[creatingContext[current]] = "method"
<1>1. running \in Procs
  BY DEF IInv, TypeOK
<1>2. allocated \in Int /\ MaxContexts \in Int /\ allocated <= MaxContexts
  BY InterpreterAssumption DEF IInv, TypeOK
<1>3. 1 .. allocated \subseteq Contexts
  BY <1>2 DEF Contexts
<1>4. current \in 1 .. allocated
  <2>1. current \in 0 .. allocated BY DEF IInv, TypeOK
  <2>2. current # 0 BY DEF IInv, HomeIsMethod, Nil
  <2>3. QED BY <1>2, <2>1, <2>2
<1>5. ASSUME kind[current] = "block"
      PROVE  creatingContext[current] \in 1 .. allocated /\ kind[creatingContext[current]] = "method"
  <2>1. current \in Blocks BY <1>4, <1>5 DEF Blocks
  <2>2. creatingContext[current] # 0 /\ kind[creatingContext[current]] = "method"
    BY <2>1 DEF IInv, HomeIsMethod, Nil
  <2>3. creatingContext[current] \in 0 .. allocated
    BY <1>3, <1>4 DEF IInv, TypeOK
  <2>4. QED BY <1>2, <2>2, <2>3
<1>6. QED BY <1>1, <1>3, <1>4, <1>5

\* The steps of the interpreter, those that stay in their context taken together.
LEMMA StepKinds ==
  ASSUME [Next]_vars
  PROVE  \/ \E p \in Procs, t \in Quanta : Execute(p, t)
         \/ TimeExpired
         \/ \E top : Stay(top)
         \/ doPushBlock
         \/ \E ahead \in BytePointers \ {"any"}, popped \in {1, 2} : doSendMessage(ahead, popped)
         \/ selfReturn \/ stackReturn \/ blockReturn
         \/ PrimitiveReturns
         \/ throwError
         \/ \E b \in Blocks : blockInvoke(b)
         \/ blockInvokeFails
         \/ UNCHANGED vars
  BY Zenon DEF Next, Push, Assign, doPushConstant, doMarkArguments, doSendUnary, doSendBinary,
     duplicate, popTop, branch, branchIf, PrimitiveFails

\* The flags the returns and the invocations set stay Boolean.
LEMMA FlagsBoolean ==
  ASSUME IInv, [Next]_vars
  PROVE  reentered' \in BOOLEAN /\ escaped' \in BOOLEAN /\ outside' \in BOOLEAN
<1>1. reentered \in BOOLEAN /\ escaped \in BOOLEAN /\ outside \in BOOLEAN
  BY DEF IInv, TypeOK
<1>2. reentered' \in BOOLEAN
  BY <1>1, StepKinds, Zenon DEF vars, ghosts, Execute, TimeExpired, Stay, doPushBlock, doSendMessage,
     selfReturn, stackReturn, blockReturn, PrimitiveReturns, throwError, blockInvoke, blockInvokeFails
<1>3. escaped' \in BOOLEAN
  BY <1>1, StepKinds, Zenon DEF vars, ghosts, Execute, TimeExpired, Stay, doPushBlock, doSendMessage,
     selfReturn, stackReturn, blockReturn, PrimitiveReturns, throwError, blockInvoke, blockInvokeFails
<1>4. outside' \in BOOLEAN
  <2>1. CASE blockInvokeFails
    <3>1. PICK w : outside' = (w >= MaxStack + Growth)
      BY <2>1, Zenon DEF blockInvokeFails
    <3>2. (w >= MaxStack + Growth) \in BOOLEAN
      OBVIOUS
    <3>3. QED BY <3>1, <3>2, Zenon
  <2>2. ASSUME NEW c, ReturnTo(c)  PROVE outside' = outside
    BY <2>2, Zenon DEF ReturnTo
  <2>3. CASE selfReturn \/ stackReturn \/ blockReturn
    BY <1>1, <2>2, <2>3, Zenon DEF selfReturn, stackReturn, blockReturn
  <2>4. CASE PrimitiveReturns \/ throwError \/ TimeExpired \/ doPushBlock \/ UNCHANGED vars
    BY <1>1, <2>4, Zenon DEF PrimitiveReturns, throwError, TimeExpired, doPushBlock, vars
  <2>5. ASSUME NEW x, Stay(x) \/ blockInvoke(x)  PROVE outside' \in BOOLEAN
    BY <1>1, <2>5, Zenon DEF Stay, blockInvoke
  <2>6. ASSUME NEW x, NEW y, Execute(x, y) \/ doSendMessage(x, y)  PROVE outside' \in BOOLEAN
    BY <1>1, <2>6, Zenon DEF Execute, doSendMessage
  <2>7. QED BY <2>1, <2>3, <2>4, <2>5, <2>6, StepKinds, Zenon
<1>5. QED BY <1>2, <1>3, <1>4

\* A step that allocates no context only has to respect the registers.
LEMMA HomesKept ==
  ASSUME IInv, UNCHANGED <<allocated, kind, creatingContext>>,
         running' # None => current' # Nil,
         \A p \in Procs : status'[p] = "suspended" => procContext'[p] # Nil
  PROVE  HomeIsMethod' /\ Fresh'
  BY DEF IInv, HomeIsMethod, Blocks, Fresh

\* Leaving execute() keeps the invariant.
LEMMA ExitKeeps ==
  ASSUME IInv, running # None,
         NEW c \in 0 .. allocated, NEW r \in {"suspended", "returned", "error"}, Exit(c, r),
         c = Nil => r # "suspended",
         UNCHANGED objects,
         savedTop' \in [Contexts -> 0 .. MaxStack],
         savedPointer' \in [Contexts -> BytePointers],
         reentered' \in BOOLEAN, escaped' \in BOOLEAN, outside' \in BOOLEAN
  PROVE  IInv'
<1>1. running \in Procs
  BY RunningFacts
<1>2. TypeOK'
  BY <1>1, InterpreterAssumption DEF Exit, IInv, TypeOK, objects, Nil, None, BytePointers
<1>3. HomeIsMethod' /\ Fresh'
  <2>1. running' = None BY DEF Exit
  <2>2. \A p \in Procs : status'[p] = "suspended" => procContext'[p] # Nil
    BY <1>1 DEF Exit, IInv, TypeOK, HomeIsMethod
  <2>3. QED BY <2>1, <2>2, HomesKept DEF objects
<1>4. QED BY <1>2, <1>3 DEF IInv

\* Landing in a context keeps the invariant.
LEMMA LandingKeeps ==
  ASSUME IInv, running # None, Tick,
         current' \in 1 .. allocated,
         stackTop' \in 0 .. MaxStack,
         bytePointer' \in BytePointers,
         UNCHANGED <<allocated, kind, creatingContext, processes>>,
         previousContext' \in [Contexts -> 0 .. allocated],
         savedTop' \in [Contexts -> 0 .. MaxStack],
         savedPointer' \in [Contexts -> BytePointers],
         ticks # 1,
         reentered' \in BOOLEAN, escaped' \in BOOLEAN, outside' \in BOOLEAN
  PROVE  IInv'
<1>1. TypeOK'
  BY InterpreterAssumption DEF Tick, IInv, TypeOK, processes
<1>2. HomeIsMethod' /\ Fresh'
  <2>1. current' # Nil BY DEF Nil, IInv, TypeOK
  <2>2. \A p \in Procs : status'[p] = "suspended" => procContext'[p] # Nil
    BY DEF processes, IInv, HomeIsMethod
  <2>3. QED BY <2>1, <2>2, HomesKept
<1>3. QED BY <1>1, <1>2 DEF IInv

\* The three returns keep the invariant.
LEMMA ReturnKeeps ==
  ASSUME IInv, running # None, ticks # 1,
         NEW c \in 0 .. allocated, ReturnTo(c),
         reentered' \in BOOLEAN, escaped' \in BOOLEAN, outside' \in BOOLEAN
  PROVE  IInv'
<1>1. CASE c = Nil
  <2>1. Exit(c, "returned") /\ UNCHANGED <<objects, pointers>>
    BY <1>1 DEF ReturnTo
  <2>2. savedTop' \in [Contexts -> 0 .. MaxStack] /\ savedPointer' \in [Contexts -> BytePointers]
    BY <2>1 DEF IInv, TypeOK, pointers
  <2>3. QED BY <2>1, <2>2, ExitKeeps
<1>2. CASE c # Nil
  <2>1. /\ savedTop[c] < MaxStack /\ Tick
        /\ current' = c /\ stackTop' = savedTop[c] + 1 /\ bytePointer' = savedPointer[c]
        /\ UNCHANGED <<objects, pointers, processes>>
    BY <1>2 DEF ReturnTo
  <2>2. c \in Contexts /\ c \in 1 .. allocated
    BY <1>2, RunningFacts DEF Nil, IInv, TypeOK
  <2>3. stackTop' \in 0 .. MaxStack /\ bytePointer' \in BytePointers
    BY <2>1, <2>2, InterpreterAssumption DEF IInv, TypeOK
  <2>4. QED
    BY <2>1, <2>2, <2>3, LandingKeeps DEF objects, pointers, IInv, TypeOK
<1>3. QED BY <1>1, <1>2

\* Every step keeps the invariant.
LEMMA StepKeeps ==
  ASSUME IInv, [Next]_vars
  PROVE  IInv'
<1>0. reentered' \in BOOLEAN /\ escaped' \in BOOLEAN /\ outside' \in BOOLEAN
  BY FlagsBoolean
<1>p. /\ savedTop \in [Contexts -> 0 .. MaxStack] /\ savedPointer \in [Contexts -> BytePointers]
      /\ previousContext \in [Contexts -> 0 .. allocated]
      /\ stackTop \in 0 .. MaxStack /\ bytePointer \in BytePointers
      /\ "any" \in BytePointers
  BY DEF IInv, TypeOK, BytePointers
<1> USE InterpreterAssumption
<1>1. ASSUME NEW p \in Procs, NEW t \in Quanta, Execute(p, t)  PROVE IInv'
  <2>1. procContext[p] \in 1 .. allocated /\ procContext[p] \in Contexts
    BY <1>1 DEF Execute, IInv, TypeOK, HomeIsMethod, Nil, Contexts
  <2>2. TypeOK'
    BY <1>0, <1>p, <1>1, <2>1
    DEF Execute, IInv, TypeOK, objects, pointers
  <2>3. HomeIsMethod' /\ Fresh'
    BY <1>1, <2>1, HomesKept DEF Execute, IInv, TypeOK, HomeIsMethod, objects, Nil
  <2>4. QED BY <2>2, <2>3 DEF IInv
<1>2. CASE TimeExpired
  <2>1. running # None /\ Exit(current, "suspended") /\ UNCHANGED objects
        /\ storePointers(stackTop, bytePointer)
    BY <1>2 DEF TimeExpired
  <2>2. current \in 0 .. allocated /\ current \in Contexts /\ current # Nil
    BY <2>1, RunningFacts DEF IInv, TypeOK, HomeIsMethod
  <2>3. savedTop' \in [Contexts -> 0 .. MaxStack] /\ savedPointer' \in [Contexts -> BytePointers]
    BY <1>p, <2>1, <2>2 DEF storePointers
  <2>4. QED BY <1>0, <2>1, <2>2, <2>3, ExitKeeps
<1>3. ASSUME NEW top, Stay(top)  PROVE IInv'
  <2>1. running # None /\ ticks # 1 BY <1>3 DEF Stay, Turn
  <2>2. QED
    BY <1>0, <1>p, <1>3, <2>1, RunningFacts, LandingKeeps DEF Stay, objects, pointers
<1>4. CASE doPushBlock
  <2>1. running # None BY <1>4 DEF doPushBlock, Turn
  <2>2. homeContext \in 1 .. allocated /\ kind[homeContext] = "method" /\ homeContext \in Contexts
    BY <2>1, RunningFacts DEF homeContext, IInv, TypeOK
  <2>3. allocated' = allocated + 1 /\ allocated' \in Contexts /\ allocated \in Nat
    BY <1>4 DEF doPushBlock, IInv, TypeOK, Contexts
  <2>4. TypeOK'
    <3>1. kind' \in [Contexts -> {"method", "block"}]
      BY <1>4, <2>3 DEF doPushBlock, IInv, TypeOK
    <3>2. creatingContext' \in [Contexts -> 0 .. allocated']
      BY <1>4, <2>2, <2>3 DEF doPushBlock, IInv, TypeOK
    <3>3. previousContext' \in [Contexts -> 0 .. allocated']
      BY <1>4, <2>3 DEF doPushBlock, IInv, TypeOK
    <3>4. /\ allocated' \in ProcCount .. MaxContexts /\ current' \in 0 .. allocated'
          /\ stackTop' \in 0 .. MaxStack /\ ticks' \in Nat
      BY <1>4, <2>3 DEF doPushBlock, Turn, Tick, IInv, TypeOK
    <3>5. procContext' \in [Procs -> 0 .. allocated']
      BY <1>4, <2>3 DEF doPushBlock, IInv, TypeOK, processes
    <3>6. QED
      BY <1>0, <1>p, <1>4, <3>1, <3>2, <3>3, <3>4, <3>5
      DEF doPushBlock, IInv, TypeOK, pointers, processes
  <2>5. ASSUME NEW b \in Blocks'
        PROVE  creatingContext'[b] # Nil /\ kind'[creatingContext'[b]] = "method"
    <3>1. CASE b = allocated'
      BY <1>4, <2>2, <2>3, <3>1 DEF doPushBlock, IInv, TypeOK, Nil
    <3>2. CASE b # allocated'
      <4>1. b \in Blocks /\ b \in Contexts
        BY <1>4, <2>3, <2>5, <3>2 DEF doPushBlock, IInv, TypeOK, Blocks, Contexts
      <4>2. creatingContext'[b] = creatingContext[b]
        BY <1>4, <3>2, <4>1 DEF doPushBlock, IInv, TypeOK
      <4>3. /\ creatingContext[b] # Nil /\ kind[creatingContext[b]] = "method"
            /\ creatingContext[b] \in 0 .. allocated
        BY <4>1 DEF IInv, TypeOK, HomeIsMethod
      <4>4. creatingContext[b] \in Contexts /\ creatingContext[b] # allocated'
        BY <2>3, <4>3 DEF Nil, Contexts
      <4>5. QED
        BY <1>4, <4>2, <4>3, <4>4 DEF doPushBlock, IInv, TypeOK
    <3>3. QED BY <3>1, <3>2
  <2>6. Fresh'
    BY <1>4, <2>3 DEF doPushBlock, IInv, TypeOK, Fresh, Contexts
  <2>7. QED
    BY <1>4, <2>4, <2>5, <2>6 DEF doPushBlock, IInv, HomeIsMethod, processes
<1>5. ASSUME NEW ahead \in BytePointers \ {"any"}, NEW popped \in {1, 2}, doSendMessage(ahead, popped)
      PROVE  IInv'
  <2>1. running # None BY <1>5 DEF doSendMessage, Turn
  <2>2. callerOfSend(ahead) \in 0 .. allocated
    BY <2>1, RunningFacts DEF callerOfSend, IInv, TypeOK
  <2>3. allocated' = allocated + 1 /\ allocated' \in Contexts /\ allocated \in Nat
    BY <1>5 DEF doSendMessage, IInv, TypeOK, Contexts
  <2>4. TypeOK'
    <3>1. savedTop' \in [Contexts -> 0 .. MaxStack] /\ savedPointer' \in [Contexts -> BytePointers]
      BY <1>p, <1>5, <2>1, RunningFacts DEF doSendMessage, storePointers
    <3>2. creatingContext' \in [Contexts -> 0 .. allocated']
      BY <1>5, <2>3 DEF doSendMessage, IInv, TypeOK
    <3>3. previousContext' \in [Contexts -> 0 .. allocated']
      BY <1>5, <2>2, <2>3 DEF doSendMessage, IInv, TypeOK
    <3>4. /\ allocated' \in ProcCount .. MaxContexts /\ current' \in 0 .. allocated'
          /\ stackTop' \in 0 .. MaxStack /\ ticks' \in Nat
      BY <1>5, <2>3 DEF doSendMessage, Turn, Tick, IInv, TypeOK
    <3>5. procContext' \in [Procs -> 0 .. allocated']
      BY <1>5, <2>3 DEF doSendMessage, IInv, TypeOK, processes
    <3>6. QED
      BY <1>0, <1>p, <1>5, <3>1, <3>2, <3>3, <3>4, <3>5
      DEF doSendMessage, IInv, TypeOK, processes
  <2>5. ASSUME NEW b \in Blocks'
        PROVE  creatingContext'[b] # Nil /\ kind'[creatingContext'[b]] = "method"
    <3>1. CASE b = allocated'
      BY <1>5, <2>3, <2>5, <3>1 DEF doSendMessage, Blocks, IInv, Fresh
    <3>2. CASE b # allocated'
      BY <1>5, <2>3, <2>5, <3>2 DEF doSendMessage, Blocks, IInv, TypeOK, HomeIsMethod
    <3>3. QED BY <3>1, <3>2
  <2>6. Fresh'
    BY <1>5, <2>3 DEF doSendMessage, IInv, TypeOK, Fresh, Contexts
  <2>7. running' # None => current' # Nil
    BY <1>5, <2>3 DEF doSendMessage, Nil
  <2>8. \A p \in Procs : status'[p] = "suspended" => procContext'[p] # Nil
    BY <1>5 DEF doSendMessage, IInv, HomeIsMethod, processes
  <2>9. QED
    BY <2>4, <2>5, <2>6, <2>7, <2>8 DEF IInv, HomeIsMethod
<1>6. CASE selfReturn
  <2>1. running # None /\ ticks # 1 /\ ReturnTo(previousContext[current]) BY <1>6 DEF selfReturn, Turn
  <2>2. previousContext[current] \in 0 .. allocated BY <2>1, RunningFacts DEF IInv, TypeOK
  <2>3. QED BY <1>0, <2>1, <2>2, ReturnKeeps
<1>7. CASE stackReturn
  <2>1. running # None /\ ticks # 1 /\ ReturnTo(previousContext[current]) BY <1>7 DEF stackReturn, Turn
  <2>2. previousContext[current] \in 0 .. allocated BY <2>1, RunningFacts DEF IInv, TypeOK
  <2>3. QED BY <1>0, <2>1, <2>2, ReturnKeeps
<1>8. CASE blockReturn
  <2>1. running # None /\ ticks # 1 /\ ReturnTo(previousContext[creatingContext[current]])
    BY <1>8 DEF blockReturn, Turn
  <2>2. previousContext[creatingContext[current]] \in 0 .. allocated
    BY <1>8, <2>1, RunningFacts DEF blockReturn, IInv, TypeOK
  <2>3. QED BY <1>0, <2>1, <2>2, ReturnKeeps
<1>9. CASE PrimitiveReturns
  <2>1. running # None /\ ticks # 1 /\ UNCHANGED <<objects, savedPointer>>
    BY <1>9 DEF PrimitiveReturns, Turn
  <2>2. previousContext[current] \in 0 .. allocated BY <2>1, RunningFacts DEF IInv, TypeOK
  <2>3. CASE previousContext[current] = Nil
    <3>1. Exit(Nil, "returned") /\ UNCHANGED savedTop
      BY <1>9, <2>3 DEF PrimitiveReturns
    <3>2. QED BY <1>0, <1>p, <2>1, <2>2, <2>3, <3>1, ExitKeeps
  <2>4. CASE previousContext[current] # Nil
    <3>1. previousContext[current] \in 1 .. allocated /\ previousContext[current] \in Contexts
      BY <2>1, <2>2, <2>4, RunningFacts DEF Nil
    <3>2. /\ savedTop[previousContext[current]] < MaxStack /\ Tick
          /\ current' = previousContext[current]
          /\ stackTop' = savedTop[previousContext[current]] + 1
          /\ savedTop' = [savedTop EXCEPT ![previousContext[current]] = stackTop']
          /\ bytePointer' = savedPointer[previousContext[current]]
          /\ UNCHANGED processes
      BY <1>9, <2>4 DEF PrimitiveReturns
    <3>3. stackTop' \in 0 .. MaxStack /\ bytePointer' \in BytePointers
      BY <1>p, <3>1, <3>2
    <3>4. savedTop' \in [Contexts -> 0 .. MaxStack]
      BY <1>p, <3>1, <3>2, <3>3
    <3>5. QED
      BY <1>0, <1>p, <2>1, <3>1, <3>2, <3>3, <3>4, LandingKeeps DEF objects
  <2>5. QED BY <2>3, <2>4
<1>10. CASE throwError
  <2>1. running # None /\ Exit(current, "error") /\ UNCHANGED <<objects, pointers>>
    BY <1>10 DEF throwError, Turn
  <2>2. current \in 0 .. allocated BY DEF IInv, TypeOK
  <2>3. QED BY <1>0, <1>p, <2>1, <2>2, ExitKeeps DEF pointers
<1>11. ASSUME NEW b \in Blocks, blockInvoke(b)  PROVE IInv'
  <2>1. running # None /\ ticks # 1 BY <1>11 DEF blockInvoke, Turn
  <2>2. previousContext[current] \in 0 .. allocated /\ b \in 1 .. allocated
    BY <2>1, RunningFacts DEF IInv, TypeOK, Blocks
  <2>3. previousContext' \in [Contexts -> 0 .. allocated]
    BY <1>p, <1>11, <2>2 DEF blockInvoke
  <2>4. QED
    BY <1>0, <1>p, <1>11, <2>1, <2>2, <2>3, LandingKeeps DEF blockInvoke, pointers
<1>12. CASE blockInvokeFails
  <2>1. running # None /\ ticks # 1 BY <1>12 DEF blockInvokeFails, Turn
  <2>4. stackTop' = 0
    BY <1>p, <1>12 DEF blockInvokeFails, Word
  <2>5. QED
    BY <1>0, <1>p, <1>12, <2>1, <2>4, RunningFacts, LandingKeeps DEF blockInvokeFails, objects, pointers
<1>13. CASE UNCHANGED vars
  BY <1>13
  DEF vars, objects, pointers, processes, registers, ghosts, IInv, TypeOK, HomeIsMethod, Fresh, Blocks
<1>14. QED
  BY <1>1, <1>2, <1>3, <1>4, <1>5, <1>6, <1>7, <1>8, <1>9, <1>10, <1>11, <1>12, <1>13, StepKinds, Zenon

\* The invariant holds in every reachable state.
LEMMA Invariance == Spec => []IInv
<1>1. Init => IInv
  <2> SUFFICES ASSUME Init PROVE IInv OBVIOUS
  <2>1. reentered \in BOOLEAN /\ escaped \in BOOLEAN /\ outside \in BOOLEAN
    BY Zenon DEF Init
  <2>2. TypeOK
    BY <2>1, InterpreterAssumption DEF Init, TypeOK, Procs, Contexts, Nil, None, BytePointers
  <2>3. HomeIsMethod /\ Fresh
    BY InterpreterAssumption DEF Init, HomeIsMethod, Fresh, Procs, Contexts, Blocks, Nil, None
  <2>4. QED BY <2>2, <2>3 DEF IInv
<1>2. IInv /\ [Next]_vars => IInv'
  BY StepKeeps
<1>3. QED
  BY <1>1, <1>2, PTL DEF Spec

(***************************************************************************)
(* Whatever the program, the registers of execute() and the fields of the  *)
(* contexts keep their types: after every return, stackTop, bytePointer    *)
(* and currentContext are those of an allocated context or of no process.  *)
(***************************************************************************)
THEOREM InterpreterTypeOK == Spec => []TypeOK
<1>1. IInv => TypeOK BY DEF IInv
<1>2. QED BY <1>1, Invariance, PTL

(***************************************************************************)
(* For every number of processes and contexts: doPushBlock() gives each    *)
(* block a method context for its home, however deep it is nested, so that *)
(* blockReturn and the tail call before it can follow creatingContext; and *)
(* execute() never interprets nil.                                         *)
(***************************************************************************)
THEOREM BlocksHaveHomes == Spec => []HomeIsMethod
<1>1. IInv => HomeIsMethod BY DEF IInv
<1>2. QED BY <1>1, Invariance, PTL
-----------------------------------------------------------------------------
(***************************************************************************)
(* Induction over the positions 0 .. n of a sequence, by least elements.   *)
(***************************************************************************)
\* A nonempty set of naturals has a least member.
LEMMA LeastNatural ==
  ASSUME NEW T, T \subseteq Nat, T # {}
  PROVE  \E x \in T : \A y \in T : x <= y
<1>1. PICK x \in T : \A y \in T : ~ (<<y, x>> \in OpToRel(<, Nat))
  BY WFMin, NatLessThanWellFounded
<1>2. \A y \in T : ~ (y < x)
  BY <1>1 DEF OpToRel
<1>3. QED BY <1>2

\* What a position has when all before it do, they all have.
LEMMA Positions ==
  ASSUME NEW n \in Nat, NEW S,
         \A k \in 0 .. n : (\A i \in 0 .. n : i < k => i \in S) => k \in S
  PROVE  0 .. n \subseteq S
<1> SUFFICES ASSUME (0 .. n) \ S # {} PROVE FALSE
  OBVIOUS
<1> DEFINE T == (0 .. n) \ S
<1>1. T \subseteq Nat /\ T # {}
  OBVIOUS
<1> HIDE DEF T
<1>2. PICK k \in T : \A i \in T : k <= i
  BY <1>1, LeastNatural
<1>3. QED BY <1>2 DEF T

-----------------------------------------------------------------------------
(***************************************************************************)
(* Chains of previous contexts.                                            *)
(***************************************************************************)
\* The contexts met in one step more.
More(prev, M) == M \union {prev[d] : d \in M \ {Nil}}

\* What Chain(c) calls met, up to n.
IsMet(f, prev, c, n) == f = [k \in 0 .. n |-> IF k = 0 THEN {c} ELSE More(prev, f[k - 1])]

\* The recursive definition of Chain has the solution it describes.
LEMMA MetExists ==
  ASSUME NEW prev, NEW c, NEW n \in Nat
  PROVE  \E f : IsMet(f, prev, c, n)
<1> USE DEF IsMet
<1> DEFINE Solves(f, m) == f = [k \in 0 .. m |-> IF k = 0 THEN {c} ELSE More(prev, f[k - 1])]
           S == {m \in 0 .. n : \E f : Solves(f, m)}
<1>1. ASSUME NEW m \in 0 .. n, \A i \in 0 .. n : i < m => i \in S
      PROVE  m \in S
  <2>1. CASE m = 0
    <3>1. Solves([k \in 0 .. 0 |-> {c}], 0)
      OBVIOUS
    <3>2. QED BY <2>1, <3>1
  <2>2. CASE m # 0
    <3>1. m - 1 \in S
      <4> HIDE DEF S
      <4>1. m - 1 \in 0 .. n /\ m - 1 < m
        BY <2>2
      <4>2. QED BY <1>1, <4>1
    <3>2. PICK f : Solves(f, m - 1)
      BY <3>1
    <3> DEFINE g == [k \in 0 .. m |-> IF k = m THEN More(prev, f[m - 1]) ELSE f[k]]
    <3>3. \A k \in 0 .. m - 1 : f[k] = IF k = 0 THEN {c} ELSE More(prev, f[k - 1])
      BY <3>2
    <3>4. \A k \in 0 .. m : g[k] = IF k = 0 THEN {c} ELSE More(prev, g[k - 1])
      <4> TAKE k \in 0 .. m
      <4>1. CASE k = m
        BY <2>2, <4>1
      <4>2. CASE k # m
        <5>1. k \in 0 .. m - 1 /\ g[k] = f[k] /\ (k # 0 => k - 1 \in 0 .. m - 1 /\ g[k - 1] = f[k - 1])
          BY <2>2, <4>2
        <5>2. QED BY <3>3, <5>1
      <4>3. QED BY <4>1, <4>2
    <3>5. Solves(g, m)
      <4>1. g = [k \in 0 .. m |-> g[k]]
        OBVIOUS
      <4> HIDE DEF g
      <4>2. QED BY <3>4, <4>1
    <3>6. QED BY <3>5
  <2>3. QED BY <2>1, <2>2
<1> HIDE DEF S
<1>2. 0 .. n \subseteq S
  BY <1>1, Positions
<1>3. n \in S
  BY <1>2
<1>4. QED BY <1>3 DEF S

\* A chain holds its start and is not left by the way back.
LEMMA ChainClosed ==
  ASSUME previousContext \in [Contexts -> Contexts \union {Nil}], NEW c \in Contexts \union {Nil}
  PROVE  c \in Chain(c) /\ \A d \in Chain(c) \ {Nil} : d \in Contexts /\ previousContext[d] \in Chain(c)
<1> USE InterpreterAssumption
<1> DEFINE All == Contexts \union {Nil}
           met == CHOOSE f : f = [k \in 0 .. MaxContexts |->
                                    IF k = 0 THEN {c} ELSE More(previousContext, f[k - 1])]
           Closed(M) == \A d \in M \ {Nil} : previousContext[d] \in M
<1>1. met = [k \in 0 .. MaxContexts |-> IF k = 0 THEN {c} ELSE More(previousContext, met[k - 1])]
  <2>1. MaxContexts \in Nat
    OBVIOUS
  <2>2. \E f : IsMet(f, previousContext, c, MaxContexts)
    BY <2>1, MetExists
  <2>3. QED BY <2>2, Zenon DEF IsMet
<1>2. Chain(c) = met[MaxContexts]
  BY DEF Chain, More
<1> HIDE DEF met
<1>3. /\ met[0] = {c}
      /\ \A k \in 0 .. MaxContexts : k # 0 => met[k] = More(previousContext, met[k - 1])
  <2>1. \A k \in 0 .. MaxContexts : met[k] = IF k = 0 THEN {c} ELSE More(previousContext, met[k - 1])
    BY <1>1, Zenon
  <2>2. 0 \in 0 .. MaxContexts
    OBVIOUS
  <2>3. QED BY <2>1, <2>2, Zenon
<1>4. MaxContexts \in Nat /\ Nil \notin Contexts
  BY DEF Nil, Contexts
<1>5. IsFiniteSet(All) /\ Cardinality(All) = MaxContexts + 1
  <2>1. All = 0 .. MaxContexts
    BY <1>4 DEF Contexts, Nil
  <2>2. IsFiniteSet(0 .. MaxContexts) /\ Cardinality(0 .. MaxContexts) = MaxContexts + 1
    BY <1>4, FS_Interval
  <2>3. QED BY <2>1, <2>2
<1> DEFINE S == {k \in 0 .. MaxContexts :
                   /\ met[k] \in SUBSET All /\ c \in met[k]
                   /\ Closed(met[k]) \/ Cardinality(met[k]) >= k + 1}
<1>6. ASSUME NEW k \in 0 .. MaxContexts, \A i \in 0 .. MaxContexts : i < k => i \in S
      PROVE  k \in S
  <2>1. CASE k = 0
    <3>1. Cardinality({c}) = 1
      BY FS_Singleton
    <3>2. QED BY <1>3, <2>1, <3>1
  <2>2. CASE k # 0
    <3> DEFINE M == met[k - 1]
               N == met[k]
    <3>1. k - 1 \in S /\ N = M \union {previousContext[d] : d \in M \ {Nil}}
      BY <1>3, <1>6, <2>2 DEF More
    <3>2. M \in SUBSET All /\ c \in M /\ (Closed(M) \/ Cardinality(M) >= k)
      BY <3>1, <2>2
    <3> HIDE DEF M, N, S
    <3>3. N \in SUBSET All /\ c \in N /\ M \subseteq N
      BY <3>1, <3>2
    <3>4. CASE Closed(M)
      <4>1. N = M
        BY <3>1, <3>4
      <4>2. QED BY <3>3, <3>4, <4>1 DEF N, S
    <3>5. CASE ~Closed(M)
      <4>1. N # M
        BY <3>1, <3>5
      <4>2. IsFiniteSet(N) /\ Cardinality(N) \in Nat
        BY <1>5, <3>3, FS_Subset, FS_CardinalityType
      <4>3. Cardinality(M) < Cardinality(N) /\ Cardinality(M) \in Nat
        BY <3>3, <4>1, <4>2, FS_Subset, FS_CardinalityType
      <4>4. Cardinality(N) >= k + 1
        BY <3>2, <3>5, <4>2, <4>3
      <4>5. QED BY <3>3, <4>4 DEF N, S
    <3>6. QED BY <3>4, <3>5
  <2>3. QED BY <2>1, <2>2
<1> HIDE DEF S
<1>7. MaxContexts \in S
  BY <1>4, <1>6, Positions, SMTT(30)
<1>8. /\ met[MaxContexts] \in SUBSET All /\ c \in met[MaxContexts]
      /\ Closed(met[MaxContexts]) \/ Cardinality(met[MaxContexts]) >= MaxContexts + 1
  BY <1>7 DEF S
<1>9. Closed(met[MaxContexts])
  <2>1. CASE Cardinality(met[MaxContexts]) >= MaxContexts + 1
    <3>1. met[MaxContexts] = All
      BY <1>5, <1>8, <2>1, FS_Subset, FS_CardinalityType
    <3>2. QED BY <3>1
  <2>2. QED BY <1>8, <2>1
<1>10. QED BY <1>2, <1>8, <1>9

\* No set of contexts keeps the way back inside: every way back ends.
Acyclic == \A S \in (SUBSET Contexts) \ {{}} : \E c \in S : previousContext[c] \notin S

EndInv == ~reentered => Acyclic

\* The way back from an allocated context stays among the allocated ones.
LEMMA PreviousFacts ==
  ASSUME IInv
  PROVE  /\ previousContext \in [Contexts -> Contexts \union {Nil}]
         /\ \A c \in Contexts : previousContext[c] <= allocated
         /\ allocated \in Nat /\ allocated <= MaxContexts /\ Nil \notin Contexts
         /\ \A c \in 0 .. allocated : c \in Contexts \union {Nil}
<1> USE InterpreterAssumption
<1>1. allocated \in Nat /\ allocated <= MaxContexts
  BY DEF IInv, TypeOK
<1>2. \A c \in 0 .. allocated : c \in Contexts \union {Nil}
  BY <1>1 DEF Contexts, Nil
<1>3. previousContext \in [Contexts -> 0 .. allocated]
  BY DEF IInv, TypeOK
<1>4. QED BY <1>1, <1>2, <1>3 DEF Contexts, Nil

\* A new context leads to one that is older.
LEMMA SendAcyclic ==
  ASSUME IInv, Acyclic, allocated < MaxContexts, NEW c \in 0 .. allocated,
         previousContext' = [previousContext EXCEPT ![allocated + 1] = c]
  PROVE  Acyclic'
<1> DEFINE n == allocated + 1
<1>1. n \in Contexts /\ \A d \in Contexts : previousContext[d] # n
  <2>1. MaxContexts \in Nat /\ previousContext \in [Contexts -> 0 .. allocated]
    BY InterpreterAssumption DEF IInv, TypeOK
  <2>2. allocated \in Nat
    BY PreviousFacts
  <2>3. n \in Contexts
    BY <2>1, <2>2 DEF Contexts
  <2>4. \A d \in Contexts : previousContext[d] \in 0 .. allocated
    BY <2>1
  <2>5. QED BY <2>2, <2>3, <2>4
<1>2. previousContext'[n] = c /\ \A d \in Contexts : d # n => previousContext'[d] = previousContext[d]
  BY <1>1, PreviousFacts
<1>3. ASSUME NEW S \in (SUBSET Contexts) \ {{}}, \A d \in S : previousContext'[d] \in S
      PROVE  FALSE
  <2>1. CASE n \notin S
    BY <1>2, <1>3, <2>1 DEF Acyclic
  <2>2. CASE n \in S
    <3> DEFINE T == S \ {n}
    <3>1. c \in T
      BY <1>2, <1>3, <2>2, PreviousFacts
    <3>2. \A d \in T : previousContext[d] \in T
      BY <1>1, <1>2, <1>3
    <3>3. T \in (SUBSET Contexts) \ {{}}
      BY <3>1
    <3> HIDE DEF T
    <3>4. QED BY <3>2, <3>3 DEF Acyclic
  <2>3. QED BY <2>1, <2>2
<1>4. QED BY <1>3 DEF Acyclic

\* A block that is not on the way back of its new caller closes no circle.
LEMMA InvokeAcyclic ==
  ASSUME IInv, Acyclic, NEW b \in Contexts, NEW x \in Contexts \union {Nil},
         b \notin Chain(x),
         previousContext' = [previousContext EXCEPT ![b] = x]
  PROVE  Acyclic'
<1>1. x \in Chain(x) /\ \A d \in Chain(x) \ {Nil} : d \in Contexts /\ previousContext[d] \in Chain(x)
  BY ChainClosed, PreviousFacts
<1>2. previousContext'[b] = x /\ \A d \in Contexts : d # b => previousContext'[d] = previousContext[d]
  BY PreviousFacts
<1>3. ASSUME NEW S \in (SUBSET Contexts) \ {{}}, \A d \in S : previousContext'[d] \in S
      PROVE  FALSE
  <2>1. CASE b \notin S
    BY <1>2, <1>3, <2>1 DEF Acyclic
  <2>2. CASE b \in S
    <3> DEFINE T == S \intersect Chain(x)
    <3>1. x \in T
      BY <1>1, <1>2, <1>3, <2>2
    <3>2. \A d \in T : previousContext[d] \in T
      BY <1>1, <1>2, <1>3, PreviousFacts
    <3>3. T \in (SUBSET Contexts) \ {{}}
      BY <3>1
    <3> HIDE DEF T
    <3>4. QED BY <3>2, <3>3 DEF Acyclic
  <2>3. QED BY <2>1, <2>2
<1>4. QED BY <1>3 DEF Acyclic

\* The ghost flag stays when it is set.
LEMMA ReenteredStays == [Next]_vars /\ reentered => reentered'
<1> SUFFICES ASSUME [Next]_vars, reentered PROVE reentered'
  BY Zenon
<1>1. QED
  BY StepKinds, Zenon DEF vars, ghosts, Execute, TimeExpired, Stay, doPushBlock, doSendMessage,
     selfReturn, stackReturn, blockReturn, PrimitiveReturns, throwError, blockInvoke, blockInvokeFails

\* Every step keeps the ways back ending.
LEMMA StepEnds == IInv /\ EndInv /\ [Next]_vars => EndInv'
<1> SUFFICES ASSUME IInv, Acyclic, [Next]_vars, ~reentered' PROVE Acyclic'
  BY ReenteredStays, Zenon DEF EndInv
<1>1. ASSUME previousContext' = previousContext PROVE Acyclic'
  BY <1>1 DEF Acyclic
<1>2. ASSUME NEW ahead \in BytePointers \ {"any"}, NEW popped \in {1, 2}, doSendMessage(ahead, popped)
      PROVE  Acyclic'
  <2>1. running # None
    BY <1>2 DEF doSendMessage, Turn
  <2>2. callerOfSend(ahead) \in 0 .. allocated
    BY <2>1, RunningFacts DEF callerOfSend, IInv, TypeOK
  <2>3. QED BY <1>2, <2>2, SendAcyclic DEF doSendMessage
<1>3. ASSUME NEW b \in Blocks, blockInvoke(b) PROVE Acyclic'
  <2>1. running # None
    BY <1>3 DEF blockInvoke, Turn
  <2>2. ~IsActive(b)
    BY <1>3, Zenon DEF blockInvoke
  <2>3. b \notin Chain(previousContext[current])
    BY <2>2 DEF IsActive
  <2>4. b \in Contexts /\ previousContext[current] \in Contexts \union {Nil}
    BY <2>1, RunningFacts, PreviousFacts DEF Blocks
  <2>5. QED BY <1>3, <2>3, <2>4, InvokeAcyclic DEF blockInvoke
<1>4. ASSUME NEW c, ReturnTo(c) PROVE previousContext' = previousContext
  BY <1>4 DEF ReturnTo, objects
<1>5. QED
  BY <1>1, <1>2, <1>3, <1>4, StepKinds
  DEF vars, objects, Execute, TimeExpired, Stay, doPushBlock,
      selfReturn, stackReturn, blockReturn, PrimitiveReturns, throwError, blockInvokeFails

(***************************************************************************)
(* However methods send, return, skip contexts and return from blocks, also *)
(* past methods that are gone: unless blockInvoke was applied to a block    *)
(* that is active, every way back along previousContext ends at nil, so     *)
(* every process comes to its end by returning.                            *)
(***************************************************************************)
THEOREM WaysBackEnd == Spec => []ChainEnds
<1>1. Init => EndInv
  <2> SUFFICES ASSUME Init PROVE Acyclic
    BY Zenon DEF EndInv
  <2>1. \A c \in Contexts : previousContext[c] = Nil /\ c # Nil
    BY DEF Init, Contexts, Nil
  <2>2. QED BY <2>1 DEF Acyclic
<1>2. IInv /\ EndInv /\ [Next]_vars => EndInv'
  BY StepEnds
<1>3. IInv /\ EndInv => ChainEnds
  <2> SUFFICES ASSUME IInv, Acyclic, NEW c \in {current} \union {procContext[p] : p \in Procs}
               PROVE  Nil \in Chain(c)
    BY DEF EndInv, ChainEnds
  <2>1. c \in Contexts \union {Nil}
    BY PreviousFacts DEF IInv, TypeOK
  <2>2. c \in Chain(c) /\ \A d \in Chain(c) \ {Nil} : d \in Contexts /\ previousContext[d] \in Chain(c)
    BY <2>1, ChainClosed, PreviousFacts
  <2>3. QED BY <2>2 DEF Acyclic
<1>4. QED
  BY <1>1, <1>2, <1>3, Invariance, PTL DEF Spec

-----------------------------------------------------------------------------
(***************************************************************************)
(* The call stacks of a VM without tail calls.  The operators take the     *)
(* fields of the contexts as arguments, so that they speak of the state    *)
(* before and after a step alike.                                          *)
(***************************************************************************)
Rests == {"live", "stackReturn", "blockReturn"}

FrameSet == [ctx : Contexts, rest : Rests, top : Int]

ContextAt(fs, k) == IF k = 0 THEN Nil ELSE fs[k].ctx

\* A method has one frame, and a frame left before a blockReturn lies above
\* that of the method it returns from.
Framed(fs, kd, cr, al) ==
  /\ fs \in Seq(FrameSet)
  /\ \A i \in 1 .. Len(fs) : fs[i].ctx <= al
  /\ \A i, j \in 1 .. Len(fs) : fs[i].ctx = fs[j].ctx /\ kd[fs[i].ctx] = "method" => i = j
  /\ \A i \in 1 .. Len(fs) : fs[i].rest = "blockReturn" =>
       /\ kd[cr[fs[i].ctx]] = "method"
       /\ \E j \in 1 .. i - 1 : fs[j].ctx = cr[fs[i].ctx]

\* s[i] is the frame that goes on when frame i is returned to: Resumed's stop.
Stops(s, fs, cr) ==
  /\ s \in [0 .. Len(fs) -> Nat]
  /\ \A i \in 0 .. Len(fs) : s[i] <= i /\ (s[i] = 0 \/ fs[s[i]].rest = "live")
  /\ \A i \in 1 .. Len(fs) :
       /\ fs[i].rest = "live" => s[i] = i
       /\ fs[i].rest = "stackReturn" => s[i] = s[i - 1]
       /\ fs[i].rest = "blockReturn" =>
            \A j \in 1 .. i - 1 : fs[j].ctx = cr[fs[i].ctx] => s[i] = s[j - 1]

\* The previous context is the one that goes on.
Returns(s, fs, kd, prev) ==
  \A i \in 1 .. Len(fs) : fs[i].rest = "live" \/ kd[fs[i].ctx] = "method" =>
    prev[fs[i].ctx] = ContextAt(fs, s[i - 1])

TopLive(fs) == Len(fs) > 0 => fs[Len(fs)].rest = "live"

LiveOnce(fs) == \A i, j \in 1 .. Len(fs) :
  fs[i].rest = "live" /\ fs[j].rest = "live" /\ fs[i].ctx = fs[j].ctx => i = j

Consistent(s, fs, kd, cr, al, prev) ==
  /\ Framed(fs, kd, cr, al)
  /\ LiveOnce(fs)
  /\ Stops(s, fs, cr)
  /\ Returns(s, fs, kd, prev)

Sound(fs, kd, cr, al, prev) == TopLive(fs) /\ \E s : Consistent(s, fs, kd, cr, al, prev)

Live(fs) == {fs[i].ctx : i \in {k \in 1 .. Len(fs) : fs[k].rest = "live"}}

\* The live frames up to the last have the stack height they were left with.
Tops(fs, sv, last) == \A i \in 1 .. last : fs[i].rest = "live" => sv[fs[i].ctx] = fs[i].top

Left(p) == IF p = running THEN Len(frames[p]) - 1 ELSE Len(frames[p])

Tracked ==
  /\ frames \in [Procs -> Seq(FrameSet)]
  /\ \A p \in Procs : Sound(frames[p], kind, creatingContext, allocated, previousContext)
  /\ \A p, q \in Procs : p # q => Live(frames[p]) \intersect Live(frames[q]) = {}
  /\ running # None => TopContext(frames[running]) = current
  /\ \A p \in Procs \ {running} : status[p] = "suspended" => TopContext(frames[p]) = procContext[p]
  /\ \A p \in Procs : Tops(frames[p], savedTop, Left(p))

GhostInv == ~reentered /\ ~escaped => Tracked

-----------------------------------------------------------------------------
\* The lower part of a stack.
LEMMA PrefixFacts ==
  ASSUME NEW F, NEW fs \in Seq(F), NEW k \in 0 .. Len(fs)
  PROVE  /\ SubSeq(fs, 1, k) \in Seq(F)
         /\ Len(SubSeq(fs, 1, k)) = k
         /\ \A i \in 1 .. k : SubSeq(fs, 1, k)[i] = fs[i]
         /\ \A m \in 0 .. k : SubSeq(SubSeq(fs, 1, k), 1, m) = SubSeq(fs, 1, m)
<1>1. /\ SubSeq(fs, 1, k) \in Seq(F)
      /\ Len(SubSeq(fs, 1, k)) = k
      /\ \A i \in 1 .. k : SubSeq(fs, 1, k)[i] = fs[i]
  OBVIOUS
<1>2. ASSUME NEW m \in 0 .. k PROVE SubSeq(SubSeq(fs, 1, k), 1, m) = SubSeq(fs, 1, m)
  OBVIOUS
<1>3. QED BY <1>1, <1>2

\* What a frame is.
LEMMA FrameFacts ==
  ASSUME NEW fs \in Seq(FrameSet), NEW i \in 1 .. Len(fs)
  PROVE  fs[i] \in FrameSet /\ fs[i].ctx \in Contexts /\ fs[i].rest \in Rests /\ fs[i].top \in Int
<1>1. fs[i] \in FrameSet
  OBVIOUS
<1>2. QED BY <1>1 DEF FrameSet

\* A frame that is left.
LEMMA LeaveFacts ==
  ASSUME NEW fs \in Seq(FrameSet), Len(fs) > 0, NEW r \in Rests, NEW t \in Int
  PROVE  /\ Leave(fs, r, t) \in Seq(FrameSet)
         /\ Len(Leave(fs, r, t)) = Len(fs)
         /\ Leave(fs, r, t)[Len(fs)] = [ctx |-> fs[Len(fs)].ctx, rest |-> r, top |-> t]
         /\ \A i \in 1 .. Len(fs) - 1 : Leave(fs, r, t)[i] = fs[i]
<1> DEFINE n == Len(fs)
           f == [ctx |-> fs[n].ctx, rest |-> r, top |-> t]
<1>1. n \in 1 .. Len(fs) /\ fs[n] \in FrameSet
  OBVIOUS
<1>2. Leave(fs, r, t) = [fs EXCEPT ![n] = f]
  <2>1. [fs[n] EXCEPT !.rest = r, !.top = t] = f
    <3>1. PICK c, a, b : fs[n] = [ctx |-> c, rest |-> a, top |-> b]
      BY <1>1 DEF FrameSet
    <3>2. [fs[n] EXCEPT !.rest = r] = [ctx |-> c, rest |-> r, top |-> b]
      BY <3>1
    <3>3. [[ctx |-> c, rest |-> r, top |-> b] EXCEPT !.top = t] = [ctx |-> c, rest |-> r, top |-> t]
      OBVIOUS
    <3>4. QED BY <3>1, <3>2, <3>3
  <2>2. [fs EXCEPT ![n].rest = r, ![n].top = t] = [fs EXCEPT ![n] = [fs[n] EXCEPT !.rest = r, !.top = t]]
    <3> DEFINE g == [fs[n] EXCEPT !.rest = r]
               h == [g EXCEPT !.top = t]
               fg == [fs EXCEPT ![n] = g]
    <3>1. n \in DOMAIN fs
      BY <1>1
    <3>2. fg[n] = g
      BY <3>1
    <3>3. [fg EXCEPT ![n] = h] = [fs EXCEPT ![n] = h]
      <4> HIDE DEF h, g
      <4>1. QED OBVIOUS
    <3>4. QED BY <3>2, <3>3
  <2>3. QED BY <2>1, <2>2 DEF Leave
<1>3. f \in FrameSet
  BY <1>1 DEF FrameSet
<1> HIDE DEF f
<1>4. [fs EXCEPT ![n] = f] \in Seq(FrameSet) /\ Len([fs EXCEPT ![n] = f]) = Len(fs)
  BY <1>1, <1>3
<1>5. [fs EXCEPT ![n] = f][n] = f /\ \A i \in 1 .. Len(fs) - 1 : [fs EXCEPT ![n] = f][i] = fs[i]
  BY <1>1
<1>6. QED BY <1>2, <1>4, <1>5 DEF f

\* A frame that is called.
LEMMA AppendFacts ==
  ASSUME NEW F, NEW fs \in Seq(F), NEW f \in F
  PROVE  /\ Append(fs, f) \in Seq(F)
         /\ Len(Append(fs, f)) = Len(fs) + 1
         /\ Append(fs, f)[Len(fs) + 1] = f
         /\ \A i \in 1 .. Len(fs) : Append(fs, f)[i] = fs[i]
  OBVIOUS

-----------------------------------------------------------------------------
\* What Resumed calls stop.
IsStop(stop, fs, cr) ==
  stop = [i \in 0 .. Len(fs) |->
            IF i = 0 \/ fs[i].rest = "live" THEN i
            ELSE IF fs[i].rest = "stackReturn" THEN stop[i - 1]
            ELSE stop[Below(fs, cr[fs[i].ctx])]]

\* The frame below that of a method.
LEMMA BelowIs ==
  ASSUME NEW fs, NEW kd, NEW cr, NEW al, Framed(fs, kd, cr, al),
         NEW j \in 1 .. Len(fs), kd[fs[j].ctx] = "method"
  PROVE  Below(fs, fs[j].ctx) = j - 1
<1>1. Len(fs) \in Nat
  BY DEF Framed
<1>2. j - 1 \in 0 .. Len(fs) - 1 /\ fs[(j - 1) + 1].ctx = fs[j].ctx
  BY <1>1
<1>3. \A i \in 0 .. Len(fs) - 1 : fs[i + 1].ctx = fs[j].ctx => i = j - 1
  <2> TAKE i \in 0 .. Len(fs) - 1
  <2>1. i + 1 \in 1 .. Len(fs)
    BY <1>1
  <2>2. fs[i + 1].ctx = fs[j].ctx => i + 1 = j
    BY <2>1 DEF Framed
  <2>3. QED BY <2>2
<1>4. QED BY <1>2, <1>3 DEF Below

\* The frames that go on solve the recursive definition.
LEMMA StopsSolve ==
  ASSUME NEW fs, NEW kd, NEW cr, NEW al, Framed(fs, kd, cr, al),
         NEW s, Stops(s, fs, cr)
  PROVE  IsStop(s, fs, cr)
<1> DEFINE n == Len(fs)
           g(i) == IF i = 0 \/ fs[i].rest = "live" THEN i
                   ELSE IF fs[i].rest = "stackReturn" THEN s[i - 1]
                   ELSE s[Below(fs, cr[fs[i].ctx])]
<1>1. n \in Nat /\ s \in [0 .. n -> Nat]
  BY DEF Framed, Stops
<1>2. ASSUME NEW i \in 0 .. n PROVE s[i] = g(i)
  <2>1. CASE i = 0
    BY <1>1, <2>1 DEF Stops
  <2>2. CASE i # 0
    <3>1. i \in 1 .. n /\ fs[i].rest \in Rests
      BY <1>1, <2>2, FrameFacts DEF Framed
    <3>2. CASE fs[i].rest = "live" \/ fs[i].rest = "stackReturn"
      BY <2>2, <3>1, <3>2 DEF Stops
    <3>3. CASE fs[i].rest = "blockReturn"
      <4>1. PICK j \in 1 .. i - 1 : fs[j].ctx = cr[fs[i].ctx]
        BY <3>1, <3>3 DEF Framed
      <4>2. kd[fs[j].ctx] = "method"
        BY <3>1, <3>3, <4>1 DEF Framed
      <4>3. s[i] = s[j - 1]
        BY <3>1, <3>3, <4>1 DEF Stops
      <4>4. j \in 1 .. n
        BY <3>1, <1>1
      <4>5. Below(fs, cr[fs[i].ctx]) = j - 1
        BY <4>1, <4>2, <4>4, BelowIs
      <4>6. QED BY <2>2, <3>3, <4>3, <4>5
    <3>4. QED BY <3>1, <3>2, <3>3 DEF Rests
  <2>3. QED BY <2>1, <2>2
<1>3. s = [i \in 0 .. n |-> s[i]]
  BY <1>1
<1>4. s = [i \in 0 .. n |-> g(i)]
  BY <1>2, <1>3
<1>5. QED BY <1>4, Zenon DEF IsStop

\* They are the only solution.
LEMMA StopsOnly ==
  ASSUME NEW fs, NEW kd, NEW cr, NEW al, Framed(fs, kd, cr, al),
         NEW s, Stops(s, fs, cr), NEW t, IsStop(t, fs, cr)
  PROVE  t[Len(fs)] = s[Len(fs)]
<1> DEFINE n == Len(fs)
           S == {k \in 0 .. n : t[k] = s[k]}
<1>1. n \in Nat
  BY DEF Framed
<1>2. \A i \in 0 .. n :
        /\ s[i] = IF i = 0 \/ fs[i].rest = "live" THEN i
                  ELSE IF fs[i].rest = "stackReturn" THEN s[i - 1]
                  ELSE s[Below(fs, cr[fs[i].ctx])]
        /\ t[i] = IF i = 0 \/ fs[i].rest = "live" THEN i
                  ELSE IF fs[i].rest = "stackReturn" THEN t[i - 1]
                  ELSE t[Below(fs, cr[fs[i].ctx])]
  <2>1. IsStop(s, fs, cr)
    BY StopsSolve
  <2>2. QED BY <2>1, Zenon DEF IsStop
<1>3. ASSUME NEW k \in 0 .. n, \A i \in 0 .. n : i < k => i \in S PROVE k \in S
  <2>1. CASE k = 0 \/ fs[k].rest = "live"
    BY <1>2, <2>1
  <2>2. CASE ~(k = 0 \/ fs[k].rest = "live")
    <3>1. k \in 1 .. n /\ fs[k].rest \in Rests /\ k - 1 \in 0 .. n /\ k - 1 < k
      BY <1>1, <2>2, FrameFacts DEF Framed
    <3>2. CASE fs[k].rest = "stackReturn"
      <4>1. s[k] = s[k - 1] /\ t[k] = t[k - 1]
        BY <1>2, <2>2, <3>2
      <4>2. QED BY <1>3, <3>1, <4>1
    <3>3. CASE fs[k].rest = "blockReturn"
      <4>1. PICK j \in 1 .. k - 1 : fs[j].ctx = cr[fs[k].ctx]
        BY <3>1, <3>3 DEF Framed
      <4>2. kd[fs[j].ctx] = "method" /\ j \in 1 .. n
        BY <3>1, <3>3, <4>1 DEF Framed
      <4>3. Below(fs, cr[fs[k].ctx]) = j - 1
        BY <4>1, <4>2, BelowIs
      <4>4. s[k] = s[j - 1] /\ t[k] = t[j - 1]
        BY <1>2, <2>2, <3>3, <4>3
      <4>5. j - 1 \in 0 .. n /\ j - 1 < k
        BY <3>1, <4>1
      <4>6. QED BY <1>3, <4>4, <4>5
    <3>4. QED BY <2>2, <3>1, <3>2, <3>3 DEF Rests
  <2>3. QED BY <2>1, <2>2
<1> HIDE DEF S
<1>4. 0 .. n \subseteq S
  BY <1>1, <1>3, Positions
<1>5. n \in S
  BY <1>1, <1>4
<1>6. QED BY <1>5 DEF S

\* The lower part of a stack is one, and goes on where the whole does.
LEMMA PrefixFramed ==
  ASSUME NEW fs, NEW kd, NEW cr, NEW al, Framed(fs, kd, cr, al),
         NEW s, Stops(s, fs, cr), NEW m \in 0 .. Len(fs)
  PROVE  /\ Framed(SubSeq(fs, 1, m), kd, cr, al)
         /\ Stops([i \in 0 .. m |-> s[i]], SubSeq(fs, 1, m), cr)
<1> DEFINE gs == SubSeq(fs, 1, m)
           t == [i \in 0 .. m |-> s[i]]
<1>1. /\ Len(fs) \in Nat /\ gs \in Seq(FrameSet) /\ Len(gs) = m
      /\ \A i \in 1 .. m : gs[i] = fs[i] /\ i \in 1 .. Len(fs)
  BY PrefixFacts DEF Framed
<1>2. \A i \in 0 .. m : t[i] = s[i] /\ i \in 0 .. Len(fs)
  BY <1>1
<1> HIDE DEF gs
<1>3. Framed(gs, kd, cr, al)
  <2>1. ASSUME NEW i \in 1 .. m, gs[i].rest = "blockReturn"
        PROVE  kd[cr[gs[i].ctx]] = "method" /\ \E j \in 1 .. i - 1 : gs[j].ctx = cr[gs[i].ctx]
    <3>1. PICK j \in 1 .. i - 1 : fs[j].ctx = cr[fs[i].ctx]
      BY <1>1, <2>1 DEF Framed
    <3>2. j \in 1 .. m
      BY <1>1
    <3>3. QED BY <1>1, <2>1, <3>1, <3>2 DEF Framed
  <2>2. \A i \in 1 .. m : gs[i].ctx <= al
    BY <1>1 DEF Framed
  <2>3. \A i, j \in 1 .. m : gs[i].ctx = gs[j].ctx /\ kd[gs[i].ctx] = "method" => i = j
    BY <1>1 DEF Framed
  <2>4. QED BY <1>1, <2>1, <2>2, <2>3 DEF Framed
<1>4. Stops(t, gs, cr)
  <2>1. s \in [0 .. Len(fs) -> Nat]
    BY DEF Stops
  <2>2. t \in [0 .. m -> Nat]
    BY <1>2, <2>1
  <2> HIDE DEF t
  <2>3. ASSUME NEW i \in 0 .. m PROVE t[i] <= i /\ (t[i] = 0 \/ gs[t[i]].rest = "live")
    <3>1. s[i] <= i /\ (s[i] = 0 \/ fs[s[i]].rest = "live") /\ s[i] \in Nat
      BY <1>2, <2>1 DEF Stops
    <3>2. s[i] # 0 => s[i] \in 1 .. m
      BY <3>1
    <3>3. QED BY <1>1, <1>2, <3>1, <3>2
  <2>4. ASSUME NEW i \in 1 .. m
        PROVE  /\ gs[i].rest = "live" => t[i] = i
               /\ gs[i].rest = "stackReturn" => t[i] = t[i - 1]
    <3>1. i \in 0 .. m /\ i - 1 \in 0 .. m /\ i \in 1 .. Len(fs)
      BY <1>1
    <3>2. QED BY <1>1, <1>2, <3>1 DEF Stops
  <2>5. ASSUME NEW i \in 1 .. m, gs[i].rest = "blockReturn",
               NEW j \in 1 .. i - 1, gs[j].ctx = cr[gs[i].ctx]
        PROVE  t[i] = t[j - 1]
    <3>1. i \in 0 .. m /\ j \in 1 .. m /\ j - 1 \in 0 .. m /\ i \in 1 .. Len(fs)
      BY <1>1
    <3>2. gs[i] = fs[i] /\ gs[j] = fs[j] /\ t[i] = s[i] /\ t[j - 1] = s[j - 1]
      BY <1>1, <1>2, <3>1
    <3>3. QED BY <2>5, <3>1, <3>2 DEF Stops
  <2>6. QED BY <1>1, <2>2, <2>3, <2>4, <2>5 DEF Stops
<1>5. QED BY <1>3, <1>4 DEF gs

\* What is resumed when a lower part of a stack is returned to.
LEMMA ResumedPrefix ==
  ASSUME NEW fs, Framed(fs, kind, creatingContext, allocated),
         NEW s, Stops(s, fs, creatingContext), NEW m \in 0 .. Len(fs)
  PROVE  Resumed(SubSeq(fs, 1, m)) = SubSeq(fs, 1, s[m])
<1> DEFINE gs == SubSeq(fs, 1, m)
           t == [i \in 0 .. m |-> s[i]]
           stop == CHOOSE f : IsStop(f, gs, creatingContext)
<1>1. Framed(gs, kind, creatingContext, allocated) /\ Stops(t, gs, creatingContext)
  BY PrefixFramed
<1>2. Resumed(gs) = SubSeq(gs, 1, stop[Len(gs)])
  BY Zenon DEF Resumed, IsStop
<1>3. IsStop(t, gs, creatingContext)
  BY <1>1, StopsSolve
<1>4. IsStop(stop, gs, creatingContext)
  BY <1>3, Zenon
<1>5. stop[Len(gs)] = t[Len(gs)]
  <2> HIDE DEF stop, t, gs
  <2>1. QED BY <1>1, <1>4, StopsOnly
<1>6. Len(gs) = m /\ \A k \in 0 .. m : SubSeq(gs, 1, k) = SubSeq(fs, 1, k)
  BY PrefixFacts DEF Framed
<1>7. t[m] = s[m] /\ s[m] \in 0 .. m
  <2>1. m \in 0 .. m /\ m \in Nat
    BY DEF Framed
  <2>2. QED BY <2>1 DEF Stops
<1>8. QED
  <2> HIDE DEF stop, t, gs
  <2>1. QED BY <1>2, <1>5, <1>6, <1>7 DEF gs

-----------------------------------------------------------------------------
(***************************************************************************)
(* What the steps do to a stack: fields of other contexts change, it is    *)
(* cut, a frame is left, a frame is called.                                *)
(***************************************************************************)
LEMMA LiveFacts ==
  ASSUME NEW fs, NEW x
  PROVE  x \in Live(fs) <=> \E i \in 1 .. Len(fs) : fs[i].rest = "live" /\ fs[i].ctx = x
  BY Zenon DEF Live

\* A stack does not depend on the contexts it does not name.
LEMMA ConsistentKept ==
  ASSUME NEW s, NEW fs, NEW kd, NEW cr, NEW al \in Int, NEW prev, Consistent(s, fs, kd, cr, al, prev),
         NEW kd2, NEW cr2, NEW al2 \in Int, NEW prev2, al <= al2,
         \A c \in Contexts : c <= al => kd2[c] = kd[c] /\ cr2[c] = cr[c],
         \A c \in Contexts : c <= al /\ (kd[c] = "method" \/ c \in Live(fs)) => prev2[c] = prev[c]
  PROVE  Consistent(s, fs, kd2, cr2, al2, prev2)
<1>1. fs \in Seq(FrameSet) /\ Len(fs) \in Nat
  BY DEF Consistent, Framed
<1>2. \A i \in 1 .. Len(fs) : /\ fs[i].ctx \in Contexts /\ fs[i].ctx <= al
                              /\ kd2[fs[i].ctx] = kd[fs[i].ctx] /\ cr2[fs[i].ctx] = cr[fs[i].ctx]
  BY <1>1, FrameFacts DEF Consistent, Framed
<1>3. Framed(fs, kd2, cr2, al2)
  <2>1. \A i \in 1 .. Len(fs) : fs[i].ctx <= al2
    BY <1>2 DEF Contexts
  <2>2. \A i, j \in 1 .. Len(fs) : fs[i].ctx = fs[j].ctx /\ kd2[fs[i].ctx] = "method" => i = j
    BY <1>2 DEF Consistent, Framed
  <2>3. ASSUME NEW i \in 1 .. Len(fs), fs[i].rest = "blockReturn"
        PROVE  kd2[cr2[fs[i].ctx]] = "method" /\ \E j \in 1 .. i - 1 : fs[j].ctx = cr2[fs[i].ctx]
    <3>1. PICK j \in 1 .. i - 1 : fs[j].ctx = cr[fs[i].ctx]
      BY <2>3 DEF Consistent, Framed
    <3>2. kd[fs[j].ctx] = "method" /\ j \in 1 .. Len(fs)
      BY <1>1, <2>3, <3>1 DEF Consistent, Framed
    <3>3. QED BY <1>2, <3>1, <3>2
  <2>4. QED BY <1>1, <2>1, <2>2, <2>3 DEF Framed
<1>4. Stops(s, fs, cr2)
  <2>1. Stops(s, fs, cr)
    BY DEF Consistent
  <2>2. ASSUME NEW i \in 1 .. Len(fs), fs[i].rest = "blockReturn",
               NEW j \in 1 .. i - 1, fs[j].ctx = cr2[fs[i].ctx]
        PROVE  s[i] = s[j - 1]
    <3>1. fs[j].ctx = cr[fs[i].ctx]
      BY <1>2, <2>2
    <3>2. QED BY <2>1, <2>2, <3>1 DEF Stops
  <2>3. QED BY <2>1, <2>2, Zenon DEF Stops
<1>5. Returns(s, fs, kd2, prev2)
  <2> SUFFICES ASSUME NEW i \in 1 .. Len(fs), fs[i].rest = "live" \/ kd2[fs[i].ctx] = "method"
               PROVE  prev2[fs[i].ctx] = ContextAt(fs, s[i - 1])
    BY DEF Returns
  <2>1. fs[i].rest = "live" => fs[i].ctx \in Live(fs)
    BY LiveFacts
  <2>2. prev2[fs[i].ctx] = prev[fs[i].ctx]
    BY <1>2, <2>1
  <2>3. prev[fs[i].ctx] = ContextAt(fs, s[i - 1])
    BY <1>2 DEF Consistent, Returns
  <2>4. QED BY <2>2, <2>3
<1>6. QED BY <1>3, <1>4, <1>5 DEF Consistent

\* The lower part of a stack.
LEMMA ConsistentPrefix ==
  ASSUME NEW s, NEW fs, NEW kd, NEW cr, NEW al, NEW prev, Consistent(s, fs, kd, cr, al, prev),
         NEW m \in 0 .. Len(fs)
  PROVE  /\ Consistent([i \in 0 .. m |-> s[i]], SubSeq(fs, 1, m), kd, cr, al, prev)
         /\ Live(SubSeq(fs, 1, m)) \subseteq Live(fs)
<1> DEFINE gs == SubSeq(fs, 1, m)
           t == [i \in 0 .. m |-> s[i]]
<1>1. fs \in Seq(FrameSet) /\ Len(fs) \in Nat
  BY DEF Consistent, Framed
<1>2. Len(gs) = m /\ \A i \in 1 .. m : gs[i] = fs[i] /\ i \in 1 .. Len(fs)
  BY <1>1, PrefixFacts
<1>3. Framed(gs, kd, cr, al) /\ Stops(t, gs, cr)
  BY PrefixFramed DEF Consistent
<1>4. \A i \in 0 .. m : t[i] = s[i]
  OBVIOUS
<1> HIDE DEF gs, t
<1>5. LiveOnce(gs)
  BY <1>2 DEF LiveOnce, Consistent
<1>6. Returns(t, gs, kd, prev)
  <2> SUFFICES ASSUME NEW i \in 1 .. m, gs[i].rest = "live" \/ kd[gs[i].ctx] = "method"
               PROVE  prev[gs[i].ctx] = ContextAt(gs, t[i - 1])
    BY <1>2 DEF Returns
  <2>1. i - 1 \in 0 .. m /\ i - 1 \in 0 .. Len(fs)
    BY <1>1
  <2>2. prev[fs[i].ctx] = ContextAt(fs, s[i - 1])
    BY <1>2 DEF Consistent, Returns
  <2>3. s[i - 1] \in Nat /\ s[i - 1] <= i - 1
    BY <2>1 DEF Consistent, Stops
  <2>4. s[i - 1] # 0 => s[i - 1] \in 1 .. m
    BY <2>1, <2>3
  <2>5. QED BY <1>2, <1>4, <2>1, <2>2, <2>4 DEF ContextAt
<1>7. \A x \in Live(gs) : x \in Live(fs)
  BY <1>2, LiveFacts
<1>8. QED BY <1>3, <1>5, <1>6, <1>7 DEF Consistent, gs, t

\* The frame on top is left with less to do, or goes on later.
LEMMA ConsistentLeave ==
  ASSUME NEW s, NEW fs, NEW kd, NEW cr, NEW al, NEW prev, Consistent(s, fs, kd, cr, al, prev),
         Len(fs) > 0, fs[Len(fs)].rest = "live",
         NEW r \in Rests, NEW t \in Int,
         r = "blockReturn" =>
           /\ kd[cr[fs[Len(fs)].ctx]] = "method"
           /\ \E j \in 1 .. Len(fs) - 1 : fs[j].ctx = cr[fs[Len(fs)].ctx]
  PROVE  /\ \E u : /\ Consistent(u, Leave(fs, r, t), kd, cr, al, prev)
                   /\ r = "live" => u[Len(fs)] = Len(fs)
                   /\ r = "stackReturn" => u[Len(fs)] = s[Len(fs) - 1]
                   /\ r = "blockReturn" =>
                        \A j \in 1 .. Len(fs) - 1 : fs[j].ctx = cr[fs[Len(fs)].ctx] => u[Len(fs)] = s[j - 1]
         /\ Live(Leave(fs, r, t)) \subseteq Live(fs)
<1> DEFINE n == Len(fs)
           gs == Leave(fs, r, t)
<1>1. fs \in Seq(FrameSet) /\ n \in Nat /\ n \in 1 .. n
  BY DEF Consistent, Framed
<1>2. /\ gs \in Seq(FrameSet) /\ Len(gs) = n
      /\ gs[n] = [ctx |-> fs[n].ctx, rest |-> r, top |-> t]
      /\ \A i \in 1 .. n - 1 : gs[i] = fs[i]
  BY <1>1, LeaveFacts
<1> HIDE DEF gs
<1>3. gs[n].rest = r /\ \A i \in 1 .. n : gs[i].ctx = fs[i].ctx
  BY <1>1, <1>2
<1>4. PICK k \in Nat : /\ k <= n
                       /\ k = n => r = "live"
                       /\ k = 0 \/ k = n \/ fs[k].rest = "live"
                       /\ r = "live" => k = n
                       /\ r = "stackReturn" => k = s[n - 1]
                       /\ r = "blockReturn" => \A j \in 1 .. n - 1 : fs[j].ctx = cr[fs[n].ctx] => k = s[j - 1]
  <2>0. s \in [0 .. n -> Nat] /\ \A i \in 0 .. n : s[i] <= i /\ (s[i] = 0 \/ fs[s[i]].rest = "live")
    BY DEF Consistent, Stops
  <2>1. CASE r = "live"
    BY <1>1, <2>1
  <2>2. CASE r = "stackReturn"
    <3>1. n - 1 \in 0 .. n /\ n - 1 < n
      BY <1>1
    <3>2. s[n - 1] \in Nat /\ s[n - 1] < n /\ (s[n - 1] = 0 \/ fs[s[n - 1]].rest = "live")
      BY <2>0, <3>1
    <3>3. QED BY <1>1, <2>2, <3>2
  <2>3. CASE r = "blockReturn"
    <3>1. PICK j \in 1 .. n - 1 : fs[j].ctx = cr[fs[n].ctx]
      BY <2>3
    <3>2. j - 1 \in 0 .. n /\ j - 1 < n /\ j \in 1 .. n
      BY <1>1
    <3>3. s[j - 1] \in Nat /\ s[j - 1] < n /\ (s[j - 1] = 0 \/ fs[s[j - 1]].rest = "live")
      BY <2>0, <3>2
    <3>4. \A i \in 1 .. n - 1 : fs[i].ctx = cr[fs[n].ctx] => i = j
      <4> TAKE i \in 1 .. n - 1
      <4>1. i \in 1 .. n
        BY <1>1
      <4>2. QED BY <2>3, <3>1, <3>2, <4>1 DEF Consistent, Framed
    <3>5. QED BY <1>1, <2>3, <3>3, <3>4
  <2>4. QED BY <2>1, <2>2, <2>3 DEF Rests
<1> DEFINE u == [i \in 0 .. n |-> IF i = n THEN k ELSE s[i]]
<1>5. u \in [0 .. n -> Nat] /\ u[n] = k /\ \A i \in 0 .. n - 1 : u[i] = s[i] /\ i \in 0 .. n
  BY <1>1, <1>4 DEF Consistent, Stops
<1> HIDE DEF u
<1>6. \A i \in 0 .. n - 1 : s[i] \in 0 .. n - 1 /\ s[i] <= i /\ (s[i] = 0 \/ (s[i] \in 1 .. n - 1 /\ fs[s[i]].rest = "live"))
  <2> TAKE i \in 0 .. n - 1
  <2>1. i \in 0 .. n
    BY <1>1
  <2>2. s[i] \in Nat /\ s[i] <= i /\ (s[i] = 0 \/ fs[s[i]].rest = "live")
    BY <2>1 DEF Consistent, Stops
  <2>3. QED BY <1>1, <2>2
<1>7. Framed(gs, kd, cr, al)
  <2>1. \A i \in 1 .. n : gs[i].ctx <= al
    BY <1>3 DEF Consistent, Framed
  <2>2. \A i, j \in 1 .. n : gs[i].ctx = gs[j].ctx /\ kd[gs[i].ctx] = "method" => i = j
    BY <1>3 DEF Consistent, Framed
  <2>3. ASSUME NEW i \in 1 .. n, gs[i].rest = "blockReturn"
        PROVE  kd[cr[gs[i].ctx]] = "method" /\ \E j \in 1 .. i - 1 : gs[j].ctx = cr[gs[i].ctx]
    <3>1. kd[cr[fs[i].ctx]] = "method" /\ \E j \in 1 .. i - 1 : fs[j].ctx = cr[fs[i].ctx]
      <4>1. CASE i = n
        BY <1>3, <2>3, <4>1
      <4>2. CASE i # n
        <5>1. fs[i].rest = "blockReturn"
          BY <1>1, <1>2, <2>3, <4>2
        <5>2. QED BY <5>1 DEF Consistent, Framed
      <4>3. QED BY <4>1, <4>2
    <3>2. \A j \in 1 .. i - 1 : j \in 1 .. n
      BY <1>1
    <3>3. QED BY <1>3, <3>1, <3>2
  <2>4. QED BY <1>2, <2>1, <2>2, <2>3 DEF Framed
<1>8. LiveOnce(gs)
  <2>1. \A i \in 1 .. n : gs[i].rest = "live" => fs[i].rest = "live" /\ gs[i].ctx = fs[i].ctx
    BY <1>1, <1>2, <1>3
  <2>2. QED BY <1>2, <2>1 DEF LiveOnce, Consistent
<1>9. Stops(u, gs, cr)
  <2>1. ASSUME NEW i \in 0 .. n PROVE u[i] <= i /\ (u[i] = 0 \/ gs[u[i]].rest = "live")
    <3>1. CASE i = n
      <4>1. CASE k = n
        BY <1>1, <1>3, <1>4, <1>5, <3>1, <4>1
      <4>2. CASE k # n /\ k # 0
        <5>1. k \in 1 .. n - 1
          BY <1>1, <1>4, <4>2
        <5>2. QED BY <1>2, <1>4, <1>5, <3>1, <4>2, <5>1
      <4>3. QED BY <1>4, <1>5, <3>1, <4>1, <4>2
    <3>2. CASE i # n
      <4>1. i \in 0 .. n - 1
        BY <1>1, <3>2
      <4>2. u[i] = s[i] /\ s[i] <= i /\ (s[i] = 0 \/ (s[i] \in 1 .. n - 1 /\ fs[s[i]].rest = "live"))
        BY <1>5, <1>6, <4>1
      <4>3. s[i] \in 1 .. n - 1 => gs[s[i]] = fs[s[i]]
        BY <1>2
      <4>4. QED BY <4>2, <4>3
    <3>3. QED BY <3>1, <3>2
  <2>2. ASSUME NEW i \in 1 .. n
        PROVE  /\ gs[i].rest = "live" => u[i] = i
               /\ gs[i].rest = "stackReturn" => u[i] = u[i - 1]
    <3>1. i - 1 \in 0 .. n - 1
      BY <1>1
    <3>2. CASE i = n
      BY <1>3, <1>4, <1>5, <3>1, <3>2
    <3>3. CASE i # n
      <4>1. i \in 1 .. n - 1 /\ i \in 0 .. n - 1
        BY <1>1, <3>3
      <4>2. gs[i] = fs[i] /\ u[i] = s[i] /\ u[i - 1] = s[i - 1]
        BY <1>2, <1>5, <3>1, <4>1
      <4>3. QED BY <4>2 DEF Consistent, Stops
    <3>4. QED BY <3>2, <3>3
  <2>3. ASSUME NEW i \in 1 .. n, gs[i].rest = "blockReturn",
               NEW j \in 1 .. i - 1, gs[j].ctx = cr[gs[i].ctx]
        PROVE  u[i] = u[j - 1]
    <3>1. j \in 1 .. n - 1 /\ j - 1 \in 0 .. n - 1 /\ j \in 1 .. n
      BY <1>1
    <3>2. u[j - 1] = s[j - 1] /\ fs[j].ctx = cr[fs[i].ctx]
      BY <1>3, <1>5, <2>3, <3>1
    <3>3. CASE i = n
      BY <1>3, <1>4, <1>5, <2>3, <3>1, <3>2, <3>3
    <3>4. CASE i # n
      <4>1. i \in 1 .. n - 1 /\ i \in 0 .. n - 1
        BY <1>1, <3>4
      <4>2. gs[i] = fs[i] /\ u[i] = s[i]
        BY <1>2, <1>5, <4>1
      <4>3. QED BY <2>3, <3>2, <4>2 DEF Consistent, Stops
    <3>5. QED BY <3>3, <3>4
  <2>4. QED BY <1>2, <1>5, <2>1, <2>2, <2>3 DEF Stops
<1>10. Returns(u, gs, kd, prev)
  <2> SUFFICES ASSUME NEW i \in 1 .. n, gs[i].rest = "live" \/ kd[gs[i].ctx] = "method"
               PROVE  prev[gs[i].ctx] = ContextAt(gs, u[i - 1])
    BY <1>2 DEF Returns
  <2>1. i - 1 \in 0 .. n - 1
    BY <1>1
  <2>2. fs[i].rest = "live" \/ kd[fs[i].ctx] = "method"
    BY <1>1, <1>2, <1>3
  <2>3. prev[fs[i].ctx] = ContextAt(fs, s[i - 1])
    BY <2>2 DEF Consistent, Returns
  <2>4. ContextAt(gs, u[i - 1]) = ContextAt(fs, s[i - 1])
    <3>1. u[i - 1] = s[i - 1] /\ (s[i - 1] = 0 \/ s[i - 1] \in 1 .. n - 1)
      BY <1>5, <1>6, <2>1
    <3>2. s[i - 1] \in 1 .. n - 1 => gs[s[i - 1]] = fs[s[i - 1]]
      BY <1>2
    <3>3. QED BY <3>1, <3>2 DEF ContextAt
  <2>5. QED BY <1>3, <2>3, <2>4
<1>11. \A x \in Live(gs) : x \in Live(fs)
  <2>1. \A i \in 1 .. n : gs[i].rest = "live" => fs[i].rest = "live" /\ gs[i].ctx = fs[i].ctx
    BY <1>1, <1>2, <1>3
  <2>2. QED BY <1>2, <2>1, LiveFacts
<1>12. Consistent(u, gs, kd, cr, al, prev)
  BY <1>7, <1>8, <1>9, <1>10 DEF Consistent
<1>13. QED BY <1>4, <1>5, <1>11, <1>12 DEF gs

\* A frame is called whose context returns to the frame that goes on.
LEMMA ConsistentCall ==
  ASSUME NEW s, NEW fs, NEW kd, NEW cr, NEW al, NEW prev, Consistent(s, fs, kd, cr, al, prev),
         NEW x \in Contexts, x <= al, x \notin Live(fs),
         kd[x] = "method" => \A i \in 1 .. Len(fs) : fs[i].ctx # x,
         prev[x] = ContextAt(fs, s[Len(fs)])
  PROVE  /\ Sound(Append(fs, NewFrame(x)), kd, cr, al, prev)
         /\ \A y \in Live(Append(fs, NewFrame(x))) : y = x \/ y \in Live(fs)
         /\ TopContext(Append(fs, NewFrame(x))) = x
<1> DEFINE n == Len(fs)
           f == NewFrame(x)
           gs == Append(fs, f)
           u == [i \in 0 .. n + 1 |-> IF i = n + 1 THEN n + 1 ELSE s[i]]
<1>1. fs \in Seq(FrameSet) /\ n \in Nat /\ n + 1 \in Nat
  BY DEF Consistent, Framed
<1>2. f \in FrameSet /\ f.ctx = x /\ f.rest = "live"
  BY DEF NewFrame, FrameSet, Rests
<1> HIDE DEF f
<1>3. /\ gs \in Seq(FrameSet) /\ Len(gs) = n + 1 /\ gs[n + 1] = f
      /\ \A i \in 1 .. n : gs[i] = fs[i]
  BY <1>1, <1>2, AppendFacts
<1> HIDE DEF gs
<1>4. u \in [0 .. n + 1 -> Nat] /\ u[n + 1] = n + 1 /\ \A i \in 0 .. n : u[i] = s[i]
  BY <1>1 DEF Consistent, Stops
<1> HIDE DEF u
<1>5. \A i \in 1 .. n + 1 : i = n + 1 \/ i \in 1 .. n
  BY <1>1
<1>6. \A i \in 1 .. n : fs[i].rest = "live" => fs[i].ctx # x
  BY LiveFacts
<1>7. Framed(gs, kd, cr, al)
  <2>1. \A i \in 1 .. n + 1 : gs[i].ctx <= al
    BY <1>2, <1>3, <1>5 DEF Consistent, Framed
  <2>2. ASSUME NEW i \in 1 .. n + 1, NEW j \in 1 .. n + 1, gs[i].ctx = gs[j].ctx, kd[gs[i].ctx] = "method"
        PROVE  i = j
    BY <1>2, <1>3, <1>5, <2>2 DEF Consistent, Framed
  <2>3. ASSUME NEW i \in 1 .. n + 1, gs[i].rest = "blockReturn"
        PROVE  kd[cr[gs[i].ctx]] = "method" /\ \E j \in 1 .. i - 1 : gs[j].ctx = cr[gs[i].ctx]
    <3>1. i \in 1 .. n
      BY <1>2, <1>3, <1>5, <2>3
    <3>2. gs[i] = fs[i] /\ \A j \in 1 .. i - 1 : gs[j] = fs[j]
      BY <1>1, <1>3, <3>1
    <3>3. QED BY <2>3, <3>1, <3>2 DEF Consistent, Framed
  <2>4. QED BY <1>3, <2>1, <2>2, <2>3 DEF Framed
<1>8. LiveOnce(gs)
  <2> SUFFICES ASSUME NEW i \in 1 .. n + 1, NEW j \in 1 .. n + 1,
                      gs[i].rest = "live", gs[j].rest = "live", gs[i].ctx = gs[j].ctx
               PROVE  i = j
    BY <1>3 DEF LiveOnce
  <2>1. QED BY <1>2, <1>3, <1>5, <1>6 DEF LiveOnce, Consistent
<1>9. Stops(u, gs, cr)
  <2>1. ASSUME NEW i \in 0 .. n + 1 PROVE u[i] <= i /\ (u[i] = 0 \/ gs[u[i]].rest = "live")
    <3>1. CASE i = n + 1
      BY <1>1, <1>2, <1>3, <1>4, <3>1
    <3>2. CASE i # n + 1
      <4>1. i \in 0 .. n
        BY <1>1, <3>2
      <4>2. u[i] = s[i] /\ s[i] \in Nat /\ s[i] <= i /\ (s[i] = 0 \/ fs[s[i]].rest = "live")
        BY <1>4, <4>1 DEF Consistent, Stops
      <4>3. s[i] # 0 => s[i] \in 1 .. n
        BY <1>1, <4>1, <4>2
      <4>4. QED BY <1>3, <4>2, <4>3
    <3>3. QED BY <3>1, <3>2
  <2>2. ASSUME NEW i \in 1 .. n + 1
        PROVE  /\ gs[i].rest = "live" => u[i] = i
               /\ gs[i].rest = "stackReturn" => u[i] = u[i - 1]
    <3>1. CASE i = n + 1
      BY <1>2, <1>3, <1>4, <3>1
    <3>2. CASE i \in 1 .. n
      <4>1. i \in 0 .. n /\ i - 1 \in 0 .. n
        BY <1>1, <3>2
      <4>2. gs[i] = fs[i] /\ u[i] = s[i] /\ u[i - 1] = s[i - 1]
        BY <1>3, <1>4, <3>2, <4>1
      <4>3. QED BY <3>2, <4>2 DEF Consistent, Stops
    <3>3. QED BY <1>5, <3>1, <3>2
  <2>3. ASSUME NEW i \in 1 .. n + 1, gs[i].rest = "blockReturn",
               NEW j \in 1 .. i - 1, gs[j].ctx = cr[gs[i].ctx]
        PROVE  u[i] = u[j - 1]
    <3>1. i \in 1 .. n
      BY <1>2, <1>3, <1>5, <2>3
    <3>2. i \in 0 .. n /\ j \in 1 .. n /\ j - 1 \in 0 .. n
      BY <1>1, <3>1
    <3>3. gs[i] = fs[i] /\ gs[j] = fs[j] /\ u[i] = s[i] /\ u[j - 1] = s[j - 1]
      BY <1>3, <1>4, <3>1, <3>2
    <3>4. QED BY <2>3, <3>1, <3>3 DEF Consistent, Stops
  <2>4. QED BY <1>3, <1>4, <2>1, <2>2, <2>3 DEF Stops
<1>10. Returns(u, gs, kd, prev)
  <2> SUFFICES ASSUME NEW i \in 1 .. n + 1, gs[i].rest = "live" \/ kd[gs[i].ctx] = "method"
               PROVE  prev[gs[i].ctx] = ContextAt(gs, u[i - 1])
    BY <1>3 DEF Returns
  <2>1. i - 1 \in 0 .. n
    BY <1>1
  <2>2. ContextAt(gs, u[i - 1]) = ContextAt(fs, s[i - 1])
    <3>1. s[i - 1] \in Nat /\ s[i - 1] <= i - 1
      BY <2>1 DEF Consistent, Stops
    <3>2. s[i - 1] # 0 => s[i - 1] \in 1 .. n
      BY <1>1, <2>1, <3>1
    <3>3. QED BY <1>3, <1>4, <2>1, <3>2 DEF ContextAt
  <2>3. CASE i = n + 1
    BY <1>1, <1>2, <1>3, <2>2, <2>3
  <2>4. CASE i \in 1 .. n
    <3>1. prev[fs[i].ctx] = ContextAt(fs, s[i - 1])
      BY <1>3, <2>4 DEF Consistent, Returns
    <3>2. QED BY <1>3, <2>2, <2>4, <3>1
  <2>5. QED BY <1>5, <2>3, <2>4
<1>11. Sound(gs, kd, cr, al, prev)
  <2>1. TopLive(gs)
    BY <1>2, <1>3 DEF TopLive
  <2>2. Consistent(u, gs, kd, cr, al, prev)
    BY <1>7, <1>8, <1>9, <1>10 DEF Consistent
  <2>3. QED BY <2>1, <2>2 DEF Sound
<1>12. ASSUME NEW y \in Live(gs) PROVE y = x \/ y \in Live(fs)
  <2>1. PICK i \in 1 .. n + 1 : gs[i].rest = "live" /\ gs[i].ctx = y
    BY <1>3, <1>12, LiveFacts
  <2>2. QED BY <1>2, <1>3, <1>5, <2>1, LiveFacts
<1>13. TopContext(gs) = x
  <2>1. gs # <<>>
    BY <1>1, <1>3
  <2>2. QED BY <1>2, <1>3, <2>1 DEF TopContext
<1>14. QED BY <1>11, <1>12, <1>13 DEF gs, f

-----------------------------------------------------------------------------
(***************************************************************************)
(* The ghost stacks follow every step.                                     *)
(***************************************************************************)
LEMMA TopOfPrefix ==
  ASSUME NEW fs \in Seq(FrameSet), NEW k \in 0 .. Len(fs)
  PROVE  TopContext(SubSeq(fs, 1, k)) = ContextAt(fs, k)
<1>1. Len(SubSeq(fs, 1, k)) = k /\ \A i \in 1 .. k : SubSeq(fs, 1, k)[i] = fs[i]
  BY PrefixFacts
<1>2. CASE k = 0
  <2>1. SubSeq(fs, 1, k) = <<>>
    BY <1>2
  <2>2. QED BY <1>2, <2>1 DEF TopContext, ContextAt
<1>3. CASE k # 0
  <2>1. SubSeq(fs, 1, k) # <<>> /\ k \in 1 .. k
    BY <1>1, <1>3
  <2>2. QED BY <1>1, <1>3, <2>1 DEF TopContext, ContextAt
<1>4. QED BY <1>2, <1>3

LEMMA EmptyConsistent ==
  ASSUME NEW kd, NEW cr, NEW al, NEW prev
  PROVE  /\ Consistent([i \in 0 .. 0 |-> 0], <<>>, kd, cr, al, prev)
         /\ Sound(<<>>, kd, cr, al, prev)
         /\ Live(<<>>) = {}
         /\ TopContext(<<>>) = Nil
<1> DEFINE s == [i \in 0 .. 0 |-> 0]
<1>1. <<>> \in Seq(FrameSet) /\ Len(<<>>) = 0 /\ 1 .. 0 = {}
  OBVIOUS
<1>2. Stops(s, <<>>, cr)
  BY <1>1 DEF Stops
<1>3. Framed(<<>>, kd, cr, al) /\ LiveOnce(<<>>) /\ Returns(s, <<>>, kd, prev)
  BY <1>1 DEF Framed, LiveOnce, Returns
<1>4. TopLive(<<>>) /\ Live(<<>>) = {} /\ TopContext(<<>>) = Nil
  BY <1>1 DEF TopLive, Live, TopContext
<1>5. Consistent(s, <<>>, kd, cr, al, prev)
  BY <1>2, <1>3 DEF Consistent
<1>6. QED BY <1>4, <1>5 DEF Sound

\* What the invariant says of the numbers.
LEMMA Numbers ==
  ASSUME IInv
  PROVE  /\ allocated \in Nat /\ MaxContexts \in Nat /\ allocated <= MaxContexts
         /\ previousContext \in [Contexts -> 0 .. allocated]
         /\ kind \in [Contexts -> {"method", "block"}]
         /\ creatingContext \in [Contexts -> 0 .. allocated]
         /\ savedTop \in [Contexts -> 0 .. MaxStack]
         /\ procContext \in [Procs -> 0 .. allocated]
         /\ status \in [Procs -> {"suspended", "returned", "error"}]
         /\ stackTop \in Int
         /\ None \notin Procs /\ Nil \notin Contexts
<1>1. MaxContexts \in Nat /\ ProcCount \in Nat /\ MaxStack \in Nat
  BY InterpreterAssumption
<1>2. allocated \in Nat /\ allocated <= MaxContexts /\ stackTop \in Int
  BY <1>1 DEF IInv, TypeOK
<1>3. None \notin Procs /\ Nil \notin Contexts
  BY <1>1 DEF None, Nil, Procs, Contexts
<1>4. QED BY <1>1, <1>2, <1>3 DEF IInv, TypeOK

\* The frame of the context that runs.
LEMMA OnTop ==
  ASSUME IInv, Tracked, running # None
  PROVE  /\ running \in Procs
         /\ Stack \in Seq(FrameSet) /\ Len(Stack) \in Nat /\ Len(Stack) > 0
         /\ Stack[Len(Stack)].ctx = current /\ Stack[Len(Stack)].rest = "live"
         /\ current \in Live(Stack)
         /\ Live(Stack) \subseteq Contexts
         /\ \E s : /\ Consistent(s, Stack, kind, creatingContext, allocated, previousContext)
                   /\ previousContext[current] = ContextAt(Stack, s[Len(Stack) - 1])
                   /\ \A j \in 1 .. Len(Stack) : kind[Stack[j].ctx] = "method" =>
                        previousContext[Stack[j].ctx] = ContextAt(Stack, s[j - 1])
<1> DEFINE n == Len(Stack)
<1>1. running \in Procs /\ current \in Contexts /\ Nil \notin Contexts
  BY RunningFacts, Numbers
<1>2. TopContext(Stack) = current /\ Sound(Stack, kind, creatingContext, allocated, previousContext)
  BY <1>1 DEF Tracked, Stack
<1>3. PICK s : Consistent(s, Stack, kind, creatingContext, allocated, previousContext)
  BY <1>2 DEF Sound
<1>4. Stack \in Seq(FrameSet) /\ n \in Nat
  BY <1>3 DEF Consistent, Framed
<1>5. Stack # <<>> /\ Stack[n].ctx = current
  BY <1>1, <1>2 DEF TopContext
<1>6. n > 0
  BY <1>4, <1>5
<1>7. Stack[n].rest = "live" /\ n \in 1 .. n
  BY <1>2, <1>4, <1>6 DEF Sound, TopLive
<1>8. current \in Live(Stack)
  BY <1>5, <1>7, LiveFacts
<1>9. \A x \in Live(Stack) : x \in Contexts
  BY <1>4, LiveFacts, FrameFacts
<1>10. /\ previousContext[current] = ContextAt(Stack, s[n - 1])
       /\ \A j \in 1 .. n : kind[Stack[j].ctx] = "method" =>
            previousContext[Stack[j].ctx] = ContextAt(Stack, s[j - 1])
  BY <1>3, <1>5, <1>7 DEF Consistent, Returns
<1>11. QED BY <1>1, <1>3, <1>4, <1>5, <1>6, <1>7, <1>8, <1>9, <1>10

\* The stacks of the other processes.
LEMMA OthersSound ==
  ASSUME IInv, Tracked, NEW q \in Procs,
         allocated' \in Int, allocated <= allocated',
         \A c \in Contexts : c <= allocated =>
           kind'[c] = kind[c] /\ creatingContext'[c] = creatingContext[c],
         \A c \in Contexts : c <= allocated /\ (kind[c] = "method" \/ c \in Live(frames[q])) =>
           previousContext'[c] = previousContext[c]
  PROVE  Sound(frames[q], kind', creatingContext', allocated', previousContext')
<1>1. TopLive(frames[q])
  BY DEF Tracked, Sound
<1>2. PICK s : Consistent(s, frames[q], kind, creatingContext, allocated, previousContext)
  BY DEF Tracked, Sound
<1>3. allocated \in Int
  BY Numbers
<1>4. Consistent(s, frames[q], kind', creatingContext', allocated', previousContext')
  BY <1>2, <1>3, ConsistentKept
<1>5. QED BY <1>1, <1>4 DEF Sound

\* Live contexts are allocated.
LEMMA LiveAllocated ==
  ASSUME Tracked, NEW q \in Procs
  PROVE  \A x \in Live(frames[q]) : x \in Contexts /\ x <= allocated
<1>1. Framed(frames[q], kind, creatingContext, allocated)
  BY DEF Tracked, Sound, Consistent
<1>2. QED BY <1>1, LiveFacts, FrameFacts DEF Framed

\* A step that changes the stack of the process that runs.
LEMMA TrackStep ==
  ASSUME IInv, Tracked, running # None, NEW fs, frames' = [frames EXCEPT ![running] = fs],
         Sound(fs, kind', creatingContext', allocated', previousContext'),
         \A q \in Procs \ {running} :
           /\ Sound(frames[q], kind', creatingContext', allocated', previousContext')
           /\ Live(fs) \intersect Live(frames[q]) = {}
           /\ procContext'[q] = procContext[q] /\ status'[q] = status[q]
           /\ \A c \in Live(frames[q]) : savedTop'[c] = savedTop[c],
         running' = running \/ running' = None,
         running' = running => TopContext(fs) = current' /\ Tops(fs, savedTop', Len(fs) - 1),
         running' = None => /\ Tops(fs, savedTop', Len(fs))
                            /\ status'[running] = "suspended" => TopContext(fs) = procContext'[running]
  PROVE  Tracked'
<1>1. running \in Procs /\ None \notin Procs
  BY RunningFacts, Numbers
<1>2. fs \in Seq(FrameSet) /\ Len(fs) \in Nat
  BY DEF Sound, Consistent, Framed
<1>3. frames \in [Procs -> Seq(FrameSet)]
  BY DEF Tracked
<1>4. /\ frames' \in [Procs -> Seq(FrameSet)]
      /\ frames'[running] = fs
      /\ \A q \in Procs \ {running} : frames'[q] = frames[q]
  BY <1>1, <1>2, <1>3
<1>5. \A p \in Procs : Sound(frames'[p], kind', creatingContext', allocated', previousContext')
  BY <1>4
<1>6. ASSUME NEW p \in Procs, NEW q \in Procs, p # q
      PROVE  Live(frames'[p]) \intersect Live(frames'[q]) = {}
  <2>1. CASE p = running
    BY <1>4, <1>6, <2>1
  <2>2. CASE q = running
    BY <1>4, <1>6, <2>2
  <2>3. CASE p # running /\ q # running
    <3>1. Live(frames[p]) \intersect Live(frames[q]) = {}
      BY <1>6 DEF Tracked
    <3>2. QED BY <1>4, <2>3, <3>1
  <2>4. QED BY <2>1, <2>2, <2>3
<1>7. running' # None => TopContext(frames'[running']) = current'
  BY <1>4
<1>8. \A p \in Procs \ {running'} : status'[p] = "suspended" => TopContext(frames'[p]) = procContext'[p]
  <2> SUFFICES ASSUME NEW p \in Procs \ {running'}, status'[p] = "suspended"
               PROVE  TopContext(frames'[p]) = procContext'[p]
    OBVIOUS
  <2>1. CASE p = running
    BY <1>4, <2>1
  <2>2. CASE p # running
    <3>1. TopContext(frames[p]) = procContext[p]
      BY <2>2 DEF Tracked
    <3>2. QED BY <1>4, <2>2, <3>1
  <2>3. QED BY <2>1, <2>2
<1>9. ASSUME NEW p \in Procs
      PROVE  Tops(frames'[p], savedTop', IF p = running' THEN Len(frames'[p]) - 1 ELSE Len(frames'[p]))
  <2>1. CASE p = running
    BY <1>1, <1>4, <2>1
  <2>2. CASE p # running
    <3>1. Tops(frames[p], savedTop, Len(frames[p]))
      BY <2>2 DEF Tracked, Left
    <3>2. Tops(frames[p], savedTop', Len(frames[p]))
      <4> SUFFICES ASSUME NEW i \in 1 .. Len(frames[p]), frames[p][i].rest = "live"
                   PROVE  savedTop'[frames[p][i].ctx] = frames[p][i].top
        BY DEF Tops
      <4>1. frames[p][i].ctx \in Live(frames[p])
        BY LiveFacts
      <4>2. savedTop[frames[p][i].ctx] = frames[p][i].top
        BY <3>1 DEF Tops
      <4>3. QED BY <2>2, <4>1, <4>2
    <3>3. p # running' /\ frames'[p] = frames[p]
      BY <1>1, <1>4, <2>2
    <3>4. QED BY <3>2, <3>3
  <2>3. QED BY <2>1, <2>2
<1>10. QED
  BY <1>4, <1>5, <1>6, <1>7, <1>8, <1>9, Zenon DEF Tracked, Left

\* A step that leaves all stacks alone.
LEMMA FramesKept ==
  ASSUME IInv, Tracked, UNCHANGED <<frames, previousContext, savedTop>>,
         allocated' \in Int, allocated <= allocated',
         \A c \in Contexts : c <= allocated =>
           kind'[c] = kind[c] /\ creatingContext'[c] = creatingContext[c],
         running' = running \/ running = None,
         running' # None => TopContext(frames[running']) = current',
         \A p \in Procs \ {running'} : status'[p] = "suspended" => TopContext(frames[p]) = procContext'[p]
  PROVE  Tracked'
<1>1. \A p \in Procs : Sound(frames[p], kind', creatingContext', allocated', previousContext')
  BY OthersSound
<1>2. ASSUME NEW p \in Procs
      PROVE  Tops(frames[p], savedTop, IF p = running' THEN Len(frames[p]) - 1 ELSE Len(frames[p]))
  <2>1. None \notin Procs
    BY Numbers
  <2>2. Tops(frames[p], savedTop, Left(p))
    BY DEF Tracked
  <2>3. CASE running' = running
    BY <2>2, <2>3 DEF Left
  <2>4. CASE running = None
    <3>1. Tops(frames[p], savedTop, Len(frames[p]))
      BY <2>1, <2>2, <2>4 DEF Left
    <3>2. Len(frames[p]) \in Nat
      BY DEF Tracked
    <3>3. QED BY <3>1, <3>2 DEF Tops
  <2>5. QED BY <2>3, <2>4
<1>3. QED
  BY <1>1, <1>2, Zenon DEF Tracked, Left

-----------------------------------------------------------------------------
\* A return cuts the stack at the frame that goes on.
LEMMA ReturnTracked ==
  ASSUME IInv, Tracked, running # None,
         NEW k \in 0 .. Len(Stack) - 1, k = 0 \/ Stack[k].rest = "live",
         frames' = [frames EXCEPT ![running] = SubSeq(Stack, 1, k)],
         NEW c, c = ContextAt(Stack, k),
         UNCHANGED objects,
         savedTop' = savedTop \/ \E v : savedTop' = [savedTop EXCEPT ![c] = v],
         \/ c = Nil /\ Exit(Nil, "returned") /\ savedTop' = savedTop
         \/ c # Nil /\ current' = c /\ UNCHANGED processes
  PROVE  Tracked'
<1> DEFINE n == Len(Stack)
           fs == SubSeq(Stack, 1, k)
<1>1. /\ running \in Procs /\ Stack \in Seq(FrameSet) /\ n \in Nat /\ n > 0 /\ k \in 0 .. n
      /\ \E s : Consistent(s, Stack, kind, creatingContext, allocated, previousContext)
  BY OnTop
<1>2. PICK s : Consistent(s, Stack, kind, creatingContext, allocated, previousContext)
  BY <1>1
<1>3. /\ Consistent([i \in 0 .. k |-> s[i]], fs, kind, creatingContext, allocated, previousContext)
      /\ Live(fs) \subseteq Live(Stack)
  BY <1>1, <1>2, ConsistentPrefix
<1>4. Len(fs) = k /\ \A i \in 1 .. k : fs[i] = Stack[i] /\ i \in 1 .. n
  BY <1>1, PrefixFacts
<1>5. TopContext(fs) = c
  BY <1>1, TopOfPrefix
<1> HIDE DEF fs
<1>6. TopLive(fs)
  BY <1>4 DEF TopLive
<1>7. Sound(fs, kind, creatingContext, allocated, previousContext)
  BY <1>3, <1>6 DEF Sound
<1>8. c # Nil => k \in 1 .. n /\ Stack[k].rest = "live" /\ Stack[k].ctx = c /\ c \in Live(Stack)
  <2>1. c # Nil => k \in 1 .. n /\ Stack[k].rest = "live" /\ Stack[k].ctx = c
    BY <1>1 DEF ContextAt
  <2>2. QED BY <2>1, LiveFacts
<1>9. c = Nil => k = 0
  <2>1. k # 0 => k \in 1 .. n
    BY <1>1
  <2>2. \A i \in 1 .. n : Stack[i].ctx # Nil
    BY <1>1, FrameFacts, Numbers
  <2>3. QED BY <2>1, <2>2 DEF ContextAt
<1>10. UNCHANGED <<kind, creatingContext, allocated, previousContext>>
  BY DEF objects
<1>11. \A x \in Contexts : x # c => savedTop'[x] = savedTop[x]
  BY Numbers
<1>12. ASSUME NEW q \in Procs \ {running}
       PROVE  /\ Sound(frames[q], kind', creatingContext', allocated', previousContext')
              /\ Live(fs) \intersect Live(frames[q]) = {}
              /\ procContext'[q] = procContext[q] /\ status'[q] = status[q]
              /\ \A x \in Live(frames[q]) : savedTop'[x] = savedTop[x]
  <2>1. Sound(frames[q], kind', creatingContext', allocated', previousContext')
    BY <1>10 DEF Tracked
  <2>2. Live(Stack) \intersect Live(frames[q]) = {}
    BY <1>1 DEF Tracked, Stack
  <2>3. procContext'[q] = procContext[q] /\ status'[q] = status[q]
    BY Numbers DEF Exit, processes
  <2>4. \A x \in Live(frames[q]) : savedTop'[x] = savedTop[x]
    <3>1. CASE c = Nil
      BY <3>1
    <3>2. CASE c # Nil
      BY <1>8, <1>11, <2>2, <3>2, LiveAllocated
    <3>3. QED BY <3>1, <3>2
  <2>5. QED BY <1>3, <2>1, <2>2, <2>3, <2>4
<1>13. running' = running \/ running' = None
  BY DEF Exit, processes
<1>14. ASSUME running' = running PROVE TopContext(fs) = current' /\ Tops(fs, savedTop', Len(fs) - 1)
  <2>1. c # Nil /\ current' = c
    BY <1>14 DEF Exit
  <2>2. ASSUME NEW i \in 1 .. k - 1, fs[i].rest = "live" PROVE savedTop'[fs[i].ctx] = fs[i].top
    <3>1. i \in 1 .. n - 1 /\ i \in 1 .. n /\ i # k /\ i \in 1 .. k
      BY <1>1
    <3>2. Stack[i].ctx \in Contexts
      BY <1>1, <3>1, FrameFacts
    <3>3. Stack[i].ctx # Stack[k].ctx
      BY <1>2, <1>4, <1>8, <2>1, <2>2, <3>1 DEF Consistent, LiveOnce
    <3>4. Tops(Stack, savedTop, n - 1)
      BY <1>1 DEF Tracked, Left, Stack
    <3>5. savedTop[Stack[i].ctx] = Stack[i].top
      BY <1>4, <2>2, <3>1, <3>4 DEF Tops
    <3>6. QED BY <1>4, <1>8, <1>11, <2>1, <3>1, <3>2, <3>3, <3>5
  <2>3. QED BY <1>4, <1>5, <2>1, <2>2 DEF Tops
<1>15. ASSUME running' = None
       PROVE  /\ Tops(fs, savedTop', Len(fs))
              /\ status'[running] = "suspended" => TopContext(fs) = procContext'[running]
  <2>1. c = Nil /\ Exit(Nil, "returned")
    BY <1>1, <1>15 DEF processes
  <2>2. status'[running] = "returned"
    BY <1>1, <2>1, Numbers DEF Exit
  <2>3. Tops(fs, savedTop', Len(fs))
    BY <1>4, <1>9, <2>1 DEF Tops
  <2>4. QED BY <2>2, <2>3
<1>16. frames' = [frames EXCEPT ![running] = fs]
  BY DEF fs
<1>17. Sound(fs, kind', creatingContext', allocated', previousContext')
  BY <1>7, <1>10
<1>18. QED
  BY <1>12, <1>13, <1>14, <1>15, <1>16, <1>17, TrackStep

\* What selfReturn, stackReturn and primitives resume.
LEMMA CallersResumed ==
  ASSUME IInv, Tracked, running # None
  PROVE  \E k \in 0 .. Len(Stack) - 1 :
           /\ k = 0 \/ Stack[k].rest = "live"
           /\ Resumed(Callers(Stack)) = SubSeq(Stack, 1, k)
           /\ previousContext[current] = ContextAt(Stack, k)
<1> DEFINE n == Len(Stack)
<1>1. n \in Nat /\ n > 0
  BY OnTop
<1>2. PICK s : /\ Consistent(s, Stack, kind, creatingContext, allocated, previousContext)
               /\ previousContext[current] = ContextAt(Stack, s[n - 1])
  BY OnTop
<1>3. n - 1 \in 0 .. n
  BY <1>1
<1>4. s[n - 1] \in Nat /\ s[n - 1] <= n - 1 /\ (s[n - 1] = 0 \/ Stack[s[n - 1]].rest = "live")
  BY <1>2, <1>3 DEF Consistent, Stops
<1>5. Resumed(SubSeq(Stack, 1, n - 1)) = SubSeq(Stack, 1, s[n - 1])
  BY <1>2, <1>3, ResumedPrefix DEF Consistent
<1>6. s[n - 1] \in 0 .. n - 1
  BY <1>1, <1>4
<1>7. QED BY <1>2, <1>4, <1>5, <1>6 DEF Callers

\* What blockReturn resumes, when the method of the block is not gone.
LEMMA HomeResumed ==
  ASSUME IInv, Tracked, running # None, kind[current] = "block",
         HasFrame(Stack, creatingContext[current])
  PROVE  \E k \in 0 .. Len(Stack) - 1 :
           /\ k = 0 \/ Stack[k].rest = "live"
           /\ Resumed(SubSeq(Stack, 1, Below(Stack, creatingContext[current]))) = SubSeq(Stack, 1, k)
           /\ previousContext[creatingContext[current]] = ContextAt(Stack, k)
<1> DEFINE n == Len(Stack)
<1>1. n \in Nat /\ n > 0
  BY OnTop
<1>2. PICK s : /\ Consistent(s, Stack, kind, creatingContext, allocated, previousContext)
               /\ \A j \in 1 .. n : kind[Stack[j].ctx] = "method" =>
                    previousContext[Stack[j].ctx] = ContextAt(Stack, s[j - 1])
  BY OnTop
<1>3. PICK j \in 1 .. n : Stack[j].ctx = creatingContext[current]
  BY DEF HasFrame
<1>4. kind[Stack[j].ctx] = "method"
  BY <1>3, RunningFacts
<1>5. Below(Stack, creatingContext[current]) = j - 1
  BY <1>2, <1>3, <1>4, BelowIs DEF Consistent
<1>6. j - 1 \in 0 .. n
  BY <1>1
<1>7. s[j - 1] \in Nat /\ s[j - 1] <= j - 1 /\ (s[j - 1] = 0 \/ Stack[s[j - 1]].rest = "live")
  BY <1>2, <1>6 DEF Consistent, Stops
<1>8. Resumed(SubSeq(Stack, 1, j - 1)) = SubSeq(Stack, 1, s[j - 1])
  BY <1>2, <1>6, ResumedPrefix DEF Consistent
<1>9. s[j - 1] \in 0 .. n - 1
  BY <1>1, <1>7
<1>10. QED BY <1>2, <1>3, <1>4, <1>5, <1>7, <1>8, <1>9

\* A block takes the place of the method value that invokes it.
LEMMA InvokeTracked ==
  ASSUME IInv, Tracked, NEW b \in Blocks, blockInvoke(b), ~reentered', ~escaped'
  PROVE  Tracked'
<1> DEFINE n == Len(Stack)
           gs == SubSeq(Stack, 1, n - 1)
           fs == Append(gs, NewFrame(b))
<1>1. running # None
  BY DEF blockInvoke, Turn
<1>2. /\ running \in Procs /\ Stack \in Seq(FrameSet) /\ n \in Nat /\ n > 0 /\ n - 1 \in 0 .. n
      /\ Live(Stack) \subseteq Contexts
  BY <1>1, OnTop
<1>3. PICK s : /\ Consistent(s, Stack, kind, creatingContext, allocated, previousContext)
               /\ previousContext[current] = ContextAt(Stack, s[n - 1])
  BY <1>1, OnTop
<1>4. b \in Contexts /\ b <= allocated /\ kind[b] = "block"
  BY Numbers DEF Blocks, Contexts
<1>5. \A p \in Procs : b \notin Live(frames[p])
  <2>1. ~IsActive(b)
    BY Zenon DEF blockInvoke
  <2>2. ASSUME NEW p \in Procs, b \in Live(frames[p]) PROVE FALSE
    <3>1. \E i \in 1 .. Len(frames[p]) : frames[p][i].rest = "live" /\ frames[p][i].ctx = b
      BY <2>2, LiveFacts
    <3>2. QED BY <2>1, <3>1, Zenon DEF IsActive
  <2>3. QED BY <2>2
<1>6. frames' = [frames EXCEPT ![running] = fs]
  BY Zenon DEF blockInvoke, Track, Callers
<1>7. /\ UNCHANGED <<allocated, kind, creatingContext, savedTop, procContext, status, running>>
      /\ current' = b
      /\ previousContext' = [previousContext EXCEPT ![b] = previousContext[current]]
  BY DEF blockInvoke, pointers, processes
<1>8. \A c \in Contexts : previousContext'[c] = IF c = b THEN previousContext[current] ELSE previousContext[c]
  BY <1>7, Numbers
<1> DEFINE t == [i \in 0 .. n - 1 |-> s[i]]
<1>9. /\ Consistent(t, gs, kind, creatingContext, allocated, previousContext)
      /\ Live(gs) \subseteq Live(Stack)
  BY <1>2, <1>3, ConsistentPrefix
<1>10. allocated \in Int
  BY Numbers
<1>11. b \notin Live(gs)
  <2>1. b \notin Live(Stack)
    BY <1>2, <1>5 DEF Stack
  <2> HIDE DEF gs
  <2>2. QED BY <1>9, <2>1
<1>12. Len(gs) = n - 1 /\ t[n - 1] = s[n - 1] /\ \A i \in 1 .. n - 1 : gs[i] = Stack[i]
  <2>1. n - 1 \in 0 .. n - 1
    BY <1>2
  <2>2. QED BY <1>2, <2>1, PrefixFacts
<1>13. ContextAt(gs, t[Len(gs)]) = previousContext[current]
  <2>1. s[n - 1] \in Nat /\ s[n - 1] <= n - 1
    BY <1>2, <1>3 DEF Consistent, Stops
  <2>2. s[n - 1] # 0 => s[n - 1] \in 1 .. n - 1
    BY <1>2, <2>1
  <2>3. QED BY <1>3, <1>12, <2>2 DEF ContextAt
<1> HIDE DEF gs, t
<1>14. Consistent(t, gs, kind', creatingContext', allocated', previousContext')
  <2>1. \A c \in Contexts : c <= allocated => kind'[c] = kind[c] /\ creatingContext'[c] = creatingContext[c]
    BY <1>7
  <2>2. \A c \in Contexts : c <= allocated /\ (kind[c] = "method" \/ c \in Live(gs)) =>
          previousContext'[c] = previousContext[c]
    BY <1>4, <1>8, <1>11
  <2>3. allocated' \in Int /\ allocated <= allocated'
    BY <1>7, <1>10
  <2>4. QED BY <1>9, <1>10, <2>1, <2>2, <2>3, ConsistentKept
<1>15. /\ Sound(fs, kind', creatingContext', allocated', previousContext')
       /\ \A y \in Live(fs) : y = b \/ y \in Live(gs)
       /\ TopContext(fs) = b
  <2>1. b <= allocated' /\ kind'[b] # "method"
    BY <1>4, <1>7
  <2>2. previousContext'[b] = ContextAt(gs, t[Len(gs)])
    BY <1>4, <1>8, <1>13
  <2>3. QED BY <1>4, <1>11, <1>14, <2>1, <2>2, ConsistentCall
<1>16. Len(fs) = n /\ \A i \in 1 .. n - 1 : fs[i] = Stack[i]
  <2>1. gs \in Seq(FrameSet)
    BY <1>9 DEF Consistent, Framed
  <2>2. Len(fs) = Len(gs) + 1 /\ \A i \in 1 .. Len(gs) : fs[i] = gs[i]
    BY <2>1
  <2>3. QED BY <1>2, <1>12, <2>2
<1> HIDE DEF fs
<1>17. ASSUME NEW q \in Procs \ {running}
       PROVE  /\ Sound(frames[q], kind', creatingContext', allocated', previousContext')
              /\ Live(fs) \intersect Live(frames[q]) = {}
              /\ procContext'[q] = procContext[q] /\ status'[q] = status[q]
              /\ \A x \in Live(frames[q]) : savedTop'[x] = savedTop[x]
  <2>1. Live(Stack) \intersect Live(frames[q]) = {}
    BY <1>2 DEF Tracked, Stack
  <2>2. Live(fs) \intersect Live(frames[q]) = {}
    BY <1>5, <1>9, <1>15, <2>1
  <2>3. \A c \in Contexts : c <= allocated /\ (kind[c] = "method" \/ c \in Live(frames[q])) =>
          previousContext'[c] = previousContext[c]
    BY <1>4, <1>5, <1>8
  <2>4. Sound(frames[q], kind', creatingContext', allocated', previousContext')
    <3>1. \A c \in Contexts : c <= allocated => kind'[c] = kind[c] /\ creatingContext'[c] = creatingContext[c]
      BY <1>7
    <3>2. allocated' \in Int /\ allocated <= allocated' /\ q \in Procs
      BY <1>7, <1>10
    <3>3. QED BY <2>3, <3>1, <3>2, OthersSound
  <2>5. QED BY <1>7, <2>2, <2>4
<1>18. Tops(fs, savedTop', Len(fs) - 1)
  <2>1. Tops(Stack, savedTop, n - 1)
    BY <1>2 DEF Tracked, Left, Stack
  <2>2. QED BY <1>7, <1>16, <2>1 DEF Tops
<1>19. running' = running /\ running' # None /\ TopContext(fs) = current'
  BY <1>1, <1>7, <1>15
<1>20. QED
  BY <1>1, <1>6, <1>15, <1>17, <1>18, <1>19, TrackStep

\* A message is sent; a context that has only its return left is skipped.
LEMMA SendTracked ==
  ASSUME IInv, Tracked, NEW ahead \in BytePointers \ {"any"}, NEW popped \in {1, 2},
         doSendMessage(ahead, popped), ~reentered', ~escaped'
  PROVE  Tracked'
<1> DEFINE n == Len(Stack)
           r == IF ahead = "other" THEN "live" ELSE ahead
           gs == Leave(Stack, r, stackTop - popped)
           x == allocated + 1
           fs == Append(gs, NewFrame(x))
           home == creatingContext[current]
<1>1. running # None
  BY DEF doSendMessage, Turn
<1>2. /\ running \in Procs /\ Stack \in Seq(FrameSet) /\ n \in Nat /\ n > 0 /\ n \in 1 .. n
      /\ Stack[n].ctx = current /\ Stack[n].rest = "live" /\ current \in Live(Stack)
      /\ Live(Stack) \subseteq Contexts
  BY <1>1, OnTop
<1>3. PICK s : /\ Consistent(s, Stack, kind, creatingContext, allocated, previousContext)
               /\ previousContext[current] = ContextAt(Stack, s[n - 1])
               /\ \A j \in 1 .. n : kind[Stack[j].ctx] = "method" =>
                    previousContext[Stack[j].ctx] = ContextAt(Stack, s[j - 1])
  BY <1>1, OnTop
<1>4. r \in Rests /\ stackTop - popped \in Int
  BY Numbers DEF Rests, BytePointers
<1>5. allocated \in Nat /\ allocated < MaxContexts /\ x \in Contexts /\ x \in Int
  BY Numbers DEF doSendMessage, Contexts
<1>6. /\ UNCHANGED <<kind, creatingContext, procContext, status, running>>
      /\ allocated' = x /\ current' = x
      /\ previousContext' = [previousContext EXCEPT ![x] = callerOfSend(ahead)]
      /\ savedTop' = [savedTop EXCEPT ![current] = stackTop - popped]
  BY DEF doSendMessage, storePointers, processes
<1>7. frames' = [frames EXCEPT ![running] = Append(gs, NewFrame(allocated'))]
  BY Zenon DEF doSendMessage, Track
<1>8. ASSUME r = "blockReturn"
      PROVE  kind[current] = "block" /\ kind[home] = "method" /\ \E j \in 1 .. n - 1 : Stack[j].ctx = home
  <2>1. ahead = "blockReturn"
    BY <1>8
  <2>2. kind[current] = "block" /\ HasFrame(Stack, home)
    BY <2>1, Zenon DEF doSendMessage
  <2>3. kind[home] = "method"
    BY <1>1, <2>2, RunningFacts
  <2>4. PICK j \in 1 .. n : Stack[j].ctx = home
    BY <2>2 DEF HasFrame
  <2>5. j # n
    BY <1>2, <2>2, <2>3, <2>4
  <2>6. j \in 1 .. n - 1
    BY <1>2, <2>5
  <2>7. QED BY <2>2, <2>3, <2>4, <2>6
<1> HIDE DEF r
<1>9. /\ Live(gs) \subseteq Live(Stack)
      /\ \E u : /\ Consistent(u, gs, kind, creatingContext, allocated, previousContext)
                /\ r = "live" => u[n] = n
                /\ r = "stackReturn" => u[n] = s[n - 1]
                /\ r = "blockReturn" => \A j \in 1 .. n - 1 : Stack[j].ctx = home => u[n] = s[j - 1]
  BY <1>2, <1>3, <1>4, <1>8, ConsistentLeave
<1>10. PICK u : /\ Consistent(u, gs, kind, creatingContext, allocated, previousContext)
                /\ r = "live" => u[n] = n
                /\ r = "stackReturn" => u[n] = s[n - 1]
                /\ r = "blockReturn" => \A j \in 1 .. n - 1 : Stack[j].ctx = home => u[n] = s[j - 1]
  BY <1>9
<1>11. /\ Len(gs) = n
       /\ gs[n] = [ctx |-> current, rest |-> r, top |-> stackTop - popped]
       /\ \A i \in 1 .. n - 1 : gs[i] = Stack[i]
  BY <1>2, <1>4, LeaveFacts
<1> HIDE DEF gs
<1>12. \A i \in 1 .. n : gs[i].ctx <= allocated
  BY <1>10, <1>11 DEF Consistent, Framed
<1>13. x \notin Live(gs) /\ \A i \in 1 .. n : gs[i].ctx # x
  BY <1>5, <1>11, <1>12, LiveFacts
<1>14. \A c \in Contexts : previousContext'[c] = IF c = x THEN callerOfSend(ahead) ELSE previousContext[c]
  BY <1>6, Numbers
<1>15. callerOfSend(ahead) = ContextAt(gs, u[n])
  <2>1. \A i \in 1 .. n : gs[i].ctx = Stack[i].ctx
    BY <1>2, <1>11
  <2>2. \A k \in 0 .. n : ContextAt(gs, k) = ContextAt(Stack, k)
    BY <1>2, <2>1 DEF ContextAt
  <2>3. \A i \in 0 .. n : s[i] \in Nat /\ s[i] <= i
    BY <1>3 DEF Consistent, Stops
  <2>4. CASE r = "live"
    <3>1. ahead # "stackReturn" /\ ahead # "blockReturn"
      BY <2>4 DEF r
    <3>2. callerOfSend(ahead) = current
      BY <3>1 DEF callerOfSend
    <3>3. QED BY <1>2, <1>10, <1>11, <2>4, <3>2 DEF ContextAt
  <2>5. CASE r = "stackReturn"
    <3>1. ahead = "stackReturn"
      BY <2>5 DEF r
    <3>2. n - 1 \in 0 .. n
      BY <1>2
    <3>3. s[n - 1] \in 0 .. n
      BY <1>2, <2>3, <3>2
    <3>4. QED BY <1>3, <1>10, <2>2, <2>5, <3>1, <3>3 DEF callerOfSend
  <2>6. CASE r = "blockReturn"
    <3>1. ahead = "blockReturn"
      BY <2>6 DEF r
    <3>2. PICK j \in 1 .. n - 1 : Stack[j].ctx = home
      BY <1>8, <2>6
    <3>3. j - 1 \in 0 .. n /\ j \in 1 .. n
      BY <1>2
    <3>4. s[j - 1] \in 0 .. n
      BY <1>2, <2>3, <3>3
    <3>5. previousContext[home] = ContextAt(Stack, s[j - 1])
      BY <1>3, <1>8, <2>6, <3>2, <3>3
    <3>6. callerOfSend(ahead) = previousContext[home]
      BY <1>8, <2>6, <3>1 DEF callerOfSend
    <3>7. QED BY <1>10, <2>2, <2>6, <3>2, <3>4, <3>5, <3>6
  <2>7. QED BY <1>4, <2>4, <2>5, <2>6 DEF Rests
<1>16. /\ allocated' \in Int /\ allocated <= allocated'
       /\ \A c \in Contexts : c <= allocated => kind'[c] = kind[c] /\ creatingContext'[c] = creatingContext[c]
       /\ \A c \in Contexts : c <= allocated => previousContext'[c] = previousContext[c]
  BY <1>5, <1>6, <1>14
<1>17. Consistent(u, gs, kind', creatingContext', allocated', previousContext')
  BY <1>5, <1>10, <1>16, ConsistentKept
<1>18. /\ Sound(fs, kind', creatingContext', allocated', previousContext')
       /\ \A y \in Live(fs) : y = x \/ y \in Live(gs)
       /\ TopContext(fs) = x
  <2>1. x <= allocated' /\ previousContext'[x] = ContextAt(gs, u[Len(gs)])
    BY <1>5, <1>6, <1>11, <1>14, <1>15
  <2>2. \A i \in 1 .. Len(gs) : gs[i].ctx # x
    BY <1>11, <1>13
  <2>3. QED BY <1>5, <1>13, <1>17, <2>1, <2>2, ConsistentCall
<1>19. Len(fs) = n + 1 /\ \A i \in 1 .. n : fs[i] = gs[i]
  <2>1. gs \in Seq(FrameSet)
    BY <1>10 DEF Consistent, Framed
  <2>2. QED BY <1>11, <2>1
<1>20. frames' = [frames EXCEPT ![running] = fs]
  BY <1>6, <1>7
<1> HIDE DEF fs
<1>21. \A c \in Contexts : savedTop'[c] = IF c = current THEN stackTop - popped ELSE savedTop[c]
  BY <1>6, Numbers
<1>22. ASSUME NEW q \in Procs \ {running}
       PROVE  /\ Sound(frames[q], kind', creatingContext', allocated', previousContext')
              /\ Live(fs) \intersect Live(frames[q]) = {}
              /\ procContext'[q] = procContext[q] /\ status'[q] = status[q]
              /\ \A c \in Live(frames[q]) : savedTop'[c] = savedTop[c]
  <2>1. Live(Stack) \intersect Live(frames[q]) = {}
    BY <1>2 DEF Tracked, Stack
  <2>2. \A c \in Live(frames[q]) : c \in Contexts /\ c <= allocated
    BY LiveAllocated
  <2>3. x \notin Live(frames[q])
    BY <1>5, <2>2
  <2>4. Live(fs) \intersect Live(frames[q]) = {}
    BY <1>9, <1>18, <2>1, <2>3
  <2>5. Sound(frames[q], kind', creatingContext', allocated', previousContext')
    BY <1>16, OthersSound
  <2>6. \A c \in Live(frames[q]) : savedTop'[c] = savedTop[c]
    BY <1>2, <1>21, <2>1, <2>2
  <2>7. QED BY <1>6, <2>4, <2>5, <2>6
<1>23. Tops(fs, savedTop', Len(fs) - 1)
  <2>1. ASSUME NEW i \in 1 .. n, gs[i].rest = "live" PROVE savedTop'[gs[i].ctx] = gs[i].top
    <3>1. CASE i = n
      BY <1>2, <1>11, <1>21, <3>1
    <3>2. CASE i # n
      <4>1. i \in 1 .. n - 1
        BY <1>2, <3>2
      <4>2. gs[i] = Stack[i] /\ Stack[i].rest = "live"
        BY <1>11, <2>1, <4>1
      <4>3. Stack[i].ctx # current
        BY <1>2, <1>3, <3>2, <4>2 DEF Consistent, LiveOnce
      <4>4. Stack[i].ctx \in Contexts
        BY <1>2, FrameFacts
      <4>5. Tops(Stack, savedTop, n - 1)
        BY <1>2 DEF Tracked, Left, Stack
      <4>6. savedTop[Stack[i].ctx] = Stack[i].top
        BY <4>1, <4>2, <4>5 DEF Tops
      <4>7. QED BY <1>21, <4>2, <4>3, <4>4, <4>6
    <3>3. QED BY <3>1, <3>2
  <2>2. Len(fs) - 1 = n
    BY <1>2, <1>19
  <2>3. QED BY <1>19, <2>1, <2>2 DEF Tops
<1>24. running' = running /\ running' # None /\ TopContext(fs) = current'
  BY <1>1, <1>6, <1>18
<1>25. QED
  BY <1>1, <1>18, <1>20, <1>22, <1>23, <1>24, TrackStep

\* The slice ends: the frame on top goes on later.
LEMMA ExpiredTracked ==
  ASSUME IInv, Tracked, TimeExpired, ~reentered', ~escaped'
  PROVE  Tracked'
<1> DEFINE n == Len(Stack)
           fs == Leave(Stack, "live", stackTop)
<1>1. running # None
  BY DEF TimeExpired
<1>2. /\ running \in Procs /\ Stack \in Seq(FrameSet) /\ n \in Nat /\ n > 0 /\ n \in 1 .. n
      /\ Stack[n].ctx = current /\ Stack[n].rest = "live" /\ current \in Live(Stack)
      /\ Live(Stack) \subseteq Contexts
  BY <1>1, OnTop
<1>3. PICK s : Consistent(s, Stack, kind, creatingContext, allocated, previousContext)
  BY <1>1, OnTop
<1>4. "live" \in Rests /\ stackTop \in Int
  BY Numbers DEF Rests
<1>5. /\ Live(fs) \subseteq Live(Stack)
      /\ \E u : Consistent(u, fs, kind, creatingContext, allocated, previousContext)
  BY <1>2, <1>3, <1>4, ConsistentLeave
<1>6. /\ Len(fs) = n
      /\ fs[n] = [ctx |-> current, rest |-> "live", top |-> stackTop]
      /\ \A i \in 1 .. n - 1 : fs[i] = Stack[i]
  BY <1>2, <1>4, LeaveFacts
<1>7. frames' = [frames EXCEPT ![running] = fs]
  BY Zenon DEF TimeExpired, Track
<1> HIDE DEF fs
<1>8. /\ UNCHANGED <<kind, creatingContext, allocated, previousContext>>
      /\ running' = None
      /\ procContext' = [procContext EXCEPT ![running] = current]
      /\ status' = [status EXCEPT ![running] = "suspended"]
      /\ savedTop' = [savedTop EXCEPT ![current] = stackTop]
  BY DEF TimeExpired, Exit, storePointers, objects
<1>9. \A c \in Contexts : savedTop'[c] = IF c = current THEN stackTop ELSE savedTop[c]
  BY <1>8, Numbers
<1>10. Sound(fs, kind', creatingContext', allocated', previousContext')
  <2>1. TopLive(fs)
    BY <1>6 DEF TopLive
  <2>2. Sound(fs, kind, creatingContext, allocated, previousContext)
    BY <1>5, <2>1 DEF Sound
  <2>3. QED BY <1>8, <2>2
<1>11. ASSUME NEW q \in Procs \ {running}
       PROVE  /\ Sound(frames[q], kind', creatingContext', allocated', previousContext')
              /\ Live(fs) \intersect Live(frames[q]) = {}
              /\ procContext'[q] = procContext[q] /\ status'[q] = status[q]
              /\ \A c \in Live(frames[q]) : savedTop'[c] = savedTop[c]
  <2>1. Live(Stack) \intersect Live(frames[q]) = {}
    BY <1>2 DEF Tracked, Stack
  <2>2. Sound(frames[q], kind', creatingContext', allocated', previousContext')
    BY <1>8 DEF Tracked
  <2>3. procContext'[q] = procContext[q] /\ status'[q] = status[q]
    BY <1>8, Numbers
  <2>4. \A c \in Live(frames[q]) : savedTop'[c] = savedTop[c]
    BY <1>2, <1>9, <2>1, LiveAllocated
  <2>5. QED BY <1>5, <2>1, <2>2, <2>3, <2>4
<1>12. Tops(fs, savedTop', Len(fs))
  <2>1. ASSUME NEW i \in 1 .. n, fs[i].rest = "live" PROVE savedTop'[fs[i].ctx] = fs[i].top
    <3>1. CASE i = n
      BY <1>2, <1>6, <1>9, <3>1
    <3>2. CASE i # n
      <4>1. i \in 1 .. n - 1
        BY <1>2, <3>2
      <4>2. fs[i] = Stack[i] /\ Stack[i].rest = "live"
        BY <1>6, <2>1, <4>1
      <4>3. Stack[i].ctx # current
        BY <1>2, <1>3, <3>2, <4>2 DEF Consistent, LiveOnce
      <4>4. Stack[i].ctx \in Contexts
        BY <1>2, FrameFacts
      <4>5. Tops(Stack, savedTop, n - 1)
        BY <1>2 DEF Tracked, Left, Stack
      <4>6. savedTop[Stack[i].ctx] = Stack[i].top
        BY <4>1, <4>2, <4>5 DEF Tops
      <4>7. QED BY <1>9, <4>2, <4>3, <4>4, <4>6
    <3>3. QED BY <3>1, <3>2
  <2>2. QED BY <1>6, <2>1 DEF Tops
<1>13. TopContext(fs) = procContext'[running]
  <2>1. fs # <<>>
    <3>1. Len(<<>>) = 0
      OBVIOUS
    <3>2. QED BY <1>2, <1>6, <3>1
  <2>2. TopContext(fs) = current
    BY <1>6, <2>1 DEF TopContext
  <2>3. procContext'[running] = current
    BY <1>2, <1>8, Numbers
  <2>4. QED BY <2>2, <2>3
<1>14. running' # running
  BY <1>1, <1>8
<1>15. QED
  BY <1>1, <1>7, <1>8, <1>10, <1>11, <1>12, <1>13, <1>14, TrackStep

\* An error ends the process.
LEMMA ErrorTracked ==
  ASSUME IInv, Tracked, throwError, ~reentered', ~escaped'
  PROVE  Tracked'
<1>1. running # None
  BY DEF throwError, Turn
<1>2. running \in Procs
  BY <1>1, RunningFacts
<1>3. frames' = [frames EXCEPT ![running] = <<>>]
  BY Zenon DEF throwError, Track
<1>4. /\ UNCHANGED <<kind, creatingContext, allocated, previousContext, savedTop>>
      /\ running' = None
      /\ procContext' = [procContext EXCEPT ![running] = current]
      /\ status' = [status EXCEPT ![running] = "error"]
  BY DEF throwError, Exit, objects, pointers
<1>5. /\ Sound(<<>>, kind', creatingContext', allocated', previousContext')
      /\ Live(<<>>) = {}
  BY EmptyConsistent
<1>6. ASSUME NEW q \in Procs \ {running}
      PROVE  /\ Sound(frames[q], kind', creatingContext', allocated', previousContext')
             /\ Live(<<>>) \intersect Live(frames[q]) = {}
             /\ procContext'[q] = procContext[q] /\ status'[q] = status[q]
             /\ \A c \in Live(frames[q]) : savedTop'[c] = savedTop[c]
  <2>1. Sound(frames[q], kind', creatingContext', allocated', previousContext')
    BY <1>4 DEF Tracked
  <2>2. QED BY <1>4, <1>5, <2>1, Numbers
<1>7. Tops(<<>>, savedTop', Len(<<>>)) /\ status'[running] # "suspended"
  BY <1>2, <1>4, Numbers DEF Tops
<1>8. running' # running
  BY <1>1, <1>4
<1>9. QED
  BY <1>1, <1>3, <1>4, <1>5, <1>6, <1>7, <1>8, TrackStep

\* The other ghost flag stays as well when it is set.
LEMMA EscapedStays == [Next]_vars /\ escaped => escaped'
<1> SUFFICES ASSUME [Next]_vars, escaped PROVE escaped'
  BY Zenon
<1>1. QED
  BY StepKinds, Zenon DEF vars, ghosts, Execute, TimeExpired, Stay, doPushBlock, doSendMessage,
     selfReturn, stackReturn, blockReturn, PrimitiveReturns, throwError, blockInvoke, blockInvokeFails

\* The steps that only enter execute() or stay in their context.
LEMMA QuietTracked ==
  ASSUME IInv, Tracked,
         \/ \E p \in Procs, t \in Quanta : Execute(p, t)
         \/ \E top : Stay(top)
         \/ doPushBlock
         \/ blockInvokeFails
         \/ UNCHANGED vars
  PROVE  Tracked'
<1>1. allocated \in Int /\ None \notin Procs
  BY Numbers
<1>2. /\ running # None => TopContext(frames[running]) = current
      /\ \A p \in Procs \ {running} : status[p] = "suspended" => TopContext(frames[p]) = procContext[p]
  BY DEF Tracked
<1>3. ASSUME NEW p \in Procs, NEW t, Execute(p, t) PROVE Tracked'
  <2>1. /\ UNCHANGED <<frames, previousContext, savedTop, allocated, kind, creatingContext, procContext, status>>
        /\ running = None /\ running' = p /\ status[p] = "suspended" /\ current' = procContext[p]
    BY <1>3 DEF Execute, objects, pointers, ghosts
  <2>2. TopContext(frames[running']) = current'
    BY <1>1, <1>2, <2>1
  <2>3. \A q \in Procs \ {running'} : status'[q] = "suspended" => TopContext(frames[q]) = procContext'[q]
    BY <1>1, <1>2, <2>1
  <2>4. allocated' \in Int /\ allocated <= allocated'
    BY <1>1, <2>1
  <2>5. \A c \in Contexts : c <= allocated => kind'[c] = kind[c] /\ creatingContext'[c] = creatingContext[c]
    BY <2>1
  <2>6. QED BY <2>1, <2>2, <2>3, <2>4, <2>5, FramesKept
<1>4. CASE \/ \E top : Stay(top)
           \/ doPushBlock
           \/ blockInvokeFails
           \/ UNCHANGED vars
  <2>1. UNCHANGED <<frames, previousContext, savedTop, procContext, status, running, current>>
    BY <1>4, Zenon DEF Stay, doPushBlock, blockInvokeFails, vars, objects, pointers, processes, registers, ghosts
  <2>2. /\ allocated' \in Int /\ allocated <= allocated'
        /\ \A c \in Contexts : c <= allocated => kind'[c] = kind[c] /\ creatingContext'[c] = creatingContext[c]
    <3>1. CASE doPushBlock
      <4>1. /\ allocated' = allocated + 1
            /\ kind' = [kind EXCEPT ![allocated'] = "block"]
            /\ creatingContext' = [creatingContext EXCEPT ![allocated'] = homeContext]
        BY <3>1 DEF doPushBlock
      <4>2. \A c \in Contexts : c <= allocated => c # allocated'
        BY <1>1, <4>1 DEF Contexts
      <4>3. QED BY <1>1, <4>1, <4>2, Numbers
    <3>2. CASE (\E top : Stay(top)) \/ blockInvokeFails \/ UNCHANGED vars
      <4>1. UNCHANGED <<allocated, kind, creatingContext>>
        BY <3>2, Zenon DEF Stay, blockInvokeFails, vars, objects
      <4>2. QED BY <1>1, <4>1
    <3>3. QED BY <1>4, <3>1, <3>2
  <2>3. /\ running' # None => TopContext(frames[running']) = current'
        /\ \A p \in Procs \ {running'} : status'[p] = "suspended" => TopContext(frames[p]) = procContext'[p]
    BY <1>2, <2>1
  <2>4. QED BY <2>1, <2>2, <2>3, FramesKept
<1>5. QED BY <1>3, <1>4, Zenon

\* The returns.
LEMMA ReturnsTracked ==
  ASSUME IInv, Tracked, selfReturn \/ stackReturn \/ blockReturn \/ PrimitiveReturns, ~reentered', ~escaped'
  PROVE  Tracked'
<1>1. running # None
  BY DEF selfReturn, stackReturn, blockReturn, PrimitiveReturns, Turn
<1>2. running \in Procs
  BY <1>1, RunningFacts
<1>3. ASSUME NEW c, ReturnTo(c)
      PROVE  /\ UNCHANGED objects /\ savedTop' = savedTop
             /\ \/ c = Nil /\ Exit(Nil, "returned")
                \/ c # Nil /\ current' = c /\ UNCHANGED processes
  BY <1>3 DEF ReturnTo, pointers, objects, processes
<1>4. CASE selfReturn \/ stackReturn
  <2>1. /\ ReturnTo(previousContext[current])
        /\ frames' = [frames EXCEPT ![running] = Resumed(Callers(Stack))]
    BY <1>4, Zenon DEF selfReturn, stackReturn, Track
  <2>2. PICK k \in 0 .. Len(Stack) - 1 :
          /\ k = 0 \/ Stack[k].rest = "live"
          /\ Resumed(Callers(Stack)) = SubSeq(Stack, 1, k)
          /\ previousContext[current] = ContextAt(Stack, k)
    BY <1>1, CallersResumed
  <2>3. PICK c : c = previousContext[current]
    OBVIOUS
  <2>4. ReturnTo(c)
    BY <2>1, <2>3
  <2>5. frames' = [frames EXCEPT ![running] = SubSeq(Stack, 1, k)]
    BY <2>1, <2>2
  <2>6. /\ UNCHANGED objects
        /\ savedTop' = savedTop \/ \E v : savedTop' = [savedTop EXCEPT ![c] = v]
        /\ \/ c = Nil /\ Exit(Nil, "returned") /\ savedTop' = savedTop
           \/ c # Nil /\ current' = c /\ UNCHANGED processes
    BY <1>3, <2>4, Zenon
  <2>7. QED BY <1>1, <2>2, <2>3, <2>5, <2>6, ReturnTracked
<1>5. CASE blockReturn
  <2>1. /\ kind[current] = "block"
        /\ ReturnTo(previousContext[creatingContext[current]])
        /\ HasFrame(Stack, creatingContext[current])
        /\ frames' = [frames EXCEPT ![running] =
                        Resumed(SubSeq(Stack, 1, Below(Stack, creatingContext[current])))]
    BY <1>5, Zenon DEF blockReturn, Track
  <2>2. PICK k \in 0 .. Len(Stack) - 1 :
          /\ k = 0 \/ Stack[k].rest = "live"
          /\ Resumed(SubSeq(Stack, 1, Below(Stack, creatingContext[current]))) = SubSeq(Stack, 1, k)
          /\ previousContext[creatingContext[current]] = ContextAt(Stack, k)
    BY <1>1, <2>1, HomeResumed
  <2>3. PICK c : c = previousContext[creatingContext[current]]
    OBVIOUS
  <2>4. ReturnTo(c)
    BY <2>1, <2>3
  <2>5. frames' = [frames EXCEPT ![running] = SubSeq(Stack, 1, k)]
    BY <2>1, <2>2
  <2>6. /\ UNCHANGED objects
        /\ savedTop' = savedTop \/ \E v : savedTop' = [savedTop EXCEPT ![c] = v]
        /\ \/ c = Nil /\ Exit(Nil, "returned") /\ savedTop' = savedTop
           \/ c # Nil /\ current' = c /\ UNCHANGED processes
    BY <1>3, <2>4, Zenon
  <2>7. QED BY <1>1, <2>2, <2>3, <2>5, <2>6, ReturnTracked
<1>6. CASE PrimitiveReturns
  <2>1. frames' = [frames EXCEPT ![running] = Resumed(Callers(Stack))]
    BY <1>6, Zenon DEF PrimitiveReturns, Track
  <2>2. PICK k \in 0 .. Len(Stack) - 1 :
          /\ k = 0 \/ Stack[k].rest = "live"
          /\ Resumed(Callers(Stack)) = SubSeq(Stack, 1, k)
          /\ previousContext[current] = ContextAt(Stack, k)
    BY <1>1, CallersResumed
  <2>3. PICK c : c = previousContext[current]
    OBVIOUS
  <2>4. /\ UNCHANGED objects
        /\ savedTop' = savedTop \/ \E v : savedTop' = [savedTop EXCEPT ![c] = v]
        /\ \/ c = Nil /\ Exit(Nil, "returned") /\ savedTop' = savedTop
           \/ c # Nil /\ current' = c /\ UNCHANGED processes
    BY <1>6, <2>3, Zenon DEF PrimitiveReturns
  <2>5. frames' = [frames EXCEPT ![running] = SubSeq(Stack, 1, k)]
    BY <2>1, <2>2
  <2>6. QED BY <1>1, <2>2, <2>3, <2>4, <2>5, ReturnTracked
<1>7. QED BY <1>4, <1>5, <1>6

\* At the start every process has the frame of its first method.
LEMMA InitTracked == Init => Tracked
<1> SUFFICES ASSUME Init PROVE Tracked
  OBVIOUS
<1>1. ProcCount \in Nat /\ MaxContexts \in Nat /\ ProcCount <= MaxContexts
  BY InterpreterAssumption
<1>2. Procs \subseteq Contexts /\ None \notin Procs
  BY <1>1 DEF Procs, Contexts, None
<1>3. ASSUME NEW p \in Procs
      PROVE  /\ frames[p] = <<NewFrame(p)>> /\ frames[p] \in Seq(FrameSet)
             /\ Sound(frames[p], kind, creatingContext, allocated, previousContext)
             /\ Live(frames[p]) \subseteq {p}
             /\ TopContext(frames[p]) = p
             /\ Tops(frames[p], savedTop, Left(p))
  <2> DEFINE s == [i \in 0 .. 0 |-> 0]
  <2>1. frames[p] = <<NewFrame(p)>> /\ <<NewFrame(p)>> = Append(<<>>, NewFrame(p))
    BY <1>3 DEF Init
  <2>2. /\ Consistent(s, <<>>, kind, creatingContext, allocated, previousContext)
        /\ Live(<<>>) = {} /\ Len(<<>>) = 0 /\ s[0] = 0
    BY EmptyConsistent
  <2> HIDE DEF s
  <2>3. p \in Contexts /\ p <= allocated /\ previousContext[p] = Nil
    BY <1>2, <1>3 DEF Init, Procs
  <2>4. ContextAt(<<>>, s[Len(<<>>)]) = Nil
    BY <2>2 DEF ContextAt
  <2>5. p \notin Live(<<>>) /\ \A i \in 1 .. Len(<<>>) : <<>>[i].ctx # p
    BY <2>2
  <2>6. /\ Sound(frames[p], kind, creatingContext, allocated, previousContext)
        /\ \A y \in Live(frames[p]) : y = p \/ y \in Live(<<>>)
        /\ TopContext(frames[p]) = p
    <3> DEFINE fs == <<>>
    <3>1. /\ Consistent(s, fs, kind, creatingContext, allocated, previousContext)
          /\ p \notin Live(fs)
          /\ kind[p] = "method" => \A i \in 1 .. Len(fs) : fs[i].ctx # p
          /\ previousContext[p] = ContextAt(fs, s[Len(fs)])
      BY <2>2, <2>3, <2>4, <2>5
    <3>2. frames[p] = Append(fs, NewFrame(p))
      BY <2>1
    <3> HIDE DEF fs
    <3>3. /\ Sound(frames[p], kind, creatingContext, allocated, previousContext)
          /\ \A y \in Live(frames[p]) : y = p \/ y \in Live(fs)
          /\ TopContext(frames[p]) = p
      BY <2>3, <3>1, <3>2, ConsistentCall
    <3>4. QED BY <3>3 DEF fs
  <2>7. frames[p] \in Seq(FrameSet)
    BY <2>6 DEF Sound, Consistent, Framed
  <2>8. /\ Len(frames[p]) = 1 /\ frames[p][1].ctx = p /\ frames[p][1].top = 0
        /\ savedTop[p] = 0 /\ Left(p) = 1
    BY <1>2, <1>3, <2>1 DEF Init, NewFrame, Left
  <2>9. Tops(frames[p], savedTop, Left(p))
    BY <2>8 DEF Tops
  <2>10. QED BY <2>1, <2>2, <2>6, <2>7, <2>9
<1>4. frames \in [Procs -> Seq(FrameSet)]
  BY <1>3 DEF Init
<1>5. running = None /\ \A p \in Procs : procContext[p] = p
  BY DEF Init
<1>6. \A p, q \in Procs : p # q => Live(frames[p]) \intersect Live(frames[q]) = {}
  BY <1>3
<1>7. \A p \in Procs \ {running} : status[p] = "suspended" => TopContext(frames[p]) = procContext[p]
  BY <1>3, <1>5
<1>8. QED BY <1>3, <1>4, <1>5, <1>6, <1>7, Zenon DEF Tracked

\* Every step keeps the ghost stacks right.
LEMMA StepTracked == IInv /\ GhostInv /\ [Next]_vars => GhostInv'
<1> SUFFICES ASSUME IInv, GhostInv, [Next]_vars, ~reentered', ~escaped' PROVE Tracked'
  BY Zenon DEF GhostInv
<1>1. Tracked
  <2>1. ~reentered /\ ~escaped
    BY ReenteredStays, EscapedStays, Zenon
  <2>2. QED BY <2>1, Zenon DEF GhostInv
<1>2. CASE \/ \E p \in Procs, t \in Quanta : Execute(p, t)
           \/ \E top : Stay(top)
           \/ doPushBlock
           \/ blockInvokeFails
           \/ UNCHANGED vars
  BY <1>1, <1>2, QuietTracked
<1>3. CASE selfReturn \/ stackReturn \/ blockReturn \/ PrimitiveReturns
  BY <1>1, <1>3, ReturnsTracked, Zenon
<1>4. ASSUME NEW ahead \in BytePointers \ {"any"}, NEW popped \in {1, 2}, doSendMessage(ahead, popped)
      PROVE  Tracked'
  BY <1>1, <1>4, SendTracked, Zenon
<1>5. ASSUME NEW b \in Blocks, blockInvoke(b) PROVE Tracked'
  BY <1>1, <1>5, InvokeTracked, Zenon
<1>6. CASE TimeExpired
  BY <1>1, <1>6, ExpiredTracked, Zenon
<1>7. CASE throwError
  BY <1>1, <1>7, ErrorTracked, Zenon
<1>8. QED
  BY <1>2, <1>3, <1>4, <1>5, <1>6, <1>7, StepKinds, Zenon

\* What the stack of a process says of its contexts.
LEMMA SeenBy ==
  ASSUME Tracked, NEW p \in Procs, NEW c, TopContext(frames[p]) = c
  PROVE  TailCallsSeenBy(p, c)
<1> DEFINE fs == frames[p]
<1>1. PICK s : Consistent(s, fs, kind, creatingContext, allocated, previousContext)
  BY DEF Tracked, Sound
<1>2. fs \in Seq(FrameSet) /\ Len(fs) \in Nat
  BY <1>1 DEF Consistent, Framed
<1>3. ASSUME NEW i \in 1 .. Len(fs), fs[i].rest = "live" \/ kind[fs[i].ctx] = "method"
      PROVE  previousContext[fs[i].ctx] = TopContext(Resumed(SubSeq(fs, 1, i - 1)))
  <2>1. i - 1 \in 0 .. Len(fs)
    BY <1>2
  <2>2. Resumed(SubSeq(fs, 1, i - 1)) = SubSeq(fs, 1, s[i - 1])
    BY <1>1, <2>1, ResumedPrefix DEF Consistent
  <2>3. s[i - 1] \in 0 .. Len(fs)
    <3>1. s[i - 1] \in Nat /\ s[i - 1] <= i - 1
      BY <1>1, <2>1 DEF Consistent, Stops
    <3>2. QED BY <2>1, <3>1
  <2>4. TopContext(SubSeq(fs, 1, s[i - 1])) = ContextAt(fs, s[i - 1])
    BY <1>2, <2>3, TopOfPrefix
  <2>5. previousContext[fs[i].ctx] = ContextAt(fs, s[i - 1])
    BY <1>1, <1>3 DEF Consistent, Returns
  <2>6. QED BY <2>2, <2>4, <2>5
<1>4. QED BY <1>3, Zenon DEF TailCallsSeenBy

THEOREM GhostInvariance == Spec => []GhostInv
<1>1. Init => GhostInv
  BY InitTracked, Zenon DEF GhostInv
<1>2. QED
  BY <1>1, StepTracked, Invariance, PTL DEF Spec

(***************************************************************************)
(* Tail calls cannot be observed, for any program, number of processes and  *)
(* contexts: the context that runs, and the one every later return of       *)
(* selfReturn, stackReturn, blockReturn or a primitive reaches, is that of a *)
(* VM in which doSendMessage() skips none.                                  *)
(***************************************************************************)
THEOREM SkippingUnseen == Spec => []TailCallsTransparent
<1>1. IInv /\ GhostInv => TailCallsTransparent
  <2> SUFFICES ASSUME IInv, Tracked
               PROVE  /\ running # None => TailCallsSeenBy(running, current)
                      /\ \A p \in Procs \ {running} :
                           status[p] = "suspended" => TailCallsSeenBy(p, procContext[p])
    BY Zenon DEF GhostInv, TailCallsTransparent
  <2>1. running # None => running \in Procs
    BY RunningFacts
  <2>2. QED BY <2>1, SeenBy DEF Tracked
<1>2. QED
  BY <1>1, Invariance, GhostInvariance, PTL

(***************************************************************************)
(* A context that waits for a callee or for its next slice finds stackTop   *)
(* as it was when storePointers was called for it, whatever other methods,  *)
(* blocks and processes did in between.                                     *)
(***************************************************************************)
THEOREM StacksKept == Spec => []SavedStackExact
<1>1. GhostInv => SavedStackExact
  <2> SUFFICES ASSUME Tracked, NEW p \in Procs, NEW i \in 1 .. Len(frames[p]),
                      frames[p][i].rest = "live", i < Len(frames[p]) \/ p # running
               PROVE  savedTop[frames[p][i].ctx] = frames[p][i].top
    BY Zenon DEF GhostInv, SavedStackExact
  <2>1. Tops(frames[p], savedTop, Left(p))
    BY DEF Tracked
  <2>2. Len(frames[p]) \in Nat
    BY DEF Tracked
  <2>3. i \in 1 .. Left(p)
    BY <2>2 DEF Left
  <2>4. QED BY <2>1, <2>3 DEF Tops
<1>2. QED
  BY <1>1, GhostInvariance, PTL
=============================================================================

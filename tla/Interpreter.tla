---------------------------- MODULE Interpreter ----------------------------
(***************************************************************************)
(* SmalltalkVM::execute(): contexts, message sends, the three returns,     *)
(* blocks and primitives, for several processes that share their blocks    *)
(* and run in time slices.                                                 *)
(*                                                                         *)
(* The model covers every program: an instruction is any the bytecode may  *)
(* contain, a stack is its height, and a byte pointer is what is known of  *)
(* the instruction it points at ("any" at the start of a body; after a     *)
(* send, what doSendMessage() finds when it looks one instruction ahead).  *)
(* Contexts are numbered in the order they are allocated.                  *)
(***************************************************************************)
EXTENDS Integers, Sequences

CONSTANTS
  ProcCount,     \* number of processes
  Quanta,        \* the ticks doExecute: is called with, 0 for no limit
  MaxContexts,   \* bound: contexts and blocks allocated
  MaxStack,      \* bound: height of a stack
  WordRange      \* stackTop is an unsigned word below this

Procs == 1 .. ProcCount
Contexts == 1 .. MaxContexts
Nil == 0         \* nilObject in the place of a context
None == 0        \* no process runs
Growth == 7      \* stackPush() grows the stack array by so many slots

ASSUME InterpreterAssumption ==
  /\ ProcCount \in Nat
  /\ Quanta \subseteq Nat
  /\ MaxContexts \in Nat /\ MaxContexts >= ProcCount
  /\ MaxStack \in Nat \ {0}
  /\ WordRange \in Nat /\ WordRange > MaxStack + Growth

VARIABLES
  allocated,         \* number of contexts allocated so far
  kind,              \* class of a context: a method's or a block
  previousContext,
  creatingContext,   \* of a block: the method context it belongs to
  savedTop,          \* TContext::stackTop
  savedPointer,      \* TContext::bytePointer
  procContext,       \* TProcess::context
  status,            \* what execute() returned last for the process
  running,           \* the process execute() runs, or None
  current,           \* ec.currentContext
  stackTop,          \* ec.stackTop
  bytePointer,       \* ec.bytePointer
  ticks,             \* instructions left of the time slice
  frames,            \* ghost: the call stacks of a VM without tail calls
  reentered,         \* ghost: a block was invoked while it was active
  escaped,           \* ghost: a block returned from a method that is gone
  outside            \* a push wrote outside of the stack array

objects == <<allocated, kind, previousContext, creatingContext>>
pointers == <<savedTop, savedPointer>>
processes == <<procContext, status, running>>
registers == <<current, stackTop, bytePointer, ticks>>
ghosts == <<frames, reentered, escaped>>
vars == <<objects, pointers, processes, registers, ghosts, outside>>

BytePointers == {"any", "other", "stackReturn", "blockReturn"}

\* A frame of a call stack; rest is what it has left to do when its callee
\* returns, "live" when that is more than a return.
NewFrame(c) == [ctx |-> c, rest |-> "live", top |-> 0]

(***************************************************************************)
(* Every process starts as Thread>>run and Context>>setup: leave it: one   *)
(* method context with an empty stack and no previous context.             *)
(***************************************************************************)
Init ==
  /\ allocated = ProcCount
  /\ kind = [c \in Contexts |-> "method"]
  /\ previousContext = [c \in Contexts |-> Nil]
  /\ creatingContext = [c \in Contexts |-> Nil]
  /\ savedTop = [c \in Contexts |-> 0]
  /\ savedPointer = [c \in Contexts |-> "any"]
  /\ procContext = [p \in Procs |-> p]
  /\ status = [p \in Procs |-> "suspended"]
  /\ running = None
  /\ current = Nil /\ stackTop = 0 /\ bytePointer = "any" /\ ticks = 0
  /\ frames = [p \in Procs |-> <<NewFrame(p)>>]
  /\ reentered = FALSE /\ escaped = FALSE
  /\ outside = FALSE

-----------------------------------------------------------------------------
(***************************************************************************)
(* The reference the tail calls are measured by.  A VM without them would  *)
(* resume the caller of every frame; a caller that was left right before   *)
(* its stackReturn returns at once, and one left before a blockReturn      *)
(* returns to the caller of its method.  Resumed(fs) is the stack when     *)
(* this stops.                                                             *)
(***************************************************************************)
Below(fs, c) == CHOOSE i \in 0 .. Len(fs) - 1 : fs[i + 1].ctx = c

HasFrame(fs, c) == \E i \in 1 .. Len(fs) : fs[i].ctx = c

Resumed(fs) ==
  LET stop[i \in 0 .. Len(fs)] ==
        IF i = 0 \/ fs[i].rest = "live" THEN i
        ELSE IF fs[i].rest = "stackReturn" THEN stop[i - 1]
        ELSE stop[Below(fs, creatingContext[fs[i].ctx])]
  IN  SubSeq(fs, 1, stop[Len(fs)])

TopContext(fs) == IF fs = <<>> THEN Nil ELSE fs[Len(fs)].ctx

Stack == frames[running]

Callers(fs) == SubSeq(fs, 1, Len(fs) - 1)

\* The ghost stack says nothing more once a block was re-entered or escaped.
Track(fs) == frames' = IF reentered' \/ escaped' THEN [p \in Procs |-> <<>>]
                       ELSE [frames EXCEPT ![running] = fs]

Leave(fs, rest, top) == [fs EXCEPT ![Len(fs)].rest = rest, ![Len(fs)].top = top]

-----------------------------------------------------------------------------
\* The head of the loop in execute(): the slice is not over yet, and if the
\* instruction does not end execute() it costs a tick.
Turn == running # None /\ ~outside /\ ticks # 1

Tick == ticks' = IF ticks = 0 THEN 0 ELSE ticks - 1

At(instructions) == bytePointer \in instructions

\* Contexts that can be met on the way back from c.
Chain(c) ==
  LET met[k \in 0 .. MaxContexts] ==
        IF k = 0 THEN {c}
        ELSE LET M == met[k - 1] IN M \union {previousContext[d] : d \in M \ {Nil}}
  IN  met[MaxContexts]

-----------------------------------------------------------------------------
\* execute() is entered: primitive 6 called with the process and its ticks.
Execute(p, t) ==
  /\ running = None
  /\ ~outside
  /\ status[p] = "suspended"
  /\ running' = p
  /\ current' = procContext[p]
  /\ stackTop' = savedTop[procContext[p]]
  /\ bytePointer' = savedPointer[procContext[p]]
  /\ ticks' = t
  /\ UNCHANGED <<objects, pointers, procContext, status, ghosts, outside>>

\* execute() returns r and its local ec is gone.
Exit(c, r) ==
  /\ procContext' = [procContext EXCEPT ![running] = c]
  /\ status' = [status EXCEPT ![running] = r]
  /\ running' = None
  /\ current' = Nil /\ stackTop' = 0 /\ bytePointer' = "any" /\ ticks' = 0

storePointers(top, pointer) ==
  /\ savedTop' = [savedTop EXCEPT ![current] = top]
  /\ savedPointer' = [savedPointer EXCEPT ![current] = pointer]

\* Mutant: the pointers are not stored when the slice ends.
TimeExpiredNoStore ==
  /\ running # None /\ ~outside /\ ticks = 1
  /\ Exit(current, "suspended")
  /\ UNCHANGED <<objects, pointers, reentered, escaped, outside>>
  /\ Track(Leave(Stack, "live", stackTop))

TimeExpired ==
  /\ running # None /\ ~outside /\ ticks = 1
  /\ storePointers(stackTop, bytePointer)
  /\ Exit(current, "suspended")
  /\ UNCHANGED <<objects, reentered, escaped, outside>>
  /\ Track(Leave(Stack, "live", stackTop))

-----------------------------------------------------------------------------
\* What the instructions that stay in their context do: the stack has another
\* height and the next instruction may be any.
Stay(top) ==
  /\ Turn /\ Tick
  /\ At({"any", "other"})
  /\ top \in 0 .. MaxStack
  /\ stackTop' = top
  /\ bytePointer' = "any"
  /\ UNCHANGED <<objects, pointers, processes, current, ghosts, outside>>

\* The cases of execute() without a function of their own: pushes and assignments.
Push == Stay(stackTop + 1)
Assign == stackTop > 0 /\ Stay(stackTop)

doPushConstant == Stay(stackTop + 1)

doMarkArguments(n) == n <= stackTop /\ Stay(stackTop - n + 1)

doSendUnary == stackTop > 0 /\ Stay(stackTop)

\* Both operands are small integers; otherwise the message is sent.
doSendBinary == stackTop > 1 /\ Stay(stackTop - 1)

\* The cases of doSpecial() that neither return nor send.
duplicate == stackTop > 0 /\ Stay(stackTop + 1)
popTop == stackTop > 0 /\ Stay(stackTop - 1)
branch == Stay(stackTop)
branchIf == stackTop > 0 /\ Stay(stackTop - 1)

\* Nested blocks inherit the outer creating context.
homeContext == IF kind[current] = "block" THEN creatingContext[current] ELSE current

doPushBlock ==
  /\ Turn /\ Tick
  /\ At({"any", "other"})
  /\ allocated < MaxContexts
  /\ stackTop < MaxStack
  /\ allocated' = allocated + 1
  /\ kind' = [kind EXCEPT ![allocated'] = "block"]
  /\ creatingContext' = [creatingContext EXCEPT ![allocated'] = homeContext]
  /\ stackTop' = stackTop + 1
  /\ bytePointer' = "any"
  /\ UNCHANGED <<previousContext, pointers, processes, current, ghosts, outside>>

\* Mutant: a blockReturn ahead is taken for a stackReturn.
callerOfSendLocal(ahead) ==
  IF ahead \in {"stackReturn", "blockReturn"} THEN previousContext[current] ELSE current

\* Mutant: the context is switched before the caller is taken.
callerOfSendLate(ahead) ==
  IF ahead = "stackReturn" THEN previousContext[current] ELSE allocated + 1

(***************************************************************************)
(* The tail calls of doSendMessage(): a context that has only its return   *)
(* left is skipped.                                                        *)
(***************************************************************************)
callerOfSend(ahead) ==
  IF ahead = "stackReturn" THEN previousContext[current]
  ELSE IF ahead = "blockReturn" /\ kind[current] = "block"
       THEN previousContext[creatingContext[current]]
  ELSE current

(***************************************************************************)
(* doSendMessage(), from sendMessage or sendToSuper (one value, the array  *)
(* of arguments, is popped) or from sendBinary (two operands are).  What   *)
(* is looked up, be it doesNotUnderstand:, makes no difference here.       *)
(***************************************************************************)
doSendMessage(ahead, popped) ==
  /\ Turn /\ Tick
  /\ At({"any", "other"})
  /\ ahead = "blockReturn" => kind[current] = "block"
  /\ stackTop >= popped
  /\ allocated < MaxContexts
  /\ storePointers(stackTop - popped, ahead)
  /\ allocated' = allocated + 1
  /\ previousContext' = [previousContext EXCEPT ![allocated'] = callerOfSend(ahead)]
  /\ current' = allocated'
  /\ stackTop' = 0
  /\ bytePointer' = "any"
  /\ escaped' = (escaped \/ (ahead = "blockReturn" /\ ~HasFrame(Stack, creatingContext[current])))
  /\ UNCHANGED reentered
  /\ Track(Append(Leave(Stack, IF ahead = "other" THEN "live" ELSE ahead, stackTop - popped),
                  NewFrame(allocated')))
  /\ UNCHANGED <<kind, creatingContext, processes, outside>>

-----------------------------------------------------------------------------
\* Back to context c, or out of execute(), with one value for c.
ReturnTo(c) ==
  \/ /\ c = Nil
     /\ Exit(Nil, "returned")
     /\ UNCHANGED <<objects, pointers, outside>>
  \/ /\ c # Nil
     /\ savedTop[c] < MaxStack
     /\ Tick
     /\ current' = c
     /\ stackTop' = savedTop[c] + 1
     /\ bytePointer' = savedPointer[c]
     /\ UNCHANGED <<objects, pointers, processes, outside>>

selfReturn ==
  /\ Turn
  /\ At({"any", "other"})
  /\ ReturnTo(previousContext[current])
  /\ UNCHANGED <<reentered, escaped>>
  /\ Track(Resumed(Callers(Stack)))

stackReturn ==
  /\ Turn
  /\ At({"any", "stackReturn"})
  /\ stackTop > 0
  /\ ReturnTo(previousContext[current])
  /\ UNCHANGED <<reentered, escaped>>
  /\ Track(Resumed(Callers(Stack)))

blockReturn ==
  /\ Turn
  /\ At({"any", "blockReturn"})
  /\ kind[current] = "block"
  /\ stackTop > 0
  /\ ReturnTo(previousContext[creatingContext[current]])
  /\ escaped' = (escaped \/ ~HasFrame(Stack, creatingContext[current]))
  /\ UNCHANGED reentered
  /\ Track(Resumed(SubSeq(Stack, 1, Below(Stack, creatingContext[current]))))

-----------------------------------------------------------------------------
(***************************************************************************)
(* doPrimitive().  A primitive that succeeds ends its method; one that     *)
(* fails leaves nil in place of its arguments and the method goes on.      *)
(***************************************************************************)
PrimitiveReturns ==
  LET c == previousContext[current] IN
  /\ Turn
  /\ At({"any", "other"})
  /\ \/ /\ c = Nil
        /\ Exit(Nil, "returned")
        /\ UNCHANGED savedTop
     \/ /\ c # Nil
        /\ savedTop[c] < MaxStack
        /\ Tick
        /\ current' = c
        /\ stackTop' = savedTop[c] + 1
        /\ savedTop' = [savedTop EXCEPT ![c] = stackTop']
        /\ bytePointer' = savedPointer[c]
        /\ UNCHANGED processes
  /\ UNCHANGED <<reentered, escaped>>
  /\ Track(Resumed(Callers(Stack)))
  /\ UNCHANGED <<objects, savedPointer, outside>>

PrimitiveFails(args) == args <= stackTop /\ Stay(stackTop - args + 1)

\* Primitive 19 leaves the context as it was stored last.
throwError ==
  /\ Turn
  /\ At({"any", "other"})
  /\ Exit(current, "error")
  /\ UNCHANGED <<reentered, escaped>>
  /\ Track(<<>>)
  /\ UNCHANGED <<objects, pointers, outside>>

Blocks == {b \in 1 .. allocated : kind[b] = "block"}

(***************************************************************************)
(* The block has an activation that is not over: it is met on the way back *)
(* in this or in another process, or it has a frame with more left to do   *)
(* than a return.                                                          *)
(***************************************************************************)
IsActive(b) ==
  \/ b \in Chain(previousContext[current])
  \/ \E p \in Procs \ {running} : status[p] = "suspended" /\ b \in Chain(procContext[p])
  \/ \E p \in Procs : \E i \in 1 .. Len(frames[p]) :
       frames[p][i].ctx = b /\ frames[p][i].rest = "live"

(***************************************************************************)
(* Primitive 8 in Block>>value and its kin: the block becomes the context  *)
(* in the place of the method value.  Nothing checks that the block is not *)
(* active already, in this process or in another.                          *)
(***************************************************************************)
blockInvoke(b) ==
  /\ Turn /\ Tick
  /\ At({"any", "other"})
  /\ kind[current] = "method"
  /\ stackTop > 0
  /\ previousContext' = [previousContext EXCEPT ![b] = previousContext[current]]
  /\ current' = b
  /\ stackTop' = 0
  /\ bytePointer' = "any"
  /\ reentered' = (reentered \/ IsActive(b))
  /\ UNCHANGED escaped
  /\ Track(Append(Callers(Stack), NewFrame(b)))
  /\ UNCHANGED <<allocated, kind, creatingContext, pointers, processes, outside>>

\* Arithmetic of an unsigned word that is off by less than its range.
Word(n) == IF n < 0 THEN n + WordRange
           ELSE IF n >= WordRange THEN n - WordRange ELSE n

(***************************************************************************)
(* Primitive 8 with too many arguments.  Block>>value: and its kin push    *)
(* just the arguments, which are all there is on the stack.  The block was *)
(* popped before argCount + 1 more values are; stackTop, an unsigned word, *)
(* wraps, and the nil of the failed primitive is pushed at that index.     *)
(***************************************************************************)
blockInvokeFails ==
  LET argCount == stackTop - 1
      unrolled == Word((stackTop - 1) - (argCount + 1)) IN
  /\ Turn /\ Tick
  /\ At({"any", "other"})
  /\ kind[current] = "method"
  /\ argCount > 0
  /\ stackTop' = Word(unrolled + 1)
  /\ outside' = (unrolled >= MaxStack + Growth)
  /\ bytePointer' = "any"
  /\ UNCHANGED <<objects, pointers, processes, current, ghosts>>

Next ==
  \/ \E p \in Procs, t \in Quanta : Execute(p, t)
  \/ TimeExpired
  \/ Push \/ Assign \/ doPushConstant
  \/ \E n \in 0 .. MaxStack : doMarkArguments(n)
  \/ doSendUnary \/ doSendBinary
  \/ duplicate \/ popTop \/ branch \/ branchIf
  \/ doPushBlock
  \/ \E ahead \in BytePointers \ {"any"}, popped \in {1, 2} : doSendMessage(ahead, popped)
  \/ selfReturn
  \/ stackReturn
  \/ blockReturn
  \/ PrimitiveReturns
  \/ \E args \in 0 .. MaxStack : PrimitiveFails(args)
  \/ throwError
  \/ \E b \in Blocks : blockInvoke(b)
  \/ blockInvokeFails

Spec == Init /\ [][Next]_vars

-----------------------------------------------------------------------------
\* The state of the machine; of the ghosts, the two flags.
TypeOK ==
  /\ allocated \in ProcCount .. MaxContexts
  /\ kind \in [Contexts -> {"method", "block"}]
  /\ previousContext \in [Contexts -> 0 .. allocated]
  /\ creatingContext \in [Contexts -> 0 .. allocated]
  /\ savedTop \in [Contexts -> 0 .. MaxStack]
  /\ savedPointer \in [Contexts -> BytePointers]
  /\ procContext \in [Procs -> 0 .. allocated]
  /\ status \in [Procs -> {"suspended", "returned", "error"}]
  /\ running \in Procs \union {None}
  /\ current \in 0 .. allocated
  /\ stackTop \in 0 .. MaxStack
  /\ bytePointer \in BytePointers
  /\ ticks \in Nat
  /\ reentered \in BOOLEAN
  /\ escaped \in BOOLEAN
  /\ outside \in BOOLEAN

(***************************************************************************)
(* The blocks the returns rely on: a block belongs to a method context,    *)
(* however deep blocks are nested, and execution never stands on nil.      *)
(***************************************************************************)
HomeIsMethod ==
  /\ \A b \in Blocks : creatingContext[b] # Nil /\ kind[creatingContext[b]] = "method"
  /\ running # None => current # Nil
  /\ \A p \in Procs : status[p] = "suspended" => procContext[p] # Nil

TailCallsSeenBy(p, c) ==
  LET fs == frames[p] IN
  /\ TopContext(fs) = c
  /\ \A i \in 1 .. Len(fs) :
       fs[i].rest = "live" \/ kind[fs[i].ctx] = "method" =>
         previousContext[fs[i].ctx] = TopContext(Resumed(SubSeq(fs, 1, i - 1)))

(***************************************************************************)
(* Skipping contexts in doSendMessage() cannot be observed: the context    *)
(* that runs, and the one every return will reach, non-local ones through  *)
(* blocks included, are those of a VM that skips none.                     *)
(***************************************************************************)
TailCallsTransparent ==
  ~reentered /\ ~escaped =>
    /\ running # None => TailCallsSeenBy(running, current)
    /\ \A p \in Procs \ {running} :
         status[p] = "suspended" => TailCallsSeenBy(p, procContext[p])

(***************************************************************************)
(* A frame that waits for a callee, or for its next time slice, finds its  *)
(* stack at the height it left it, whatever ran in between.                *)
(***************************************************************************)
SavedStackExact ==
  ~reentered /\ ~escaped =>
    \A p \in Procs : \A i \in 1 .. Len(frames[p]) :
      /\ frames[p][i].rest = "live"
      /\ i < Len(frames[p]) \/ p # running
      => savedTop[frames[p][i].ctx] = frames[p][i].top

(***************************************************************************)
(* Unless an active block is invoked again, the chain of previous contexts *)
(* of every process ends: each return comes nearer to the end of the       *)
(* process, even a return from a method that is gone already.              *)
(***************************************************************************)
ChainEnds ==
  ~reentered =>
    \A c \in {current} \union {procContext[p] : p \in {q \in Procs : status[q] = "suspended"}} :
      Nil \in Chain(c)
=============================================================================

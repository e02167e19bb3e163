--------------------------- MODULE MethodCompiler ---------------------------
(***************************************************************************)
(* MethodCompiler: what the code generated from the control graph does     *)
(* with its values.  The collector moves objects; a value that has to live *)
(* across an instruction that may collect is kept in a holder the          *)
(* collector knows, any other is a raw pointer in a register.              *)
(*                                                                         *)
(* After the graph is compiled the unit is run: along every path, with a   *)
(* collection at every instruction that may cause one.  Next to the code   *)
(* runs the stack of the interpreter, holding for each value the node that *)
(* produced it.                                                            *)
(***************************************************************************)
EXTENDS ControlGraph

CONSTANT Childless   \* the class of the method has no subclasses

VARIABLES
  holders,       \* nodes whose value is in a holder
  selfHeld,      \* methodAllocatesMemory: context and self are in holders
  at,            \* the instruction to run: a domain and a place in its block
  stack,         \* the interpreter's stack of producers
  phiValue,      \* producer a phi stands for since its block was entered
  stale,         \* nodes whose value is a pointer to where an object was
  selfStale      \* the raw pointers to context and self are such pointers

runVars == <<holders, selfHeld, at, stack, phiValue, stale, selfStale>>
vars == <<parseVars, graphVars, runVars>>

-----------------------------------------------------------------------------
\* GraphWalker::run() with Detector: the nodes a walk meets.  It does not
\* enter a stop node and does not go on behind a phi.
Walked(start, stop, neighbours) ==
  LET more(S)  == UNION {neighbours[m] : m \in {n \in S : ~IsPhi(Graph, n)}}
      met[k \in 0 .. Cardinality(DOMAIN nodes)] ==
        IF k = 0 THEN neighbours[start] \ (stop \ {start})
        ELSE LET M == met[k - 1] IN M \cup (more(M) \ (stop \ {start}))
  IN  met[Cardinality(DOMAIN nodes)]

Before == [n \in DOMAIN nodes |-> InEdges(Graph, n)]

After == [n \in DOMAIN nodes |-> OutEdges(Graph, n)]

Collects(S) == \E n \in S : IsInstruction(Graph, n) /\ mayCauseGC(nodes[n].instr)

\* Nodes passed between a producer and its consumer in the same domain.
Between(producer, consumer) ==
  LET next(n) == CHOOSE m \in After[n] : TRUE
      node[k \in 1 .. Cardinality(DOMAIN nodes)] ==
        IF k = 1 THEN next(producer)
        ELSE LET n == node[k - 1] IN IF n = consumer THEN n ELSE next(n)
  IN  {node[k] : k \in DOMAIN node} \ {consumer}

Alive(S) == S \cap DOMAIN nodes

\* Mutant: a single consumer in another domain is taken for the next node.
shouldProtectProducerLocal(producer) ==
  LET consumers == Alive(nodes[producer].consumers)
  IN  Cardinality(consumers) # 1
        /\ \E c \in consumers : Collects(Walked(c, {producer} \cup consumers, Before))

(***************************************************************************)
(* shouldProtectProducer(): a walk back from every consumer, in the order  *)
(* of their indices.  The walks share their stop nodes: the producer, the  *)
(* consumers not yet walked from, and what was met before.                 *)
(***************************************************************************)
shouldProtectProducer(producer) ==
  LET consumers == Alive(nodes[producer].consumers)
      walk(acc, c) ==
        LET met == Walked(c, acc.stop, Before)
        IN  [stop |-> (acc.stop \ {c}) \cup met,
             detected |-> acc.detected \/ Collects(met)]
      only == CHOOSE c \in consumers : TRUE
  IN  IF Cardinality(consumers) = 1 /\ nodes[only].domain = nodes[producer].domain
      THEN Collects(Between(producer, only))
      ELSE FoldLeft(walk, [stop |-> {producer} \cup consumers, detected |-> FALSE],
                    Ascending(consumers)).detected

-----------------------------------------------------------------------------
(***************************************************************************)
(* The code written for an instruction: whether it reads the context or    *)
(* self, what it calls, whether a call has the landing pad of the method   *)
(* as its other way out, and what its result is: nothing, a pointer that   *)
(* is offered to protectProducerNode(), self, or something that the        *)
(* collector never moves (an integer, nil, true, false, an array on the    *)
(* machine stack).                                                         *)
(***************************************************************************)
Code(uses, call, pad, result) ==
  [uses |-> uses, call |-> call, pad |-> pad, result |-> result]

Silent(uses, result) == Code(uses, "none", FALSE, result)

\* scanForBlockReturn(): over the blocks nested in a method.
methodHasBlockReturn ==
  stopOffset = 0 /\ \E i \in ToSet(method.code) : IsSpecial(i, {"blockReturn"})

doPushInstance == Silent(TRUE, "offered")

doPushArgument(index) == IF index = 0 THEN Silent(FALSE, "self") ELSE Silent(TRUE, "offered")

doPushTemporary == Silent(TRUE, "offered")

\* A literal is an object here; an integer among the literals never moves.
doPushLiteral == Silent(TRUE, "offered")

doPushConstant == Silent(FALSE, "immovable")

doPushBlock == Code(TRUE, "allocate", FALSE, "offered")

doAssignTemporary == Silent(TRUE, "none")

doAssignInstance == Silent(TRUE, "none")

doMarkArguments == Silent(FALSE, "immovable")

doSendUnary == Silent(FALSE, "immovable")

\* Mutant: the send of a binary operator is always a plain call.
doSendBinaryCalls == Code(TRUE, "runtime", FALSE, "offered")

doSendBinary == Code(TRUE, "runtime", methodHasBlockReturn, "offered")

doSendMessageToLiteral == Code(TRUE, "direct", methodHasBlockReturn, "offered")

Receiver(n) == nodes[nodes[n].args[0]].args[0]

\* The method for a literal, a constant and a self without subclasses is
\* looked up by the compiler; if there is none the send goes to the runtime.
doSendMessage(n) ==
  LET r == nodes[Receiver(n)].instr
  IN  IF r.op \in {"pushLiteral", "pushConstant"}
           \/ (r.op = "pushArgument" /\ r.arg = 0 /\ Childless)
      THEN doSendMessageToLiteral
      ELSE Code(TRUE, "runtime", methodHasBlockReturn, "offered")

doSpecial(i) ==
  CASE IsSpecial(i, {"selfReturn", "blockReturn"}) -> Silent(TRUE, "none")
    [] IsSpecial(i, {"duplicate"})   -> Silent(FALSE, "offered")
    [] IsSpecial(i, {"sendToSuper"}) -> Code(TRUE, "runtime", FALSE, "offered")
    [] OTHER -> Silent(FALSE, "none")

\* A primitive that succeeds returns from the function; one that fails, which
\* is before it calls anything, goes on with nil.
compilePrimitive(p) ==
  CASE p = AllocateObject -> Code(FALSE, "allocate", FALSE, "immovable")
    [] p = BlockInvoke    -> Code(TRUE, "runtime", FALSE, "immovable")
    [] p = SendMessage    -> Code(TRUE, "runtime", methodHasBlockReturn, "immovable")
    [] OTHER -> Silent(FALSE, "immovable")

MayFail(i) == i.extra \notin {AllocateObject, SendMessage}

writeInstruction(n) ==
  LET i == nodes[n].instr
  IN  CASE i.op = "pushInstance"    -> doPushInstance
        [] i.op = "pushArgument"    -> doPushArgument(i.arg)
        [] i.op = "pushTemporary"   -> doPushTemporary
        [] i.op = "pushLiteral"     -> doPushLiteral
        [] i.op = "pushConstant"    -> doPushConstant
        [] i.op = "pushBlock"       -> doPushBlock
        [] i.op = "assignTemporary" -> doAssignTemporary
        [] i.op = "assignInstance"  -> doAssignInstance
        [] i.op = "markArguments"   -> doMarkArguments
        [] i.op = "sendUnary"       -> doSendUnary
        [] i.op = "sendBinary"      -> doSendBinary
        [] i.op = "sendMessage"     -> doSendMessage(n)
        [] i.op = "doSpecial"       -> doSpecial(i)
        [] i.op = "doPrimitive"     -> compilePrimitive(i.extra)

\* The instruction that reads a phi, none if other phis do.
Readers(phi) == {c \in Alive(nodes[phi].consumers) :
                   IsInstruction(Graph, c) /\ ~IsPopTop(Graph, c)}

LastCompiled ==
  LET order == Ascending(InDomain(Graph, Last(Offsets))) IN Last(order)

\* protectProducerNode() for a phi asks about jit.currentNode: the reader of
\* the phi or, for a phi read by phis, the last node of the function.
phiIsProtected(phi) ==
  IF Readers(phi) = {} THEN shouldProtectProducer(LastCompiled)
  ELSE \E c \in Readers(phi) : shouldProtectProducer(c)

\* getNodeValue() puts a phi into the block of its reader, getPhiValue() into
\* the block of its domain.
PhiBlock(phi) ==
  IF Readers(phi) = {} THEN nodes[phi].domain
  ELSE nodes[CHOOSE c \in Readers(phi) : TRUE].domain

Phis == {n \in DOMAIN nodes : IsPhi(Graph, n)}

Instructions == DOMAIN nodes \ Phis

methodAllocatesMemory ==
  \/ stopOffset # 0
  \/ Collects(Walked(domains[startOffset].entryPoint, {}, After))

-----------------------------------------------------------------------------
CompilerInit ==
  /\ holders = {} /\ selfHeld = FALSE
  /\ at = [domain |-> startOffset, place |-> 1]
  /\ stack = <<>> /\ phiValue = <<>>
  /\ stale = {} /\ selfStale = FALSE

Init == ParseInit /\ GraphInit /\ CompilerInit

\* getSkipOffset(): where a conditional branch goes if it is not taken.
getSkipOffset(n) ==
  CHOOSE d \in {nodes[m].domain : m \in After[n]} : d # nodes[n].instr.extra

Targets(n) ==
  LET i == nodes[n].instr
  IN  IF IsSpecial(i, {"branch"}) THEN {i.extra} ELSE {i.extra, getSkipOffset(n)}

IsConditional(n) == IsSpecial(nodes[n].instr, {"branchIfTrue", "branchIfFalse"})

\* The assertions of the do...() functions, in the order they are met, and
\* verifyFunction(): a phi in a block that its incoming blocks do not lead to.
Fault ==
  IF \E n \in Instructions : nodes[n].instr.op = "sendMessage" /\ Receiver(n) \in Phis
  THEN "receiver is a phi"
  ELSE IF \E n \in Instructions : IsConditional(n) /\ Cardinality(After[n]) # 2
  THEN "branch without two edges"
  ELSE IF \E p \in Phis : Readers(p) # {} /\ PhiBlock(p) # nodes[p].domain
  THEN "phi outside of its block"
  ELSE "none"

\* protectProducerNode(): what is in a holder of its own.
Protected ==
  {n \in Instructions : writeInstruction(n).result = "offered" /\ shouldProtectProducer(n)}
    \cup {p \in Phis : phiIsProtected(p)}

\* compileMethod() and compileBlock(): writePreamble(), writeFunctionBody()
\* over all domains, then the incoming values of the phis.
Compile ==
  /\ phase = "compile" /\ fault = "none"
  /\ fault' = Fault
  /\ IF Fault # "none" THEN UNCHANGED <<phase, holders, selfHeld>>
     ELSE /\ phase' = "run"
          /\ holders' = Protected
          /\ selfHeld' = methodAllocatesMemory
  /\ UNCHANGED <<method, unit, pointer, blocks, body, referers, current, dead,
                 cursor, erased, nodes, edges, domains, nextIndex, toLink, overdrawn,
                 at, stack, phiValue, stale, selfStale>>

-----------------------------------------------------------------------------
Here == body[at.domain][at.place]

Node == domains[at.domain].first + at.place - 1

\* What the interpreter pops: operand by index, and the stack without them.
Popped ==
  FoldLeft(LAMBDA acc, o :
             [ops  |-> acc.ops @@ (o.index :> Last(acc.rest)),
              rest |-> IF o.keep THEN acc.rest ELSE Front(acc.rest)],
           [ops |-> <<>>, rest |-> stack], Operands(Here))

Compiled == Node \in DOMAIN nodes

Reads(n) == {nodes[n].args[k] : k \in DOMAIN nodes[n].args}

Producer(n) == IF IsPhi(Graph, n) THEN phiValue[n] ELSE n

\* A raw pointer that a collection leaves behind.
Movable == {n \in DOMAIN nodes \ holders :
              \/ IsPhi(Graph, n)
              \/ writeInstruction(n).result \notin {"immovable", "none"}
                   /\ ~(writeInstruction(n).result = "self" /\ selfHeld)}

IsPrimitive(i) == i.op = "doPrimitive"

\* The instruction collects if its code calls anything, whatever the compiler
\* believed; a primitive that is gone past has called nothing.
Collecting == Compiled /\ ~IsPrimitive(Here) /\ writeInstruction(Node).call # "none"

\* An instruction that is no terminator.  A copy is as stale as its original.
Run ==
  /\ phase = "run" /\ ~isTerminator(Here)
  /\ IsPrimitive(Here) => MayFail(Here)
  /\ stack' = Popped.rest \o (IF isValueProvider(Here) THEN <<Node>> ELSE <<>>)
  /\ LET copied == Compiled /\ IsSpecial(Here, {"duplicate"})
                     /\ Reads(Node) \cap stale # {}
         moved  == IF Collecting THEN stale \cup Movable ELSE stale
     IN  stale' = IF copied THEN moved \cup {Node} ELSE moved \ {Node}
  /\ selfStale' = (selfStale \/ (Collecting /\ ~selfHeld))
  /\ at' = [at EXCEPT !.place = @ + 1]
  /\ UNCHANGED <<parseVars, graphVars, holders, selfHeld, phiValue>>

\* A branch: the phis of the block entered take the values of this one.
Branch(target) ==
  /\ phase = "run" /\ isBranch(Here)
  /\ target \in Targets(Node)
  /\ stack' = Popped.rest
  /\ LET comes(p) == SelectSeq(nodes[p].incoming, LAMBDA v : v.domain = at.domain)
         taken    == {p \in Phis : PhiBlock(p) = target /\ comes(p) # <<>>}
         value(p) == comes(p)[1].node
     IN  /\ phiValue' = [p \in taken |-> Producer(value(p))] @@ phiValue
         /\ stale' = (stale \ taken) \cup {p \in taken : value(p) \in stale}
  /\ at' = [domain |-> target, place |-> 1]
  /\ UNCHANGED <<parseVars, graphVars, holders, selfHeld, selfStale>>

Return ==
  /\ phase = "run"
  /\ Here \in {i \in {Here} : (isTerminator(i) /\ ~isBranch(i)) \/ IsPrimitive(i)}
  /\ phase' = "returned"
  /\ UNCHANGED <<method, unit, pointer, blocks, body, referers, current, dead,
                 cursor, erased, graphVars, runVars>>

\* A block created by this activation returns from it while a call is under
\* way; writeLandingPad() compares the target with the current context.
BlockReturn ==
  /\ phase = "run" /\ methodHasBlockReturn
  /\ Compiled /\ writeInstruction(Node).call \in {"runtime", "direct"}
  /\ \E k \in 1 .. at.place - 1 : body[at.domain][k].op = "pushBlock"
  /\ phase' = IF writeInstruction(Node).pad THEN "returned" ELSE "escaped"
  /\ UNCHANGED <<method, unit, pointer, blocks, body, referers, current, dead,
                 cursor, erased, graphVars, runVars>>

Halted == phase \in {"returned", "escaped"} \/ fault # "none"

Done == Halted /\ UNCHANGED vars

Next ==
  \/ ParseNext /\ UNCHANGED <<graphVars, runVars>>
  \/ GraphNext /\ UNCHANGED runVars
  \/ Compile
  \/ Run \/ Return \/ BlockReturn
  \/ \E b \in DOMAIN domains : Branch(b)
  \/ Done

\* The compiler runs in one thread and waits for nothing: weak fairness of
\* Next, which is enabled until the unit has halted.
Fairness == []<>Halted \/ []<><<Next>>_vars

Spec == Init /\ [][Next]_vars /\ Fairness

-----------------------------------------------------------------------------
Phases == {"collect", "populate", "wipe", "construct", "link", "compile", "run",
           "returned", "escaped"}

TypeOK ==
  /\ phase \in Phases
  /\ IsInjective(blocks)
  /\ Parsed => DOMAIN body = ToSet(blocks) /\ DOMAIN referers = ToSet(blocks)
  /\ edges \subseteq (DOMAIN nodes) \X (DOMAIN nodes)
  /\ holders \cup stale \subseteq 1 .. nextIndex
  /\ phase = "run" => at.domain \in DOMAIN domains

(***************************************************************************)
(* The operands of the graph are those of the stack: on every path, the    *)
(* node an instruction refers to stands for the value that the interpreter *)
(* would pop.                                                              *)
(***************************************************************************)
StackSemantics ==
  phase = "run" /\ Compiled =>
    \A k \in DOMAIN Popped.ops :
      /\ k \in DOMAIN nodes[Node].args
      /\ Producer(nodes[Node].args[k]) = Popped.ops[k]

\* The same, unless a request passed a domain that pops values itself; edges
\* and holders are those of nodes there are.
ArgumentsExact == TypeOK /\ (~overdrawn => StackSemantics)

(***************************************************************************)
(* Control edges: the nodes that are left of a domain follow each other,   *)
(* and a terminator leads to the first node of every successor.  The walks *)
(* that look for collections rely on it.                                   *)
(***************************************************************************)
EdgesFollowControl ==
  phase = "run" =>
    \A d \in DOMAIN domains :
      LET ns == Ascending(InDomain(Graph, d))
      IN  /\ domains[d].entryPoint = ns[1]
          /\ \A k \in 1 .. Len(ns) - 1 : <<ns[k], ns[k + 1]>> \in edges
          /\ \A s \in Successors(d) : <<Last(ns), domains[s].entryPoint>> \in edges
          /\ isBranch(nodes[Last(ns)].instr) => Targets(Last(ns)) = Successors(d)

(***************************************************************************)
(* No raw pointer survives a collection: what one instruction hands to     *)
(* another is never a pointer to where the object was, whatever path leads *)
(* from the one to the other.  (Values handed over by a phi are not        *)
(* covered: the protection of a phi is decided for its reader.)            *)
(***************************************************************************)
DirectOperandsFresh ==
  phase = "run" /\ Compiled /\ ~IsPopTop(Graph, Node) =>
    Reads(Node) \cap stale \subseteq Phis

(***************************************************************************)
(* The context and self are in holders whenever they are used after a      *)
(* collection.  (The walk of methodAllocatesMemory() does not look at the  *)
(* first instruction: a unit where that one alone allocates is excepted.)  *)
(***************************************************************************)
ContextFresh ==
  phase = "run" /\ Compiled /\ writeInstruction(Node).uses /\ selfStale =>
    nodes[domains[startOffset].entryPoint].instr.op = "pushBlock"

(***************************************************************************)
(* Compiled code uses no address from before a collection: neither of a    *)
(* value that one instruction hands to another nor of the context and      *)
(* self, with the exceptions named above.                                  *)
(***************************************************************************)
ValuesFresh == DirectOperandsFresh /\ ContextFresh

(***************************************************************************)
(* A block return that this activation is the target of is caught by its   *)
(* landing pad when it passes a send, by the primitive too.  (The calls of *)
(* sendToSuper and of the block primitive have no landing pad.)            *)
(***************************************************************************)
SendsCatchBlockReturn ==
  phase = "escaped" =>
    /\ Here.op \notin {"sendMessage", "sendBinary"}
    /\ IsPrimitive(Here) => Here.extra # SendMessage

-----------------------------------------------------------------------------
\* A domain that begins by popping a value it also keeps, an instruction that
\* asks for one more value than there is.
KeepsRequested ==
  \E d \in DOMAIN domains : \E r \in ToSet(domains[d].requested) :
    LET i == nodes[r.node].instr IN \E o \in ToSet(Operands(i)) : o.keep

\* A block that control can come back to.
Reached(b) ==
  LET met[k \in 0 .. Len(blocks)] ==
        IF k = 0 THEN Successors(b)
        ELSE LET M == met[k - 1] IN M \cup UNION {Successors(c) : c \in M}
  IN  met[Len(blocks)]

(***************************************************************************)
(* The compiler stops on a method of the image for one of these reasons    *)
(* only: a value is kept by the first instruction of a block, a value lies *)
(* on the stack around a loop, an erased block is still a referer, an arm  *)
(* returns so that a merged value is read behind the block it is merged    *)
(* in, or a message is sent to a merged value.                             *)
(***************************************************************************)
FaultsExplained ==
  /\ fault = "phi without incomings" => KeepsRequested
  /\ fault = "endless recursion" => \E b \in ToSet(blocks) : b \in Reached(b)
  /\ fault = "referer was erased" => stopOffset = 0
  /\ fault = "phi outside of its block" =>
       \E b \in ToSet(blocks) : IsSpecial(Last(body[b]), {"stackReturn", "blockReturn"})
  /\ fault = "receiver is a phi" =>
       \E b \in ToSet(blocks) : Cardinality(referers[b]) > 1
  /\ fault \notin {"trivial node with several edges", "branch without two edges"}

\* Parsing, linking and compiling come to an end for every method.
CompilationEnds == <>(phase = "run" \/ Halted)
=============================================================================

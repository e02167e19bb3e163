---------------------------- MODULE ControlGraph ----------------------------
(***************************************************************************)
(* ControlGraph::buildGraph(): the stack of the bytecode is turned into    *)
(* references from an instruction to the nodes that produce its operands.  *)
(*                                                                         *)
(* A node is its index, a domain the offset of its basic block.  Every     *)
(* domain keeps the stack its own instructions leave behind; what they pop *)
(* beyond it is requested from the domains that branch here, through a phi *)
(* when there are several.  A failed assertion, or a recursion without     *)
(* end, stops the compiler and is recorded as fault.                       *)
(***************************************************************************)
EXTENDS ParsedBytecode, TLC

VARIABLES
  nodes,      \* m_nodes: node by index
  edges,      \* pairs of indices, m_inEdges and m_outEdges
  domains,    \* ControlDomain by offset
  nextIndex,  \* m_lastNodeIndex
  toLink,     \* GraphLinker::m_nodeToLink, or NoNode
  fault,      \* the assertion that failed, or "none"
  overdrawn   \* history: a request passed a domain that pops values itself

graphVars == <<nodes, edges, domains, nextIndex, toLink, fault, overdrawn>>

NoNode == 0

\* GraphOptimizer and GraphLinker work on the graph as one value.
Graph == [nodes |-> nodes, edges |-> edges, domains |-> domains,
          nextIndex |-> nextIndex, fault |-> fault, overdrawn |-> overdrawn]

Becomes(g) ==
  /\ nodes' = g.nodes /\ edges' = g.edges /\ domains' = g.domains
  /\ nextIndex' = g.nextIndex /\ fault' = g.fault /\ overdrawn' = g.overdrawn

GraphInit ==
  /\ nodes = <<>> /\ edges = {} /\ domains = <<>>
  /\ nextIndex = 1 /\ toLink = NoNode /\ fault = "none" /\ overdrawn = FALSE

newNode(g, type, instr, domain) ==
  [g EXCEPT !.nodes = @ @@ (g.nextIndex :> [type |-> type, instr |-> instr,
                              domain |-> domain, args |-> <<>>,
                              consumers |-> {}, incoming |-> <<>>]),
            !.nextIndex = @ + 1]

newDomain(first) ==
  [first |-> first, entryPoint |-> first, terminator |-> NoNode,
   localStack |-> <<>>, requested |-> <<>>]

IsPhi(g, n) == g.nodes[n].type = "phi"

IsInstruction(g, n) == g.nodes[n].type = "instruction"

addConsumer(g, value, consumer) ==
  [g EXCEPT !.nodes[value].consumers = @ \cup {consumer}]

addEdge(g, from, to) == [g EXCEPT !.edges = @ \cup {<<from, to>>}]

-----------------------------------------------------------------------------
\* The operands an instruction asks for, in the order it pops them.  A kept
\* one stays on the stack.
Operands(i) ==
  LET pop(k)   == [index |-> k, keep |-> FALSE]
      kept     == <<[index |-> 0, keep |-> TRUE]>>
      down(n)  == [k \in 1 .. n |-> pop(n - k)]
  IN  CASE i.op \in {"assignTemporary", "assignInstance"}
             \/ IsSpecial(i, {"duplicate"}) -> kept
        [] i.op \in {"sendUnary", "sendMessage"}
             \/ IsSpecial(i, {"stackReturn", "blockReturn", "popTop", "sendToSuper",
                              "branchIfTrue", "branchIfFalse"}) -> <<pop(0)>>
        [] i.op = "sendBinary" -> down(2)
        [] i.op = "markArguments" -> down(i.arg)
        [] i.op = "doPrimitive" /\ i.extra = BlockInvoke ->
             <<pop(0)>> \o [k \in 1 .. i.arg - 1 |-> pop(i.arg - k)]
        [] i.op = "doPrimitive" -> down(i.arg)
        [] OTHER -> <<>>

\* ControlDomain::requestArgument() of the last node created.
requestArgument(g, o) ==
  LET n     == g.nextIndex - 1
      d     == g.nodes[n].domain
      stack == g.domains[d].localStack
  IN  IF stack = <<>>
      THEN [g EXCEPT !.domains[d].requested =
                       Append(@, [index |-> o.index, node |-> n])]
      ELSE [addConsumer(g, Last(stack), n) EXCEPT
              !.nodes[n].args = @ @@ (o.index :> Last(stack)),
              !.domains[d].localStack = IF o.keep THEN @ ELSE Front(@)]

\* GraphConstructor::visitInstruction(): processNode() and its helpers.
visitInstruction(d, g, i) ==
  LET n == g.nextIndex
      h == FoldLeft(requestArgument, newNode(g, "instruction", i, d), Operands(i))
  IN  [h EXCEPT !.domains[d].localStack =
                   IF isValueProvider(i) THEN Append(@, n) ELSE @,
                !.domains[d].terminator = IF isTerminator(i) THEN n ELSE @]

\* GraphConstructor::visitBlock(), in the order of the list of blocks.
Construct ==
  /\ phase = "construct" /\ cursor <= Len(blocks)
  /\ LET d == blocks[cursor]
         g == [Graph EXCEPT !.domains = @ @@ (d :> newDomain(nextIndex))]
     IN  Becomes(FoldLeft(LAMBDA h, i : visitInstruction(d, h, i), g, body[d]))
  /\ cursor' = cursor + 1
  /\ UNCHANGED <<method, unit, phase, pointer, blocks, body, referers, current,
                 dead, erased, toLink>>

-----------------------------------------------------------------------------
\* A phi is erased in favour of one of its values.
Replaced(r, value) ==
  [g |-> [r.g EXCEPT !.nodes = [n \in DOMAIN @ \ {r.node} |->
                                  [@[n] EXCEPT !.consumers = @ \ {r.node}]],
                     !.edges = @ \ {<<value, r.node>>}],
   node |-> value]

\* Mutant: a phi is taken for its first value.
optimizePhiAlways(r) == Replaced(r, r.g.nodes[r.node].incoming[1].node)

\* GraphLinker::optimizePhi(): a phi all of whose values are one node is
\* replaced by that node.
optimizePhi(r) ==
  LET incoming == r.g.nodes[r.node].incoming
  IN  IF Cardinality({v.node : v \in ToSet(incoming)}) > 1 THEN r
      ELSE Replaced(r, incoming[1].node)

Failed(r) == r.g.fault # "none"

Fail(g, why) == [g |-> [g EXCEPT !.fault = why], node |-> NoNode]

(***************************************************************************)
(* GraphLinker::getRequestedNode(): the node that supplies the k-th value  *)
(* below the stack of domain d.  Passing a referer whose own stack is too  *)
(* short, it takes that stack off k but does not add what the referer      *)
(* itself pops.  The source recurses without looking where it has been;    *)
(* coming back to the same request, it never returns.                      *)
(***************************************************************************)
RECURSIVE getRequestedNode(_, _, _, _)
getRequestedNode(g, d, k, path) ==
  LET from(h, r) ==
        LET stack == h.domains[r].localStack
        IN  IF k >= Len(stack)
            THEN getRequestedNode([h EXCEPT !.overdrawn = @ \/ h.domains[r].requested # <<>>],
                                  r, k - Len(stack), path \cup {<<d, k>>})
            ELSE [g |-> h, node |-> stack[Len(stack) - k]]
      phi == g.nextIndex
      merge(acc, r) ==
        LET v == from(acc.g, r)
            h == addConsumer(
                   [v.g EXCEPT !.nodes[phi].incoming =
                                 Append(@, [domain |-> r, node |-> v.node])],
                   v.node, phi)
        IN  IF Failed(acc) THEN acc
            ELSE IF Failed(v) THEN v
            ELSE [g |-> IF IsPhi(h, v.node) THEN addEdge(h, v.node, phi) ELSE h,
                  node |-> phi]
      merged == FoldLeft(merge,
                         [g |-> newNode(g, "phi", <<>>, d), node |-> phi],
                         Ascending(referers[d]))
  IN  IF <<d, k>> \in path THEN Fail(g, "endless recursion")
      ELSE IF referers[d] = {} THEN Fail(g, "phi without incomings")
      ELSE IF Cardinality(referers[d]) = 1
           THEN from(g, CHOOSE r \in referers[d] : TRUE)
      ELSE IF Failed(merged) THEN merged ELSE optimizePhi(merged)

\* GraphLinker::processRequest(), the k-th request of a domain.
processRequest(d, g, k) ==
  LET request == g.domains[d].requested[k]
      r       == getRequestedNode(g, d, k - 1, {})
      h       == addConsumer([r.g EXCEPT !.nodes[request.node].args =
                                           @ @@ (request.index :> r.node)],
                             r.node, request.node)
  IN  IF g.fault # "none" THEN g
      ELSE IF Failed(r) THEN r.g
      ELSE IF IsPhi(h, r.node) \/ h.nodes[r.node].domain = d
           THEN addEdge(h, r.node, request.node)
      ELSE h

\* Mutant: only the first referer is linked.
processBranchingFirst(g, d) ==
  LET known == Ascending(referers[d] \cap DOMAIN g.domains)
  IN  IF known = <<>> THEN g
      ELSE addEdge(g, g.domains[known[1]].terminator, g.domains[d].entryPoint)

\* GraphLinker::processBranching(): the terminators of the referers lead to
\* the entry point.  A referer that was erased has no terminator.
processBranching(g, d) ==
  IF referers[d] \subseteq DOMAIN g.domains
  THEN [g EXCEPT !.edges = @ \cup {<<g.domains[r].terminator, g.domains[d].entryPoint>> :
                                     r \in referers[d]}]
  ELSE [g EXCEPT !.fault = "referer was erased"]

InDomain(g, d) == {n \in DOMAIN g.nodes : IsInstruction(g, n) /\ g.nodes[n].domain = d}

\* GraphLinker::processNode(): a node without an edge to a later one of its
\* domain is linked to the node visited next, terminators excepted.
processNode(acc, n) ==
  LET g == IF acc.toLink = NoNode THEN acc.g ELSE addEdge(acc.g, acc.toLink, n)
      linked == \E m \in InDomain(g, g.nodes[n].domain) : m > n /\ <<n, m>> \in g.edges
  IN  [g |-> g, toLink |-> IF isTerminator(g.nodes[n].instr) \/ linked
                           THEN NoNode ELSE n]

\* Domains are visited in the order of their offsets.
Offsets == Ascending(DOMAIN domains)

StartLinking ==
  /\ phase = "construct" /\ cursor > Len(blocks)
  /\ phase' = "link" /\ cursor' = 1
  /\ UNCHANGED <<method, unit, pointer, blocks, body, referers, current, dead,
                 erased, graphVars>>

\* GraphLinker::visitDomain()
Link ==
  /\ phase = "link" /\ fault = "none" /\ cursor <= Len(Offsets)
  /\ LET d == Offsets[cursor]
         g == FoldLeft(LAMBDA h, k : processRequest(d, h, k),
                       processBranching(Graph, d),
                       [k \in DOMAIN domains[d].requested |-> k])
         r == FoldLeft(processNode, [g |-> g, toLink |-> toLink],
                       Ascending(InDomain(g, d)))
     IN  Becomes(r.g) /\ toLink' = r.toLink
  /\ cursor' = cursor + 1
  /\ UNCHANGED <<method, unit, phase, pointer, blocks, body, referers, current,
                 dead, erased>>

-----------------------------------------------------------------------------
OutEdges(g, n) == {m \in DOMAIN g.nodes : <<n, m>> \in g.edges}

InEdges(g, n) == {m \in DOMAIN g.nodes : <<m, n>> \in g.edges}

IsPopTop(g, n) == IsInstruction(g, n) /\ IsSpecial(g.nodes[n].instr, {"popTop"})

\* GraphOptimizer::visitNode(): what a node adds to m_nodesToRemove.
ToRemove(g, n) ==
  LET node == g.nodes[n]
  IN  IF ~IsInstruction(g, n) \/ ~isTrivial(node.instr) \/ ~isValueProvider(node.instr)
      THEN <<>>
      ELSE IF node.consumers = {} THEN <<n>>
      ELSE IF \E c \in node.consumers : node.consumers = {c} /\ IsPopTop(g, c)
           THEN <<CHOOSE c \in node.consumers : TRUE, n>>
      ELSE <<>>

\* GraphOptimizer::removeInstruction()
removeInstruction(g, n) ==
  LET next == CHOOSE m \in OutEdges(g, n) : TRUE
      d    == g.nodes[n].domain
  IN  IF g.fault # "none" THEN g
      ELSE IF Cardinality(OutEdges(g, n)) # 1 \/ ~IsInstruction(g, next)
           THEN [g EXCEPT !.fault = "trivial node with several edges"]
      ELSE [g EXCEPT
              !.domains[d].entryPoint = IF @ = n THEN next ELSE @,
              !.edges = {e \in @ : n \notin {e[1], e[2]}}
                          \cup {<<m, next>> : m \in InEdges(g, n)},
              !.nodes = [m \in DOMAIN @ \ {n} |-> @[m]]]

Optimize ==
  /\ phase = "link" /\ fault = "none" /\ cursor > Len(Offsets)
  /\ LET order == Ascending(DOMAIN nodes)
         all   == FlattenSeq([k \in DOMAIN order |-> ToRemove(Graph, order[k])])
     IN  Becomes(FoldLeft(removeInstruction, Graph, all))
  /\ phase' = "compile" /\ cursor' = 1
  /\ UNCHANGED <<method, unit, pointer, blocks, body, referers, current, dead,
                 erased, toLink>>

GraphNext == Construct \/ StartLinking \/ Link \/ Optimize
=============================================================================

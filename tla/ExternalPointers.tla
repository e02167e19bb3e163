-------------------------- MODULE ExternalPointers --------------------------
(***************************************************************************)
(* hptr<> and the list of external pointers of BakerMemoryManager.  An     *)
(* hptr<> registers itself in its constructor and releases itself in its   *)
(* destructor; the registered ones form an intrusive singly linked list    *)
(* that the collector walks to update the pointers kept outside the heap.  *)
(*                                                                         *)
(* Hptrs are the hptr<> variables of the C++ stack.  A target is reduced   *)
(* to where it points: the static heap or one of the two semispaces.       *)
(*                                                                         *)
(* BakerRoots composes this part with the static roots.                    *)
(***************************************************************************)
EXTENDS Integers, Sequences, Semispaces

CONSTANTS
  Hptrs,      \* the hptr<> objects that may exist
  Null        \* the null object_ptr*

ASSUME ExternalPointersAssumption == Null \notin Hptrs

VARIABLES
  scope,         \* ghost: the constructed hptr<>s, oldest first
  head,          \* m_externalPointersHead
  next,          \* object_ptr::next
  data,          \* object_ptr::data
  cursor,        \* currentPointer of moveObjects()
  collecting,    \* the collection is walking the list
  crashed        \* a null object_ptr* was dereferenced

pointerVars == <<scope, head, next, data, cursor, collecting, crashed>>

Targets == {"static"} \union Halves

Constructed == {scope[i] : i \in 1 .. Len(scope)}

NoPointers ==
  /\ scope = <<>>
  /\ head = Null
  /\ next = [p \in Hptrs |-> Null]
  /\ data = [p \in Hptrs |-> "static"]
  /\ cursor = Null
  /\ collecting = FALSE
  /\ crashed = FALSE

\* Mutant: the new node does not link to the old head.
registerUnlinked(p) ==
  /\ next' = [next EXCEPT ![p] = Null]
  /\ head' = p

registerExternalHeapPointer(p) ==
  /\ next' = [next EXCEPT ![p] = head]
  /\ head' = p

(***************************************************************************)
(* The constructor of hptr<>, from a pointer or from another hptr<> (which *)
(* copies its target): v is what the program holds.                        *)
(***************************************************************************)
Construct(p, v) ==
  /\ ~collecting /\ ~crashed
  /\ p \notin Constructed
  /\ v \in {"static", activeHeap}
  /\ scope' = Append(scope, p)
  /\ data' = [data EXCEPT ![p] = v]
  /\ registerExternalHeapPointer(p)
  /\ UNCHANGED <<activeHeap, cursor, collecting, crashed>>

CopyConstruct(p, q) ==
  /\ ~collecting /\ ~crashed
  /\ p \notin Constructed
  /\ q \in Constructed
  /\ scope' = Append(scope, p)
  /\ data' = [data EXCEPT ![p] = data[q]]
  /\ registerExternalHeapPointer(p)
  /\ UNCHANGED <<activeHeap, cursor, collecting, crashed>>

(***************************************************************************)
(* operator= stores the target and leaves the links alone.                 *)
(***************************************************************************)
Assign(p, v) ==
  /\ ~collecting /\ ~crashed
  /\ p \in Constructed
  /\ v \in {"static", activeHeap}
  /\ data' = [data EXCEPT ![p] = v]
  /\ UNCHANGED <<scope, head, next, activeHeap, cursor, collecting, crashed>>

(***************************************************************************)
(* releaseExternalHeapPointer(): the head is popped; a node inside the     *)
(* list is overwritten by its successor; the last node is unlinked from    *)
(* its predecessor, which the code assumes to find by walking.             *)
(***************************************************************************)
ReleaseHead(p) ==
  /\ head' = next[p]
  /\ UNCHANGED <<next, data, crashed>>

ReleaseInside(p) ==
  /\ data' = [data EXCEPT ![p] = data[next[p]]]
  /\ next' = [next EXCEPT ![p] = next[next[p]]]
  /\ UNCHANGED <<head, crashed>>

Walk(n) == LET at[k \in 0 .. n] == IF k = 0 THEN head
                                   ELSE IF at[k - 1] = Null THEN Null ELSE next[at[k - 1]]
           IN  {at[k] : k \in 0 .. n}

Predecessors(p) == {q \in Hptrs : q \in Walk(Len(scope)) /\ next[q] = p}

ReleaseLast(p) ==
  /\ next' = [q \in Hptrs |-> IF q \in Predecessors(p) THEN Null ELSE next[q]]
  /\ crashed' = (Predecessors(p) = {})
  /\ UNCHANGED <<head, data>>

releaseExternalHeapPointer(p) ==
  IF p = head THEN ReleaseHead(p)
  ELSE IF next[p] # Null THEN ReleaseInside(p)
  ELSE ReleaseLast(p)

(***************************************************************************)
(* The destructor.  All hptr<>s of the virtual machine are automatic       *)
(* variables, members of one or temporaries, so they are destroyed in      *)
(* reverse order of construction.                                          *)
(***************************************************************************)
DestroyLast ==
  /\ ~collecting /\ ~crashed
  /\ scope # <<>>
  /\ releaseExternalHeapPointer(scope[Len(scope)])
  /\ scope' = SubSeq(scope, 1, Len(scope) - 1)
  /\ UNCHANGED <<activeHeap, cursor, collecting>>

PointersStep ==
  \/ \E p \in Hptrs, v \in Targets : Construct(p, v)
  \/ \E p, q \in Hptrs : CopyConstruct(p, q)
  \/ \E p \in Hptrs, v \in Targets : Assign(p, v)
  \/ DestroyLast

(***************************************************************************)
(* What moveObjects() does next: it walks the list and stores the new      *)
(* address of each target.                                                 *)
(***************************************************************************)
StartWalk ==
  /\ collecting' = TRUE
  /\ cursor' = head
  /\ UNCHANGED <<scope, head, next, data, crashed>>

\* Mutant: the result of moveObject() is dropped.
MoveTargetDropped ==
  /\ collecting
  /\ cursor # Null
  /\ cursor' = next[cursor]
  /\ UNCHANGED <<scope, head, next, data, activeHeap, collecting, crashed>>

MoveTarget ==
  /\ collecting
  /\ cursor # Null
  /\ data' = [data EXCEPT ![cursor] = moveObject(@, activeHeap)]
  /\ cursor' = next[cursor]
  /\ UNCHANGED <<scope, head, next, activeHeap, collecting, crashed>>

CollectionDone ==
  /\ collecting
  /\ cursor = Null
  /\ collecting' = FALSE
  /\ UNCHANGED <<scope, head, next, data, activeHeap, cursor, crashed>>

-----------------------------------------------------------------------------
PointersTypeOK ==
  /\ scope \in Seq(Hptrs)
  /\ head \in Hptrs \union {Null}
  /\ next \in [Hptrs -> Hptrs \union {Null}]
  /\ data \in [Hptrs -> Targets]
  /\ cursor \in Hptrs \union {Null}
  /\ collecting \in BOOLEAN
  /\ crashed = FALSE

(***************************************************************************)
(* The list is the call stack: the registered nodes are exactly the        *)
(* constructed hptr<>s, the youngest first.                                *)
(***************************************************************************)
ListIsScope ==
  /\ head = IF scope = <<>> THEN Null ELSE scope[Len(scope)]
  /\ \A i \in 1 .. Len(scope) : next[scope[i]] = IF i = 1 THEN Null ELSE scope[i - 1]

(***************************************************************************)
(* Outside a collection no constructed hptr<> points into the semispace    *)
(* that was emptied, however often the heaps were swapped under it.        *)
(***************************************************************************)
NoDanglingHptr ==
  ~collecting => \A p \in Constructed : data[p] \in {"static", activeHeap}
=============================================================================

---------------------------- MODULE StaticRoots ----------------------------
(***************************************************************************)
(* The static root list of BakerMemoryManager and the write barrier that   *)
(* maintains it.  The image is loaded into a static heap that is never     *)
(* collected; a field of a static object that points into one of the two   *)
(* dynamic semispaces is found by the collector only through               *)
(* m_staticRoots, which checkRoot() updates before every tracked store.    *)
(*                                                                         *)
(* A slot is one field of one static object.  What a slot holds is         *)
(* abstracted to where the word points:                                    *)
(*   "static"     a pointer into the static heap                           *)
(*   "int"        a SmallInteger whose bits are no static heap address     *)
(*   "intStatic"  a SmallInteger whose bits look like a static heap address*)
(*   "one", "two" a pointer into m_heapOne or m_heapTwo                    *)
(* m_staticRoots is a list that is only searched and iterated, so it is    *)
(* modelled as a bag: how many times each slot is listed.                  *)
(*                                                                         *)
(* BakerRoots composes this part with the external pointers.               *)
(***************************************************************************)
EXTENDS Integers, Semispaces

CONSTANTS
  StaticObjects,  \* the ordinary objects of the static heap
  Fields,         \* number of fields of each of them
  LoadedValues,   \* what the image loader may leave in a field
  MaxCount,       \* longest range of one doBulkReplace() call, 0: none
  MaxListed       \* bound on how often one slot is listed (model only)

Immediates == {"int", "intStatic"}
Values == {"static"} \union Halves \union Immediates

ASSUME StaticRootsAssumption ==
  /\ Fields \in Nat
  /\ LoadedValues \subseteq {"static"} \union Immediates
  /\ MaxCount \in Nat
  /\ MaxListed \in Nat \ {0}

VARIABLES
  slot,          \* contents of every static slot
  staticRoots,   \* m_staticRoots, as a bag of slots
  bypassed       \* ghost: slots whose contents no checkRoot() has vouched for

rootVars == <<slot, staticRoots, bypassed>>

Slots == StaticObjects \X (1 .. Fields)

(***************************************************************************)
(* isInStaticHeap() compares the raw word with the bounds of the static    *)
(* heap; it does not ask whether the word is a SmallInteger.               *)
(***************************************************************************)
isInStaticHeap(v) == v \in {"static", "intStatic"}

(***************************************************************************)
(* Image::loadImage() leaves static pointers and inline integers in the    *)
(* fields and registers no roots.                                          *)
(***************************************************************************)
RootsLoaded ==
  /\ slot \in [Slots -> LoadedValues]
  /\ staticRoots = [s \in Slots |-> 0]
  /\ bypassed = {s \in Slots : ~isInStaticHeap(slot[s])}

addStaticRoot(s) == [staticRoots EXCEPT ![s] = @ + 1]

\* Erases the first matching entry; a slot that is not listed is ignored.
removeStaticRoot(s) == [staticRoots EXCEPT ![s] = IF @ > 0 THEN @ - 1 ELSE 0]

\* Mutant: the two tests of the old value are swapped.
checkRootSwapped(v, s) ==
  IF ~isInStaticHeap(v) /\ ~isInStaticHeap(slot[s]) THEN addStaticRoot(s)
  ELSE IF isInStaticHeap(v) /\ isInStaticHeap(slot[s]) THEN removeStaticRoot(s)
  ELSE staticRoots

(***************************************************************************)
(* checkRoot(value, objectSlot) for a slot in the static heap: the root    *)
(* list after the call.                                                    *)
(***************************************************************************)
checkRoot(v, s) ==
  IF ~isInStaticHeap(v) /\ isInStaticHeap(slot[s]) THEN addStaticRoot(s)
  ELSE IF isInStaticHeap(v) /\ ~isInStaticHeap(slot[s]) THEN removeStaticRoot(s)
  ELSE staticRoots

(***************************************************************************)
(* A tracked store (opcode assignInstance, primitive arrayAtPut): the      *)
(* barrier, then the assignment.  v is any value the running program can   *)
(* hold: pointers into the dynamic heap point into its active half.        *)
(***************************************************************************)
Store(s, v) ==
  /\ v \in {"static", activeHeap} \union Immediates
  /\ staticRoots' = checkRoot(v, s)
  /\ staticRoots'[s] <= MaxListed
  /\ slot' = [slot EXCEPT ![s] = v]
  /\ bypassed' = IF isInStaticHeap(v) THEN bypassed \ {s} ELSE bypassed
  /\ UNCHANGED activeHeap

(***************************************************************************)
(* doBulkReplace() with source and destination both ordinary and both      *)
(* static: one memmove of count fields, no barrier.  (With exactly one of  *)
(* them static the primitive fails and changes nothing.)                   *)
(***************************************************************************)
BulkReplace(dst, from, src, srcFrom, count) ==
  LET moved   == {dst} \X (from .. from + count - 1)
      origin(s) == <<src, s[2] - from + srcFrom>>
  IN
  /\ from + count - 1 <= Fields
  /\ srcFrom + count - 1 <= Fields
  /\ slot' = [s \in Slots |-> IF s \in moved THEN slot[origin(s)] ELSE slot[s]]
  /\ bypassed' = (bypassed \ moved) \union
                   {s \in moved : /\ ~isInStaticHeap(slot[origin(s)])
                                  /\ origin(s) \in bypassed \/ staticRoots[s] = 0}
  /\ UNCHANGED <<staticRoots, activeHeap>>

RootsStep ==
  \/ \E s \in Slots, v \in Values : Store(s, v)
  \/ \E dst, src \in StaticObjects, from, srcFrom \in 1 .. Fields, count \in 1 .. MaxCount :
       BulkReplace(dst, from, src, srcFrom, count)

(***************************************************************************)
(* What moveObjects() does first: it rewrites every listed slot with the   *)
(* result of moveObject().  A slot that is listed twice is moved twice,    *)
(* and the second time it is in the new half already.                      *)
(***************************************************************************)
MoveStaticRoots(active) ==
  /\ slot' = [s \in Slots |-> IF staticRoots[s] > 0 THEN moveObject(slot[s], active) ELSE slot[s]]
  /\ UNCHANGED <<staticRoots, bypassed>>

----------------------------------------------------------------------------
RootsTypeOK ==
  /\ slot \in [Slots -> Values]
  /\ staticRoots \in [Slots -> Nat]
  /\ bypassed \in SUBSET Slots

InDynamicHeap(v) == v \in Halves

(***************************************************************************)
(* Every static slot that holds a non-static word and was written through  *)
(* checkRoot() is on the root list, however loads, tracked stores, bulk    *)
(* moves and collections were interleaved before.                          *)
(***************************************************************************)
BarrieredSlotsAreRoots ==
  \A s \in Slots \ bypassed : ~isInStaticHeap(slot[s]) => staticRoots[s] > 0

(***************************************************************************)
(* No static slot written through checkRoot() keeps a pointer into the     *)
(* semispace that the last collection emptied.                             *)
(***************************************************************************)
NoDanglingStaticSlot ==
  \A s \in Slots \ bypassed : InDynamicHeap(slot[s]) => slot[s] = activeHeap
=============================================================================

---------------------------- MODULE BakerRoots ----------------------------
(***************************************************************************)
(* The roots of a collection of BakerMemoryManager: the listed fields of   *)
(* static objects and the hptr<>s, which the program changes while it runs *)
(* and moveObjects() follows when the semispaces were swapped.             *)
(***************************************************************************)
EXTENDS StaticRoots, ExternalPointers

collectorVars == <<activeHeap, rootVars, pointerVars>>

CollectorInit ==
  /\ activeHeap = "one"
  /\ RootsLoaded
  /\ NoPointers

Running == ~collecting /\ ~crashed

(***************************************************************************)
(* collectGarbage(): the swap, and moveObjects() up to its second loop.    *)
(***************************************************************************)
CollectGarbage ==
  /\ Running
  /\ activeHeap' = OtherHeap(activeHeap)
  /\ MoveStaticRoots(OtherHeap(activeHeap))
  /\ StartWalk

CollectorNext ==
  \/ Running /\ RootsStep /\ UNCHANGED pointerVars
  \/ PointersStep /\ UNCHANGED rootVars
  \/ CollectGarbage
  \/ MoveTarget /\ UNCHANGED rootVars
  \/ CollectionDone /\ UNCHANGED rootVars

CollectorSpec == CollectorInit /\ [][CollectorNext]_collectorVars

-----------------------------------------------------------------------------
CollectorTypeOK ==
  /\ activeHeap \in Halves
  /\ RootsTypeOK
  /\ PointersTypeOK
=============================================================================

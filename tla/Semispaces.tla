---------------------------- MODULE Semispaces ----------------------------
(***************************************************************************)
(* The two halves of the heap of BakerMemoryManager as its lists of roots  *)
(* see them.  A word is reduced to where it points; a collection swaps the *)
(* halves and moves what is reached from a root out of the one it left.    *)
(***************************************************************************)
VARIABLE activeHeap   \* m_activeHeapOne: which semispace is active

Halves == {"one", "two"}

OtherHeap(h) == IF h = "one" THEN "two" ELSE "one"

\* Mutant: the old address is answered.
moveObjectForgotten(v, active) == v

(***************************************************************************)
(* The result of moveObject() once a half has become active: it moves what *)
(* is in the old half and returns any other word as it is.                 *)
(***************************************************************************)
moveObject(v, active) == IF v = OtherHeap(active) THEN active ELSE v
=============================================================================

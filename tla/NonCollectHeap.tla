--------------------------- MODULE NonCollectHeap ---------------------------
(***************************************************************************)
(* NonCollectMemoryManager: a heap that is abandoned for a fresh one when  *)
(* a request does not fit.  Addresses are byte offsets from m_heapBase.    *)
(*                                                                         *)
(* main() calls initializeHeap() and the image loader initializeStaticHeap *)
(* after it; the latter stores its size in m_heapSize, so every heap but   *)
(* the first is as large as the static one.                                *)
(***************************************************************************)
EXTENDS Integers

CONSTANTS
  WordValues,        \* number of values of size_t and an address
  Addresses,         \* where malloc() may place a heap
  InitialHeapSizes,  \* arguments of initializeHeap()
  StaticHeapSizes,   \* arguments of initializeStaticHeap()
  Requests,          \* sizes the virtual machine asks for
  MaxHeaps           \* bound: heaps obtained from malloc

VARIABLES
  heapSize,     \* m_heapSize
  pointer,      \* m_heapPointer - m_heapBase
  heaps,        \* m_usedHeaps.size()
  live,         \* ghost: bytes handed out and still reachable
  pc,           \* "attempt" inside allocate(), "aborted" when malloc failed
  request,      \* requestedSize
  gcOccured,    \* *gcOccured
  result,       \* outcome of the last call
  below         \* a pointer outside of its heap was handed out

vars == <<heapSize, pointer, heaps, live, pc, request, gcOccured, result, below>>

Padded(n) == (((n + 3) % WordValues) \div 4) * 4

Init ==
  /\ \E n \in InitialHeapSizes : pointer = Padded(n)
  /\ \E n \in StaticHeapSizes : heapSize = Padded(n)
  /\ heaps = 1
  /\ live = 0
  /\ pc = "idle" /\ request = 0 /\ gcOccured = FALSE /\ result = "none"
  /\ below = FALSE

Allocate(r) ==
  /\ pc = "idle" /\ ~below
  /\ pc' = "attempt"
  /\ request' = r
  /\ gcOccured' = FALSE
  /\ result' = "none"
  /\ UNCHANGED <<heapSize, pointer, heaps, live, below>>

\* m_heapPointer - requestedSize < m_heapBase, with the heap at b: it may wrap.
TooSmallAt(b) == (b + pointer - request) % WordValues < b

\* The request does not fit: a fresh heap of m_heapSize bytes.
growHeap ==
  /\ pc = "attempt" /\ ~below
  /\ pointer < request /\ request <= heapSize
  /\ \E b \in Addresses : TooSmallAt(b)
  /\ heaps < MaxHeaps
  /\ heaps' = heaps + 1
  /\ pointer' = heapSize
  /\ gcOccured' = TRUE
  /\ UNCHANGED <<heapSize, live, pc, request, result, below>>

\* The fresh heap is too small as well, which nothing checks: the pointer
\* that allocate() returns lies below its base.
GrowTooLittle ==
  /\ pc = "attempt" /\ ~below
  /\ pointer < request /\ request > heapSize
  /\ \E b \in Addresses : TooSmallAt(b)
  /\ heaps < MaxHeaps
  /\ below' = TRUE
  /\ UNCHANGED <<heapSize, pointer, heaps, live, pc, request, gcOccured, result>>

\* malloc() has no memory for a fresh heap: abort().
GrowFails ==
  /\ pc = "attempt" /\ ~below
  /\ pointer < request
  /\ \E b \in Addresses : TooSmallAt(b)
  /\ heaps < MaxHeaps
  /\ pc' = "aborted"
  /\ UNCHANGED <<heapSize, pointer, heaps, live, request, gcOccured, result, below>>

\* The request only seems to fit, because the difference wrapped around.
BumpBelow ==
  /\ pc = "attempt" /\ ~below
  /\ pointer < request
  /\ \E b \in Addresses : ~TooSmallAt(b)
  /\ below' = TRUE
  /\ UNCHANGED <<heapSize, pointer, heaps, live, pc, request, gcOccured, result>>

Bump ==
  /\ pc = "attempt" /\ ~below
  /\ request <= pointer
  /\ pointer' = pointer - request
  /\ live' = live + request
  /\ pc' = "idle"
  /\ result' = "memory"
  /\ UNCHANGED <<heapSize, heaps, request, gcOccured, below>>

\* The program drops references; nobody collects them.
Drop(n) ==
  /\ pc = "idle" /\ ~below
  /\ n <= live
  /\ live' = live - n
  /\ UNCHANGED <<heapSize, pointer, heaps, pc, request, gcOccured, result, below>>

Answer == growHeap \/ GrowTooLittle \/ GrowFails \/ BumpBelow \/ Bump

Next ==
  \/ \E r \in Requests : Allocate(r) \/ Drop(r)
  \/ Answer
=============================================================================

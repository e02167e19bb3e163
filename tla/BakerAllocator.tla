--------------------------- MODULE BakerAllocator ---------------------------
(***************************************************************************)
(* Space management of BakerMemoryManager: allocate(), growHeap() and      *)
(* collectGarbage() seen as arithmetic on the bounds of two semispaces.    *)
(* Addresses are byte offsets from the base of the semispace; objects are  *)
(* reduced to the number of bytes that are still reachable.  What the      *)
(* collector does to the objects themselves is in module MoveObject.       *)
(***************************************************************************)
EXTENDS Integers

CONSTANTS
  WordValues,        \* number of values of uint32_t, size_t and an address
  Addresses,         \* where malloc() may place a half
  InitialHeapSizes,  \* arguments of initializeHeap()
  MaxHeapSize,       \* m_maxHeapSize
  Requests           \* padded sizes the virtual machine asks for

ASSUME BakerAllocatorAssumption ==
  /\ WordValues \in Nat \ {0} /\ WordValues % 8 = 0
  /\ Addresses \subseteq 1 .. WordValues - 1
  /\ InitialHeapSizes \subseteq 0 .. WordValues - 1
  /\ MaxHeapSize \in 0 .. WordValues - 1
  /\ Requests \subseteq 0 .. WordValues - 1

VARIABLES
  heapSize,     \* m_heapSize: nominal size of both semispaces together
  capacity,     \* bytes really obtained from malloc/realloc, per semispace
  active,       \* m_activeHeapOne: index of the active semispace
  pointer,      \* m_activeHeapPointer - m_activeHeapBase
  top,          \* ghost: where the pointer started in this semispace
  live,         \* ghost: bytes of the active semispace that are reachable
  grown,        \* newHeapSize of the last growHeap()
  pc,           \* "idle", "attempt" in the loop of allocate(), a step of growHeap()
  request,      \* requestedSize of the current or last call
  attempts,     \* attempts left
  gcOccured,    \* *gcOccured, the flag reported to the virtual machine
  path,         \* ghost: "fits", "large" (quick check grew) or "grown" (loop grew)
  result,       \* outcome of the last call: "none", "memory", "null"
  wrapped,      \* ghost: some computation did not fit a word
  wild          \* ghost: memory outside of the halves was written or handed out

heapVars == <<heapSize, capacity, active, pointer, top, live>>
callVars == <<pc, request, attempts, gcOccured, path, result>>
ghostVars == <<wrapped, wild>>
vars == <<heapVars, grown, callVars, ghostVars>>

Spaces == {1, 2}
Other(s) == 3 - s

correctPadding(n) == (((n + 3) % WordValues) \div 4) * 4

Mediane == heapSize \div 2

(***************************************************************************)
(* initializeHeap(): two zeroed halves, the first one active and empty.    *)
(***************************************************************************)
Init ==
  /\ \E n \in InitialHeapSizes : heapSize = correctPadding(n)
  /\ capacity = [s \in Spaces |-> Mediane]
  /\ active = 1
  /\ pointer = Mediane
  /\ top = Mediane
  /\ live = 0
  /\ grown = 0
  /\ pc = "idle" /\ request = 0 /\ attempts = 0
  /\ gcOccured = FALSE /\ path = "fits" /\ result = "none"
  /\ wrapped = FALSE /\ wild = FALSE

(***************************************************************************)
(* collectGarbage(): swap the halves and copy the live bytes to the top of *)
(* the new active one.  The copy starts at the mediane: when the block is  *)
(* smaller, it leaves the block.                                           *)
(***************************************************************************)
\* Mutant: objects reached twice are copied twice.
collectGarbageCopiesTwice ==
  /\ active' = Other(active)
  /\ top' = Mediane
  /\ pointer' = Mediane - 2 * live
  /\ wild' = (capacity[Other(active)] < Mediane)

collectGarbage ==
  /\ active' = Other(active)
  /\ top' = Mediane
  /\ pointer' = Mediane - live
  /\ wild' = (capacity[Other(active)] < Mediane)

(***************************************************************************)
(* The size growHeap() picks: half as much again plus twice the request,   *)
(* padded in the arithmetic of uint32_t, then adjusted until each half is  *)
(* word aligned.                                                           *)
(***************************************************************************)
\* Mutant: the request is counted once, as if only one half needed room for it.
EnlargedOnce(n) == correctPadding(n + heapSize + heapSize \div 2)

Enlarged(n) == correctPadding(2 * n + heapSize + heapSize \div 2)

\* Mutant: growHeap() leaves the half where the padding put it.
AlignHalfNot(n) == n

AlignHalf(n) == IF (n \div 2) % 4 = 0 THEN n ELSE correctPadding(n + 1)

\* The sum and what the two paddings may add do not fit a word.
SumWraps(n) == 2 * n + heapSize + heapSize \div 2 + 7 >= WordValues

\* growHeap() is called.
StartGrowth(n) ==
  /\ grown' = AlignHalf(Enlarged(n))
  /\ wrapped' = (wrapped \/ SumWraps(n))
  /\ pc' = "reallocInactive"

(***************************************************************************)
(* growHeap(): each half is reallocated while it is the inactive one and   *)
(* then collected into.  Both collections start from the old mediane,      *)
(* m_heapSize is set last.  A size of 0 counts as failure with realloc().  *)
(***************************************************************************)
Realloc ==
  /\ grown > 0
  /\ capacity' = [capacity EXCEPT ![Other(active)] = grown \div 2]
  /\ UNCHANGED <<heapSize, active, pointer, top, live, grown, request, attempts,
                 gcOccured, path, result, ghostVars>>

ReallocInactive == pc = "reallocInactive" /\ pc' = "collectOut" /\ Realloc

CollectOut ==
  /\ pc = "collectOut" /\ pc' = "reallocOther"
  /\ collectGarbage
  /\ UNCHANGED <<heapSize, capacity, live, grown, request, attempts, gcOccured, path,
                 result, wrapped>>

\* Mutant: the half that was active at the call keeps its old block.
ReallocOtherForgotten ==
  /\ pc = "reallocOther" /\ pc' = "collectBack"
  /\ UNCHANGED <<heapVars, grown, request, attempts, gcOccured, path, result, ghostVars>>

ReallocOther == pc = "reallocOther" /\ pc' = "collectBack" /\ Realloc

CollectBack ==
  /\ pc = "collectBack" /\ pc' = "attempt"
  /\ collectGarbage
  /\ heapSize' = grown
  /\ UNCHANGED <<capacity, live, grown, request, attempts, gcOccured, path, result, wrapped>>

\* realloc() answers null and growHeap() calls abort().
ReallocFails ==
  /\ pc \in {"reallocInactive", "reallocOther"}
  /\ pc' = "aborted"
  /\ UNCHANGED <<heapVars, grown, request, attempts, gcOccured, path, result, ghostVars>>

(***************************************************************************)
(* Entry of allocate(): a request larger than a half either grows the heap *)
(* at once or is refused when that would exceed the limit.                 *)
(***************************************************************************)
AllocateLarge(r) ==
  /\ pc = "idle"
  /\ r > Mediane
  /\ Enlarged(r) < MaxHeapSize
  /\ StartGrowth(r)
  /\ request' = r
  /\ attempts' = 2
  /\ gcOccured' = TRUE
  /\ path' = "large"
  /\ result' = "none"
  /\ UNCHANGED <<heapVars, wild>>

AllocateRefused(r) ==
  /\ pc = "idle"
  /\ r > Mediane
  /\ Enlarged(r) >= MaxHeapSize
  /\ request' = r
  /\ attempts' = 0
  /\ gcOccured' = FALSE
  /\ path' = "fits"
  /\ result' = "null"
  /\ UNCHANGED <<heapVars, grown, pc, ghostVars>>

\* Mutant: one attempt, so the collection is never followed by a retry.
AllocateOnce(r) ==
  /\ pc = "idle"
  /\ r <= Mediane
  /\ pc' = "attempt"
  /\ request' = r
  /\ attempts' = 1
  /\ gcOccured' = FALSE
  /\ path' = "fits"
  /\ result' = "none"
  /\ UNCHANGED <<heapVars, grown, ghostVars>>

Allocate(r) ==
  /\ pc = "idle"
  /\ r <= Mediane
  /\ pc' = "attempt"
  /\ request' = r
  /\ attempts' = 2
  /\ gcOccured' = FALSE
  /\ path' = "fits"
  /\ result' = "none"
  /\ UNCHANGED <<heapVars, grown, ghostVars>>

(***************************************************************************)
(* The test m_activeHeapPointer - requestedSize < m_activeHeapBase, with   *)
(* the half at address b: the difference of a pointer and a larger number  *)
(* wraps around to a high address, which is not below the base.            *)
(***************************************************************************)
TooSmallAt(b) == (b + pointer - request) % WordValues < b

(***************************************************************************)
(* One turn of the loop: bump the pointer if the request fits ...          *)
(***************************************************************************)
Bump ==
  /\ pc = "attempt" /\ attempts > 0
  /\ request <= pointer
  /\ pointer' = pointer - request
  /\ live' = live + request
  /\ pc' = "idle"
  /\ attempts' = attempts - 1
  /\ result' = "memory"
  /\ UNCHANGED <<heapSize, capacity, active, top, grown, request, gcOccured, path, ghostVars>>

\* ... or if it only seems to.  What the caller then does cannot be said.
BumpWild ==
  /\ pc = "attempt" /\ attempts > 0
  /\ request > pointer /\ \E b \in Addresses : ~TooSmallAt(b)
  /\ wrapped' = TRUE /\ wild' = TRUE
  /\ UNCHANGED <<heapVars, grown, callVars>>

(***************************************************************************)
(* ... or collect, grow if less than a sixteenth is left and the limit is  *)
(* not reached, and try again.                                             *)
(***************************************************************************)
\* Mutant: the loop does not look at the limit.
TooLittleLeftUnlimited == Mediane - live < heapSize \div 16

TooLittleLeft ==
  /\ Mediane - live < heapSize \div 16
  /\ heapSize < MaxHeapSize

\* Mutant: a collection does not use up an attempt.
CollectForever ==
  /\ pc = "attempt" /\ attempts > 0
  /\ request > pointer /\ \E b \in Addresses : TooSmallAt(b)
  /\ ~TooLittleLeft
  /\ collectGarbage
  /\ gcOccured' = TRUE
  /\ UNCHANGED <<heapSize, capacity, live, grown, attempts, pc, request, path, result, wrapped>>

Collect ==
  /\ pc = "attempt" /\ attempts > 0
  /\ request > pointer /\ \E b \in Addresses : TooSmallAt(b)
  /\ ~TooLittleLeft
  /\ collectGarbage
  /\ attempts' = attempts - 1
  /\ gcOccured' = TRUE
  /\ UNCHANGED <<heapSize, capacity, live, grown, pc, request, path, result, wrapped>>

CollectAndGrow ==
  /\ pc = "attempt" /\ attempts > 0
  /\ request > pointer /\ \E b \in Addresses : TooSmallAt(b)
  /\ TooLittleLeft
  /\ collectGarbage
  /\ StartGrowth(request)
  /\ attempts' = attempts - 1
  /\ gcOccured' = TRUE
  /\ path' = IF path = "large" THEN "large" ELSE "grown"
  /\ UNCHANGED <<heapSize, capacity, live, request, result>>

Exhausted ==
  /\ pc = "attempt"
  /\ attempts = 0
  /\ pc' = "idle"
  /\ result' = "null"
  /\ UNCHANGED <<heapVars, grown, request, attempts, gcOccured, path, ghostVars>>

(***************************************************************************)
(* Between calls the program drops references (in units of a word), and    *)
(* primitive 254 may collect explicitly.                                   *)
(***************************************************************************)
Drop(n) ==
  /\ pc = "idle"
  /\ n <= live
  /\ live' = live - n
  /\ UNCHANGED <<heapSize, capacity, active, pointer, top, grown, callVars, ghostVars>>

ForceCollection ==
  /\ pc = "idle"
  /\ collectGarbage
  /\ UNCHANGED <<heapSize, capacity, live, grown, callVars, wrapped>>

\* allocate() and growHeap() once entered.
Answer ==
  \/ Bump \/ BumpWild \/ Collect \/ CollectAndGrow \/ Exhausted
  \/ ReallocInactive \/ CollectOut \/ ReallocOther \/ CollectBack \/ ReallocFails

\* Nothing can be said of the program once it went wild.
Next ==
  /\ ~wild
  /\ \/ \E r \in Requests : AllocateLarge(r) \/ AllocateRefused(r) \/ Allocate(r)
     \/ Answer
     \/ \E n \in Requests : Drop(n)
     \/ ForceCollection

Spec == Init /\ [][Next]_vars

-----------------------------------------------------------------------------
Growing == {"reallocInactive", "collectOut", "reallocOther", "collectBack"}

TypeOK ==
  /\ heapSize \in Nat
  /\ capacity \in [Spaces -> Nat]
  /\ active \in Spaces
  /\ pointer \in Nat
  /\ top \in Nat
  /\ live \in Nat
  /\ grown \in Nat
  /\ pc \in {"idle", "attempt", "aborted"} \union Growing
  /\ request \in Nat
  /\ attempts \in 0 .. 2
  /\ gcOccured \in BOOLEAN
  /\ path \in {"fits", "large", "grown"}
  /\ result \in {"none", "memory", "null"}
  /\ wrapped \in BOOLEAN
  /\ wild \in BOOLEAN

(***************************************************************************)
(* Memory safety of the semispaces, across any interleaving of growth and  *)
(* collection and in the middle of a growth too: the live objects lie      *)
(* between the allocation pointer and the place it started from, and that  *)
(* place is inside the block malloc returned.  Memory outside of the       *)
(* blocks is only touched after a request so large that the size of the    *)
(* grown heap, or the pointer that is tested, wrapped around; without such *)
(* a request the half that collectGarbage() copies to and clears always    *)
(* fits into its block.                                                    *)
(***************************************************************************)
SpacesFit ==
  /\ ~wild => live <= top - pointer /\ top <= capacity[active]
  /\ wild => wrapped
  /\ ~wrapped => \A s \in Spaces : Mediane <= capacity[s]

(***************************************************************************)
(* A collection can always be completed: everything reachable fits below   *)
(* the mediane collectGarbage() copies to, although growHeap() changes     *)
(* m_heapSize only after its two collections.                              *)
(***************************************************************************)
CopyFits == ~wild => live <= Mediane

(***************************************************************************)
(* The quick check of allocate() grows the heap enough: a request larger   *)
(* than a half that passed the limit check is served within the two        *)
(* attempts of the loop.  The exception is what the check cannot see: a    *)
(* request for which the sum it compares with the limit wraps around.      *)
(***************************************************************************)
LargeRequestServed == path = "large" /\ ~wrapped => result # "null"

(***************************************************************************)
(* When the loop of allocate() gives up without having grown the heap, the *)
(* request really does not fit beside the live objects.                    *)
(***************************************************************************)
NullMeansFull ==
  [][pc = "attempt" /\ result' = "null" /\ path = "fits" => request > Mediane - live]_vars

(***************************************************************************)
(* m_maxHeapSize is a soft limit.  The loop of allocate() compares the     *)
(* size the heap has, not the one it is about to get, so a heap that grew  *)
(* may exceed the limit, but by one growth only: half as much again and    *)
(* twice the request it grew for, with two roundings.                      *)
(***************************************************************************)
LimitOvershotOnce ==
  [][heapSize' # heapSize => heapSize' <= MaxHeapSize + MaxHeapSize \div 2 + 2 * request + 8]_vars

(***************************************************************************)
(* allocate() hands out word boundaries as long as the initial halves and  *)
(* the requests are whole words: growHeap() realigns the half, and the     *)
(* pointer a growth or a collection leaves starts from an aligned mediane. *)
(***************************************************************************)
PointerAligned ==
  /\ \A n \in InitialHeapSizes : correctPadding(n) % 8 = 0
  /\ \A r \in Requests : r % 4 = 0
  => pointer % 4 = 0
=============================================================================

--------------------------- MODULE MemoryManagers ---------------------------
(***************************************************************************)
(* The memory manager main() creates for --mm_type, and what it implements.*)
(* The copying one is BakerAllocator, the other one NonCollectHeap; only   *)
(* one of them is ever called.                                             *)
(***************************************************************************)
EXTENDS BakerAllocator

CONSTANTS
  StaticHeapSizes,   \* sizes Image::loadImage() asks for the static heap
  MaxHeaps           \* bound: heaps of the non-collecting manager

ASSUME MemoryManagersAssumption ==
  /\ StaticHeapSizes \subseteq Nat
  /\ MaxHeaps \in Nat

VARIABLES
  mmType,       \* the manager main() creates: "copy" or "nc"
  ncHeapSize, ncPointer, ncHeaps, ncLive, ncPc, ncRequest, ncGcOccured, ncResult, ncBelow

ncVars == <<ncHeapSize, ncPointer, ncHeaps, ncLive, ncPc, ncRequest, ncGcOccured, ncResult, ncBelow>>
allVars == <<mmType, vars, ncVars>>

NC == INSTANCE NonCollectHeap WITH
  heapSize <- ncHeapSize, pointer <- ncPointer, heaps <- ncHeaps, live <- ncLive,
  pc <- ncPc, request <- ncRequest, gcOccured <- ncGcOccured, result <- ncResult,
  below <- ncBelow

ManagersInit ==
  /\ mmType \in {"copy", "nc"}
  /\ Init
  /\ NC!Init

CopyStep == mmType = "copy" /\ Next /\ UNCHANGED <<mmType, ncVars>>

NonCollectStep == mmType = "nc" /\ NC!Next /\ UNCHANGED <<mmType, vars>>

(***************************************************************************)
(* The loop of allocate() and its return, once it was entered.             *)
(***************************************************************************)
Proceed ==
  \/ /\ mmType = "copy"
     /\ ~wild /\ Answer
     /\ UNCHANGED <<mmType, ncVars>>
  \/ /\ mmType = "nc"
     /\ NC!Answer
     /\ UNCHANGED <<mmType, vars>>

ManagersSpec == ManagersInit /\ [][CopyStep \/ NonCollectStep]_allVars

\* allocate() is ordinary code: once called it is executed to its end.
FairSpec == ManagersSpec /\ WF_allVars(Proceed)

-----------------------------------------------------------------------------
Arena == INSTANCE MemoryManager WITH
  phase <- IF (IF mmType = "copy" THEN pc ELSE ncPc) = "idle" THEN "idle" ELSE "attempt",
  request <- IF mmType = "copy" THEN request ELSE ncRequest,
  room <- IF mmType = "copy" THEN pointer ELSE ncPointer,
  live <- IF mmType = "copy" THEN live ELSE ncLive,
  result <- IF mmType = "copy" THEN result ELSE ncResult

(***************************************************************************)
(* The manager the virtual machine runs on implements MemoryManager: the   *)
(* copying allocator through its collections, growths and retries, the     *)
(* non-collecting one through its changes of heap, up to the request that  *)
(* its too small heap cannot hold.                                         *)
(***************************************************************************)
ImplementsMemoryManager == Arena!Spec

(***************************************************************************)
(* allocate() returns: two attempts are enough for the loop of the copying *)
(* manager to end in memory or null, however collections and growth follow *)
(* one another, unless malloc has no more or the manager left its heap;    *)
(* and so does the non-collecting one unless its bound on heaps is reached.*)
(***************************************************************************)
RequestsAnswered ==
  /\ (pc # "idle") ~> (pc \in {"idle", "aborted"} \/ wild)
  /\ (ncPc # "idle") ~> (ncPc \in {"idle", "aborted"} \/ ncBelow \/ ncHeaps = MaxHeaps)
=============================================================================

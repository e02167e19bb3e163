--------------------------- MODULE MemoryManager ---------------------------
(***************************************************************************)
(* What IMemoryManager promises to the virtual machine, whichever manager  *)
(* main() creates: requests are answered one at a time, memory comes out   *)
(* of free room nobody else was given, and whatever the manager does       *)
(* between two answers never takes away room or reachable objects.         *)
(***************************************************************************)
EXTENDS Integers

VARIABLES
  phase,     \* "attempt" while allocate() runs, "idle" otherwise
  request,   \* the size asked for last
  room,      \* bytes that can be handed out without collecting or growing
  live,      \* bytes handed out and still reachable
  result     \* the answer to the last request: "none" yet, "memory" or "null"

arena == <<phase, request, room, live, result>>

Init ==
  /\ phase = "idle" /\ request = 0 /\ result = "none"
  /\ room \in Nat /\ live = 0

MoreRoom == room' \in Nat /\ room' >= room

\* allocate() is called; the manager may make room at once.
Ask ==
  /\ phase = "idle" /\ phase' = "attempt"
  /\ request' \in Nat
  /\ MoreRoom
  /\ result' = "none"
  /\ UNCHANGED live

\* Collecting, growing or moving objects: room is gained, nothing is lost.
Reclaim == MoreRoom /\ UNCHANGED <<phase, request, live, result>>

\* Exactly the bytes asked for leave the free room and belong to the caller.
Serve ==
  /\ phase = "attempt" /\ phase' = "idle"
  /\ request <= room
  /\ room' = room - request
  /\ live' = live + request
  /\ result' = "memory"
  /\ UNCHANGED request

\* Null for the request that is under way.
Refuse ==
  /\ phase = "attempt" /\ phase' = "idle"
  /\ result' = "null"
  /\ UNCHANGED <<request, room, live>>

\* A request that is refused at once leaves everything as it was.
AskRefused ==
  /\ phase = "idle"
  /\ request' \in Nat
  /\ result' = "null"
  /\ UNCHANGED <<phase, room, live>>

\* The program drops references: the memory is not free before it is reclaimed.
Drop ==
  /\ phase = "idle"
  /\ live' \in 0 .. live
  /\ UNCHANGED <<phase, request, room, result>>

Next == Ask \/ Reclaim \/ Serve \/ Refuse \/ AskRefused \/ Drop

Spec == Init /\ [][Next]_arena
=============================================================================

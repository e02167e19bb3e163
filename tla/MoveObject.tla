----------------------------- MODULE MoveObject -----------------------------
(***************************************************************************)
(* BakerMemoryManager::moveObject() and moveObjects(): the copying phase   *)
(* of a collection.  moveObject() is a depth first copy without a stack:   *)
(* the way back is threaded through the half-copied objects themselves     *)
(* (pointer reversal), the index of the field being copied is kept in the  *)
(* size word of the old object, and the field it is copied from holds the  *)
(* forwarding pointer to the copy.                                         *)
(*                                                                         *)
(* A word is an address (a natural number, 0 is the null pointer) or       *)
(* SmallInt.  An object is addressed by its first word; data[0] is its     *)
(* class, data[1] .. data[n] the fields of an ordinary object.  The bytes  *)
(* of a binary object are abstracted to the number of words they take.     *)
(***************************************************************************)
EXTENDS Integers, FiniteSets, FiniteSetsExt

CONSTANTS
  SmallInt,      \* any word with the lowest bit set
  ActiveBase,    \* m_activeHeapBase
  ActiveTop,     \* m_activeHeapBase + half
  OldSpace,      \* addresses between m_inactiveHeapPointer and its top
  Slots,         \* how many root slots there are
  InitialHeaps   \* the object graphs of the old space before a collection

Object(n, isBinary, words) ==
  [size |-> n, binary |-> isBinary, relocated |-> FALSE, data |-> words]

\* The words of the data of an object: a binary one has its class only.
Words(o) == IF o.binary THEN {0} ELSE 0 .. o.size

\* The addresses an object at address a takes: size, class and fields.
Block(a, o) == a .. a + o.size + 1

(***************************************************************************)
(* A heap that a collection starts from: objects that lie side by side in  *)
(* the old space and have a class, and words that are small integers,      *)
(* addresses of such objects or addresses outside of the old space.        *)
(***************************************************************************)
WellFormed(h) ==
  LET Word == {SmallInt} \union DOMAIN h.mem \union (Nat \ OldSpace)
  IN  /\ DOMAIN h.mem \subseteq OldSpace
      /\ \A a \in DOMAIN h.mem :
           LET o == h.mem[a] IN
           /\ o = Object(o.size, o.binary, o.data)
           /\ o.size \in Nat /\ o.binary \in BOOLEAN
           /\ o.data \in [Words(o) -> Word] /\ o.data[0] # 0
           /\ Block(a, o) \subseteq OldSpace
           /\ \A b \in DOMAIN h.mem \ {a} : Block(a, o) \intersect Block(b, h.mem[b]) = {}
      /\ h.slot \in [1 .. Slots -> Word]

ASSUME MoveObjectAssumption ==
  /\ SmallInt \notin Nat /\ Slots \in Nat
  /\ ActiveBase \in Nat \ {0} /\ ActiveTop \in Nat /\ ActiveBase <= ActiveTop
  /\ OldSpace \subseteq Nat \ {0} /\ OldSpace \intersect ActiveBase .. ActiveTop - 1 = {}
  /\ IsFiniteSet(OldSpace) /\ Cardinality(OldSpace) <= ActiveTop - ActiveBase

ASSUME HeapsAssumption == \A h \in InitialHeaps : WellFormed(h)

VARIABLES
  mem,                \* objects by address, old and new
  activeHeapPointer,  \* m_activeHeapPointer
  slot,               \* the static root slots, then the external pointers
  next,               \* the slot moveObjects() is at
  currentObject,      \* locals of moveObject()
  previousObject,
  replacement,
  pc,                 \* "down": stage 1, "up": stage 2, "root", "done"
  origMem,            \* ghost: mem before the collection
  origSlot            \* ghost: slot before the collection

locals == <<currentObject, previousObject, replacement>>
ghosts == <<origMem, origSlot>>
vars == <<mem, activeHeapPointer, slot, next, locals, pc, ghosts>>

Init ==
  /\ \E h \in InitialHeaps : mem = h.mem /\ slot = h.slot
  /\ activeHeapPointer = ActiveTop
  /\ next = 1
  /\ currentObject = 0
  /\ previousObject = 0
  /\ replacement = 0
  /\ pc = "root"
  /\ origMem = mem
  /\ origSlot = slot

isSmallInteger(w) == w = SmallInt

inOldSpace(a) == a \in OldSpace

(***************************************************************************)
(* Where a relocated object keeps the pointer to its copy.                 *)
(***************************************************************************)
ForwardIndex(o) == IF o.binary THEN 0 ELSE o.size

Forward(a) == mem[a].data[ForwardIndex(mem[a])]

(***************************************************************************)
(* moveObjects(): each root slot in turn is replaced by the new address of *)
(* what it held.                                                           *)
(***************************************************************************)
MoveRoot ==
  /\ pc = "root"
  /\ next <= Slots
  /\ currentObject' = slot[next]
  /\ previousObject' = 0
  /\ replacement' = 0
  /\ pc' = "down"
  /\ UNCHANGED <<mem, activeHeapPointer, slot, next, ghosts>>

MoveObjectsDone ==
  /\ pc = "root"
  /\ next > Slots
  /\ pc' = "done"
  /\ UNCHANGED <<mem, activeHeapPointer, slot, next, locals, ghosts>>

(***************************************************************************)
(* Stage 1 stops at a small integer, at a word outside the old space and   *)
(* at an object that already has a copy, and turns back.                   *)
(***************************************************************************)
TurnBack(word) ==
  /\ replacement' = word
  /\ currentObject' = previousObject
  /\ pc' = "up"
  /\ UNCHANGED <<mem, activeHeapPointer, slot, next, previousObject, ghosts>>

KeepWord ==
  /\ pc = "down"
  /\ isSmallInteger(currentObject) \/ ~inOldSpace(currentObject)
  /\ TurnBack(currentObject)

FollowForward ==
  /\ pc = "down"
  /\ ~isSmallInteger(currentObject) /\ inOldSpace(currentObject)
  /\ mem[currentObject].relocated
  /\ TurnBack(Forward(currentObject))

(***************************************************************************)
(* Stage 1, an object met for the first time: reserve its copy, mark it,   *)
(* leave the way back in the copy and the forwarding pointer in the        *)
(* original, both at index i, and go on to what the original held there:   *)
(* the class of a binary object, the last field of an ordinary one (its    *)
(* class when it has no fields).                                           *)
(***************************************************************************)
\* Mutant: the copy gets no room for the class pointer.
RoomNoClass(o) == o.size + 1

Room(o) == o.size + 2

Descend ==
  LET o    == mem[currentObject]
      i    == ForwardIndex(o)
      copy == activeHeapPointer - Room(o)
      blank == [k \in DOMAIN o.data |-> IF k = i THEN previousObject ELSE 0]
  IN
  /\ pc = "down"
  /\ ~isSmallInteger(currentObject) /\ inOldSpace(currentObject)
  /\ ~o.relocated
  /\ activeHeapPointer' = copy
  /\ mem' = [a \in DOMAIN mem \union {copy} |->
               IF a = copy THEN Object(o.size, o.binary, blank)
               ELSE IF a = currentObject
                    THEN [o EXCEPT !.relocated = TRUE, !.data[i] = copy]
                    ELSE mem[a]]
  /\ previousObject' = currentObject
  /\ currentObject' = o.data[i]
  /\ UNCHANGED <<slot, next, replacement, pc, ghosts>>

(***************************************************************************)
(* Stage 2, the class of currentObject has been moved and with it the      *)
(* whole object: put the class into the copy and walk up.                  *)
(***************************************************************************)
Ascend ==
  LET o    == mem[currentObject]
      copy == o.data[0]
  IN
  /\ pc = "up"
  /\ currentObject # 0
  /\ o.binary \/ o.size = 0
  /\ mem' = [mem EXCEPT ![copy].data[0] = replacement]
  /\ replacement' = copy
  /\ currentObject' = mem[copy].data[0]
  /\ previousObject' = mem[copy].data[0]
  /\ UNCHANGED <<activeHeapPointer, slot, next, pc, ghosts>>

\* Mutant: the skip does not stop at a field that is not null.
NextFieldClass(o) == 0

\* Mutant: the way back is not carried over to the next field.
NextSiblingNoParent ==
  LET o    == mem[currentObject]
      i    == o.size
      j    == Max({k \in 0 .. o.size - 1 : k = 0 \/ o.data[k] # 0})
      copy == o.data[i]
  IN
  /\ pc = "up"
  /\ currentObject # 0
  /\ ~o.binary /\ o.size > 0
  /\ mem' = [mem EXCEPT ![copy].data[i] = replacement,
                        ![currentObject].size = j,
                        ![currentObject].data[j] = copy]
  /\ previousObject' = currentObject
  /\ currentObject' = o.data[j]
  /\ pc' = "down"
  /\ UNCHANGED <<activeHeapPointer, slot, next, replacement, ghosts>>

(***************************************************************************)
(* Stage 2, a field has been moved: store it, skip the null fields below   *)
(* it, and turn down into the next one (finally into the class).           *)
(***************************************************************************)
NextField(o) == Max({k \in 0 .. o.size - 1 : k = 0 \/ o.data[k] # 0})

NextSibling ==
  LET o    == mem[currentObject]
      i    == o.size
      j    == NextField(o)
      copy == o.data[i]
      filled == [k \in DOMAIN o.data |->
                   IF k = i THEN replacement
                   ELSE IF k = j THEN mem[copy].data[i]
                   ELSE IF k \in j + 1 .. i - 1 THEN 0
                   ELSE mem[copy].data[k]]
  IN
  /\ pc = "up"
  /\ currentObject # 0
  /\ ~o.binary /\ o.size > 0
  /\ mem' = [mem EXCEPT ![copy].data = filled,
                        ![currentObject].size = j,
                        ![currentObject].data[j] = copy]
  /\ previousObject' = currentObject
  /\ currentObject' = o.data[j]
  /\ pc' = "down"
  /\ UNCHANGED <<activeHeapPointer, slot, next, replacement, ghosts>>

\* Mutant: moveObjects() does not step to the next root.
ReturnSameRoot ==
  /\ pc = "up"
  /\ currentObject = 0
  /\ slot' = [slot EXCEPT ![next] = replacement]
  /\ pc' = "root"
  /\ UNCHANGED <<mem, activeHeapPointer, next, locals, ghosts>>

(***************************************************************************)
(* Stage 2 at the root: moveObject() returns and the slot is updated.      *)
(***************************************************************************)
Return ==
  /\ pc = "up"
  /\ currentObject = 0
  /\ slot' = [slot EXCEPT ![next] = replacement]
  /\ next' = next + 1
  /\ pc' = "root"
  /\ UNCHANGED <<mem, activeHeapPointer, locals, ghosts>>

Next ==
  \/ MoveRoot \/ MoveObjectsDone
  \/ KeepWord \/ FollowForward \/ Descend
  \/ Ascend \/ NextSibling \/ Return

Spec == Init /\ [][Next]_vars

FairSpec == Spec /\ WF_vars(Next)

-----------------------------------------------------------------------------
(***************************************************************************)
(* The original graph, reached from the original roots.                    *)
(***************************************************************************)
Pointers(o) == {o.data[k] : k \in DOMAIN o.data}

RootSet == {origSlot[k] : k \in 1 .. Slots}

\* The smallest set of objects that the roots and its own members lead into.
Closed(S) ==
  (RootSet \union UNION {Pointers(origMem[a]) : a \in S}) \intersect OldSpace \subseteq S

Reachable ==
  {a \in DOMAIN origMem : \A S \in SUBSET DOMAIN origMem : Closed(S) => a \in S}

Relocated == {a \in DOMAIN origMem : mem[a].relocated}

\* The address range of the copy of an object of the original graph.
Extent(a) == Block(Forward(a), origMem[a])

TypeOK ==
  /\ DOMAIN origMem \subseteq OldSpace
  /\ DOMAIN mem \subseteq DOMAIN origMem \union ActiveBase .. ActiveTop
  /\ activeHeapPointer \in ActiveBase .. ActiveTop
  /\ next \in 1 .. Slots + 1
  /\ pc \in {"root", "down", "up", "done"}
  /\ isSmallInteger(currentObject) \/ currentObject \in Nat
  /\ previousObject \in {0} \union OldSpace
  /\ \A a \in DOMAIN origMem : mem[a].size \in 0 .. origMem[a].size

(***************************************************************************)
(* While the collector runs, every object it has started on leads to one   *)
(* copy of its own, with the right shape, and no two copies overlap: this  *)
(* is what lets shared and cyclic structure be copied once.  No pointer of *)
(* the collector leaves its space meanwhile.                               *)
(***************************************************************************)
ForwardingExact ==
  /\ TypeOK
  /\ \A a \in Relocated :
       /\ Forward(a) \in DOMAIN mem \ OldSpace
       /\ mem[Forward(a)].size = origMem[a].size
       /\ mem[Forward(a)].binary = origMem[a].binary
       /\ Extent(a) \subseteq activeHeapPointer .. ActiveTop - 1
       /\ \A b \in Relocated \ {a} : Extent(a) \intersect Extent(b) = {}

(***************************************************************************)
(* The way back is never lost: the reversed pointers left in the copies    *)
(* lead from the object being worked on through exactly the objects whose  *)
(* copy is unfinished, to the null pointer that ends moveObject().         *)
(***************************************************************************)
Parent(a) == mem[Forward(a)].data[ForwardIndex(mem[a])]

Unfinished == {a \in Relocated : Parent(a) \in {0} \union OldSpace}

Top == IF pc = "down" THEN previousObject ELSE IF pc = "up" THEN currentObject ELSE 0

\* No step of the way back leads from S to anything but S, or the end.
ClosedWay(S) == Top \in {0} \union S /\ \A a \in S : Parent(a) \in {0} \union S

WayBack ==
  /\ ClosedWay(Unfinished)
  /\ \A S \in SUBSET Unfinished : ClosedWay(S) => S = Unfinished
  /\ Unfinished # {} => \E a \in Unfinished : Parent(a) = 0

(***************************************************************************)
(* After the last root, the new space holds an isomorphic copy of what was *)
(* reachable and nothing else, and every root slot leads into it.          *)
(***************************************************************************)
Image(w) == IF w \in Reachable THEN Forward(w) ELSE w

CopyIsomorphic ==
  pc = "done" =>
    /\ Relocated = Reachable
    /\ \A k \in 1 .. Slots : slot[k] = Image(origSlot[k])
    /\ \A a \in Reachable :
         mem[Forward(a)] = Object(origMem[a].size, origMem[a].binary,
                                  [k \in DOMAIN origMem[a].data |-> Image(origMem[a].data[k])])
    /\ activeHeapPointer .. ActiveTop - 1 = UNION {Extent(a) : a \in Reachable}

(***************************************************************************)
(* The collection terminates on every graph.                               *)
(***************************************************************************)
CollectionTerminates == <>(pc = "done")
=============================================================================

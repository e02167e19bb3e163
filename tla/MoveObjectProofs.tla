-------------------------- MODULE MoveObjectProofs --------------------------
(***************************************************************************)
(* The copying phase of a collection is correct for every object graph,    *)
(* every number of roots and every size of the spaces: the theorems state  *)
(* the three invariants of MoveObject.  They follow from one inductive     *)
(* invariant, IInv, that says of every moment of the traversal what the    *)
(* old objects, the copies, the new space, the way back, the locals of     *)
(* moveObject() and the root slots hold.                                   *)
(***************************************************************************)
EXTENDS MoveObject, TLAPS, FiniteSetTheorems, WellFoundedInduction

\* The objects of the old space.
H == DOMAIN origMem

\* The field a relocated object has its forwarding pointer in.
Index(a) == ForwardIndex(mem[a])

\* What a word of the original graph becomes, once what it points to is moved.
Moved(w) == IF w \in OldSpace THEN Forward(w) ELSE w

Settled(w) == w \in OldSpace => w \in Relocated

\* The field being moved: of the object p, or a root slot when p is 0.
Held(p) == IF p = 0 THEN origSlot[next] ELSE origMem[p].data[Index(p)]

IsObject(o) ==
  o = [size |-> o.size, binary |-> o.binary, relocated |-> o.relocated, data |-> o.data]

\* What the collection started from.
HeapWellFormed == WellFormed([mem |-> origMem, slot |-> origSlot])

\* An old object is as it was until it is relocated; from then on its fields
\* below the one in hand are, and its size word is the index of that one.
Originals ==
  \A a \in H :
    /\ IsObject(mem[a]) /\ mem[a].binary = origMem[a].binary
    /\ mem[a].data = [k \in Words(origMem[a]) |-> mem[a].data[k]]
    /\ ~mem[a].relocated => mem[a] = origMem[a]
    /\ mem[a].relocated =>
         /\ mem[a].size \in 0 .. origMem[a].size
         /\ origMem[a].binary => mem[a].size = origMem[a].size
         /\ \A k \in Words(origMem[a]) : k < Index(a) => mem[a].data[k] = origMem[a].data[k]

\* A copy has the shape of its original, and the words already moved.
Copies ==
  \A a \in Relocated :
    /\ mem[Forward(a)] = Object(origMem[a].size, origMem[a].binary, mem[Forward(a)].data)
    /\ mem[Forward(a)].data = [k \in Words(origMem[a]) |-> mem[Forward(a)].data[k]]
    /\ \A k \in Words(origMem[a]) :
         k > Index(a) \/ a \notin Unfinished =>
           /\ mem[Forward(a)].data[k] = Moved(origMem[a].data[k])
           /\ Settled(origMem[a].data[k])
    /\ a \notin Unfinished => Index(a) = 0

\* The copies fill the new space from its top, side by side.
Tiled ==
  /\ activeHeapPointer \in ActiveBase .. ActiveTop
  /\ DOMAIN mem = H \union {Forward(a) : a \in Relocated}
  /\ \A a \in Relocated : Forward(a) \in Int
  /\ UNION {Extent(a) : a \in Relocated} = activeHeapPointer .. ActiveTop - 1
  /\ \A a, b \in Relocated : a # b => Extent(a) \intersect Extent(b) = {}

\* The pointers left in the copies form a chain without forks, from the object
\* in hand up to the root; the copy of a parent lies above that of its child.
Way ==
  /\ Top \in {0} \union Unfinished
  /\ previousObject \in {0} \union OldSpace
  /\ \A a \in Unfinished :
       /\ Parent(a) \in {0} \union Unfinished
       /\ Held(Parent(a)) = a
       /\ Parent(a) # 0 => Parent(a) # Top /\ Forward(a) < Forward(Parent(a))
       /\ a # Top => \E b \in Unfinished : Parent(b) = a

\* The locals of moveObject() in each of its stages.
InHand ==
  /\ pc \in {"root", "down", "up", "done"}
  /\ next \in 1 .. Slots + 1
  /\ pc \in {"down", "up"} => next <= Slots
  /\ pc = "done" => next = Slots + 1
  /\ pc \in {"root", "done"} => currentObject = 0
  /\ pc = "down" => currentObject = Held(previousObject)
  /\ pc = "up" => replacement = Moved(Held(currentObject)) /\ Settled(Held(currentObject))

\* The slots before next lead to copies, the others hold what they held.
Roots ==
  /\ slot = [k \in 1 .. Slots |-> slot[k]]
  /\ \A k \in 1 .. Slots :
       IF k < next THEN slot[k] = Moved(origSlot[k]) /\ Settled(origSlot[k])
       ELSE slot[k] = origSlot[k]

IInv == HeapWellFormed /\ Originals /\ Copies /\ Tiled /\ Way /\ InHand /\ Roots

LEMMA OldAddresses ==
  /\ OldSpace \subseteq Nat /\ 0 \notin OldSpace /\ SmallInt \notin OldSpace
  /\ ActiveBase \in Nat /\ ActiveTop \in Nat /\ 0 < ActiveBase /\ ActiveBase <= ActiveTop
  /\ \A a \in OldSpace : a \notin ActiveBase .. ActiveTop - 1
<1>1. SmallInt \notin OldSpace
  BY MoveObjectAssumption
<1>2. ActiveBase \in Nat /\ ActiveTop \in Nat /\ 0 < ActiveBase /\ ActiveBase <= ActiveTop
  BY MoveObjectAssumption
<1>3. OldSpace \subseteq Nat /\ 0 \notin OldSpace
  BY MoveObjectAssumption
<1>4. \A a \in OldSpace : a \notin ActiveBase .. ActiveTop - 1
  BY MoveObjectAssumption
<1>5. QED BY <1>1, <1>2, <1>3, <1>4

\* What a word of the original graph can be.
Word == {SmallInt} \union H \union (Nat \ OldSpace)

\* WellFormed, spelled out for the ghost heap.

LEMMA HeapFacts ==
  ASSUME HeapWellFormed
  PROVE  /\ H \subseteq OldSpace
         /\ \A a \in H :
              /\ origMem[a] = Object(origMem[a].size, origMem[a].binary, origMem[a].data)
              /\ origMem[a].size \in Nat /\ origMem[a].binary \in BOOLEAN
              /\ origMem[a].data \in [Words(origMem[a]) -> Word]
              /\ origMem[a].data[0] # 0
              /\ Block(a, origMem[a]) \subseteq OldSpace
              /\ \A b \in H : a # b => Block(a, origMem[a]) \intersect Block(b, origMem[b]) = {}
         /\ origSlot \in [1 .. Slots -> Word]
BY DEF HeapWellFormed, WellFormed, H, Word

LEMMA WordFacts ==
  ASSUME HeapWellFormed, NEW a \in H
  PROVE  /\ 0 \in Words(origMem[a])
         /\ Words(origMem[a]) \subseteq 0 .. origMem[a].size
         /\ ForwardIndex(origMem[a]) \in Words(origMem[a])
         /\ \A k \in Words(origMem[a]) : k <= ForwardIndex(origMem[a])
         /\ \A k \in Words(origMem[a]) : origMem[a].data[k] \in Word
BY HeapFacts DEF Words, ForwardIndex

LEMMA IndexFacts ==
  ASSUME HeapWellFormed, Originals, NEW a \in Relocated
  PROVE  /\ a \in H /\ a \in OldSpace /\ a \in Nat /\ a # 0
         /\ Index(a) = IF origMem[a].binary THEN 0 ELSE mem[a].size
         /\ Index(a) \in Words(origMem[a]) /\ Index(a) \in Nat
         /\ Forward(a) = mem[a].data[Index(a)]
<1>1. a \in H /\ mem[a].relocated
  BY DEF Relocated, H
<1>2. a \in OldSpace /\ a \in Nat /\ a # 0
  BY <1>1, HeapFacts, OldAddresses
<1>3. mem[a].binary = origMem[a].binary
  BY <1>1 DEF Originals
<1>4. Index(a) = IF origMem[a].binary THEN 0 ELSE mem[a].size
  BY <1>3 DEF Index, ForwardIndex
<1>5. mem[a].size \in 0 .. origMem[a].size /\ origMem[a].size \in Nat
  BY <1>1, HeapFacts DEF Originals
<1>6. Index(a) \in Words(origMem[a]) /\ Index(a) \in Nat
  BY <1>4, <1>5 DEF Words
<1>7. QED BY <1>1, <1>2, <1>4, <1>6 DEF Forward, Index

LEMMA ForwardFacts ==
  ASSUME HeapWellFormed, Originals, Tiled, NEW a \in Relocated
  PROVE  /\ Forward(a) \in activeHeapPointer .. ActiveTop - 1
         /\ Forward(a) \in DOMAIN mem
         /\ Forward(a) \notin OldSpace /\ Forward(a) \notin H
         /\ \A b \in Relocated : Forward(a) = Forward(b) => a = b
<1>1. \A b \in Relocated : b \in H /\ Forward(b) \in Int /\ Forward(b) \in Extent(b)
  BY HeapFacts, IndexFacts DEF Tiled, Extent, Block
<1>2. Forward(a) \in activeHeapPointer .. ActiveTop - 1
  BY <1>1 DEF Tiled
<1>3. QED BY <1>1, <1>2, OldAddresses, HeapFacts DEF Tiled

\* A nonempty set of naturals has a least member, a bounded one a greatest.

LEMMA LeastNatural ==
  ASSUME NEW T, T \subseteq Nat, T # {}
  PROVE  \E x \in T : \A y \in T : x <= y
<1>1. PICK x \in T : \A y \in T : ~ (<<y, x>> \in OpToRel(<, Nat))
  BY WFMin, NatLessThanWellFounded
<1>2. \A y \in T : ~ (y < x)
  BY <1>1 DEF OpToRel
<1>3. QED BY <1>2

LEMMA GreatestNatural ==
  ASSUME NEW n \in Nat, NEW T, T \subseteq 0 .. n, T # {}
  PROVE  \E x \in T : \A y \in T : x >= y
<1> DEFINE U == {u \in 0 .. n : n - u \in T}
<1>1. \A x \in T : x \in 0 .. n /\ n - x \in 0 .. n /\ n - (n - x) = x
  OBVIOUS
<1>2. U \subseteq Nat /\ U # {} /\ \A x \in T : n - x \in U
  <2>1. \A x \in T : n - x \in U
    BY <1>1
  <2>2. U \subseteq Nat
    OBVIOUS
  <2>3. U # {}
    BY <2>1, T # {}
  <2>4. QED BY <2>1, <2>2, <2>3
<1>3. PICK u \in U : \A v \in U : u <= v
  <2> HIDE DEF U
  <2> QED BY <1>2, LeastNatural
<1>4. \A y \in T : u <= n - y
  BY <1>2, <1>3
<1>5. \A y \in T : n - u >= y
  BY <1>1, <1>4
<1>6. QED BY <1>5

\* NextField() stops at the next field to move and skips null fields only.

LEMMA NextFieldFacts ==
  ASSUME NEW o, o.size \in Nat, o.size > 0
  PROVE  /\ NextField(o) \in 0 .. o.size - 1
         /\ \A k \in NextField(o) + 1 .. o.size - 1 : o.data[k] = 0
<1> DEFINE S == {k \in 0 .. o.size - 1 : k = 0 \/ o.data[k] # 0}
<1>1. S \subseteq 0 .. o.size /\ 0 \in S
  OBVIOUS
<1>2. \E x \in S : \A y \in S : x >= y
  BY <1>1, GreatestNatural
<1>3. NextField(o) \in S /\ \A y \in S : NextField(o) >= y
  BY <1>2 DEF NextField, Max
<1>4. QED BY <1>3

\* Copies side by side do not take more room than the old space has, and the

\* new space has as much: when there is one of each old object at most (R, at
\* the addresses at), they do not reach below the base of the new space.
LEMMA RoomForCopies ==
  ASSUME HeapWellFormed, NEW R \in SUBSET H, NEW at \in [R -> Int], NEW low \in Int,
         low .. ActiveTop - 1 \subseteq UNION {Block(at[a], origMem[a]) : a \in R}
  PROVE  low >= ActiveBase
<1>1. SUFFICES ASSUME low < ActiveBase PROVE FALSE
  BY OldAddresses
<1> DEFINE X == ActiveBase - 1 .. ActiveTop - 1
           Owner(x) == CHOOSE a \in R : x \in Block(at[a], origMem[a])
           f == [x \in X |-> Owner(x) + (x - at[Owner(x)])]
<1>2. \A x \in X : x \in Int /\ Owner(x) \in R /\ x \in Block(at[Owner(x)], origMem[Owner(x)])
  <2>1. TAKE x \in X
  <2>2. x \in low .. ActiveTop - 1
    BY <1>1, OldAddresses
  <2>3. \E a \in R : x \in Block(at[a], origMem[a])
    BY <2>2
  <2>4. QED BY <2>2, <2>3
<1> HIDE DEF Owner
<1>3. \A x \in X : /\ Owner(x) \in H /\ Owner(x) \in Nat /\ at[Owner(x)] \in Int
                   /\ origMem[Owner(x)].size \in Nat
                   /\ x - at[Owner(x)] \in 0 .. origMem[Owner(x)].size + 1
                   /\ f[x] \in Block(Owner(x), origMem[Owner(x)])
  <2>1. TAKE x \in X
  <2>2. Owner(x) \in H /\ Owner(x) \in Nat /\ at[Owner(x)] \in Int
    BY <1>2, HeapFacts, OldAddresses
  <2>3. origMem[Owner(x)].size \in Nat
    BY <2>2, HeapFacts
  <2>4. x - at[Owner(x)] \in 0 .. origMem[Owner(x)].size + 1
    BY <1>2, <2>2, <2>3 DEF Block
  <2>5. QED BY <2>2, <2>3, <2>4 DEF Block
<1>4. f \in [X -> OldSpace]
  BY <1>3, HeapFacts
<1>5. IsFiniteSet(X) /\ Cardinality(X) = ActiveTop - ActiveBase + 1
  BY FS_Interval, OldAddresses
<1>6. IsFiniteSet(OldSpace) /\ Cardinality(OldSpace) < Cardinality(X)
  <2> HIDE DEF X
  <2>1. IsFiniteSet(OldSpace) /\ Cardinality(OldSpace) \in Nat
        /\ Cardinality(OldSpace) <= ActiveTop - ActiveBase
    BY MoveObjectAssumption, FS_CardinalityType
  <2>2. QED BY <2>1, <1>5, OldAddresses
<1>7. \E x, y \in X : x # y /\ f[x] = f[y]
  <2> HIDE DEF X, f
  <2> QED BY <1>4, <1>5, <1>6, FS_PigeonHole
<1>8. PICK x \in X, y \in X : x # y /\ f[x] = f[y]
  BY <1>7
<1>9. Owner(x) = Owner(y)
  <2>1. f[x] \in Block(Owner(x), origMem[Owner(x)]) \intersect Block(Owner(y), origMem[Owner(y)])
    BY <1>3, <1>8
  <2>2. Owner(x) \in H /\ Owner(y) \in H
    BY <1>3
  <2>3. QED BY <2>1, <2>2, HeapFacts
<1>10. QED BY <1>3, <1>8, <1>9

\* The field in hand holds a word of the original graph.

LEMMA HeldFacts ==
  ASSUME HeapWellFormed, Originals,
         NEW p \in {0} \union Relocated, p = 0 => next \in 1 .. Slots
  PROVE  Held(p) \in Word /\ (Held(p) \in OldSpace => Held(p) \in H)
<1>1. Held(p) \in Word
  <2>1. CASE p = 0
    BY <2>1, HeapFacts DEF Held
  <2>2. CASE p # 0
    BY <2>2, IndexFacts, WordFacts DEF Held
  <2>3. QED BY <2>1, <2>2
<1>2. QED BY <1>1, OldAddresses DEF Word

\* The way back leads through every unfinished object.

LEMMA WholeWay ==
  ASSUME HeapWellFormed, Originals, Tiled, Way,
         NEW S \in SUBSET Unfinished, ClosedWay(S)
  PROVE  S = Unfinished
<1>1. SUFFICES ASSUME Unfinished \ S # {} PROVE FALSE
  OBVIOUS
<1> DEFINE F == {Forward(a) : a \in Unfinished \ S}
<1>2. \A a \in Unfinished : a \in Relocated /\ Forward(a) \in Nat /\ a # 0
  BY ForwardFacts, IndexFacts, OldAddresses DEF Tiled, Unfinished
<1>3. F \subseteq Nat /\ F # {}
  BY <1>1, <1>2
<1>4. PICK x \in F : \A y \in F : x <= y
  <2> HIDE DEF F
  <2> QED BY <1>3, LeastNatural
<1>5. PICK a \in Unfinished \ S : x = Forward(a)
  BY <1>4
<1>6. a # Top
  BY <1>2, <1>5 DEF ClosedWay
<1>7. PICK b \in Unfinished : Parent(b) = a
  BY <1>5, <1>6 DEF Way
<1>8. Forward(b) < Forward(a)
  BY <1>2, <1>5, <1>7 DEF Way
<1>9. b \in S
  BY <1>2, <1>4, <1>5, <1>8
<1>10. QED BY <1>2, <1>5, <1>7, <1>9 DEF ClosedWay

\* At the root there is nothing left to finish.

LEMMA NoneUnfinished ==
  ASSUME HeapWellFormed, Originals, Tiled, Way, Top = 0
  PROVE  Unfinished = {}
<1>1. ClosedWay({}) /\ {} \in SUBSET Unfinished
  BY DEF ClosedWay
<1>2. QED BY <1>1, WholeWay

\* A step that leaves the objects alone.

LEMMA HeapUnchanged ==
  ASSUME HeapWellFormed, Originals, Copies, Tiled,
         UNCHANGED <<mem, activeHeapPointer, ghosts>>
  PROVE  /\ HeapWellFormed' /\ Originals' /\ Copies' /\ Tiled'
         /\ H' = H /\ Relocated' = Relocated /\ Unfinished' = Unfinished
         /\ \A a : Forward(a)' = Forward(a) /\ Parent(a)' = Parent(a) /\ Index(a)' = Index(a)
         /\ \A w : Moved(w)' = Moved(w) /\ Settled(w)' = Settled(w)
         /\ \A p : p # 0 => Held(p)' = Held(p)
<1> USE DEF ghosts
<1>1. \A a : Forward(a)' = Forward(a) /\ Parent(a)' = Parent(a) /\ Index(a)' = Index(a)
  BY DEF Forward, Parent, Index
<1>2. H' = H /\ Relocated' = Relocated
  BY DEF H, Relocated
<1>3. Unfinished' = Unfinished
  BY <1>1, <1>2 DEF Unfinished
<1>4. \A w : Moved(w)' = Moved(w) /\ Settled(w)' = Settled(w)
  BY <1>1, <1>2 DEF Moved, Settled
<1>5. \A p : p # 0 => Held(p)' = Held(p)
  BY <1>1 DEF Held
<1>6. HeapWellFormed'
  BY DEF HeapWellFormed
<1>7. Originals'
  BY <1>1, <1>2 DEF Originals
<1>8. Copies'
  BY <1>1, <1>2, <1>3, <1>4 DEF Copies
<1>9. Tiled'
  BY <1>1, <1>2 DEF Tiled, Extent
<1>10. QED BY <1>1, <1>2, <1>3, <1>4, <1>5, <1>6, <1>7, <1>8, <1>9

LEMMA MoveRootStep == ASSUME IInv, MoveRoot PROVE IInv'
<1> USE DEF IInv, MoveRoot
<1>1. HeapWellFormed' /\ Originals' /\ Copies' /\ Tiled'
  BY HeapUnchanged
<1>2. Top = 0 /\ Top' = 0 /\ next \in 1 .. Slots
  BY MoveObjectAssumption DEF Top, InHand
<1>3. Unfinished' = {}
  BY <1>2, NoneUnfinished, HeapUnchanged
<1>4. Way'
  BY <1>2, <1>3 DEF Way
<1>5. currentObject' = Held(previousObject)'
  BY <1>2 DEF Roots, Held, ghosts
<1>6. InHand'
  BY <1>2, <1>5 DEF InHand
<1>7. Roots'
  BY HeapUnchanged DEF Roots, ghosts
<1>8. QED BY <1>1, <1>4, <1>6, <1>7

LEMMA MoveObjectsDoneStep == ASSUME IInv, MoveObjectsDone PROVE IInv'
<1> USE DEF IInv, MoveObjectsDone
<1>1. HeapWellFormed' /\ Originals' /\ Copies' /\ Tiled'
  BY HeapUnchanged
<1>2. Top = 0 /\ Top' = 0
  BY DEF Top, InHand
<1>3. Unfinished' = {}
  BY <1>2, NoneUnfinished, HeapUnchanged
<1>4. Way'
  BY <1>2, <1>3 DEF Way, locals
<1>5. InHand'
  BY MoveObjectAssumption DEF InHand, locals
<1>6. Roots'
  BY HeapUnchanged DEF Roots, ghosts
<1>7. QED BY <1>1, <1>4, <1>5, <1>6

LEMMA TurnBackStep ==
  ASSUME IInv, pc = "down", NEW word, TurnBack(word),
         word = Moved(currentObject), Settled(currentObject)
  PROVE  IInv'
<1> USE DEF IInv, TurnBack
<1>1. HeapWellFormed' /\ Originals' /\ Copies' /\ Tiled'
  BY HeapUnchanged
<1>2. Top' = Top /\ Top = previousObject
  BY DEF Top
<1>3. Held(previousObject)' = Held(previousObject)
  BY HeapUnchanged DEF Held, ghosts
<1>4. \A a \in Unfinished : Held(Parent(a))' = Held(Parent(a))
  BY HeapUnchanged DEF Held, ghosts
<1>5. Way'
  BY <1>2, <1>4, HeapUnchanged DEF Way
<1>6. InHand'
  BY <1>3, HeapUnchanged DEF InHand
<1>7. Roots'
  BY HeapUnchanged DEF Roots, ghosts
<1>8. QED BY <1>1, <1>5, <1>6, <1>7

LEMMA KeepWordStep == ASSUME IInv, KeepWord PROVE IInv'
<1>1. currentObject \notin OldSpace
  BY OldAddresses DEF KeepWord, isSmallInteger, inOldSpace
<1>2. QED BY <1>1, TurnBackStep DEF KeepWord, Moved, Settled

LEMMA FollowForwardStep == ASSUME IInv, FollowForward PROVE IInv'
<1>1. currentObject \in OldSpace /\ currentObject = Held(previousObject)
  BY DEF IInv, InHand, FollowForward, inOldSpace
<1>2. previousObject \in {0} \union Relocated /\ next \in 1 .. Slots
  BY MoveObjectAssumption DEF IInv, InHand, Way, Top, Unfinished, FollowForward
<1>3. currentObject \in H
  BY <1>1, <1>2, HeldFacts DEF IInv
<1>4. currentObject \in Relocated
  BY <1>3 DEF FollowForward, Relocated, H
<1>5. QED BY <1>1, <1>4, TurnBackStep DEF FollowForward, Moved, Settled

LEMMA ReturnStep == ASSUME IInv, Return PROVE IInv'
<1> USE DEF IInv, Return
<1>1. HeapWellFormed' /\ Originals' /\ Copies' /\ Tiled'
  BY HeapUnchanged
<1>2. Top = 0 /\ Top' = 0 /\ next \in 1 .. Slots
  BY MoveObjectAssumption DEF Top, InHand
<1>3. Unfinished' = {}
  BY <1>2, NoneUnfinished, HeapUnchanged
<1>4. Way'
  BY <1>2, <1>3 DEF Way, locals
<1>5. InHand'
  BY <1>2, MoveObjectAssumption DEF InHand, locals
<1>6. replacement = Moved(origSlot[next]) /\ Settled(origSlot[next])
  BY DEF InHand, Held
<1>7. Roots'
  <2>1. slot' = [k \in 1 .. Slots |-> slot'[k]]
    BY DEF Roots
  <2>2. ASSUME NEW k \in 1 .. Slots
        PROVE  IF k < next' THEN slot'[k] = Moved(origSlot[k]) /\ Settled(origSlot[k])
               ELSE slot'[k] = origSlot[k]
    <3>1. CASE k = next
      BY <3>1, <1>2, <1>6 DEF Roots
    <3>2. CASE k # next
      BY <3>2, <1>2 DEF Roots
    <3>3. QED BY <3>1, <3>2
  <2>3. QED BY <2>1, <2>2, HeapUnchanged DEF Roots, ghosts
<1>8. QED BY <1>1, <1>4, <1>5, <1>7

\* Steps that keep what was copied: more is relocated, and nothing moves again.

LEMMA StillMoved ==
  ASSUME Relocated \subseteq Relocated', \A a \in Relocated : Forward(a)' = Forward(a),
         NEW w, Settled(w)
  PROVE  Settled(w)' /\ Moved(w)' = Moved(w)
BY DEF Settled, Moved

\* A copy that is only reserved, with the way back to p in it.
Reserved(o, p) ==
  Object(o.size, o.binary, [k \in Words(o) |-> IF k = ForwardIndex(o) THEN p ELSE 0])

\* What Descend does to the object c, met from p and copied to copy.

LEMMA DescendEffect ==
  ASSUME IInv, Descend, NEW c, c = currentObject, NEW p, p = previousObject,
         NEW copy, copy = activeHeapPointer'
  PROVE  /\ c \in H /\ c \notin Relocated /\ c = Held(p)
         /\ p \in {0} \union Unfinished /\ p = Top
         /\ copy = activeHeapPointer - (origMem[c].size + 2)
         /\ copy \in Int /\ copy < activeHeapPointer /\ copy >= ActiveBase
         /\ copy \notin DOMAIN mem
         /\ DOMAIN mem' = DOMAIN mem \union {copy}
         /\ \A a \in DOMAIN mem \ {c} : mem'[a] = mem[a]
         /\ IsObject(mem'[c])
         /\ mem'[c].size = origMem[c].size /\ mem'[c].binary = origMem[c].binary
         /\ mem'[c].relocated
         /\ mem'[c].data = [origMem[c].data EXCEPT ![ForwardIndex(origMem[c])] = copy]
         /\ mem'[copy] = Reserved(origMem[c], p)
         /\ currentObject' = origMem[c].data[ForwardIndex(origMem[c])]
<1>1. p \in {0} \union Unfinished /\ p = Top /\ c = Held(p) /\ c \in OldSpace
  BY DEF Descend, IInv, Way, InHand, Top, inOldSpace
<1>2. c \in H
  <2>1. p \in {0} \union Relocated /\ next \in 1 .. Slots
    BY <1>1, MoveObjectAssumption DEF IInv, InHand, Unfinished, Descend
  <2>2. QED BY <1>1, <2>1, HeldFacts DEF IInv
<1>3. c \notin Relocated /\ mem[c] = origMem[c]
  BY <1>2 DEF Relocated, Descend, IInv, Originals
<1>4. origMem[c] = Object(origMem[c].size, origMem[c].binary, origMem[c].data)
      /\ origMem[c].size \in Nat /\ DOMAIN origMem[c].data = Words(origMem[c])
  BY <1>2, HeapFacts DEF IInv
<1>5. copy = activeHeapPointer - (origMem[c].size + 2)
  BY <1>3 DEF Descend, Room
<1>6. copy \in Int /\ copy < activeHeapPointer /\ activeHeapPointer <= ActiveTop
  BY <1>4, <1>5 DEF IInv, Tiled
<1>13. copy >= ActiveBase
  <2> DEFINE R == Relocated \union {c}
             at == [a \in R |-> IF a = c THEN copy ELSE Forward(a)]
  <2>1. R \in SUBSET H /\ at \in [R -> Int]
    BY <1>2, <1>6, IndexFacts DEF IInv, Tiled
  <2>2. ASSUME NEW x \in copy .. ActiveTop - 1
        PROVE  x \in UNION {Block(at[a], origMem[a]) : a \in R}
    <3>1. CASE x >= activeHeapPointer
      <4>1. x \in UNION {Extent(a) : a \in Relocated}
        BY <2>2, <3>1, OldAddresses DEF IInv, Tiled
      <4>2. PICK a \in Relocated : x \in Extent(a)
        BY <4>1
      <4>3. a \in R /\ at[a] = Forward(a)
        BY <1>3
      <4>4. QED BY <4>2, <4>3 DEF Extent
    <3>2. CASE x < activeHeapPointer
      <4>1. x \in Block(copy, origMem[c])
        BY <2>2, <3>2, <1>4, <1>5, <1>6, OldAddresses DEF Block, IInv, Tiled
      <4>2. c \in R /\ at[c] = copy
        OBVIOUS
      <4>3. QED BY <4>1, <4>2
    <3>3. x \in Int /\ activeHeapPointer \in Int
      BY <2>2, <1>6, OldAddresses DEF IInv, Tiled
    <3>4. QED BY <3>1, <3>2, <3>3
  <2> HIDE DEF R, at
  <2>3. QED BY <1>6, <2>1, <2>2, RoomForCopies DEF IInv
<1>7. copy \notin DOMAIN mem
  <2>1. \A a \in H : a \notin ActiveBase .. ActiveTop - 1
    BY HeapFacts, OldAddresses DEF IInv
  <2>2. \A a \in Relocated : Forward(a) >= activeHeapPointer /\ Forward(a) \in Int
    BY ForwardFacts DEF IInv, Tiled
  <2>3. copy \in ActiveBase .. ActiveTop - 1
    BY <1>6, <1>13, OldAddresses DEF IInv, Tiled
  <2>4. QED BY <1>6, <2>1, <2>2, <2>3, OldAddresses DEF IInv, Tiled
<1>8. c \in DOMAIN mem /\ c # copy
  BY <1>2, <1>7 DEF IInv, Tiled
<1> DEFINE i == ForwardIndex(origMem[c])
<1>9. mem' = [a \in DOMAIN mem \union {copy} |->
               IF a = copy
               THEN Object(origMem[c].size, origMem[c].binary,
                           [k \in DOMAIN origMem[c].data |-> IF k = i THEN p ELSE 0])
               ELSE IF a = c
                    THEN [origMem[c] EXCEPT !.relocated = TRUE, !.data[i] = copy]
                    ELSE mem[a]]
  BY <1>3, <1>5 DEF Descend, Room
<1>10. /\ IsObject(mem'[c])
       /\ mem'[c].size = origMem[c].size /\ mem'[c].binary = origMem[c].binary
       /\ mem'[c].relocated
       /\ mem'[c].data = [origMem[c].data EXCEPT ![i] = copy]
  <2>1. mem'[c] = [origMem[c] EXCEPT !.relocated = TRUE, !.data[i] = copy]
    BY <1>8, <1>9
  <2>2. i \in DOMAIN origMem[c].data
    BY <1>2, <1>4, WordFacts DEF IInv
  <2>3. mem'[c].size = origMem[c].size /\ mem'[c].binary = origMem[c].binary /\ mem'[c].relocated
        /\ mem'[c].data = [origMem[c].data EXCEPT ![i] = copy]
    BY <1>4, <2>1, <2>2 DEF Object
  <2>4. IsObject(mem'[c])
    BY <1>4, <2>1, <2>2 DEF Object, IsObject
  <2>5. QED BY <2>3, <2>4
<1>11. currentObject' = origMem[c].data[i]
  BY <1>3 DEF Descend
<1>12. QED
  BY <1>1, <1>2, <1>3, <1>4, <1>5, <1>6, <1>7, <1>8, <1>9, <1>10, <1>11, <1>13 DEF Reserved

LEMMA DescendStep == ASSUME IInv, Descend PROVE IInv'
<1>1. SUFFICES ASSUME NEW c, c = currentObject, NEW p, p = previousObject,
                      NEW copy, copy = activeHeapPointer'
               PROVE  IInv'
  OBVIOUS
<1> DEFINE i == ForwardIndex(origMem[c])
           o == origMem[c]
<1> USE <1>1
<1>2. ghosts' = ghosts /\ slot' = slot /\ next' = next /\ pc' = "down" /\ previousObject' = c
      /\ origMem' = origMem /\ origSlot' = origSlot /\ pc = "down"
  BY DEF Descend, ghosts
<1>3. /\ c \in H /\ c \notin Relocated /\ c = Held(p)
      /\ p \in {0} \union Unfinished /\ p = Top
      /\ copy = activeHeapPointer - (o.size + 2)
      /\ copy \in Int /\ copy < activeHeapPointer /\ copy >= ActiveBase
      /\ copy \notin DOMAIN mem
  BY DescendEffect
<1>4. /\ DOMAIN mem' = DOMAIN mem \union {copy}
      /\ \A a \in DOMAIN mem \ {c} : mem'[a] = mem[a]
      /\ IsObject(mem'[c])
      /\ mem'[c].size = o.size /\ mem'[c].binary = o.binary /\ mem'[c].relocated
      /\ mem'[c].data = [o.data EXCEPT ![i] = copy]
      /\ mem'[copy] = Reserved(o, p)
      /\ currentObject' = o.data[i]
  BY DescendEffect, ZenonT(40)
<1>5. /\ o.size \in Nat /\ o.binary \in BOOLEAN /\ o.data \in [Words(o) -> Word]
      /\ i \in Words(o) /\ 0 \in Words(o) /\ \A k \in Words(o) : k \in Nat /\ k <= i
      /\ c \in OldSpace /\ c # 0
  <2>1. o.size \in Nat /\ o.binary \in BOOLEAN /\ o.data \in [Words(o) -> Word]
    BY <1>3, HeapFacts DEF IInv
  <2>2. i \in Words(o) /\ 0 \in Words(o) /\ Words(o) \subseteq 0 .. o.size
        /\ \A k \in Words(o) : k <= i
    BY <1>3, WordFacts DEF IInv
  <2>3. c \in OldSpace /\ c # 0
    BY <1>3, HeapFacts, OldAddresses DEF IInv
  <2>4. QED BY <2>1, <2>2, <2>3
<1>6. H' = H /\ Relocated' = Relocated \union {c}
  <2>1. mem'[c].relocated
    BY <1>4
  <2>2. \A a \in H \ {c} : mem'[a] = mem[a]
    BY <1>4 DEF IInv, Tiled
  <2>3. QED BY <1>2, <1>3, <2>1, <2>2 DEF Relocated, H
<1>7. Index(c)' = i /\ Forward(c)' = copy /\ Parent(c)' = p
  <2>1. ForwardIndex(mem'[c]) = i
    BY <1>4 DEF ForwardIndex
  <2>2. mem'[c].data[i] = copy
    BY <1>4, <1>5
  <2>3. mem'[copy].data[i] = p
    BY <1>4, <1>5 DEF Object, Reserved
  <2>4. QED BY <2>1, <2>2, <2>3 DEF Index, Forward, Parent
<1>8. \A a \in Relocated : /\ a \in H /\ a # c /\ a # 0 /\ mem'[a] = mem[a]
                           /\ Forward(a) # c /\ mem'[Forward(a)] = mem[Forward(a)]
  BY <1>3, <1>4, IndexFacts, ForwardFacts DEF IInv, Tiled
<1>9. \A a \in Relocated : /\ Index(a)' = Index(a) /\ Forward(a)' = Forward(a)
                           /\ mem'[Forward(a)'] = mem[Forward(a)] /\ Parent(a)' = Parent(a)
  BY <1>8 DEF Index, Forward, Parent
<1>10. Unfinished' = Unfinished \union {c}
  BY <1>3, <1>5, <1>6, <1>7, <1>9, IndexFacts DEF Unfinished, IInv
<1>11. \A w : Settled(w) => Settled(w)' /\ Moved(w)' = Moved(w)
  BY <1>6, <1>9, StillMoved
<1>12. HeapWellFormed'
  BY <1>2 DEF IInv, HeapWellFormed
<1>13. Originals'
  <2>1. SUFFICES ASSUME NEW a \in H
        PROVE /\ IsObject(mem'[a]) /\ mem'[a].binary = origMem[a].binary
              /\ mem'[a].data = [k \in Words(origMem[a]) |-> mem'[a].data[k]]
              /\ ~mem'[a].relocated => mem'[a] = origMem[a]
              /\ mem'[a].relocated =>
                   /\ mem'[a].size \in 0 .. origMem[a].size
                   /\ origMem[a].binary => mem'[a].size = origMem[a].size
                   /\ \A k \in Words(origMem[a]) :
                        k < Index(a)' => mem'[a].data[k] = origMem[a].data[k]
    BY <1>2, <1>6 DEF Originals
  <2>2. CASE a = c
    <3>1. mem'[c].data = [k \in Words(o) |-> mem'[c].data[k]]
      BY <1>4, <1>5
    <3>2. \A k \in Words(o) : k < i => mem'[c].data[k] = o.data[k]
      BY <1>4, <1>5
    <3>3. QED BY <2>2, <3>1, <3>2, <1>4, <1>5, <1>7
  <2>3. CASE a # c
    <3>1. mem'[a] = mem[a] /\ Index(a)' = Index(a)
      BY <2>3, <1>4 DEF IInv, Tiled, Index
    <3>2. QED BY <3>1 DEF IInv, Originals
  <2>4. QED BY <2>2, <2>3
<1>14. Copies'
  <2>1. SUFFICES ASSUME NEW a \in Relocated'
        PROVE /\ mem'[Forward(a)'] = Object(origMem[a].size, origMem[a].binary, mem'[Forward(a)'].data)
              /\ mem'[Forward(a)'].data = [k \in Words(origMem[a]) |-> mem'[Forward(a)'].data[k]]
              /\ \A k \in Words(origMem[a]) :
                   k > Index(a)' \/ a \notin Unfinished' =>
                     /\ mem'[Forward(a)'].data[k] = Moved(origMem[a].data[k])'
                     /\ Settled(origMem[a].data[k])'
              /\ a \notin Unfinished' => Index(a)' = 0
    BY <1>2 DEF Copies
  <2>2. CASE a = c
    <3>1. mem'[copy].data = [k \in Words(o) |-> IF k = i THEN p ELSE 0]
      BY <1>4 DEF Object, Reserved
    <3>2. mem'[copy].data = [k \in Words(o) |-> mem'[copy].data[k]]
      BY <3>1
    <3>3. mem'[copy] = Object(o.size, o.binary, mem'[copy].data)
      BY <1>4, <3>1 DEF Reserved
    <3>4. c \in Unfinished' /\ \A k \in Words(o) : ~(k > i)
      BY <1>5, <1>10
    <3>5. QED BY <2>2, <3>2, <3>3, <3>4, <1>7
  <2>3. CASE a # c
    <3>1. a \in Relocated /\ (a \in Unfinished' <=> a \in Unfinished)
      BY <2>3, <1>6, <1>10
    <3>2. \A w : Settled(w) => Settled(w)' /\ Moved(w)' = Moved(w)
      BY <1>11
    <3>3. \A k \in Words(origMem[a]) :
                   k > Index(a) \/ a \notin Unfinished =>
                     /\ mem[Forward(a)].data[k] = Moved(origMem[a].data[k])'
                     /\ Settled(origMem[a].data[k])'
      BY <3>1, <1>2, <1>11 DEF IInv, Copies
    <3>4. QED BY <3>1, <3>3, <1>9 DEF IInv, Copies
  <2>4. QED BY <2>2, <2>3
<1>15. Tiled'
  <2>1. activeHeapPointer' = copy /\ copy \in ActiveBase .. ActiveTop
    BY <1>3, OldAddresses DEF IInv, Tiled
  <2>2. DOMAIN mem' = H' \union {Forward(a)' : a \in Relocated'}
    BY <1>4, <1>6, <1>7, <1>9 DEF IInv, Tiled
  <2>3. \A a \in Relocated' : Forward(a)' \in Int
    BY <1>3, <1>6, <1>7, <1>9 DEF IInv, Tiled
  <2>4. Extent(c)' = copy .. activeHeapPointer - 1
    <3>1. Extent(c)' = copy .. copy + o.size + 1
      BY <1>2, <1>7 DEF Extent, Block
    <3>2. activeHeapPointer \in Int
      BY DEF IInv, Tiled
    <3>3. copy + o.size + 1 = activeHeapPointer - 1
      BY <1>3, <1>5, <3>2
    <3>4. QED BY <3>1, <3>3
  <2>5. \A a \in Relocated : Extent(a)' = Extent(a)
    BY <1>2, <1>9 DEF Extent
  <2>6. UNION {Extent(a)' : a \in Relocated'} = copy .. ActiveTop - 1
    <3>1. ASSUME NEW x
          PROVE  x \in UNION {Extent(a)' : a \in Relocated'} <=> x \in copy .. ActiveTop - 1
      <4>1. x \in UNION {Extent(a)' : a \in Relocated'} <=> \E a \in Relocated' : x \in Extent(a)'
        OBVIOUS
      <4>2. (\E a \in Relocated' : x \in Extent(a)')
              <=> (\E a \in Relocated : x \in Extent(a)) \/ x \in Extent(c)'
        BY <1>6, <2>5
      <4>3. (\E a \in Relocated : x \in Extent(a)) <=> x \in UNION {Extent(a) : a \in Relocated}
        OBVIOUS
      <4>4. x \in activeHeapPointer .. ActiveTop - 1 \/ x \in copy .. activeHeapPointer - 1
              <=> x \in copy .. ActiveTop - 1
        BY <1>3, OldAddresses DEF IInv, Tiled
      <4>5. QED BY <4>1, <4>2, <4>3, <4>4, <2>4 DEF IInv, Tiled
    <3>2. QED BY <3>1
  <2>7. \A a \in Relocated : Extent(a) \subseteq activeHeapPointer .. ActiveTop - 1
    BY DEF IInv, Tiled
  <2>8. \A a \in Relocated : Extent(a) \intersect Extent(c)' = {}
    BY <1>3, <2>4, <2>7, OldAddresses DEF IInv, Tiled
  <2>9. \A a, b \in Relocated' : a # b => Extent(a)' \intersect Extent(b)' = {}
    BY <1>6, <2>5, <2>8 DEF IInv, Tiled
  <2>10. QED BY <1>3, <2>1, <2>2, <2>3, <2>6, <2>9 DEF Tiled
<1>16. Way'
  <2>1. Top' = c
    BY <1>2 DEF Top
  <2>2. \A a \in Unfinished : a \in Relocated /\ a # c /\ a # 0
    BY <1>8 DEF Unfinished
  <2>3. \A q \in {0} \union Unfinished : Held(q)' = Held(q)
    BY <1>2, <1>9, <2>2 DEF Held
  <2>4. ASSUME NEW a \in Unfinished
        PROVE  /\ Parent(a)' \in {0} \union Unfinished'
               /\ Held(Parent(a))' = a
               /\ Parent(a)' # 0 => Parent(a)' # c /\ Forward(a)' < Forward(Parent(a))'
               /\ \E b \in Unfinished' : Parent(b)' = a
    <3>1. Parent(a) \in {0} \union Unfinished /\ Parent(a)' = Parent(a)
      BY <1>9, <2>2 DEF IInv, Way
    <3>2. Held(Parent(a))' = a
      BY <3>1, <2>3, <1>9, <2>2 DEF IInv, Way
    <3>3. \E b \in Unfinished' : Parent(b)' = a
      BY <1>3, <1>7, <1>9, <1>10, <2>2 DEF IInv, Way
    <3>4. Parent(a)' # 0 => Parent(a)' # c /\ Forward(a)' < Forward(Parent(a))'
      BY <3>1, <1>9, <2>2 DEF IInv, Way
    <3>5. QED BY <3>1, <3>2, <3>3, <3>4, <1>10
  <2>5. Parent(c)' = p /\ p \in {0} \union Unfinished' /\ p # c /\ Held(p)' = c
    BY <1>3, <1>5, <1>7, <1>10, <2>2, <2>3
  <2>6. p # 0 => Forward(c)' < Forward(p)'
    BY <1>3, <1>7, <1>9, <2>2, ForwardFacts DEF IInv, Tiled
  <2>7. Held(Parent(c))' = c /\ (p # 0 => Forward(c)' < Forward(Parent(c))')
    BY <2>5, <2>6
  <2>8. QED BY <1>2, <1>5, <1>10, <2>1, <2>4, <2>5, <2>6, <2>7 DEF Way
<1>17. InHand'
  <2>1. Held(c)' = currentObject'
    BY <1>2, <1>4, <1>5, <1>7 DEF Held
  <2>2. QED BY <1>2, <2>1 DEF IInv, InHand
<1>18. Roots'
  BY <1>2, <1>11 DEF IInv, Roots
<1>19. QED BY <1>12, <1>13, <1>14, <1>15, <1>16, <1>17, <1>18 DEF IInv

\* Stage 2 works at an unfinished object, the one at the end of the way back.

LEMMA AtUnfinished ==
  ASSUME IInv, pc = "up", currentObject # 0, NEW c, c = currentObject
  PROVE  /\ c \in Unfinished /\ c \in Relocated /\ c \in H /\ c # 0 /\ c \in OldSpace
         /\ Top = c /\ Index(c) \in Words(origMem[c]) /\ Index(c) \in Nat
         /\ mem[c].binary = origMem[c].binary
         /\ Forward(c) \in DOMAIN mem /\ Forward(c) \notin H /\ c \in DOMAIN mem
         /\ mem[Forward(c)] = Object(origMem[c].size, origMem[c].binary, mem[Forward(c)].data)
         /\ DOMAIN mem[Forward(c)].data = Words(origMem[c])
         /\ replacement = Moved(Held(c)) /\ Settled(Held(c))
         /\ Held(c) = origMem[c].data[Index(c)]
         /\ \A a \in Relocated : a # c => Forward(a) # Forward(c)
<1>1. c \in Unfinished /\ c \in Relocated /\ Top = c
  BY DEF IInv, Way, Top, Unfinished
<1>2. /\ c \in H /\ c # 0 /\ c \in OldSpace /\ Index(c) \in Words(origMem[c]) /\ Index(c) \in Nat
      /\ Forward(c) \in DOMAIN mem /\ Forward(c) \notin H
      /\ \A a \in Relocated : a # c => Forward(a) # Forward(c)
  BY <1>1, IndexFacts, ForwardFacts DEF IInv
<1>3. mem[c].binary = origMem[c].binary /\ c \in DOMAIN mem
  BY <1>2 DEF IInv, Originals, Tiled
<1>4. mem[Forward(c)] = Object(origMem[c].size, origMem[c].binary, mem[Forward(c)].data)
  BY <1>1 DEF IInv, Copies
<1>5. DOMAIN mem[Forward(c)].data = Words(origMem[c])
  BY <1>1 DEF IInv, Copies
<1>6. replacement = Moved(Held(c)) /\ Settled(Held(c)) /\ Held(c) = origMem[c].data[Index(c)]
  BY <1>2 DEF IInv, InHand, Held
<1>7. QED BY <1>1, <1>2, <1>3, <1>4, <1>5, <1>6

\* Records with a Boolean field, updated.

LEMMA FilledObject ==
  ASSUME NEW o, NEW n, NEW b, NEW d, o = Object(n, b, d), NEW w
  PROVE  [o EXCEPT !.data = w] = Object(n, b, w)
<1>1. \A r : [[size |-> n, binary |-> b, relocated |-> r, data |-> d] EXCEPT !.data = w]
               = [size |-> n, binary |-> b, relocated |-> r, data |-> w]
  OBVIOUS
<1>2. QED BY <1>1, Zenon DEF Object

LEMMA AscendStep ==
  ASSUME IInv, Ascend
  PROVE  IInv' /\ Relocated' = Relocated
<1>1. SUFFICES ASSUME NEW c, c = currentObject, NEW copy, copy = Forward(c),
                      NEW q, q = Parent(c), NEW w, w = replacement
               PROVE  IInv' /\ Relocated' = Relocated
  OBVIOUS
<1> DEFINE o == origMem[c]
<1> USE <1>1
<1>2. /\ ghosts' = ghosts /\ slot' = slot /\ next' = next /\ pc' = "up" /\ pc = "up"
      /\ origMem' = origMem /\ origSlot' = origSlot /\ activeHeapPointer' = activeHeapPointer
  BY DEF Ascend, ghosts
<1>3. /\ c \in Unfinished /\ c \in Relocated /\ c \in H /\ c # 0 /\ c \in OldSpace /\ Top = c
      /\ copy \in DOMAIN mem /\ copy \notin H /\ c \in DOMAIN mem
      /\ mem[copy] = Object(o.size, o.binary, mem[copy].data)
      /\ DOMAIN mem[copy].data = Words(o)
      /\ w = Moved(Held(c)) /\ Settled(Held(c)) /\ Held(c) = o.data[Index(c)]
      /\ \A a \in Relocated : a # c => Forward(a) # copy
      /\ mem[c].binary = o.binary
  BY AtUnfinished DEF Ascend
<1>4. Index(c) = 0 /\ copy = mem[c].data[0] /\ q = mem[copy].data[0]
  <2>1. Index(c) = 0
    BY DEF Ascend, Index, ForwardIndex
  <2>2. QED BY <2>1 DEF Index, Forward, Parent
<1>5. /\ mem' = [mem EXCEPT ![copy].data[0] = w]
      /\ replacement' = copy /\ currentObject' = q /\ previousObject' = q
  BY <1>4 DEF Ascend
<1>6. 0 \in Words(o) /\ \A k \in Words(o) : k \in Nat
  BY <1>3, WordFacts DEF IInv
<1>7. /\ DOMAIN mem' = DOMAIN mem
      /\ \A a \in DOMAIN mem \ {copy} : mem'[a] = mem[a]
      /\ mem'[copy] = Object(o.size, o.binary, [mem[copy].data EXCEPT ![0] = w])
  <2>1. mem' = [mem EXCEPT ![copy] = [mem[copy] EXCEPT !.data = [mem[copy].data EXCEPT ![0] = w]]]
    BY <1>5
  <2>2. [mem[copy] EXCEPT !.data = [mem[copy].data EXCEPT ![0] = w]]
          = Object(o.size, o.binary, [mem[copy].data EXCEPT ![0] = w])
    BY <1>3, FilledObject
  <2>3. QED BY <2>1, <2>2, <1>3
<1>8. H' = H /\ Relocated' = Relocated /\ \A a \in H : mem'[a] = mem[a]
  BY <1>2, <1>3, <1>7 DEF Relocated, H, IInv, Tiled
<1>9. \A a \in Relocated : Index(a)' = Index(a) /\ Forward(a)' = Forward(a)
  BY <1>8, IndexFacts DEF Index, Forward, IInv
<1>10. \A a \in Relocated : a # c => mem'[Forward(a)] = mem[Forward(a)] /\ Parent(a)' = Parent(a)
  BY <1>3, <1>7, <1>8, <1>9, IndexFacts, ForwardFacts DEF Parent, Index, IInv
<1>11. Parent(c)' = w /\ w \notin {0} \union OldSpace
  <2>1. Parent(c)' = w
    <3>1. mem'[copy].data = [mem[copy].data EXCEPT ![0] = w]
      BY <1>7 DEF Object
    <3>2. mem'[copy].data[0] = w
      BY <3>1, <1>3, <1>6
    <3>3. QED BY <3>2, <1>3, <1>4, <1>9 DEF Parent, Index
  <2>2. w = Moved(o.data[0]) /\ Settled(o.data[0]) /\ o.data[0] # 0
    BY <1>3, <1>4, HeapFacts DEF IInv
  <2>3. QED BY <2>1, <2>2, ForwardFacts, OldAddresses DEF Moved, Settled, IInv, Tiled
<1>12. Unfinished' = Unfinished \ {c}
  BY <1>3, <1>8, <1>10, <1>11 DEF Unfinished
<1>13. \A u : Settled(u) => Settled(u)' /\ Moved(u)' = Moved(u)
  BY <1>8, <1>9, StillMoved
<1>14. HeapWellFormed'
  BY <1>2 DEF IInv, HeapWellFormed
<1>15. Originals'
  BY <1>2, <1>8 DEF IInv, Originals, Index
<1>16. Copies'
  <2>1. SUFFICES ASSUME NEW a \in Relocated
        PROVE /\ mem'[Forward(a)] = Object(origMem[a].size, origMem[a].binary, mem'[Forward(a)].data)
              /\ mem'[Forward(a)].data = [k \in Words(origMem[a]) |-> mem'[Forward(a)].data[k]]
              /\ \A k \in Words(origMem[a]) :
                   k > Index(a) \/ a \notin Unfinished' =>
                     /\ mem'[Forward(a)].data[k] = Moved(origMem[a].data[k])'
                     /\ Settled(origMem[a].data[k])'
              /\ a \notin Unfinished' => Index(a) = 0
    BY <1>2, <1>8, <1>9 DEF Copies
  <2>2. CASE a = c
    <3>1. mem'[copy].data = [mem[copy].data EXCEPT ![0] = w]
      BY <1>7 DEF Object
    <3>2. mem'[copy].data = [k \in Words(o) |-> mem'[copy].data[k]]
      BY <3>1, <1>3
    <3>3. mem'[copy] = Object(o.size, o.binary, mem'[copy].data)
      BY <1>7, <3>1
    <3>4. mem'[copy].data[0] = Moved(o.data[0])' /\ Settled(o.data[0])'
      BY <3>1, <1>3, <1>4, <1>6, <1>2, <1>13
    <3>5. ASSUME NEW k \in Words(o), k # 0
          PROVE  mem'[copy].data[k] = Moved(o.data[k])' /\ Settled(o.data[k])'
      <4>1. k > Index(c)
        BY <3>5, <1>4, <1>3, WordFacts DEF IInv
      <4>2. mem[copy].data[k] = Moved(o.data[k]) /\ Settled(o.data[k])
        BY <4>1, <1>3 DEF IInv, Copies
      <4>3. QED BY <4>2, <3>1, <3>5, <1>3, <1>2, <1>13
    <3>6. QED BY <2>2, <3>2, <3>3, <3>4, <3>5, <1>4
  <2>3. CASE a # c
    <3>1. mem'[Forward(a)] = mem[Forward(a)] /\ (a \in Unfinished' <=> a \in Unfinished)
      BY <2>3, <1>10, <1>12
    <3>2. \A k \in Words(origMem[a]) :
                   k > Index(a) \/ a \notin Unfinished =>
                     /\ mem[Forward(a)].data[k] = Moved(origMem[a].data[k])'
                     /\ Settled(origMem[a].data[k])'
      BY <1>2, <1>13 DEF IInv, Copies
    <3>3. QED BY <3>1, <3>2 DEF IInv, Copies
  <2>4. QED BY <2>2, <2>3
<1>17. Tiled'
  BY <1>2, <1>7, <1>8, <1>9 DEF IInv, Tiled, Extent
<1>18. Way'
  <2>1. Top' = q
    BY <1>2, <1>5 DEF Top
  <2>2. q \in {0} \union Unfinished /\ q # c /\ Held(q) = c
    BY <1>3 DEF IInv, Way
  <2>3. \A a \in Unfinished : a \in Relocated /\ a # 0
    BY IndexFacts DEF Unfinished, IInv
  <2>4. \A p \in {0} \union Unfinished : Held(p)' = Held(p)
    BY <1>2, <1>9, <2>3 DEF Held
  <2>5. ASSUME NEW a \in Unfinished'
        PROVE  /\ Parent(a)' \in {0} \union Unfinished'
               /\ Held(Parent(a))' = a
               /\ Parent(a)' # 0 => Parent(a)' # q /\ Forward(a)' < Forward(Parent(a))'
               /\ a # q => \E b \in Unfinished' : Parent(b)' = a
    <3>1. a \in Unfinished /\ a # c /\ Parent(a)' = Parent(a)
      BY <1>10, <1>12, <2>3
    <3>2. Parent(a) \in {0} \union Unfinished /\ Held(Parent(a)) = a
          /\ (Parent(a) # 0 => Parent(a) # c /\ Forward(a) < Forward(Parent(a)))
      BY <3>1, <1>3 DEF IInv, Way
    <3>3. Parent(a)' \in {0} \union Unfinished'
      BY <3>1, <3>2, <1>12
    <3>4. Held(Parent(a))' = a
      BY <3>1, <3>2, <2>4
    <3>5. Parent(a)' # 0 => Parent(a)' # q /\ Forward(a)' < Forward(Parent(a))'
      BY <3>1, <3>2, <2>2, <2>3, <1>9
    <3>6. a # q => \E b \in Unfinished' : Parent(b)' = a
      <4>1. SUFFICES ASSUME a # q PROVE \E b \in Unfinished' : Parent(b)' = a
        OBVIOUS
      <4>2. PICK b \in Unfinished : Parent(b) = a
        BY <3>1, <1>3 DEF IInv, Way
      <4>3. b # c
        BY <4>1, <4>2
      <4>4. QED BY <4>2, <4>3, <1>10, <1>12, <2>3
    <3>7. QED BY <3>3, <3>4, <3>5, <3>6
  <2>6. QED BY <1>3, <1>5, <1>12, <2>1, <2>2, <2>3, <2>5, IndexFacts DEF Way, IInv
<1>19. InHand'
  <2>1. q \in {0} \union Relocated /\ Held(q) = c
    BY <1>3 DEF IInv, Way, Unfinished
  <2>2. Held(q)' = c
    BY <2>1, <1>2, <1>9 DEF Held
  <2>3. copy = Moved(c)' /\ Settled(c)'
    BY <1>3, <1>8, <1>9 DEF Moved, Settled
  <2>4. QED BY <1>2, <1>5, <2>2, <2>3 DEF IInv, InHand
<1>20. Roots'
  BY <1>2, <1>13 DEF IInv, Roots
<1>21. QED BY <1>8, <1>14, <1>15, <1>16, <1>17, <1>18, <1>19, <1>20 DEF IInv

LEMMA NextSiblingStep ==
  ASSUME IInv, NextSibling
  PROVE  IInv' /\ Relocated' = Relocated
<1>1. SUFFICES ASSUME NEW c, c = currentObject, NEW copy, copy = Forward(c),
                      NEW q, q = Parent(c), NEW w, w = replacement,
                      NEW i, i = Index(c), NEW j, j = NextField(mem[c])
               PROVE  IInv' /\ Relocated' = Relocated
  OBVIOUS
<1> DEFINE o == origMem[c]
           filled == [k \in Words(o) |-> IF k = i THEN w
                                         ELSE IF k = j THEN q
                                         ELSE IF k \in j + 1 .. i - 1 THEN 0
                                         ELSE mem[copy].data[k]]
<1> USE <1>1
<1>2. /\ ghosts' = ghosts /\ slot' = slot /\ next' = next /\ pc' = "down" /\ pc = "up"
      /\ origMem' = origMem /\ origSlot' = origSlot /\ activeHeapPointer' = activeHeapPointer
      /\ previousObject' = c
  BY DEF NextSibling, ghosts
<1>3. /\ c \in Unfinished /\ c \in Relocated /\ c \in H /\ c # 0 /\ c \in OldSpace /\ Top = c
      /\ copy \in DOMAIN mem /\ copy \notin H /\ c \in DOMAIN mem
      /\ mem[copy] = Object(o.size, o.binary, mem[copy].data)
      /\ DOMAIN mem[copy].data = Words(o)
      /\ w = Moved(Held(c)) /\ Settled(Held(c)) /\ Held(c) = o.data[i]
      /\ \A a \in Relocated : a # c => Forward(a) # copy
      /\ mem[c].binary = o.binary /\ i \in Words(o) /\ i \in Nat
  BY AtUnfinished DEF NextSibling
<1>4. /\ i = mem[c].size /\ i > 0 /\ ~o.binary
      /\ copy = mem[c].data[i] /\ q = mem[copy].data[i]
  <2>1. ~o.binary /\ mem[c].size > 0
    BY <1>3 DEF NextSibling
  <2>2. i = mem[c].size
    BY <2>1, <1>3 DEF Index, ForwardIndex
  <2>3. QED BY <2>1, <2>2 DEF Index, Forward, Parent
<1>5. /\ j \in 0 .. i - 1 /\ j \in Words(o) /\ j # i
      /\ \A k \in j + 1 .. i - 1 : mem[c].data[k] = 0
  <2>1. j \in 0 .. i - 1 /\ \A k \in j + 1 .. i - 1 : mem[c].data[k] = 0
    BY <1>3, <1>4, NextFieldFacts
  <2>2. i <= o.size /\ o.size \in Nat
    BY <1>3, HeapFacts, WordFacts DEF IInv
  <2>3. QED BY <1>3, <1>4, <2>1, <2>2 DEF Words
<1>6. /\ IsObject(mem[c]) /\ DOMAIN mem[c].data = Words(o) /\ mem[c].relocated
      /\ i \in 0 .. o.size /\ o.size \in Nat
      /\ \A k \in Words(o) : k < i => mem[c].data[k] = o.data[k]
  <2>1. mem[c].relocated
    BY <1>3 DEF Relocated
  <2>2. IsObject(mem[c]) /\ i \in 0 .. o.size
        /\ \A k \in Words(o) : k < i => mem[c].data[k] = o.data[k]
    BY <2>1, <1>3, <1>4 DEF IInv, Originals
  <2>3. mem[c].data = [k \in Words(o) |-> mem[c].data[k]]
    BY <1>3 DEF IInv, Originals
  <2>4. DOMAIN mem[c].data = Words(o)
    BY <2>3
  <2>5. o.size \in Nat
    BY <1>3, HeapFacts DEF IInv
  <2>6. QED BY <2>1, <2>2, <2>4, <2>5
<1>7. /\ mem' = [mem EXCEPT ![copy].data = filled, ![c].size = j, ![c].data[j] = copy]
      /\ currentObject' = mem[c].data[j]
  <2> DEFINE n == mem[c].size
             to == mem[c].data[n]
             f == [k \in DOMAIN mem[c].data |->
                     IF k = n THEN w
                     ELSE IF k = NextField(mem[c]) THEN mem[to].data[n]
                     ELSE IF k \in NextField(mem[c]) + 1 .. n - 1 THEN 0
                     ELSE mem[to].data[k]]
  <2>1. mem' = [mem EXCEPT ![to].data = f, ![c].size = NextField(mem[c]),
                           ![c].data[NextField(mem[c])] = to]
        /\ currentObject' = mem[c].data[NextField(mem[c])]
    BY Zenon DEF NextSibling
  <2>2. f = filled
    BY <1>4, <1>6
  <2>3. to = copy
    BY <1>4
  <2> HIDE DEF f, to, filled
  <2>4. QED BY <2>1, <2>2, <2>3
<1>8. /\ DOMAIN mem' = DOMAIN mem
      /\ \A a \in DOMAIN mem \ {c, copy} : mem'[a] = mem[a]
      /\ mem'[copy] = Object(o.size, o.binary, filled)
      /\ mem'[c] = [mem[c] EXCEPT !.size = j, !.data[j] = copy]
  <2> HIDE DEF filled
  <2>1. c # copy /\ copy \in DOMAIN mem /\ c \in DOMAIN mem
    BY <1>3
  <2>2. mem' = [mem EXCEPT ![copy] = [mem[copy] EXCEPT !.data = filled],
                           ![c] = [mem[c] EXCEPT !.size = j, !.data[j] = copy]]
    <3>1. [mem EXCEPT ![copy].data = filled, ![c].size = j, ![c].data[j] = copy]
            = [mem EXCEPT ![copy] = [mem[copy] EXCEPT !.data = filled],
                          ![c] = [mem[c] EXCEPT !.size = j, !.data[j] = copy]]
      BY <2>1, ZenonT(40)
    <3>2. QED BY <1>7, <3>1
  <2>3. [mem[copy] EXCEPT !.data = filled] = Object(o.size, o.binary, filled)
    BY <1>3, FilledObject
  <2>4. QED BY <1>3, <2>1, <2>2, <2>3
<1>9. /\ IsObject(mem'[c]) /\ mem'[c].size = j /\ mem'[c].binary = o.binary /\ mem'[c].relocated
      /\ mem'[c].data = [mem[c].data EXCEPT ![j] = copy]
  <2>1. mem'[c].size = j /\ mem'[c].data = [mem[c].data EXCEPT ![j] = copy]
    BY <1>6, <1>8 DEF IsObject
  <2>2. mem'[c].binary = mem[c].binary
    BY <1>6, <1>8 DEF IsObject
  <2>3. mem'[c].relocated
    BY <1>6, <1>8 DEF IsObject
  <2>4. IsObject(mem'[c])
    BY <1>6, <1>8 DEF IsObject
  <2>5. QED BY <1>3, <2>1, <2>2, <2>3, <2>4

<1>10. H' = H /\ Relocated' = Relocated /\ \A a \in H \ {c} : mem'[a] = mem[a]
  <2>1. H' = H
    BY <1>2 DEF H
  <2>2. \A a \in H \ {c} : mem'[a] = mem[a]
    BY <1>3, <1>8 DEF IInv, Tiled
  <2>3. \A a \in H : mem'[a].relocated <=> mem[a].relocated
    BY <2>2, <1>6, <1>9
  <2>4. QED BY <1>2, <2>1, <2>2, <2>3 DEF Relocated, H
<1>11. Index(c)' = j /\ Forward(c)' = copy /\ Parent(c)' = q
  <2>1. ForwardIndex(mem'[c]) = j
    BY <1>4, <1>9 DEF ForwardIndex
  <2>2. mem'[c].data[j] = copy
    BY <1>5, <1>6, <1>9
  <2>3. mem'[copy].data[j] = q
    BY <1>5, <1>8 DEF Object
  <2>4. QED BY <2>1, <2>2, <2>3 DEF Index, Forward, Parent
<1>12. \A a \in Relocated \ {c} :
         /\ Index(a)' = Index(a) /\ Forward(a)' = Forward(a)
         /\ mem'[Forward(a)] = mem[Forward(a)] /\ Parent(a)' = Parent(a)
  <2>1. \A a \in Relocated \ {c} :
          /\ mem'[a] = mem[a] /\ Forward(a) \in DOMAIN mem
          /\ Forward(a) # c /\ Forward(a) # copy
    BY <1>3, <1>10, IndexFacts, ForwardFacts DEF IInv
  <2>2. SUFFICES ASSUME NEW a \in Relocated \ {c}
                 PROVE  /\ Index(a)' = Index(a) /\ Forward(a)' = Forward(a)
                        /\ mem'[Forward(a)] = mem[Forward(a)] /\ Parent(a)' = Parent(a)
    OBVIOUS
  <2>3. mem'[a] = mem[a]
    BY <2>1
  <2>4. mem'[Forward(a)] = mem[Forward(a)]
    BY <2>1, <1>8
  <2>5. Index(a)' = Index(a)
    BY <2>3, Zenon DEF Index
  <2>6. Forward(a)' = Forward(a)
    BY <2>3, Zenon DEF Forward
  <2>7. Parent(a)' = Parent(a)
    BY <2>3, <2>4, <2>6, Zenon DEF Parent
  <2>8. QED BY <2>4, <2>5, <2>6, <2>7
<1>13. Unfinished' = Unfinished
  BY <1>10, <1>11, <1>12 DEF Unfinished
<1>14. \A a \in Relocated : Forward(a)' = Forward(a) /\ Parent(a)' = Parent(a)
  BY <1>11, <1>12
<1>15. \A u : Settled(u) => Settled(u)' /\ Moved(u)' = Moved(u)
  BY <1>10, <1>14, StillMoved
<1>16. HeapWellFormed'
  BY <1>2 DEF IInv, HeapWellFormed
<1>17. Originals'
  <2>1. SUFFICES ASSUME NEW a \in H
        PROVE /\ IsObject(mem'[a]) /\ mem'[a].binary = origMem[a].binary
              /\ mem'[a].data = [k \in Words(origMem[a]) |-> mem'[a].data[k]]
              /\ ~mem'[a].relocated => mem'[a] = origMem[a]
              /\ mem'[a].relocated =>
                   /\ mem'[a].size \in 0 .. origMem[a].size
                   /\ origMem[a].binary => mem'[a].size = origMem[a].size
                   /\ \A k \in Words(origMem[a]) :
                        k < Index(a)' => mem'[a].data[k] = origMem[a].data[k]
    BY <1>2, <1>10 DEF Originals
  <2>2. CASE a = c
    <3>1. mem'[c].data = [k \in Words(o) |-> mem'[c].data[k]]
      BY <1>6, <1>9
    <3>2. \A k \in Words(o) : k < j => mem'[c].data[k] = o.data[k]
      BY <1>3, <1>5, <1>6, <1>9, WordFacts DEF IInv
    <3>3. j \in 0 .. o.size
      BY <1>5, <1>6
    <3>4. QED BY <2>2, <3>1, <3>2, <3>3, <1>4, <1>9, <1>11
  <2>3. CASE a # c
    <3>1. mem'[a] = mem[a] /\ Index(a)' = Index(a)
      BY <2>3, <1>10 DEF Index
    <3>2. QED BY <3>1 DEF IInv, Originals
  <2>4. QED BY <2>2, <2>3
<1>18. Copies'
  <2>1. SUFFICES ASSUME NEW a \in Relocated
        PROVE /\ mem'[Forward(a)] = Object(origMem[a].size, origMem[a].binary, mem'[Forward(a)].data)
              /\ mem'[Forward(a)].data = [k \in Words(origMem[a]) |-> mem'[Forward(a)].data[k]]
              /\ \A k \in Words(origMem[a]) :
                   k > Index(a)' \/ a \notin Unfinished =>
                     /\ mem'[Forward(a)].data[k] = Moved(origMem[a].data[k])'
                     /\ Settled(origMem[a].data[k])'
              /\ a \notin Unfinished => Index(a)' = 0
    BY <1>2, <1>10, <1>13, <1>14 DEF Copies
  <2>2. CASE a = c
    <3>1. mem'[copy].data = filled
      BY <1>8 DEF Object
    <3>2. mem'[copy].data = [k \in Words(o) |-> mem'[copy].data[k]]
      BY <3>1
    <3>3. mem'[copy] = Object(o.size, o.binary, mem'[copy].data)
      BY <1>8, <3>1
    <3>4. ASSUME NEW k \in Words(o), k > j
          PROVE  mem'[copy].data[k] = Moved(o.data[k])' /\ Settled(o.data[k])'
      <4>1. k \in Nat /\ j \in Nat
        BY <1>3, <1>5, WordFacts DEF IInv
      <4>2. CASE k = i
        <5>1. mem'[copy].data[k] = w
          BY <4>2, <3>1
        <5>2. w = Moved(o.data[k]) /\ Settled(o.data[k])
          BY <4>2, <1>3
        <5>3. QED BY <5>1, <5>2, <1>2, <1>15
      <4>3. CASE k \in j + 1 .. i - 1
        <5>1. mem'[copy].data[k] = 0
          BY <4>3, <3>1, <1>3, <1>5
        <5>2. o.data[k] = 0
          BY <4>3, <4>1, <1>3, <1>5, <1>6
        <5>3. Moved(0)' = 0 /\ Settled(0)'
          BY OldAddresses DEF Moved, Settled
        <5>4. QED BY <5>1, <5>2, <5>3, <1>2
      <4>4. CASE k > i
        <5>1. mem'[copy].data[k] = mem[copy].data[k]
          BY <4>4, <4>1, <3>1, <1>3, <1>5
        <5>2. mem[copy].data[k] = Moved(o.data[k]) /\ Settled(o.data[k])
          BY <4>4, <1>3 DEF IInv, Copies
        <5>3. QED BY <5>1, <5>2, <1>2, <1>15
      <4>5. QED BY <3>4, <4>1, <4>2, <4>3, <4>4, <1>3
    <3>5. QED BY <2>2, <3>2, <3>3, <3>4, <1>3, <1>11
  <2>3. CASE a # c
    <3>1. mem'[Forward(a)] = mem[Forward(a)] /\ Index(a)' = Index(a)
      BY <2>3, <1>12
    <3>2. \A k \in Words(origMem[a]) :
                   k > Index(a) \/ a \notin Unfinished =>
                     /\ mem[Forward(a)].data[k] = Moved(origMem[a].data[k])'
                     /\ Settled(origMem[a].data[k])'
      BY <1>2, <1>15 DEF IInv, Copies
    <3>3. QED BY <3>1, <3>2 DEF IInv, Copies
  <2>4. QED BY <2>2, <2>3
<1>19. Tiled'
  BY <1>2, <1>8, <1>10, <1>14, SMTT(30) DEF IInv, Tiled, Extent
<1>20. Way'
  <2>1. Top' = c
    BY <1>2 DEF Top
  <2>2. \A a \in Unfinished : a \in Relocated /\ a # 0
    BY IndexFacts DEF Unfinished, IInv
  <2>3. \A p \in {0} \union Unfinished : p # c => Held(p)' = Held(p)
    BY <1>2, <1>12, <2>2 DEF Held
  <2>4. ASSUME NEW a \in Unfinished
        PROVE  /\ Parent(a)' \in {0} \union Unfinished'
               /\ Held(Parent(a))' = a
               /\ Parent(a)' # 0 => Parent(a)' # c /\ Forward(a)' < Forward(Parent(a))'
               /\ a # c => \E b \in Unfinished' : Parent(b)' = a
    <3>1. Parent(a)' = Parent(a)
      BY <1>14, <2>2
    <3>2. Parent(a) \in {0} \union Unfinished /\ Held(Parent(a)) = a /\ Parent(a) # c
          /\ (Parent(a) # 0 => Forward(a) < Forward(Parent(a)))
      BY <1>3 DEF IInv, Way
    <3>3. Held(Parent(a))' = a
      BY <3>1, <3>2, <2>3
    <3>4. Parent(a)' # 0 => Forward(a)' < Forward(Parent(a))'
      BY <3>1, <3>2, <2>2, <1>14
    <3>5. a # c => \E b \in Unfinished' : Parent(b)' = a
      BY <1>3, <1>13, <1>14, <2>2 DEF IInv, Way
    <3>6. QED BY <3>1, <3>2, <3>3, <3>4, <3>5, <1>13
  <2>5. QED BY <1>2, <1>3, <1>13, <2>1, <2>4 DEF Way
<1>21. InHand'
  <2>1. mem[c].data[j] = o.data[j]
    BY <1>5, <1>6
  <2>2. Held(c)' = currentObject'
    BY <2>1, <1>2, <1>3, <1>7, <1>11 DEF Held
  <2>3. QED BY <1>2, <2>2 DEF IInv, InHand
<1>22. Roots'
  BY <1>2, <1>15 DEF IInv, Roots
<1>23. QED
  BY <1>10, <1>16, <1>17, <1>18, <1>19, <1>20, <1>21, <1>22 DEF IInv

LEMMA ObjectIsObject ==
  ASSUME NEW n, NEW b, NEW d
  PROVE  IsObject(Object(n, b, d))
<1>1. \A r : IsObject([size |-> n, binary |-> b, relocated |-> r, data |-> d])
  BY DEF IsObject
<1>2. QED BY <1>1, Zenon DEF Object

LEMMA InitInv == ASSUME Init PROVE IInv
<1>1. PICK h \in InitialHeaps : mem = h.mem /\ slot = h.slot
  BY DEF Init
<1>2. origMem = mem /\ origSlot = slot /\ WellFormed(h)
  BY <1>1, HeapsAssumption DEF Init
<1>3. HeapWellFormed
  BY <1>1, <1>2, Zenon DEF HeapWellFormed, WellFormed
<1>4. \A a \in H : /\ mem[a] = origMem[a] /\ ~mem[a].relocated
                   /\ mem[a] = Object(origMem[a].size, origMem[a].binary, origMem[a].data)
                   /\ origMem[a].data \in [Words(origMem[a]) -> Word]
  BY <1>2, <1>3, HeapFacts DEF Object
<1>5. Originals
  <2>1. \A a \in H : IsObject(mem[a])
    BY <1>4, ObjectIsObject
  <2>2. \A a \in H : mem[a].data = [k \in Words(origMem[a]) |-> mem[a].data[k]]
    BY <1>4
  <2>3. QED BY <2>1, <2>2, <1>4 DEF Originals
<1>6. Relocated = {} /\ Unfinished = {}
  BY <1>4 DEF Relocated, Unfinished, H
<1>7. Copies
  BY <1>6 DEF Copies
<1>8. Tiled
  BY <1>2, <1>6, OldAddresses DEF Tiled, Init, H
<1>9. Way
  BY <1>6 DEF Way, Init, Top
<1>10. InHand
  BY MoveObjectAssumption DEF InHand, Init
<1>11. Roots
  <2>1. slot \in [1 .. Slots -> Word]
    BY <1>2, <1>3, HeapFacts
  <2>2. slot = [k \in 1 .. Slots |-> slot[k]]
    BY <2>1
  <2>3. QED BY <2>2, <1>2 DEF Roots, Init
<1>12. QED BY <1>3, <1>5, <1>7, <1>8, <1>9, <1>10, <1>11 DEF IInv

LEMMA StutterStep == ASSUME IInv, UNCHANGED vars PROVE IInv'
<1> USE DEF IInv, vars, locals
<1>1. HeapWellFormed' /\ Originals' /\ Copies' /\ Tiled'
  BY HeapUnchanged
<1>2. Top' = Top /\ \A p : Held(p)' = Held(p)
  BY HeapUnchanged DEF Top, Held, ghosts
<1>3. Way'
  BY <1>2, HeapUnchanged DEF Way
<1>4. InHand'
  BY <1>2, HeapUnchanged DEF InHand
<1>5. Roots'
  BY HeapUnchanged DEF Roots, ghosts
<1>6. QED BY <1>1, <1>3, <1>4, <1>5

\* Every step keeps the invariant.

LEMMA StepInv == ASSUME IInv, [Next]_vars PROVE IInv'
BY MoveRootStep, MoveObjectsDoneStep, KeepWordStep, FollowForwardStep, DescendStep,
   AscendStep, NextSiblingStep, ReturnStep, StutterStep DEF Next

\* At every iteration of moveObject() and moveObjects() the invariant holds that the
\* other theorems of this module follow from.
THEOREM Invariance == Spec => []IInv
<1>1. Init => IInv BY InitInv
<1>2. IInv /\ [Next]_vars => IInv' BY StepInv
<1>3. QED BY <1>1, <1>2, PTL DEF Spec

LEMMA TypeFacts == ASSUME IInv PROVE TypeOK
<1> USE DEF IInv
<1>1. DOMAIN origMem \subseteq OldSpace
  BY HeapFacts DEF H
<1>2. activeHeapPointer \in ActiveBase .. ActiveTop
  BY OldAddresses DEF Tiled
<1>3. DOMAIN mem \subseteq DOMAIN origMem \union ActiveBase .. ActiveTop
  <2>1. \A a \in Relocated : Forward(a) \in ActiveBase .. ActiveTop
    BY <1>2, ForwardFacts, OldAddresses
  <2>2. QED BY <2>1 DEF Tiled, H
<1>4. isSmallInteger(currentObject) \/ currentObject \in Nat
  <2>1. CASE pc = "down"
    <3>1. previousObject \in {0} \union Relocated /\ next \in 1 .. Slots
      BY <2>1, MoveObjectAssumption DEF Way, Top, InHand, Unfinished
    <3>2. currentObject \in Word
      BY <2>1, <3>1, HeldFacts DEF InHand
    <3>3. QED BY <3>2, HeapFacts, OldAddresses DEF Word, isSmallInteger
  <2>2. CASE pc = "up"
    BY <2>2, IndexFacts DEF Way, Top, Unfinished
  <2>3. QED BY <2>1, <2>2 DEF InHand
<1>5. \A a \in DOMAIN origMem : mem[a].size \in 0 .. origMem[a].size
  <2>1. TAKE a \in DOMAIN origMem
  <2>2. a \in H /\ origMem[a].size \in Nat
    BY HeapFacts DEF H
  <2>3. CASE mem[a].relocated
    BY <2>2, <2>3 DEF Originals
  <2>4. CASE ~mem[a].relocated
    <3>1. mem[a] = origMem[a]
      BY <2>2, <2>4 DEF Originals
    <3>2. QED BY <2>2, <3>1
  <2>5. QED BY <2>3, <2>4
<1>6. QED BY <1>1, <1>2, <1>3, <1>4, <1>5 DEF TypeOK, InHand, Way

\* Every object the collector has started on leads to one copy of its own,

\* of the right shape, and no two copies overlap, whatever the old space
\* holds and however its pointers share and cycle (descend(), stage 1 of
\* moveObject()).
THEOREM ForwardingCorrect == Spec => []ForwardingExact
<1>1. ASSUME IInv PROVE ForwardingExact
  <2> USE <1>1 DEF IInv
  <2>1. ASSUME NEW a \in Relocated
        PROVE  /\ Forward(a) \in DOMAIN mem \ OldSpace
               /\ mem[Forward(a)].size = origMem[a].size
               /\ mem[Forward(a)].binary = origMem[a].binary
    <3>1. mem[Forward(a)] = Object(origMem[a].size, origMem[a].binary, mem[Forward(a)].data)
      BY DEF Copies
    <3>2. mem[Forward(a)].size = origMem[a].size /\ mem[Forward(a)].binary = origMem[a].binary
      BY <3>1 DEF Object
    <3>3. QED BY <3>2, ForwardFacts
  <2>2. \A a \in Relocated : Extent(a) \subseteq activeHeapPointer .. ActiveTop - 1
    BY DEF Tiled
  <2>3. \A a \in Relocated : \A b \in Relocated \ {a} : Extent(a) \intersect Extent(b) = {}
    BY DEF Tiled
  <2>4. QED BY <2>1, <2>2, <2>3, TypeFacts DEF ForwardingExact
<1>2. QED BY <1>1, Invariance, PTL

\* The pointers left in the copies lead from the object at work through every

\* unfinished object back to the root (stage 2 of moveObject()).
THEOREM WayBackCorrect == Spec => []WayBack
<1>1. ASSUME IInv PROVE WayBack
  <2> USE <1>1 DEF IInv
  <2>1. ClosedWay(Unfinished)
    BY DEF ClosedWay, Way
  <2>2. \A S \in SUBSET Unfinished : ClosedWay(S) => S = Unfinished
    BY WholeWay
  <2>3. ASSUME Unfinished # {} PROVE \E a \in Unfinished : Parent(a) = 0
    <3> DEFINE F == {Forward(a) : a \in Unfinished}
    <3>1. \A a \in Unfinished : Forward(a) \in 0 .. ActiveTop
      BY ForwardFacts, OldAddresses DEF Tiled, Unfinished
    <3>2. PICK x \in F : \A y \in F : x >= y
      <4>1. F \subseteq 0 .. ActiveTop /\ F # {}
        BY <2>3, <3>1
      <4> HIDE DEF F
      <4>2. QED BY <4>1, GreatestNatural, OldAddresses
    <3>3. PICK a \in Unfinished : x = Forward(a)
      BY <3>2
    <3>4. Parent(a) \in {0} \union Unfinished /\ (Parent(a) # 0 => Forward(a) < Forward(Parent(a)))
      BY DEF Way
    <3>5. QED BY <3>1, <3>2, <3>3, <3>4
  <2>4. QED BY <2>1, <2>2, <2>3 DEF WayBack
<1>2. QED BY <1>1, Invariance, PTL

\* Reachable holds the roots and is closed under the pointers of its members.

LEMMA ReachableFacts ==
  ASSUME HeapWellFormed
  PROVE  /\ \A k \in 1 .. Slots : origSlot[k] \in OldSpace => origSlot[k] \in Reachable
         /\ \A a \in Reachable : \A k \in Words(origMem[a]) :
              origMem[a].data[k] \in OldSpace => origMem[a].data[k] \in Reachable
         /\ Reachable \subseteq H
<1>1. ASSUME NEW w \in OldSpace, w \in H,
             \A S \in SUBSET H : Closed(S) => w \in S
      PROVE  w \in Reachable
  BY <1>1 DEF Reachable, H
<1>2. ASSUME NEW k \in 1 .. Slots, origSlot[k] \in OldSpace
      PROVE  origSlot[k] \in Reachable
  <2>1. origSlot[k] \in H
    BY <1>2, HeapFacts, OldAddresses DEF Word
  <2>2. \A S \in SUBSET H : Closed(S) => origSlot[k] \in S
    BY <1>2 DEF Closed, RootSet
  <2>3. QED BY <1>1, <1>2, <2>1, <2>2
<1>3. ASSUME NEW a \in Reachable, NEW k \in Words(origMem[a]), origMem[a].data[k] \in OldSpace
      PROVE  origMem[a].data[k] \in Reachable
  <2>1. a \in H /\ \A S \in SUBSET H : Closed(S) => a \in S
    BY DEF Reachable, H
  <2>2. origMem[a].data[k] \in H
    BY <1>3, <2>1, WordFacts, OldAddresses DEF Word
  <2>3. DOMAIN origMem[a].data = Words(origMem[a])
    BY <2>1, HeapFacts
  <2>4. ASSUME NEW S \in SUBSET H, Closed(S) PROVE origMem[a].data[k] \in S
    <3>1. a \in S
      BY <2>1, <2>4
    <3>2. origMem[a].data[k] \in Pointers(origMem[a])
      BY <2>3 DEF Pointers
    <3>3. origMem[a].data[k] \in UNION {Pointers(origMem[b]) : b \in S}
      BY <3>1, <3>2
    <3>4. QED BY <1>3, <2>4, <3>3 DEF Closed
  <2>5. QED BY <1>1, <1>3, <2>2, <2>4
<1>4. QED BY <1>2, <1>3 DEF Reachable, H

\* The collector starts on nothing but what is reachable.
OnlyReachable == Relocated \subseteq Reachable

LEMMA OnlyReachableStep ==
  ASSUME IInv, OnlyReachable, [Next]_vars
  PROVE  OnlyReachable'
<1>1. UNCHANGED ghosts /\ Reachable' = Reachable
  <2>1. UNCHANGED ghosts
    BY DEF Next, vars, MoveRoot, MoveObjectsDone, KeepWord, FollowForward, TurnBack, Descend,
           Ascend, NextSibling, Return
  <2>2. QED BY <2>1 DEF Reachable, Closed, RootSet, ghosts
<1>2. CASE Descend
  <2>1. PICK c : c = currentObject
    OBVIOUS
  <2>2. PICK p : p = previousObject
    OBVIOUS
  <2>3. PICK copy : copy = activeHeapPointer'
    OBVIOUS
  <2>4. /\ c = Held(p) /\ p \in {0} \union Unfinished /\ c \in H /\ c # copy
        /\ \A a \in DOMAIN mem \ {c} : mem'[a] = mem[a]
    BY <1>2, <2>1, <2>2, <2>3, DescendEffect DEF IInv, Tiled
  <2>5. Relocated' \subseteq Relocated \union {c}
    BY <1>1, <2>4 DEF Relocated, IInv, Tiled, H, ghosts
  <2>6. c \in OldSpace /\ next \in 1 .. Slots
    BY <1>2, <2>1, MoveObjectAssumption DEF Descend, inOldSpace, IInv, InHand
  <2>7. c \in Reachable
    <3>1. CASE p = 0
      BY <3>1, <2>4, <2>6, ReachableFacts DEF Held, IInv
    <3>2. CASE p # 0
      <4>1. p \in Relocated /\ Index(p) \in Words(origMem[p])
        BY <2>4, <3>2, IndexFacts DEF Unfinished, IInv
      <4>2. c = origMem[p].data[Index(p)]
        BY <2>4, <3>2 DEF Held
      <4>3. QED BY <4>1, <4>2, <2>6, ReachableFacts DEF OnlyReachable, IInv
    <3>3. QED BY <3>1, <3>2
  <2>8. QED BY <1>1, <2>5, <2>7 DEF OnlyReachable
<1>3. CASE Ascend
  BY <1>1, <1>3, AscendStep DEF OnlyReachable
<1>4. CASE NextSibling
  BY <1>1, <1>4, NextSiblingStep DEF OnlyReachable
<1>5. CASE UNCHANGED mem
  BY <1>1, <1>5 DEF OnlyReachable, Relocated, ghosts
<1>6. QED
  BY <1>2, <1>3, <1>4, <1>5
     DEF Next, vars, MoveRoot, MoveObjectsDone, KeepWord, FollowForward, TurnBack, Return

\* A collection copies exactly the objects the roots reach, each of them once

\* and side by side, keeps every pointer between them and every word that is
\* no pointer, and leads every root to the copies (moveObjects()).
THEOREM CopyCorrect == Spec => []CopyIsomorphic
<1>1. ASSUME IInv, OnlyReachable, pc = "done"
      PROVE  CopyIsomorphic
  <2> USE <1>1 DEF IInv
  <2>1. Unfinished = {} /\ next = Slots + 1 /\ Slots \in Nat
    BY NoneUnfinished, MoveObjectAssumption DEF Top, InHand
  <2>2. \A k \in 1 .. Slots : slot[k] = Moved(origSlot[k]) /\ Settled(origSlot[k])
    BY <2>1 DEF Roots
  <2>3. \A a \in Relocated : \A k \in Words(origMem[a]) :
          /\ mem[Forward(a)].data[k] = Moved(origMem[a].data[k])
          /\ Settled(origMem[a].data[k])
    BY <2>1 DEF Copies
  <2>4. Closed(Relocated)
    <3>1. SUFFICES ASSUME NEW w \in OldSpace,
                          w \in RootSet \/ \E a \in Relocated : w \in Pointers(origMem[a])
                   PROVE  w \in Relocated
      BY DEF Closed
    <3>2. CASE w \in RootSet
      BY <3>2, <2>2 DEF RootSet, Settled
    <3>3. ASSUME NEW a \in Relocated, w \in Pointers(origMem[a]) PROVE w \in Relocated
      <4>1. DOMAIN origMem[a].data = Words(origMem[a])
        BY IndexFacts, HeapFacts
      <4>2. QED BY <3>3, <4>1, <2>3 DEF Pointers, Settled
    <3>4. QED BY <3>1, <3>2, <3>3
  <2>5. Relocated = Reachable
    <3>1. Relocated \in SUBSET DOMAIN origMem
      BY DEF Relocated
    <3>2. QED BY <2>4, <3>1 DEF OnlyReachable, Reachable
  <2>6. \A w : Settled(w) => Moved(w) = Image(w)
    BY <2>5, ReachableFacts, HeapFacts DEF Settled, Moved, Image
  <2>7. \A k \in 1 .. Slots : slot[k] = Image(origSlot[k])
    BY <2>2, <2>6
  <2>8. ASSUME NEW a \in Reachable
        PROVE  mem[Forward(a)] = Object(origMem[a].size, origMem[a].binary,
                   [k \in DOMAIN origMem[a].data |-> Image(origMem[a].data[k])])
    <3>1. mem[Forward(a)] = Object(origMem[a].size, origMem[a].binary, mem[Forward(a)].data)
          /\ mem[Forward(a)].data = [k \in Words(origMem[a]) |-> mem[Forward(a)].data[k]]
      BY <2>5 DEF Copies
    <3>2. \A k \in Words(origMem[a]) : mem[Forward(a)].data[k] = Image(origMem[a].data[k])
      BY <2>3, <2>5, <2>6
    <3>3. DOMAIN origMem[a].data = Words(origMem[a])
      BY <2>5, IndexFacts, HeapFacts
    <3>4. mem[Forward(a)].data = [k \in DOMAIN origMem[a].data |-> Image(origMem[a].data[k])]
      BY <3>1, <3>2, <3>3
    <3>5. QED BY <3>1, <3>4
  <2>9. activeHeapPointer .. ActiveTop - 1 = UNION {Extent(a) : a \in Reachable}
    BY <2>5 DEF Tiled
  <2>10. QED BY <2>5, <2>7, <2>8, <2>9 DEF CopyIsomorphic
<1>2. Init => OnlyReachable
  <2>1. SUFFICES ASSUME Init PROVE Relocated = {}
    BY DEF OnlyReachable
  <2>2. HeapWellFormed /\ origMem = mem
    BY <2>1, InitInv DEF IInv, Init
  <2>3. QED BY <2>2, HeapFacts DEF Relocated, Object, H
<1>3. IInv /\ OnlyReachable /\ [Next]_vars => OnlyReachable'
  BY OnlyReachableStep
<1>4. IInv /\ OnlyReachable => CopyIsomorphic
  BY <1>1 DEF CopyIsomorphic
<1>5. QED BY <1>2, <1>3, <1>4, Invariance, PTL DEF Spec
=============================================================================

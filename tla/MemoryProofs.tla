---------------------------- MODULE MemoryProofs ----------------------------
(***************************************************************************)
(* The memory managers.  First the semispace arithmetic of                 *)
(* BakerMemoryManager, and the refinement: both memory managers main() may *)
(* create implement MemoryManager.  Then the roots of a collection: a slot *)
(* maintained through checkRoot() is on the root list while it holds a     *)
(* non-static word, the external pointer list is the call stack, and no    *)
(* such slot and no hptr<> dangles.  Everything holds for every heap size, *)
(* every limit, every sequence of requests, every static heap, every image *)
(* and any number of hptr<>s that live and die like automatic variables.   *)
(***************************************************************************)
EXTENDS MemoryManagers, BakerRoots, SequenceTheorems, TLAPS

-----------------------------------------------------------------------------
(***************************************************************************)
(* What the loop of allocate() relies on from one attempt to the next, as  *)
(* long as no sum wrapped around.                                          *)
(***************************************************************************)
LargeRoom ==
  path = "large" /\ ~wrapped =>
    /\ pc = "attempt" =>
         /\ attempts # 0
         /\ attempts = 2 => request + live <= Mediane
         /\ attempts = 1 => request <= pointer
    /\ pc \in Growing =>
         /\ attempts # 0
         /\ attempts = 1 => request + live <= Mediane

FitsRoom ==
  /\ path = "fits" /\ pc = "attempt" =>
       /\ attempts <= 1 => pointer = Mediane - live
       /\ attempts = 0 => request > Mediane - live
  /\ pc \in Growing => path # "fits"

NoResultYet == pc # "idle" => result = "none"

(***************************************************************************)
(* The halves, step by step through growHeap(): only the one that was      *)
(* reallocated and not yet collected into may be smaller than the mediane, *)
(* and then only after a wrap, because a grown half holds the request      *)
(* beside a full old one.  top <= Mediane is the missing link: after       *)
(* growHeap() the pointer still starts from the old mediane, which is what *)
(* makes the live bytes fit the next, larger, copy.                        *)
(***************************************************************************)
HalvesInv ==
  ~wild =>
    /\ live <= top - pointer
    /\ top <= capacity[active]
    /\ top <= Mediane
    /\ \A s \in Spaces : (pc = "collectOut" /\ s = Other(active)) \/ Mediane <= capacity[s]
    /\ pc = "collectOut" => capacity[Other(active)] = grown \div 2
    /\ pc = "reallocOther" => capacity[active] = grown \div 2
    /\ pc = "collectBack" => \A s \in Spaces : capacity[s] = grown \div 2

GrowthInv ==
  /\ wild => wrapped
  /\ pc \in Growing /\ ~wrapped => request + Mediane <= grown \div 2

(***************************************************************************)
(* The inductive invariant.                                                *)
(***************************************************************************)
IInv ==
  /\ TypeOK
  /\ HalvesInv
  /\ GrowthInv
  /\ LargeRoom
  /\ FitsRoom
  /\ LargeRequestServed
  /\ NoResultYet

\* A number as a word.
LEMMA WordRange ==
  ASSUME NEW n \in Nat
  PROVE  /\ (n % WordValues) \in 0 .. WordValues - 1
         /\ (n % WordValues) <= n
         /\ n < WordValues => (n % WordValues) = n
         /\ n = WordValues => (n % WordValues) = 0
  BY BakerAllocatorAssumption

\* Padding rounds up, unless it wraps around.
LEMMA Padding ==
  ASSUME NEW n \in Nat
  PROVE  /\ correctPadding(n) \in Nat
         /\ correctPadding(n) <= n + 3
         /\ n + 3 < WordValues => correctPadding(n) >= n
  <1> DEFINE w == (n + 3) % WordValues
  <1>1. w \in Nat /\ w <= n + 3 /\ (n + 3 < WordValues => w = n + 3)
    BY WordRange, BakerAllocatorAssumption
  <1>2. correctPadding(n) = (w \div 4) * 4
    BY DEF correctPadding
  <1> HIDE DEF w
  <1>3. (w \div 4) * 4 \in Nat /\ (w \div 4) * 4 <= w /\ (w \div 4) * 4 + 3 >= w
    BY <1>1
  <1> QED
    BY <1>1, <1>2, <1>3, BakerAllocatorAssumption

(***************************************************************************)
(* The size growHeap() picks: at most half as much again and twice the     *)
(* request, with two roundings; and unless the sum wraps, each half holds  *)
(* the request beside a full old half.                                     *)
(***************************************************************************)
LEMMA GrownSize ==
  ASSUME heapSize \in Nat, NEW n \in Nat
  PROVE  /\ Enlarged(n) \in Nat
         /\ AlignHalf(Enlarged(n)) \in Nat
         /\ AlignHalf(Enlarged(n)) <= Enlarged(n) + 4
         /\ Enlarged(n) <= 2 * n + heapSize + heapSize \div 2 + 3
         /\ ~SumWraps(n) => AlignHalf(Enlarged(n)) \div 2 >= n + heapSize \div 2
  <1> DEFINE m == 2 * n + heapSize + heapSize \div 2
             e == Enlarged(n)
             a == AlignHalf(e)
  <1>1. m \in Nat /\ heapSize \div 2 \in Nat /\ m >= 2 * n + 2 * (heapSize \div 2)
    OBVIOUS
  <1>2. e = correctPadding(m)
    BY DEF Enlarged
  <1>3. e \in Nat /\ e <= m + 3 /\ (~SumWraps(n) => e >= m)
    <2> HIDE DEF m, e
    <2>1. e \in Nat /\ e <= m + 3 /\ (m + 3 < WordValues => e >= m)
      BY <1>1, <1>2, Padding
    <2>2. ~SumWraps(n) => m + 3 < WordValues
      BY <1>1, BakerAllocatorAssumption DEF SumWraps, m
    <2> QED
      BY <2>1, <2>2
  <1>4. a \in Nat /\ a <= e + 4 /\ (~SumWraps(n) => a >= e)
    <2>1. ~SumWraps(n) => m + 7 < WordValues
      BY <1>1, BakerAllocatorAssumption DEF SumWraps
    <2> HIDE DEF m, e
    <2>2. e + 1 \in Nat
      BY <1>3
    <2>3. /\ correctPadding(e + 1) \in Nat
          /\ correctPadding(e + 1) <= e + 4
          /\ e + 4 < WordValues => correctPadding(e + 1) >= e + 1
      BY <1>3, <2>2, Padding
    <2>4. ~SumWraps(n) => e + 4 < WordValues
      BY <1>1, <1>3, <2>1, BakerAllocatorAssumption
    <2> QED
      BY <1>3, <2>3, <2>4 DEF AlignHalf
  <1>5. ~SumWraps(n) => a \div 2 >= n + heapSize \div 2
    <2> DEFINE h == heapSize \div 2
    <2>1. h \in Nat /\ m >= 2 * n + 2 * h
      BY <1>1
    <2> HIDE DEF m, e, a, h
    <2>2. ~SumWraps(n) => a >= 2 * n + 2 * h
      BY <1>1, <1>3, <1>4, <2>1
    <2>3. ~SumWraps(n) => a \div 2 >= n + h
      BY <1>4, <2>1, <2>2
    <2> QED
      BY <2>3 DEF h
  <1> QED
    BY <1>3, <1>4, <1>5

LEMMA InitIInv == Init => IInv
  <1> SUFFICES ASSUME Init PROVE IInv
    OBVIOUS
  <1>1. heapSize \in Nat
    BY Padding, BakerAllocatorAssumption DEF Init
  <1>2. Mediane \in Nat
    BY <1>1 DEF Mediane
  <1>2a. gcOccured = FALSE /\ wrapped = FALSE /\ wild = FALSE
    BY DEF Init
  <1>2b. gcOccured \in BOOLEAN /\ wrapped \in BOOLEAN /\ wild \in BOOLEAN
    BY <1>2a, Zenon
  <1>3. TypeOK
    BY <1>1, <1>2, <1>2b DEF Init, TypeOK, Spaces, Growing
  <1>4. HalvesInv /\ GrowthInv
    BY <1>2 DEF Init, HalvesInv, GrowthInv, Spaces, Growing
  <1>5. LargeRoom /\ FitsRoom /\ LargeRequestServed /\ NoResultYet
    BY DEF Init, LargeRoom, FitsRoom, LargeRequestServed, NoResultYet, Growing
  <1> QED
    BY <1>3, <1>4, <1>5 DEF IInv
-----------------------------------------------------------------------------
\* growHeap() is called: the size it asks for is a number, and large enough.
LEMMA StartGrowthFits ==
  ASSUME IInv, NEW n \in Nat, StartGrowth(n), heapSize' = heapSize
  PROVE  /\ grown' \in Nat /\ wrapped' \in BOOLEAN
         /\ ~wrapped' => ~wrapped /\ n + Mediane' <= grown' \div 2
         /\ pc' = "reallocInactive"
  <1>1. heapSize \in Nat
    BY DEF IInv, TypeOK
  <1>2. wrapped' \in BOOLEAN
    BY Zenon DEF StartGrowth, IInv, TypeOK
  <1>3. wrapped' <=> wrapped \/ SumWraps(n)
    BY DEF StartGrowth
  <1>4. ~SumWraps(n) => AlignHalf(Enlarged(n)) \div 2 >= n + heapSize \div 2
    BY <1>1, GrownSize
  <1>5. grown' = AlignHalf(Enlarged(n)) /\ pc' = "reallocInactive" /\ grown' \in Nat
    BY <1>1, GrownSize DEF StartGrowth
  <1> DEFINE a == AlignHalf(Enlarged(n))
  <1> HIDE DEF a
  <1>6. Mediane' = heapSize \div 2 /\ heapSize \div 2 \in Nat
    BY <1>1 DEF Mediane
  <1>7. ~SumWraps(n) => n + heapSize \div 2 <= grown' \div 2
    <2>1. grown' \div 2 \in Nat
      BY <1>5
    <2> QED
      BY <1>4, <1>5, <1>6, <2>1
  <1> QED
    BY <1>2, <1>3, <1>5, <1>6, <1>7

\* collectGarbage() into a block that is large enough: the copy fits, and the
\* free part is what is not live.
LEMMA CollectGarbageFits ==
  ASSUME IInv, ~wild, collectGarbage, heapSize' = heapSize, capacity' = capacity, live' = live
  PROVE  /\ active' \in Spaces /\ pointer' \in Nat /\ top' \in Nat
         /\ active' = Other(active) /\ Other(active') = active
         /\ pointer' = Mediane - live
         /\ live' <= top' - pointer' /\ top' = Mediane /\ Mediane' = Mediane
         /\ wild' <=> capacity[active'] < Mediane
         /\ wild' \in BOOLEAN
         /\ Mediane <= capacity[Other(active)] => ~wild'
  <1>1. Mediane \in Nat /\ live \in Nat /\ live <= Mediane /\ active \in Spaces
    BY DEF IInv, TypeOK, HalvesInv, Mediane
  <1>2. Mediane' = Mediane
    BY DEF Mediane
  <1>3. Other(active) \in Spaces /\ Other(Other(active)) = active
    BY <1>1 DEF Spaces, Other
  <1>4. capacity[Other(active)] \in Nat
    BY <1>3 DEF IInv, TypeOK
  <1> DEFINE smaller == capacity[Other(active)] < Mediane
  <1>5. wild' = smaller /\ smaller \in BOOLEAN
    <2>1. smaller \in BOOLEAN
      OBVIOUS
    <2> QED
      BY <2>1, Zenon DEF collectGarbage
  <1>6. smaller <=> capacity[Other(active)] < Mediane
    OBVIOUS
  <1>7. active' = Other(active) /\ top' = Mediane /\ pointer' = Mediane - live
    BY DEF collectGarbage
  <1> HIDE DEF smaller
  <1> QED
    BY <1>1, <1>2, <1>3, <1>4, <1>5, <1>6, <1>7

(***************************************************************************)
(* The flags stay Boolean.                                                 *)
(***************************************************************************)
Flags == gcOccured \in BOOLEAN /\ wrapped \in BOOLEAN /\ wild \in BOOLEAN

LEMMA NextCases ==
  ASSUME Next
  PROVE  /\ ~wild
         /\ \/ \E r \in Requests : AllocateLarge(r)
            \/ \E r \in Requests : AllocateRefused(r) \/ Allocate(r)
            \/ \E r \in Requests : Drop(r)
            \/ Bump \/ BumpWild \/ Collect \/ CollectAndGrow \/ Exhausted
            \/ ReallocInactive \/ ReallocOther \/ CollectOut \/ CollectBack \/ ReallocFails
            \/ ForceCollection
  BY DEF Next, Answer

LEMMA FlagsKept == IInv /\ Next => Flags'
  <1> SUFFICES ASSUME IInv, Next PROVE Flags'
    OBVIOUS
  <1>1. gcOccured' = gcOccured \/ gcOccured' = TRUE \/ gcOccured' = FALSE
    BY DEF Next, AllocateLarge, AllocateRefused, Allocate, Answer, Bump, BumpWild, Collect,
       CollectAndGrow, Exhausted, ReallocInactive, CollectOut, ReallocOther, CollectBack,
       ReallocFails, Realloc, Drop, ForceCollection, callVars
  <1> DEFINE Starts(n) == StartGrowth(n)
             Collects == collectGarbage
  <1>2. wrapped' = wrapped \/ wrapped' = TRUE \/ \E n \in Nat : wrapped' = (wrapped \/ SumWraps(n))
    <2>1. request \in Nat /\ \A r \in Requests : r \in Nat
      BY BakerAllocatorAssumption DEF IInv, TypeOK
    <2>2. wrapped' = wrapped \/ wrapped' = TRUE \/ \E n \in Nat : Starts(n)
      <3> HIDE DEF Starts
      <3>1. (\E r \in Requests : AllocateLarge(r)) \/ CollectAndGrow => \E n \in Nat : Starts(n)
        BY <2>1, Zenon DEF AllocateLarge, CollectAndGrow, Starts
      <3>2. ASSUME NEW r \in Requests, AllocateRefused(r) \/ Allocate(r) \/ Drop(r) PROVE wrapped' = wrapped
        BY <3>2 DEF AllocateRefused, Allocate, Drop, ghostVars
      <3>3. BumpWild => wrapped' = TRUE
        BY DEF BumpWild
      <3>4. \/ Bump \/ Collect \/ Exhausted \/ ReallocInactive \/ CollectOut \/ ReallocOther
            \/ CollectBack \/ ReallocFails \/ ForceCollection
            => wrapped' = wrapped
        BY DEF Bump, Collect, Exhausted, ReallocInactive, CollectOut, ReallocOther, CollectBack,
               ReallocFails, Realloc, ForceCollection, ghostVars
      <3> QED
        BY <3>1, <3>2, <3>3, <3>4, NextCases
    <2> QED
      BY <2>2, Zenon DEF StartGrowth
  <1>3. wild' = wild \/ wild' = TRUE \/ wild' = (capacity[Other(active)] < Mediane)
    <2>1. wild' = wild \/ wild' = TRUE \/ Collects
      <3> HIDE DEF Collects
      <3>1. Collect \/ CollectAndGrow \/ CollectOut \/ CollectBack \/ ForceCollection => Collects
        BY Zenon DEF Collect, CollectAndGrow, CollectOut, CollectBack, ForceCollection, Collects
      <3>2. ASSUME NEW r \in Requests, AllocateLarge(r) \/ AllocateRefused(r) \/ Allocate(r) \/ Drop(r)
            PROVE  wild' = wild
        BY <3>2 DEF AllocateLarge, AllocateRefused, Allocate, Drop, ghostVars
      <3>3. BumpWild => wild' = TRUE
        BY DEF BumpWild
      <3>4. Bump \/ Exhausted \/ ReallocInactive \/ ReallocOther \/ ReallocFails => wild' = wild
        BY DEF Bump, Exhausted, ReallocInactive, ReallocOther, ReallocFails, Realloc, ghostVars
      <3> QED
        BY <3>1, <3>2, <3>3, <3>4, NextCases
    <2> QED
      BY <2>1, Zenon DEF collectGarbage
  <1>4. (capacity[Other(active)] < Mediane) \in BOOLEAN
    OBVIOUS
  <1>5. gcOccured \in BOOLEAN /\ wrapped \in BOOLEAN /\ wild \in BOOLEAN
    BY Zenon DEF IInv, TypeOK
  <1> QED
    BY <1>1, <1>2, <1>3, <1>4, <1>5, Zenon DEF Flags

\* What is left of the type invariant.
Numbers ==
  /\ heapSize \in Nat
  /\ capacity \in [Spaces -> Nat]
  /\ active \in Spaces
  /\ pointer \in Nat
  /\ top \in Nat
  /\ live \in Nat
  /\ grown \in Nat
  /\ pc \in {"idle", "attempt", "aborted"} \union Growing
  /\ request \in Nat
  /\ attempts \in 0 .. 2
  /\ path \in {"fits", "large", "grown"}
  /\ result \in {"none", "memory", "null"}

LEMMA TypeParts == TypeOK <=> Numbers /\ Flags
  BY Zenon DEF TypeOK, Numbers, Flags

\* A step that neither collects nor reallocates.
LEMMA HalvesUntouched ==
  ASSUME IInv, ~wild, UNCHANGED <<heapVars, grown>>, pc \notin Growing,
         pc' \notin Growing \ {"reallocInactive"}
  PROVE  HalvesInv'
  <1>1. Mediane' = Mediane
    BY DEF heapVars, Mediane
  <1> QED
    BY <1>1 DEF IInv, HalvesInv, heapVars, Growing, Other, Spaces

\* Every step preserves the inductive invariant: one step per action.
LEMMA StepIInv == IInv /\ [Next]_vars => IInv'
  <1> SUFFICES ASSUME IInv, [Next]_vars PROVE IInv'
    OBVIOUS
  <1> USE BakerAllocatorAssumption
  <1>0. ASSUME Next, Numbers' PROVE TypeOK'
    <2>1. Flags'
      BY <1>0, FlagsKept
    <2> QED
      BY <1>0, <2>1, Zenon DEF TypeOK, Numbers, Flags
  <1>n. Numbers
    BY TypeParts DEF IInv
  <1>1. ASSUME ~wild, NEW r \in Requests, AllocateLarge(r), Next PROVE IInv'
    <2>1. StartGrowth(r) /\ UNCHANGED <<heapVars, wild>> /\ r \in Nat /\ request' = r /\ attempts' = 2
          /\ path' = "large" /\ result' = "none" /\ pc = "idle"
      BY <1>1 DEF AllocateLarge
    <2>2. heapSize' = heapSize
      BY <2>1 DEF heapVars
    <2>3. /\ grown' \in Nat
          /\ ~wrapped' => r + Mediane' <= grown' \div 2
          /\ pc' = "reallocInactive"
      BY <2>1, <2>2, StartGrowthFits
    <2>4. TypeOK'
      <3>1. Numbers'
        BY <1>n, <2>1, <2>3 DEF Numbers, heapVars, Growing
      <3> QED
        BY <1>0, <1>1, <3>1
    <2>5. HalvesInv'
      <3>1. Mediane' = Mediane
        BY <2>2 DEF Mediane
      <3> QED
        BY <1>1, <2>1, <2>3, <3>1 DEF IInv, HalvesInv, heapVars, Spaces
    <2>6. GrowthInv'
      BY <1>1, <2>1, <2>3 DEF GrowthInv
    <2> QED
      BY <2>1, <2>3, <2>4, <2>5, <2>6
      DEF IInv, LargeRoom, FitsRoom, LargeRequestServed, NoResultYet, Growing
  <1>2. ASSUME ~wild, NEW r \in Requests, AllocateRefused(r) \/ Allocate(r), Next PROVE IInv'
    <2>1. /\ UNCHANGED <<heapVars, grown, ghostVars>> /\ r \in Nat /\ request' = r /\ path' = "fits"
          /\ pc = "idle" /\ attempts' \in {0, 2}
          /\ \/ pc' = "idle" /\ result' = "null"
             \/ pc' = "attempt" /\ result' = "none" /\ attempts' = 2
      BY <1>2 DEF AllocateRefused, Allocate
    <2>2. TypeOK'
      <3>1. Numbers'
        BY <1>n, <2>1 DEF Numbers, heapVars, Growing
      <3> QED
        BY <1>0, <1>2, <3>1
    <2>3. HalvesInv'
      BY <1>2, <2>1, HalvesUntouched DEF Growing
    <2>4. GrowthInv'
      BY <1>2, <2>1 DEF GrowthInv, ghostVars, Growing
    <2> QED
      BY <2>1, <2>2, <2>3, <2>4
      DEF IInv, LargeRoom, FitsRoom, LargeRequestServed, NoResultYet, Growing
  <1>3. ASSUME ~wild, Bump, Next PROVE IInv'
    <2>1. TypeOK'
      <3>1. Numbers'
        BY <1>n, <1>3 DEF Bump, Numbers, Growing
      <3> QED
        BY <1>0, <1>3, <3>1
    <2>2. Mediane' = Mediane
      BY <1>3 DEF Bump, Mediane
    <2>3. HalvesInv'
      BY <1>n, <1>3, <2>2 DEF Bump, IInv, HalvesInv, Numbers
    <2>4. GrowthInv'
      BY <1>3 DEF Bump, GrowthInv, ghostVars, Growing
    <2> QED
      BY <1>3, <2>1, <2>3, <2>4
      DEF Bump, IInv, LargeRoom, FitsRoom, LargeRequestServed, NoResultYet, Growing
  <1>4. ASSUME ~wild, BumpWild, Next PROVE IInv'
    <2>1. TypeOK'
      <3>1. Numbers'
        BY <1>n, <1>4 DEF BumpWild, Numbers, heapVars, callVars
      <3> QED
        BY <1>0, <1>4, <3>1
    <2> QED
      BY <1>4, <2>1 DEF BumpWild, IInv, HalvesInv, GrowthInv, LargeRoom, FitsRoom,
         LargeRequestServed, NoResultYet, Growing, callVars, heapVars, Mediane
  <1>5. ASSUME ~wild, Collect, Next PROVE IInv'
    <2>1. collectGarbage /\ heapSize' = heapSize /\ capacity' = capacity /\ live' = live
          /\ UNCHANGED <<grown, pc, request, path, result, wrapped>> /\ pc = "attempt"
          /\ attempts > 0 /\ attempts' = attempts - 1 /\ request > pointer
      BY <1>5 DEF Collect
    <2>2. /\ active' \in Spaces /\ pointer' \in Nat /\ top' \in Nat
          /\ active' = Other(active) /\ Other(active') = active
          /\ pointer' = Mediane - live
          /\ live' <= top' - pointer' /\ top' = Mediane /\ Mediane' = Mediane
          /\ Mediane <= capacity[Other(active)] => ~wild'
      BY <1>5, <2>1, CollectGarbageFits
    <2>3. \A s \in Spaces : Mediane <= capacity[s]
      BY <1>5, <2>1 DEF IInv, HalvesInv
    <2>4. ~wild'
      BY <2>2, <2>3
    <2>5. TypeOK'
      <3>1. Numbers'
        BY <1>n, <2>1, <2>2 DEF Numbers
      <3> QED
        BY <1>0, <1>5, <3>1
    <2>6. HalvesInv' /\ GrowthInv'
      BY <2>1, <2>2, <2>3, <2>4 DEF HalvesInv, GrowthInv, Growing
    <2>7. LargeRoom'
      BY <1>n, <2>1, <2>2 DEF IInv, LargeRoom, Numbers, Mediane, Growing
    <2>8. FitsRoom'
      BY <1>n, <2>1, <2>2 DEF IInv, FitsRoom, Numbers, Mediane, Growing
    <2> QED
      BY <2>1, <2>5, <2>6, <2>7, <2>8 DEF IInv, LargeRequestServed, NoResultYet
  <1>6. ASSUME ~wild, CollectAndGrow, Next PROVE IInv'
    <2>1. collectGarbage /\ heapSize' = heapSize /\ capacity' = capacity /\ live' = live
          /\ StartGrowth(request) /\ request \in Nat
          /\ UNCHANGED <<request, result>> /\ pc = "attempt" /\ attempts > 0
          /\ attempts' = attempts - 1 /\ request > pointer
          /\ path' = IF path = "large" THEN "large" ELSE "grown"
      BY <1>6, <1>n DEF CollectAndGrow, Numbers
    <2>2. /\ active' \in Spaces /\ pointer' \in Nat /\ top' \in Nat
          /\ active' = Other(active) /\ Other(active') = active
          /\ pointer' = Mediane - live
          /\ live' <= top' - pointer' /\ top' = Mediane /\ Mediane' = Mediane
          /\ Mediane <= capacity[Other(active)] => ~wild'
      BY <1>6, <2>1, CollectGarbageFits
    <2>3. /\ grown' \in Nat
          /\ ~wrapped' => ~wrapped /\ request + Mediane' <= grown' \div 2
          /\ pc' = "reallocInactive"
      BY <2>1, StartGrowthFits
    <2>4. ~wild' /\ \A s \in Spaces : Mediane <= capacity[s]
      BY <1>6, <2>1, <2>2 DEF IInv, HalvesInv
    <2>5. TypeOK'
      <3>1. Numbers'
        BY <1>n, <2>1, <2>2, <2>3 DEF Numbers, Growing
      <3> QED
        BY <1>0, <1>6, <3>1
    <2>6a. HalvesInv'
      BY <2>1, <2>2, <2>3, <2>4 DEF HalvesInv
    <2>6b. GrowthInv'
      BY <2>1, <2>3, <2>4 DEF GrowthInv
    <2>7. LargeRoom'
      <3>1. SUFFICES ASSUME path = "large", ~wrapped'
                     PROVE  attempts' # 0 /\ (attempts' = 1 => request + live <= Mediane)
        BY <2>1, <2>2, <2>3 DEF LargeRoom, Growing
      <3>2. ~wrapped
        BY <2>3, <3>1
      <3>3. attempts # 1
        BY <1>n, <2>1, <3>1, <3>2 DEF IInv, LargeRoom, Numbers
      <3>4. attempts = 2
        BY <1>n, <2>1, <3>3 DEF Numbers
      <3> QED
        BY <2>1, <3>1, <3>2, <3>4 DEF IInv, LargeRoom
    <2>8. FitsRoom'
      BY <2>1, <2>3 DEF FitsRoom
    <2>9. result' = "none"
      BY <2>1 DEF IInv, NoResultYet
    <2> QED
      BY <2>1, <2>3, <2>5, <2>6a, <2>6b, <2>7, <2>8, <2>9 DEF IInv, LargeRequestServed, NoResultYet
  <1>7. ASSUME ~wild, Exhausted, Next PROVE IInv'
    <2>1. TypeOK'
      <3>1. Numbers'
        BY <1>n, <1>7 DEF Exhausted, Numbers, heapVars
      <3> QED
        BY <1>0, <1>7, <3>1
    <2>2. HalvesInv'
      BY <1>7, HalvesUntouched DEF Exhausted, Growing
    <2> QED
      BY <1>7, <2>1, <2>2 DEF Exhausted, IInv, GrowthInv, LargeRoom, FitsRoom,
         LargeRequestServed, NoResultYet, Growing, ghostVars
  <1>8. ASSUME ~wild, ReallocInactive \/ ReallocOther, Next PROVE IInv'
    <2>1. /\ capacity' = [capacity EXCEPT ![Other(active)] = grown \div 2]
          /\ UNCHANGED <<heapSize, active, pointer, top, live, grown, request, attempts,
                         path, result, ghostVars>>
          /\ \/ pc = "reallocInactive" /\ pc' = "collectOut"
             \/ pc = "reallocOther" /\ pc' = "collectBack"
      BY <1>8 DEF ReallocInactive, ReallocOther, Realloc
    <2>2. grown \div 2 \in Nat /\ active \in Spaces /\ Other(active) \in Spaces /\ Other(active) # active
      BY <1>n DEF Numbers, Spaces, Other
    <2>3. TypeOK'
      <3>1. Numbers'
        BY <1>n, <2>1, <2>2 DEF Numbers, Growing
      <3> QED
        BY <1>0, <1>8, <3>1
    <2>4. /\ capacity'[Other(active)] = grown \div 2
          /\ capacity'[active] = capacity[active]
          /\ \A s \in Spaces : s = active \/ s = Other(active)
      BY <1>n, <2>1, <2>2 DEF Numbers, Spaces, Other
    <2>5. Mediane' = Mediane
      BY <2>1 DEF Mediane
    <2>6. HalvesInv'
      <3>1. ~wild' /\ active' = active
        BY <1>8, <2>1 DEF ghostVars
      <3>2. live' <= top' - pointer' /\ top' <= capacity'[active'] /\ top' <= Mediane'
        BY <1>8, <2>1, <2>4, <2>5 DEF IInv, HalvesInv
      <3>3. CASE pc = "reallocInactive"
        <4>1. Mediane <= capacity[active]
          BY <1>8, <2>2, <3>3 DEF IInv, HalvesInv
        <4> QED
          BY <2>1, <2>2, <2>4, <2>5, <3>1, <3>2, <3>3, <4>1 DEF HalvesInv
      <3>4. CASE pc = "reallocOther"
        <4>1. capacity[active] = grown \div 2 /\ Mediane <= capacity[active]
          BY <1>8, <2>2, <3>4 DEF IInv, HalvesInv
        <4>2. \A s \in Spaces : capacity'[s] = grown \div 2 /\ Mediane <= capacity'[s]
          BY <2>4, <4>1
        <4> QED
          BY <2>1, <2>5, <3>1, <3>2, <3>4, <4>2 DEF HalvesInv
      <3> QED
        BY <2>1, <3>3, <3>4
    <2>7. GrowthInv'
      BY <2>1, <2>5 DEF IInv, GrowthInv, Growing, ghostVars
    <2> QED
      BY <2>1, <2>3, <2>5, <2>6, <2>7
      DEF IInv, LargeRoom, FitsRoom, LargeRequestServed, NoResultYet, Growing, ghostVars
  <1>9. ASSUME ~wild, CollectOut, Next PROVE IInv'
    <2>1. /\ collectGarbage /\ heapSize' = heapSize /\ capacity' = capacity /\ live' = live
          /\ pc = "collectOut" /\ pc' = "reallocOther"
          /\ UNCHANGED <<grown, request, attempts, path, result, wrapped>>
      BY <1>9 DEF CollectOut
    <2>2. /\ active' \in Spaces /\ pointer' \in Nat /\ top' \in Nat
          /\ active' = Other(active) /\ Other(active') = active
          /\ pointer' = Mediane - live
          /\ live' <= top' - pointer' /\ top' = Mediane /\ Mediane' = Mediane
          /\ wild' <=> capacity[active'] < Mediane
          /\ Mediane <= capacity[Other(active)] => ~wild'
      BY <1>9, <2>1, CollectGarbageFits
    <2>3. TypeOK'
      <3>1. Numbers'
        BY <1>n, <2>1, <2>2 DEF Numbers, Growing
      <3> QED
        BY <1>0, <1>9, <3>1
    <2>4. /\ capacity[Other(active)] = grown \div 2 /\ grown \div 2 \in Nat /\ Mediane \in Nat
          /\ \A s \in Spaces : s = Other(active) \/ Mediane <= capacity[s]
      BY <1>n, <1>9, <2>1 DEF IInv, HalvesInv, Numbers, Mediane
    <2>5. HalvesInv'
      <3>1. SUFFICES ASSUME ~wild' PROVE HalvesInv'
        BY DEF HalvesInv
      <3>2. Mediane <= capacity[active']
        BY <1>n, <2>2, <2>4, <3>1 DEF Numbers
      <3>3. \A s \in Spaces : Mediane <= capacity[s]
        BY <2>2, <2>4, <3>2
      <3> QED
        BY <2>1, <2>2, <2>4, <3>2, <3>3 DEF HalvesInv
    <2>6. GrowthInv'
      <3>1. ~wrapped => request + Mediane <= grown \div 2
        BY <2>1 DEF IInv, GrowthInv, Growing
      <3>2. ~wrapped => ~wild'
        BY <1>n, <2>2, <2>4, <3>1 DEF Numbers
      <3> QED
        BY <2>1, <2>2, <3>1, <3>2 DEF GrowthInv
    <2> QED
      BY <2>1, <2>2, <2>3, <2>5, <2>6
      DEF IInv, LargeRoom, FitsRoom, LargeRequestServed, NoResultYet, Growing
  <1>10. ASSUME ~wild, CollectBack, Next PROVE IInv'
    <2> DEFINE half == grown \div 2
    <2>1. /\ active' = Other(active) /\ top' = Mediane /\ pointer' = Mediane - live
          /\ wild' = (capacity[Other(active)] < Mediane)
          /\ heapSize' = grown /\ capacity' = capacity /\ live' = live
          /\ pc = "collectBack" /\ pc' = "attempt"
          /\ UNCHANGED <<grown, request, attempts, path, result, wrapped>>
      BY <1>10 DEF CollectBack, collectGarbage
    <2>2. /\ Mediane \in Nat /\ live \in Nat /\ live <= Mediane /\ Other(active) \in Spaces
          /\ half \in Nat /\ Mediane' = half
      BY <1>n, <1>10, <2>1 DEF IInv, HalvesInv, Numbers, Mediane, Other, Spaces
    <2>3. \A s \in Spaces : Mediane <= capacity[s] /\ capacity[s] = half
      BY <1>10, <2>1 DEF IInv, HalvesInv
    <2> HIDE DEF half
    <2>4. ~wild' /\ Mediane <= half
      <3>1. Mediane <= half /\ capacity[Other(active)] = half
        BY <2>2, <2>3
      <3>2. ~(capacity[Other(active)] < Mediane)
        BY <2>2, <3>1
      <3>3. ~wild'
        BY <2>1, <3>2, Zenon
      <3> QED
        BY <3>1, <3>3
    <2>5. TypeOK'
      <3>1. Numbers'
        BY <1>n, <2>1, <2>2 DEF Numbers
      <3> QED
        BY <1>0, <1>10, <3>1
    <2>6. HalvesInv'
      BY <2>1, <2>2, <2>3, <2>4 DEF HalvesInv
    <2>7. GrowthInv'
      BY <2>1, <2>4 DEF GrowthInv, Growing
    <2>8. LargeRoom'
      <3>1. ~wrapped => request + Mediane <= half
        BY <2>1 DEF IInv, GrowthInv, Growing, half
      <3>2. request \in Nat
        BY <1>n DEF Numbers
      <3> QED
        BY <2>1, <2>2, <3>1, <3>2 DEF IInv, LargeRoom, Growing
    <2>9. FitsRoom'
      BY <2>1 DEF IInv, FitsRoom, Growing
    <2> QED
      BY <2>1, <2>5, <2>6, <2>7, <2>8, <2>9 DEF IInv, LargeRequestServed, NoResultYet
  <1>11. ASSUME ~wild, ReallocFails, Next PROVE IInv'
    <2>1. TypeOK'
      <3>1. Numbers'
        BY <1>n, <1>11 DEF ReallocFails, Numbers, heapVars
      <3> QED
        BY <1>0, <1>11, <3>1
    <2>2. Mediane' = Mediane
      BY <1>11 DEF ReallocFails, heapVars, Mediane
    <2> QED
      BY <1>11, <2>1, <2>2 DEF ReallocFails, IInv, HalvesInv, GrowthInv, LargeRoom, FitsRoom,
         LargeRequestServed, NoResultYet, Growing, heapVars, ghostVars
  <1>12. ASSUME ~wild, NEW n \in Requests, Drop(n), Next PROVE IInv'
    <2>1. TypeOK'
      <3>1. Numbers'
        BY <1>n, <1>12 DEF Drop, Numbers, callVars
      <3> QED
        BY <1>0, <1>12, <3>1
    <2>2. Mediane' = Mediane
      BY <1>12 DEF Drop, Mediane
    <2>3. HalvesInv'
      BY <1>n, <1>12, <2>2 DEF Drop, IInv, HalvesInv, callVars, Numbers
    <2> QED
      BY <1>12, <2>1, <2>2, <2>3 DEF Drop, IInv, GrowthInv, LargeRoom, FitsRoom,
         LargeRequestServed, NoResultYet, Growing, callVars, ghostVars
  <1>13. ASSUME ~wild, ForceCollection, Next PROVE IInv'
    <2>1. collectGarbage /\ heapSize' = heapSize /\ capacity' = capacity /\ live' = live
          /\ UNCHANGED <<grown, callVars, wrapped>> /\ pc = "idle"
      BY <1>13 DEF ForceCollection
    <2>2. /\ active' \in Spaces /\ pointer' \in Nat /\ top' \in Nat
          /\ active' = Other(active) /\ Other(active') = active
          /\ pointer' = Mediane - live
          /\ live' <= top' - pointer' /\ top' = Mediane /\ Mediane' = Mediane
          /\ Mediane <= capacity[Other(active)] => ~wild'
      BY <1>13, <2>1, CollectGarbageFits
    <2>3. ~wild' /\ \A s \in Spaces : Mediane <= capacity[s]
      BY <1>13, <2>1, <2>2 DEF IInv, HalvesInv
    <2>4. TypeOK'
      <3>1. Numbers'
        BY <1>n, <2>1, <2>2 DEF Numbers, callVars
      <3> QED
        BY <1>0, <1>13, <3>1
    <2>5. HalvesInv' /\ GrowthInv'
      BY <2>1, <2>2, <2>3 DEF HalvesInv, GrowthInv, callVars, Growing
    <2> QED
      BY <2>1, <2>4, <2>5 DEF IInv, LargeRoom, FitsRoom, LargeRequestServed, NoResultYet, callVars, Growing
  <1>14. CASE UNCHANGED vars
    BY <1>14 DEF vars, heapVars, callVars, ghostVars, IInv, TypeOK, HalvesInv, GrowthInv, Mediane,
                 LargeRoom, FitsRoom, LargeRequestServed, NoResultYet
  <1>15. CASE Next
    BY <1>1, <1>2, <1>3, <1>4, <1>5, <1>6, <1>7, <1>8, <1>9, <1>10, <1>11, <1>12, <1>13, <1>15,
       NextCases
  <1> QED
    BY <1>14, <1>15

LEMMA InvariantIInv == Spec => []IInv
  BY InitIInv, StepIInv, PTL DEF Spec

-----------------------------------------------------------------------------
(***************************************************************************)
(* The size a growth asks for, and the request it is for.                  *)
(***************************************************************************)
RequestAsked == pc # "idle" => request \in Requests

GrownLimit(n) == MaxHeapSize + MaxHeapSize \div 2 + 2 * n + 8

LimitInv ==
  /\ RequestAsked
  /\ pc \in Growing => grown <= GrownLimit(request)

LEMMA InitLimitInv == Init => LimitInv
  BY DEF Init, LimitInv, RequestAsked, Growing

\* A growth starts only below the limit: at the heap's size, or at the new one's.
LEMMA StartLimited ==
  ASSUME IInv, NEW n \in Nat, StartGrowth(n),
         heapSize < MaxHeapSize \/ Enlarged(n) < MaxHeapSize
  PROVE  grown' <= GrownLimit(n)
  <1> USE BakerAllocatorAssumption
  <1> DEFINE e == Enlarged(n)
             a == AlignHalf(e)
  <1>1. heapSize \in Nat
    BY DEF IInv, TypeOK
  <1>2. e \in Nat /\ a \in Nat /\ a <= e + 4 /\ e <= 2 * n + heapSize + heapSize \div 2 + 3
    BY <1>1, GrownSize
  <1>3. grown' = a
    BY DEF StartGrowth
  <1>4. MaxHeapSize \in Nat
    OBVIOUS
  <1> HIDE DEF a, e
  <1>5. CASE heapSize < MaxHeapSize
    <2>1. heapSize \div 2 <= MaxHeapSize \div 2 /\ MaxHeapSize \div 2 \in Nat
      BY ONLY <1>1, <1>4, <1>5
    <2> QED
      BY <1>1, <1>2, <1>3, <1>4, <1>5, <2>1 DEF GrownLimit
  <1>6. CASE e < MaxHeapSize
    BY <1>2, <1>3, <1>4, <1>6 DEF GrownLimit
  <1> QED
    BY <1>5, <1>6 DEF e

LEMMA StepLimitInv == IInv /\ LimitInv /\ [Next]_vars => LimitInv'
  <1> SUFFICES ASSUME IInv, LimitInv, [Next]_vars PROVE LimitInv'
    OBVIOUS
  <1> USE BakerAllocatorAssumption
  <1>1. ASSUME NEW r \in Requests, AllocateLarge(r) PROVE LimitInv'
    <2>1. StartGrowth(r) /\ Enlarged(r) < MaxHeapSize /\ request' = r /\ r \in Nat
      BY <1>1 DEF AllocateLarge
    <2>2. grown' <= GrownLimit(r)
      BY <2>1, StartLimited
    <2> QED
      BY <2>1, <2>2 DEF LimitInv, RequestAsked, GrownLimit
  <1>2. ASSUME NEW r \in Requests, AllocateRefused(r) \/ Allocate(r) PROVE LimitInv'
    BY <1>2 DEF AllocateRefused, Allocate, LimitInv, RequestAsked, Growing
  <1>3. ASSUME NEW r \in Requests, Drop(r) PROVE LimitInv'
    BY <1>3 DEF Drop, callVars, LimitInv, RequestAsked, GrownLimit
  <1>4. CASE Bump \/ BumpWild \/ Collect \/ Exhausted \/ ForceCollection
    BY <1>4 DEF Bump, BumpWild, Collect, Exhausted, ForceCollection, heapVars, callVars,
                LimitInv, RequestAsked, Growing, GrownLimit
  <1>5. CASE CollectAndGrow
    <2>1. /\ StartGrowth(request) /\ heapSize < MaxHeapSize /\ request' = request
          /\ pc = "attempt" /\ request \in Nat
      BY <1>5 DEF CollectAndGrow, TooLittleLeft, IInv, TypeOK
    <2>2. grown' <= GrownLimit(request)
      BY <2>1, StartLimited
    <2> QED
      BY <2>1, <2>2 DEF LimitInv, RequestAsked, GrownLimit
  <1>6. CASE ReallocInactive \/ ReallocOther \/ CollectOut \/ CollectBack \/ ReallocFails
    BY <1>6 DEF ReallocInactive, ReallocOther, CollectOut, CollectBack, ReallocFails, Realloc,
                heapVars, LimitInv, RequestAsked, Growing, GrownLimit
  <1>7. CASE UNCHANGED vars
    BY <1>7 DEF vars, heapVars, callVars, LimitInv, RequestAsked, GrownLimit
  <1> QED
    BY <1>1, <1>2, <1>3, <1>4, <1>5, <1>6, <1>7, NextCases

LEMMA InvariantLimitInv == Spec => [](IInv /\ LimitInv)
  BY InitLimitInv, StepLimitInv, InvariantIInv, PTL DEF Spec

\* Only the last step of a growth changes the nominal size.
LEMMA SizeChanges ==
  ASSUME Next, heapSize' # heapSize
  PROVE  CollectBack
  BY NextCases DEF AllocateLarge, AllocateRefused, Allocate, Drop, Bump, BumpWild, Collect,
     CollectAndGrow, Exhausted, ReallocInactive, ReallocOther, Realloc, CollectOut, ReallocFails,
     ForceCollection, heapVars, collectGarbage
-----------------------------------------------------------------------------
(***************************************************************************)
(* Every offset and counter of the allocator keeps its type; in particular *)
(* m_activeHeapPointer never moves below the base of its semispace.        *)
(***************************************************************************)
THEOREM AllocatorTypeOK == Spec => []TypeOK
  BY InvariantIInv, PTL DEF IInv

(***************************************************************************)
(* The objects, the allocation pointer and the cleared half stay inside    *)
(* the blocks malloc returned, in every step of a growth, whatever is      *)
(* requested in words of whatever width, unless a sum of the size of the   *)
(* grown heap or the tested pointer wrapped around.                        *)
(***************************************************************************)
THEOREM SemispaceSafety == Spec => []SpacesFit
  <1>1. IInv => SpacesFit
    <2> SUFFICES ASSUME IInv PROVE SpacesFit
      OBVIOUS
    <2>1. ~wrapped => \A s \in Spaces : Mediane <= capacity[s]
      <3> SUFFICES ASSUME ~wrapped, NEW s \in Spaces PROVE Mediane <= capacity[s]
        OBVIOUS
      <3>1. ~wild
        BY DEF IInv, GrowthInv
      <3>2. Mediane \in Nat /\ request \in Nat /\ grown \div 2 \in Int
        BY DEF IInv, TypeOK, Mediane
      <3>3. CASE pc = "collectOut" /\ s = Other(active)
        <4>1. capacity[s] = grown \div 2
          BY <3>1, <3>3 DEF IInv, HalvesInv
        <4>2. request + Mediane <= grown \div 2
          BY <3>3 DEF IInv, GrowthInv, Growing
        <4> HIDE DEF Mediane
        <4> QED
          BY <3>2, <4>1, <4>2
      <3> QED
        BY <3>1, <3>3 DEF IInv, HalvesInv
    <2> QED
      BY <2>1 DEF IInv, HalvesInv, GrowthInv, SpacesFit
  <1> QED
    BY <1>1, InvariantIInv, PTL

(***************************************************************************)
(* A collection never runs out of room for the live objects, not even the  *)
(* two of growHeap().                                                      *)
(***************************************************************************)
THEOREM CollectionHasRoom == Spec => []CopyFits
  <1>1. IInv => CopyFits
    BY DEF IInv, TypeOK, HalvesInv, Mediane, CopyFits
  <1> QED
    BY <1>1, InvariantIInv, PTL

(***************************************************************************)
(* A large request that passes the limit check is always served, unless    *)
(* the sum that is checked wrapped around.                                 *)
(***************************************************************************)
THEOREM LargeRequests == Spec => []LargeRequestServed
  BY InvariantIInv, PTL DEF IInv

(***************************************************************************)
(* What keeps every sum below the width of a word: requests that are no    *)
(* larger than the addresses malloc() answers, and heaps that stay below   *)
(* two thirds of the address space together with the largest request.      *)
(***************************************************************************)
Ordinary(largest) ==
  /\ \A n \in InitialHeapSizes : n + 3 <= largest
  /\ \A r \in Requests : GrownLimit(r) <= largest
  /\ \A r \in Requests : 2 * r + largest + largest \div 2 + 7 < WordValues
  /\ \A r \in Requests : \A b \in Addresses : r <= b

OrdinaryInv(largest) == heapSize <= largest /\ ~wrapped

LEMMA StepOrdinary ==
  ASSUME NEW largest \in Nat, Ordinary(largest), IInv, LimitInv, OrdinaryInv(largest), [Next]_vars
  PROVE  OrdinaryInv(largest)'
  <1> USE BakerAllocatorAssumption
  <1>1. heapSize \in Nat /\ pointer \in Nat /\ request \in Nat /\ grown \in Nat
    BY DEF IInv, TypeOK
  <1>2. ASSUME NEW r \in Requests PROVE ~SumWraps(r)
    <2>1. r \in Nat /\ heapSize <= largest /\ 2 * r + largest + largest \div 2 + 7 < WordValues
      BY <1>2 DEF OrdinaryInv, Ordinary
    <2>2. heapSize \div 2 <= largest \div 2 /\ heapSize \div 2 \in Nat /\ largest \div 2 \in Nat
      BY ONLY <1>1, <2>1, largest \in Nat
    <2> QED
      BY <1>1, <2>1, <2>2 DEF SumWraps
  <1>3. heapSize' = heapSize \/ (heapSize' = grown /\ pc \in Growing)
    <2>1. CASE Next
      BY <2>1, SizeChanges DEF CollectBack, Growing
    <2>2. CASE UNCHANGED vars
      BY <2>2 DEF vars, heapVars
    <2> QED
      BY <2>1, <2>2
  <1>4. heapSize' <= largest
    <2>1. CASE heapSize' = heapSize
      BY <2>1 DEF OrdinaryInv
    <2>2. CASE heapSize' = grown /\ pc \in Growing
      <3>1. request \in Requests /\ grown <= GrownLimit(request)
        BY <2>2 DEF LimitInv, RequestAsked, Growing
      <3>2. GrownLimit(request) <= largest /\ GrownLimit(request) \in Int
        BY <1>1, <3>1 DEF Ordinary, GrownLimit
      <3> QED
        BY <1>1, <2>2, <3>1, <3>2
    <2> QED
      BY <1>3, <2>1, <2>2
  <1>5. ~wrapped'
    <2>1. ~wrapped
      BY DEF OrdinaryInv
    <2>2. ASSUME NEW r \in Requests, StartGrowth(r) PROVE ~wrapped'
      BY <1>2, <2>1, <2>2, Zenon DEF StartGrowth
    <2>3. ASSUME NEW r \in Requests, AllocateLarge(r) PROVE ~wrapped'
      BY <2>2, <2>3 DEF AllocateLarge
    <2>4. ASSUME CollectAndGrow PROVE ~wrapped'
      BY <2>2, <2>4 DEF CollectAndGrow, LimitInv, RequestAsked
    <2>5. ~BumpWild
      <3> SUFFICES ASSUME BumpWild PROVE FALSE
        OBVIOUS
      <3>1. PICK b \in Addresses : ~TooSmallAt(b)
        BY DEF BumpWild
      <3>2. request > pointer /\ request \in Requests
        BY DEF BumpWild, LimitInv, RequestAsked
      <3>3. request <= b /\ b \in Nat /\ b < WordValues
        BY <3>1, <3>2 DEF Ordinary
      <3>4. b + pointer - request \in Nat /\ b + pointer - request < b
        BY <1>1, <3>2, <3>3
      <3>5. ((b + pointer - request) % WordValues) = b + pointer - request
        BY <3>3, <3>4, WordRange
      <3> QED
        BY <3>1, <3>4, <3>5 DEF TooSmallAt
    <2>6. ASSUME NEW r \in Requests, AllocateRefused(r) \/ Allocate(r) \/ Drop(r) PROVE wrapped' = wrapped
      BY <2>6 DEF AllocateRefused, Allocate, Drop, ghostVars
    <2>7. \/ Bump \/ Collect \/ Exhausted \/ ReallocInactive \/ CollectOut \/ ReallocOther
          \/ CollectBack \/ ReallocFails \/ ForceCollection
          => wrapped' = wrapped
      BY DEF Bump, Collect, Exhausted, ReallocInactive, CollectOut, ReallocOther, CollectBack,
             ReallocFails, Realloc, ForceCollection, ghostVars
    <2>8. UNCHANGED vars => wrapped' = wrapped
      BY DEF vars, ghostVars
    <2> QED
      BY <2>1, <2>3, <2>4, <2>5, <2>6, <2>7, <2>8, NextCases
  <1> QED
    BY <1>4, <1>5 DEF OrdinaryInv

(***************************************************************************)
(* With ordinary requests no sum wraps, in any number of growths, so the   *)
(* excuse of SpacesFit, CopyFits and LargeRequestServed never applies: no  *)
(* memory outside of the halves is touched at all.                         *)
(***************************************************************************)
THEOREM OrdinaryRequestsNeverWrap ==
  ASSUME NEW largest \in Nat, Ordinary(largest)
  PROVE  Spec => [](~wrapped /\ ~wild)
  <1>1. Init => OrdinaryInv(largest)
    <2> SUFFICES ASSUME Init PROVE OrdinaryInv(largest)
      OBVIOUS
    <2>1. PICK n \in InitialHeapSizes : heapSize = correctPadding(n)
      BY DEF Init
    <2>2. heapSize \in Nat /\ heapSize <= n + 3 /\ n + 3 <= largest /\ n \in Nat
      BY <2>1, Padding, BakerAllocatorAssumption DEF Ordinary
    <2>3. ~wrapped
      BY DEF Init
    <2> QED
      BY <2>2, <2>3 DEF OrdinaryInv
  <1>2. IInv /\ LimitInv /\ OrdinaryInv(largest) /\ [Next]_vars => OrdinaryInv(largest)'
    BY StepOrdinary
  <1>3. IInv /\ OrdinaryInv(largest) => ~wrapped /\ ~wild
    BY DEF IInv, GrowthInv, OrdinaryInv
  <1> QED
    BY <1>1, <1>2, <1>3, InvariantLimitInv, PTL DEF Spec

(***************************************************************************)
(* allocate() that did not grow the heap returns null only when the live   *)
(* objects leave no room for the request.                                  *)
(***************************************************************************)
THEOREM NullIsHonest == Spec => NullMeansFull
  <1>1. IInv /\ [Next]_vars =>
          [pc = "attempt" /\ result' = "null" /\ path = "fits" => request > Mediane - live]_vars
    <2> SUFFICES ASSUME IInv, Next, pc = "attempt", result' = "null", path = "fits"
                 PROVE  request > Mediane - live
      OBVIOUS
    <2>1. Exhausted \/ (result = "null" /\ result' = result)
      BY NextCases DEF AllocateLarge, AllocateRefused, Allocate, Bump, BumpWild, Collect,
         CollectAndGrow, Drop, ReallocInactive, ReallocOther, Realloc, CollectOut, CollectBack,
         ReallocFails, ForceCollection, callVars
    <2> QED
      BY <2>1 DEF IInv, FitsRoom, Exhausted, NoResultYet
  <1> QED
    BY <1>1, InvariantIInv, PTL DEF Spec, NullMeansFull

(***************************************************************************)
(* The heap exceeds its maximum by one growth at most.                     *)
(***************************************************************************)
THEOREM LimitIsSoft == Spec => LimitOvershotOnce
  <1>1. IInv /\ LimitInv /\ [Next]_vars =>
          [heapSize' # heapSize => heapSize' <= MaxHeapSize + MaxHeapSize \div 2 + 2 * request + 8]_vars
    <2> SUFFICES ASSUME LimitInv, Next, heapSize' # heapSize
                 PROVE  heapSize' <= MaxHeapSize + MaxHeapSize \div 2 + 2 * request + 8
      OBVIOUS
    <2>1. CollectBack
      BY SizeChanges
    <2> QED
      BY <2>1 DEF CollectBack, LimitInv, Growing, GrownLimit
  <1> QED
    BY <1>1, InvariantLimitInv, PTL DEF Spec, LimitOvershotOnce
-----------------------------------------------------------------------------
(***************************************************************************)
(* Word alignment, under the hypothesis of PointerAligned.  The mediane    *)
(* has to stay a whole number of words through every growth, because the   *)
(* pointer always restarts from it; live bytes are whole words because     *)
(* they are sums and differences of padded sizes.                          *)
(***************************************************************************)
WordSizes ==
  /\ \A n \in InitialHeapSizes : correctPadding(n) % 8 = 0
  /\ \A r \in Requests : r % 4 = 0

AlignInv ==
  /\ heapSize % 8 = 0
  /\ pointer % 4 = 0
  /\ live % 4 = 0
  /\ pc \in Growing => grown % 8 = 0

\* Half of a whole number of double words is a whole number of words.
LEMMA HalfAligned ==
  ASSUME NEW h \in Nat, h % 8 = 0
  PROVE  h \div 2 \in Nat /\ (h \div 2) % 4 = 0
  <1>1. PICK k \in Nat : h = 8 * k
    <2>1. h = 8 * (h \div 8) /\ h \div 8 \in Nat
      OBVIOUS
    <2> QED
      BY <2>1
  <1>2. h \div 2 = 4 * k
    BY <1>1
  <1>3. (4 * k) % 4 = 0 /\ 4 * k \in Nat
    BY <1>1
  <1> QED
    BY <1>2, <1>3

\* Sums and differences of whole words are whole words.
LEMMA WordDifference ==
  ASSUME NEW a \in Nat, NEW b \in Nat, a % 4 = 0, b % 4 = 0
  PROVE  (a - b) % 4 = 0 /\ (a + b) % 4 = 0
  <1>1. a = 4 * (a \div 4) /\ b = 4 * (b \div 4) /\ a \div 4 \in Int /\ b \div 4 \in Int
    OBVIOUS
  <1> DEFINE k == a \div 4
             l == b \div 4
  <1>2. k \in Int /\ l \in Int /\ a - b = 4 * (k - l) /\ a + b = 4 * (k + l)
    BY <1>1
  <1> HIDE DEF k, l
  <1>3. (4 * (k - l)) % 4 = 0 /\ (4 * (k + l)) % 4 = 0
    BY <1>2
  <1> QED
    BY <1>2, <1>3

\* One more padding step makes a size that is one word short of a whole number
\* of double words a whole one, or zero when there is no larger number.
LEMMA OneWordShort ==
  ASSUME NEW k \in Nat, 8 * k + 4 < WordValues
  PROVE  correctPadding((8 * k + 4) + 1) % 8 = 0
  <1>1. PICK j \in Nat : WordValues = 8 * j
    <2>1. WordValues = 8 * (WordValues \div 8) /\ WordValues \div 8 \in Nat
      BY BakerAllocatorAssumption
    <2> QED
      BY <2>1
  <1>2. k + 1 \in Nat /\ k + 1 <= j
    BY <1>1
  <1> DEFINE c == 8 * (k + 1)
  <1>3. c \in Nat /\ c = ((8 * k + 4) + 1) + 3 /\ (c < WordValues \/ c = WordValues)
    BY <1>1, <1>2
  <1>4. (c % WordValues) = c \/ (c % WordValues) = 0
    <2> HIDE DEF c
    <2> QED
      BY <1>3, WordRange
  <1>5. correctPadding((8 * k + 4) + 1) = ((c % WordValues) \div 4) * 4
    BY <1>3 DEF correctPadding
  <1>6. (c \div 4) * 4 = c /\ c % 8 = 0 /\ (0 \div 4) * 4 = 0 /\ 0 % 8 = 0
    OBVIOUS
  <1> HIDE DEF c
  <1> QED
    BY <1>4, <1>5, <1>6

(***************************************************************************)
(* The adjustment of growHeap() does what it is for: a padded size whose   *)
(* half is not word aligned is one word short, and one more padding step   *)
(* makes it a whole number of double words.                                *)
(***************************************************************************)
LEMMA GrownAligned ==
  ASSUME heapSize \in Nat, NEW n \in Nat
  PROVE  AlignHalf(Enlarged(n)) % 8 = 0
  <1> DEFINE m == 2 * n + heapSize + heapSize \div 2
             w == (m + 3) % WordValues
             q == w \div 4
  <1>1. m + 3 \in Nat
    OBVIOUS
  <1>2. w \in 0 .. WordValues - 1
    <2> HIDE DEF m
    <2> QED
      BY <1>1, WordRange
  <1>3. Enlarged(n) = q * 4
    BY DEF Enlarged, correctPadding
  <1> HIDE DEF m, w
  <1>4. q \in Nat /\ 4 * q < WordValues /\ Enlarged(n) = 4 * q
    BY <1>2, <1>3, BakerAllocatorAssumption
  <1> HIDE DEF q
  <1>5. q \div 2 \in Nat /\ (q = 2 * (q \div 2) \/ q = 2 * (q \div 2) + 1)
    BY <1>4
  <1> DEFINE k == q \div 2
  <1>6. k \in Nat /\ (q = 2 * k \/ q = 2 * k + 1)
    BY <1>5
  <1> HIDE DEF k
  <1>7. CASE q = 2 * k
    <2>1. Enlarged(n) = 8 * k
      BY <1>4, <1>6, <1>7
    <2>2. (8 * k) % 8 = 0 /\ (8 * k) \div 2 = 4 * k /\ (4 * k) % 4 = 0
      BY <1>6
    <2> QED
      BY <2>1, <2>2 DEF AlignHalf
  <1>8. CASE q = 2 * k + 1
    <2>1. Enlarged(n) = 8 * k + 4 /\ 8 * k + 4 < WordValues
      BY <1>4, <1>6, <1>8
    <2>2. (8 * k + 4) \div 2 = 4 * k + 2 /\ (4 * k + 2) % 4 = 2
      BY <1>6
    <2>3. correctPadding((8 * k + 4) + 1) % 8 = 0
      BY <1>6, <2>1, OneWordShort
    <2> QED
      BY <2>1, <2>2, <2>3 DEF AlignHalf
  <1> QED
    BY <1>6, <1>7, <1>8

LEMMA InitAlignInv == WordSizes /\ Init => AlignInv
  <1> SUFFICES ASSUME WordSizes, Init PROVE AlignInv
    OBVIOUS
  <1>1. heapSize \in Nat /\ heapSize % 8 = 0
    BY Padding, BakerAllocatorAssumption DEF Init, WordSizes
  <1>2. pointer = heapSize \div 2 /\ live = 0 /\ pc = "idle"
    BY DEF Init, Mediane
  <1> QED
    BY <1>1, <1>2, HalfAligned DEF AlignInv, Growing

\* A collection leaves an aligned pointer.
LEMMA CollectGarbageAligned ==
  ASSUME IInv, AlignInv, collectGarbage
  PROVE  pointer' % 4 = 0
  <1>1. heapSize \in Nat /\ live \in Nat
    BY DEF IInv, TypeOK
  <1>2. Mediane \in Nat /\ Mediane % 4 = 0
    BY <1>1, HalfAligned DEF AlignInv, Mediane
  <1> QED
    BY <1>1, <1>2, WordDifference DEF collectGarbage, AlignInv

LEMMA StepAlignInv == WordSizes /\ IInv /\ LimitInv /\ AlignInv /\ [Next]_vars => AlignInv'
  <1> SUFFICES ASSUME WordSizes, IInv, LimitInv, AlignInv, [Next]_vars PROVE AlignInv'
    OBVIOUS
  <1> USE BakerAllocatorAssumption
  <1>1. ASSUME NEW n \in Nat, StartGrowth(n) PROVE grown' % 8 = 0
    BY <1>1, GrownAligned DEF StartGrowth, IInv, TypeOK
  <1>2. ASSUME NEW r \in Requests, AllocateLarge(r) PROVE AlignInv'
    BY <1>1, <1>2 DEF AllocateLarge, heapVars, AlignInv
  <1>3. ASSUME NEW r \in Requests, AllocateRefused(r) \/ Allocate(r) PROVE AlignInv'
    BY <1>3 DEF AllocateRefused, Allocate, heapVars, AlignInv, Growing
  <1>4. CASE Bump
    <2>1. pointer \in Nat /\ live \in Nat /\ request \in Nat /\ request % 4 = 0
      BY <1>4 DEF Bump, IInv, TypeOK, LimitInv, RequestAsked, WordSizes
    <2>2. (pointer - request) % 4 = 0 /\ (live + request) % 4 = 0
      BY <2>1, WordDifference DEF AlignInv
    <2> QED
      BY <1>4, <2>2 DEF Bump, AlignInv, Growing
  <1>5. CASE Collect
    BY <1>5, CollectGarbageAligned DEF Collect, AlignInv
  <1>6. CASE CollectAndGrow
    <2>1. collectGarbage /\ StartGrowth(request) /\ request \in Nat /\ UNCHANGED <<heapSize, live>>
      BY <1>6 DEF CollectAndGrow, IInv, TypeOK
    <2> QED
      BY <1>1, <2>1, CollectGarbageAligned DEF AlignInv
  <1>7. CASE Exhausted \/ BumpWild \/ ReallocFails
    BY <1>7 DEF Exhausted, BumpWild, ReallocFails, heapVars, callVars, AlignInv, Growing
  <1>8. CASE ReallocInactive \/ ReallocOther
    BY <1>8 DEF ReallocInactive, ReallocOther, Realloc, AlignInv, Growing
  <1>9. CASE CollectOut
    <2>1. collectGarbage /\ UNCHANGED <<heapSize, live, grown>> /\ pc \in Growing
      BY <1>9 DEF CollectOut, Growing
    <2> QED
      BY <2>1, CollectGarbageAligned DEF AlignInv
  <1>10. CASE CollectBack
    <2>1. collectGarbage /\ heapSize' = grown /\ UNCHANGED live /\ pc \in Growing /\ pc' = "attempt"
      BY <1>10 DEF CollectBack, Growing
    <2> QED
      BY <2>1, CollectGarbageAligned DEF AlignInv, Growing
  <1>11. ASSUME NEW n \in Requests, Drop(n) PROVE AlignInv'
    <2>1. live \in Nat /\ n \in Nat /\ n % 4 = 0
      BY <1>11 DEF IInv, TypeOK, WordSizes
    <2>2. (live - n) % 4 = 0
      BY <2>1, WordDifference DEF AlignInv
    <2> QED
      BY <1>11, <2>2 DEF Drop, callVars, AlignInv
  <1>12. CASE ForceCollection
    BY <1>12, CollectGarbageAligned DEF ForceCollection, callVars, AlignInv
  <1>13. CASE UNCHANGED vars
    BY <1>13 DEF vars, heapVars, callVars, AlignInv
  <1> QED
    BY <1>2, <1>3, <1>4, <1>5, <1>6, <1>7, <1>8, <1>9, <1>10, <1>11, <1>12, <1>13, NextCases

(***************************************************************************)
(* allocate() hands out word boundaries through any number of growths and  *)
(* collections, once the initial halves and the requests are whole words,  *)
(* even when the size of a grown heap wrapped around.                      *)
(***************************************************************************)
THEOREM AllocatedAligned == Spec => []PointerAligned
  <1>1. CASE WordSizes
    <2>1. Init => AlignInv
      BY <1>1, InitAlignInv
    <2>2. IInv /\ LimitInv /\ AlignInv /\ [Next]_vars => AlignInv'
      BY <1>1, StepAlignInv
    <2>3. AlignInv => PointerAligned
      BY DEF AlignInv, PointerAligned
    <2> QED
      BY <2>1, <2>2, <2>3, InvariantLimitInv, PTL DEF Spec
  <1>2. CASE ~WordSizes
    <2>1. PointerAligned
      BY <1>2 DEF WordSizes, PointerAligned
    <2> QED
      BY <2>1, PTL
  <1> QED
    BY <1>1, <1>2
-----------------------------------------------------------------------------
(***************************************************************************)
(* The refinement.                                                         *)
(***************************************************************************)
NCTypeOK ==
  /\ ncHeapSize \in Nat
  /\ ncPointer \in Nat
  /\ ncLive \in Nat
  /\ ncRequest \in Nat

\* The invariant of the copying manager, which bounds its pointer by what the
\* next collection frees, and the types of the other.
ManagersInv == IInv /\ NCTypeOK

LEMMA PaddedNat == ASSUME NEW n \in Nat PROVE NC!Padded(n) \in Nat
  <1>1. NC!Padded(n) = correctPadding(n)
    BY DEF NC!Padded, correctPadding
  <1> QED
    BY <1>1, Padding

LEMMA InitManagersInv == ManagersInit => ManagersInv
  <1> SUFFICES ASSUME ManagersInit PROVE ManagersInv
    OBVIOUS
  <1>1. IInv
    BY InitIInv DEF ManagersInit
  <1>2. NCTypeOK
    <2>1. NC!Init
      BY DEF ManagersInit
    <2>2. PICK m \in InitialHeapSizes, n \in StaticHeapSizes :
            ncPointer = NC!Padded(m) /\ ncHeapSize = NC!Padded(n)
      BY <2>1 DEF NC!Init
    <2>3. m \in Nat /\ n \in Nat
      BY BakerAllocatorAssumption, MemoryManagersAssumption
    <2>4. NC!Padded(m) \in Nat /\ NC!Padded(n) \in Nat
      BY <2>3, PaddedNat
    <2>5. ncLive = 0 /\ ncRequest = 0
      BY <2>1 DEF NC!Init
    <2> QED
      BY <2>2, <2>4, <2>5 DEF NCTypeOK
  <1> QED
    BY <1>1, <1>2 DEF ManagersInv

LEMMA StepNCTypeOK == ManagersInv /\ NC!Next => NCTypeOK'
  BY BakerAllocatorAssumption
  DEF ManagersInv, NCTypeOK, NC!Next, NC!Allocate, NC!Drop, NC!Answer, NC!growHeap,
      NC!GrowTooLittle, NC!GrowFails, NC!BumpBelow, NC!Bump

LEMMA StepManagersInv == ManagersInv /\ [CopyStep \/ NonCollectStep]_allVars => ManagersInv'
  <1> SUFFICES ASSUME ManagersInv, [CopyStep \/ NonCollectStep]_allVars PROVE ManagersInv'
    OBVIOUS
  <1>1. CASE CopyStep
    <2>1. IInv'
      BY <1>1, StepIInv DEF CopyStep, ManagersInv
    <2>2. NCTypeOK'
      BY <1>1 DEF CopyStep, ncVars, ManagersInv, NCTypeOK
    <2> QED
      BY <2>1, <2>2 DEF ManagersInv
  <1>2. CASE NonCollectStep
    <2>1. IInv'
      BY <1>2, StepIInv DEF NonCollectStep, ManagersInv
    <2>2. NCTypeOK'
      BY <1>2, StepNCTypeOK DEF NonCollectStep
    <2> QED
      BY <2>1, <2>2 DEF ManagersInv
  <1>3. CASE UNCHANGED allVars
    <2>1. IInv'
      BY <1>3, StepIInv DEF allVars, ManagersInv
    <2>2. NCTypeOK'
      BY <1>3 DEF allVars, ncVars, ManagersInv, NCTypeOK
    <2> QED
      BY <2>1, <2>2 DEF ManagersInv
  <1> QED
    BY <1>1, <1>2, <1>3
-----------------------------------------------------------------------------
\* A collection never lowers the allocation pointer, neither of growHeap().
LEMMA RoomGrows ==
  ASSUME IInv, ~wild, collectGarbage
  PROVE  pointer' \in Nat /\ pointer' >= pointer
  <1>1. Mediane \in Nat
    BY DEF IInv, TypeOK, Mediane
  <1> QED
    BY <1>1 DEF IInv, TypeOK, HalvesInv, collectGarbage

LEMMA InitRefines == ManagersInit => Arena!Init
  <1> SUFFICES ASSUME ManagersInit PROVE Arena!Init
    OBVIOUS
  <1>1. ManagersInv
    BY InitManagersInv
  <1> QED
    BY <1>1 DEF ManagersInv, IInv, TypeOK, NCTypeOK, ManagersInit, Init, NC!Init, Arena!Init

\* The steps of the copying manager, as steps of MemoryManager.
LEMMA CopyRefines == ManagersInv /\ CopyStep => [Arena!Next]_(Arena!arena)
  <1> SUFFICES ASSUME ManagersInv, CopyStep PROVE [Arena!Next]_(Arena!arena)
    OBVIOUS
  <1> USE BakerAllocatorAssumption
  <1>0. mmType = "copy" /\ mmType' = "copy" /\ IInv /\ pointer \in Nat /\ live \in Nat /\ ~wild
    BY NextCases DEF CopyStep, ManagersInv, IInv, TypeOK
  <1>n. Next
    BY DEF CopyStep
  <1>1. ASSUME NEW r \in Requests, AllocateLarge(r) PROVE Arena!Ask
    BY <1>0, <1>1 DEF AllocateLarge, StartGrowth, heapVars, Arena!Ask, Arena!MoreRoom
  <1>2. ASSUME NEW r \in Requests, AllocateRefused(r) PROVE Arena!AskRefused
    BY <1>0, <1>2 DEF AllocateRefused, heapVars, Arena!AskRefused
  <1>3. ASSUME NEW r \in Requests, Allocate(r) PROVE Arena!Ask
    BY <1>0, <1>3 DEF Allocate, heapVars, Arena!Ask, Arena!MoreRoom
  <1>4. CASE Bump
    <2>1. request <= pointer
      BY <1>0, <1>4 DEF Bump, IInv, TypeOK
    <2> QED
      BY <1>0, <1>4, <2>1 DEF Bump, Arena!Next, Arena!Serve
  <1>5. CASE Collect
    <2>1. pointer' \in Nat /\ pointer' >= pointer
      BY <1>0, <1>5, RoomGrows DEF Collect
    <2> QED
      BY <1>0, <1>5, <2>1 DEF Collect, Arena!Next, Arena!Reclaim, Arena!MoreRoom
  <1>6. CASE CollectAndGrow
    <2>1. pointer' \in Nat /\ pointer' >= pointer
      BY <1>0, <1>6, RoomGrows DEF CollectAndGrow
    <2> QED
      BY <1>0, <1>6, <2>1 DEF CollectAndGrow, StartGrowth, Arena!Next, Arena!Reclaim, Arena!MoreRoom
  <1>7. CASE Exhausted
    BY <1>0, <1>7 DEF Exhausted, heapVars, Arena!Next, Arena!Refuse
  <1>8. ASSUME NEW n \in Requests, Drop(n) PROVE Arena!Drop
    <2>1. live' \in 0 .. live
      BY <1>0, <1>8 DEF Drop
    <2> QED
      BY <1>0, <1>8, <2>1 DEF Drop, callVars, Arena!Drop
  <1>9. CASE ForceCollection
    <2>1. pointer' \in Nat /\ pointer' >= pointer
      BY <1>0, <1>9, RoomGrows DEF ForceCollection
    <2> QED
      BY <1>0, <1>9, <2>1 DEF ForceCollection, callVars, Arena!Next, Arena!Reclaim, Arena!MoreRoom
  <1>10. CASE CollectOut \/ CollectBack
    <2>1. pointer' \in Nat /\ pointer' >= pointer
      BY <1>0, <1>10, RoomGrows DEF CollectOut, CollectBack
    <2> QED
      BY <1>0, <1>10, <2>1 DEF CollectOut, CollectBack, Arena!Next, Arena!Reclaim, Arena!MoreRoom
  <1>11. CASE ReallocInactive \/ ReallocOther \/ ReallocFails \/ BumpWild
    BY <1>0, <1>11 DEF ReallocInactive, ReallocOther, Realloc, ReallocFails, BumpWild, heapVars,
       callVars, Arena!arena
  <1> QED
    BY <1>n, <1>1, <1>2, <1>3, <1>4, <1>5, <1>6, <1>7, <1>8, <1>9, <1>10, <1>11, NextCases
    DEF Arena!Next

\* The steps of the non-collecting one; leaving the heap and a malloc() that
\* answers null are stuttering steps.
LEMMA NonCollectRefines == ManagersInv /\ NonCollectStep => [Arena!Next]_(Arena!arena)
  <1> SUFFICES ASSUME ManagersInv, NonCollectStep PROVE [Arena!Next]_(Arena!arena)
    OBVIOUS
  <1> USE BakerAllocatorAssumption
  <1>0. mmType = "nc" /\ mmType' = "nc" /\ NCTypeOK
    BY DEF NonCollectStep, ManagersInv
  <1>1. ASSUME NEW r \in Requests, NC!Allocate(r) PROVE Arena!Ask
    BY <1>0, <1>1 DEF NC!Allocate, Arena!Ask, Arena!MoreRoom, NCTypeOK
  <1>2. ASSUME NEW r \in Requests, NC!Drop(r) PROVE Arena!Drop
    <2>1. ncLive' \in 0 .. ncLive
      BY <1>0, <1>2 DEF NC!Drop, NCTypeOK
    <2> QED
      BY <1>0, <1>2, <2>1 DEF NC!Drop, Arena!Drop
  <1>3. CASE NC!growHeap
    <2>1. ncPointer' \in Nat /\ ncPointer' >= ncPointer
      BY <1>0, <1>3 DEF NC!growHeap, NCTypeOK
    <2> QED
      BY <1>0, <1>3, <2>1 DEF NC!growHeap, Arena!Next, Arena!Reclaim, Arena!MoreRoom
  <1>4. CASE NC!GrowTooLittle \/ NC!GrowFails \/ NC!BumpBelow
    BY <1>0, <1>4 DEF NC!GrowTooLittle, NC!GrowFails, NC!BumpBelow, Arena!arena
  <1>5. CASE NC!Bump
    BY <1>0, <1>5 DEF NC!Bump, Arena!Next, Arena!Serve
  <1> QED
    BY <1>1, <1>2, <1>3, <1>4, <1>5 DEF NonCollectStep, NC!Next, NC!Answer, Arena!Next

(***************************************************************************)
(* Whichever manager --mm_type selects, the virtual machine runs on a      *)
(* MemoryManager: every collection, step of a growth, change of heap and   *)
(* retry is a step of it or invisible.                                     *)
(***************************************************************************)
THEOREM ManagersRefine == ManagersSpec => ImplementsMemoryManager
  <1>1. ManagersInv /\ [CopyStep \/ NonCollectStep]_allVars => [Arena!Next]_(Arena!arena)
    <2>1. UNCHANGED allVars => UNCHANGED Arena!arena
      BY DEF allVars, vars, heapVars, callVars, ncVars, Arena!arena
    <2> QED
      BY <2>1, CopyRefines, NonCollectRefines
  <1> QED
    BY <1>1, InitManagersInv, StepManagersInv, InitRefines, PTL
    DEF ManagersSpec, ImplementsMemoryManager, Arena!Spec

-----------------------------------------------------------------------------
(***************************************************************************)
(* The static slots: the root list is what keeps them current.             *)
(***************************************************************************)
RootsInv ==
  activeHeap \in Halves /\ RootsTypeOK /\ BarrieredSlotsAreRoots /\ NoDanglingStaticSlot

(***************************************************************************)
(* What checkRoot() does to the bag: only the slot's own entry changes, it *)
(* stays a natural number, and it is positive after a non-static value has *)
(* been announced for a slot that obeyed the barrier before.               *)
(***************************************************************************)
LEMMA CheckRootEffect ==
  ASSUME RootsTypeOK, NEW s \in Slots, NEW v \in Values
  PROVE  /\ checkRoot(v, s) \in [Slots -> Nat]
         /\ \A t \in Slots \ {s} : checkRoot(v, s)[t] = staticRoots[t]
         /\ ~isInStaticHeap(v) =>
              /\ isInStaticHeap(slot[s]) => checkRoot(v, s)[s] > 0
              /\ ~isInStaticHeap(slot[s]) => checkRoot(v, s)[s] = staticRoots[s]
  BY DEF RootsTypeOK, checkRoot, addStaticRoot, removeStaticRoot

\* Image load: registered or bypassed, nothing points into the dynamic heap.
LEMMA LoadedInv == CollectorInit => RootsInv
  <1> SUFFICES ASSUME CollectorInit PROVE RootsInv
    OBVIOUS
  <1>1. slot \in [Slots -> {"static"} \union Immediates]
    BY StaticRootsAssumption DEF CollectorInit, RootsLoaded
  <1>2. RootsTypeOK
    BY <1>1 DEF CollectorInit, RootsLoaded, RootsTypeOK, Values, Immediates
  <1>3. BarrieredSlotsAreRoots
    BY DEF CollectorInit, RootsLoaded, BarrieredSlotsAreRoots
  <1>4. NoDanglingStaticSlot
    BY <1>1 DEF NoDanglingStaticSlot, InDynamicHeap, Immediates, Halves
  <1> QED
    BY <1>2, <1>3, <1>4 DEF RootsInv, CollectorInit, Halves

\* A tracked store keeps the invariant.
LEMMA StoreKeeps ==
  ASSUME RootsInv, NEW s \in Slots, NEW v \in Values, Store(s, v)
  PROVE  RootsInv'
  <1> USE DEF RootsInv
  <1>1. /\ slot' = [slot EXCEPT ![s] = v]
        /\ activeHeap' = activeHeap
        /\ staticRoots' = checkRoot(v, s)
        /\ bypassed' = IF isInStaticHeap(v) THEN bypassed \ {s} ELSE bypassed
        /\ v \in {"static", activeHeap} \union Immediates
    BY DEF Store
  <1>2. RootsTypeOK'
    BY <1>1, CheckRootEffect DEF RootsTypeOK
  <1>3. BarrieredSlotsAreRoots'
    <2> SUFFICES ASSUME NEW t \in Slots, t \notin bypassed', ~isInStaticHeap(slot'[t])
                 PROVE  staticRoots'[t] > 0
      BY DEF BarrieredSlotsAreRoots, isInStaticHeap
    <2>1. CASE t = s
      <3>1. slot'[s] = v /\ ~isInStaticHeap(v) /\ s \notin bypassed
        BY <1>1, <2>1 DEF RootsTypeOK
      <3> QED
        BY <1>1, <2>1, <3>1, CheckRootEffect DEF BarrieredSlotsAreRoots
    <2>2. CASE t # s
      <3>1. slot'[t] = slot[t] /\ t \notin bypassed
        BY <1>1, <2>2 DEF RootsTypeOK
      <3> QED
        BY <1>1, <2>2, <3>1, CheckRootEffect DEF BarrieredSlotsAreRoots
    <2> QED
      BY <2>1, <2>2
  <1>4. NoDanglingStaticSlot'
    BY <1>1 DEF NoDanglingStaticSlot, InDynamicHeap, RootsTypeOK, Immediates, isInStaticHeap, Halves
  <1> QED
    BY <1>1, <1>2, <1>3, <1>4

\* A bulk move keeps the invariant: what it writes past the barrier is bypassed.
LEMMA BulkReplaceKeeps ==
  ASSUME RootsInv, NEW dst \in StaticObjects, NEW src \in StaticObjects,
         NEW from \in 1 .. Fields, NEW srcFrom \in 1 .. Fields,
         NEW count \in 1 .. MaxCount, BulkReplace(dst, from, src, srcFrom, count)
  PROVE  RootsInv'
  <1> USE DEF RootsInv
  <1> DEFINE moved == {dst} \X (from .. from + count - 1)
             origin(s) == <<src, s[2] - from + srcFrom>>
  <1>1. /\ from + count - 1 <= Fields
        /\ srcFrom + count - 1 <= Fields
        /\ slot' = [s \in Slots |-> IF s \in moved THEN slot[origin(s)] ELSE slot[s]]
        /\ bypassed' = (bypassed \ moved) \union
                   {s \in moved : /\ ~isInStaticHeap(slot[origin(s)])
                                  /\ origin(s) \in bypassed \/ staticRoots[s] = 0}
        /\ staticRoots' = staticRoots
        /\ activeHeap' = activeHeap
    BY DEF BulkReplace
  <1>2. \A s \in moved : origin(s) \in Slots /\ s \in Slots
    BY <1>1, StaticRootsAssumption DEF Slots
  <1> HIDE DEF moved, origin
  <1>3. RootsTypeOK'
    BY <1>1, <1>2 DEF RootsTypeOK
  <1>4. BarrieredSlotsAreRoots'
    BY <1>1, <1>2 DEF BarrieredSlotsAreRoots, RootsTypeOK, isInStaticHeap
  <1>5. NoDanglingStaticSlot'
    BY <1>1, <1>2 DEF NoDanglingStaticSlot, InDynamicHeap, RootsTypeOK, isInStaticHeap, Halves
  <1> QED
    BY <1>1, <1>3, <1>4, <1>5

\* A collection keeps the invariant: listed slots follow the objects.
LEMMA MoveStaticRootsKeeps ==
  ASSUME RootsInv, CollectGarbage
  PROVE  RootsInv'
  BY DEF RootsInv, RootsTypeOK, CollectGarbage, MoveStaticRoots, OtherHeap, moveObject, Halves,
         Values, Immediates, BarrieredSlotsAreRoots, NoDanglingStaticSlot, InDynamicHeap,
         isInStaticHeap

LEMMA RootsStepKeeps ==
  ASSUME RootsInv, RootsStep
  PROVE  RootsInv' /\ UNCHANGED activeHeap
  <1>1. ASSUME NEW s \in Slots, NEW v \in Values, Store(s, v)
        PROVE  RootsInv' /\ UNCHANGED activeHeap
    BY <1>1, StoreKeeps DEF Store
  <1>2. ASSUME NEW dst \in StaticObjects, NEW src \in StaticObjects,
               NEW from \in 1 .. Fields, NEW srcFrom \in 1 .. Fields,
               NEW count \in 1 .. MaxCount, BulkReplace(dst, from, src, srcFrom, count)
        PROVE  RootsInv' /\ UNCHANGED activeHeap
    <2>1. RootsInv'
      BY <1>2, BulkReplaceKeeps
    <2>2. QED BY <1>2, <2>1 DEF BulkReplace
  <1>3. QED BY <1>1, <1>2 DEF RootsStep

LEMMA RootsUntouched ==
  ASSUME RootsInv, UNCHANGED <<activeHeap, rootVars>>
  PROVE  RootsInv'
  BY DEF rootVars, RootsInv, RootsTypeOK, BarrieredSlotsAreRoots, NoDanglingStaticSlot,
         InDynamicHeap, isInStaticHeap

-----------------------------------------------------------------------------
(***************************************************************************)
(* The external pointers.                                                  *)
(***************************************************************************)
Distinct == \A i, j \in 1 .. Len(scope) : scope[i] = scope[j] => i = j

At(k) == IF k = 0 THEN Null ELSE scope[k]

Updated(k) == \A i \in 1 .. Len(scope) : i > k => data[scope[i]] \in {"static", activeHeap}

(***************************************************************************)
(* The walk of moveObjects(): the cursor is at some depth of the stack and *)
(* everything younger has been updated.                                    *)
(***************************************************************************)
WalkInv == collecting => \E k \in 0 .. Len(scope) : cursor = At(k) /\ Updated(k)

PointersInv ==
  activeHeap \in Halves /\ PointersTypeOK /\ ListIsScope /\ Distinct /\ NoDanglingHptr /\ WalkInv

LEMMA NoPointersInv == CollectorInit => PointersInv
  <1> SUFFICES ASSUME CollectorInit PROVE PointersInv
    OBVIOUS
  <1>1. collecting \in BOOLEAN
    BY Zenon DEF CollectorInit, NoPointers
  <1>2. PointersTypeOK
    BY <1>1 DEF CollectorInit, NoPointers, PointersTypeOK, Targets
  <1>3. ListIsScope /\ Distinct /\ NoDanglingHptr /\ WalkInv
    BY DEF CollectorInit, NoPointers, ListIsScope, Distinct, NoDanglingHptr, WalkInv, Constructed
  <1> QED
    BY <1>2, <1>3 DEF PointersInv, CollectorInit, Halves

\* Registering a fresh node pushes it on the list.
LEMMA PushKeeps ==
  ASSUME PointersInv, ~collecting, NEW p \in Hptrs, p \notin Constructed,
         NEW v \in {"static", activeHeap},
         scope' = Append(scope, p), data' = [data EXCEPT ![p] = v],
         registerExternalHeapPointer(p),
         UNCHANGED <<activeHeap, cursor, collecting, crashed>>
  PROVE  PointersInv'
  <1> USE DEF PointersInv, registerExternalHeapPointer
  <1>1. PointersTypeOK'
    BY DEF PointersTypeOK, Targets
  <1>2. /\ Len(scope') = Len(scope) + 1 /\ Len(scope) \in Nat
        /\ scope'[Len(scope) + 1] = p
        /\ \A i \in 1 .. Len(scope) : scope'[i] = scope[i] /\ scope[i] # p /\ scope[i] \in Hptrs
    BY DEF PointersTypeOK, Constructed
  <1>3. ListIsScope'
    <2>1. head' = p /\ next' = [next EXCEPT ![p] = head]
      OBVIOUS
    <2>2. scope' # <<>>
      BY <1>2 DEF PointersTypeOK
    <2>3. scope = <<>> <=> Len(scope) = 0
      BY DEF PointersTypeOK
    <2> QED
      BY <1>2, <2>1, <2>2, <2>3 DEF ListIsScope, PointersTypeOK
  <1>4. Distinct'
    BY <1>2 DEF Distinct
  <1>5. NoDanglingHptr'
    BY <1>2 DEF NoDanglingHptr, Constructed, PointersTypeOK
  <1>6. WalkInv'
    BY DEF WalkInv
  <1> QED
    BY <1>1, <1>3, <1>4, <1>5, <1>6

\* The constructors, the assignment and the destructor.
LEMMA PointersStepKeeps ==
  ASSUME PointersInv, PointersStep
  PROVE  PointersInv' /\ UNCHANGED activeHeap
  <1> USE DEF PointersInv
  <1>1. ASSUME NEW p \in Hptrs, NEW v \in Targets, Construct(p, v) PROVE PointersInv' /\ UNCHANGED activeHeap
    BY <1>1, PushKeeps DEF Construct
  <1>2. ASSUME NEW p \in Hptrs, NEW q \in Hptrs, CopyConstruct(p, q) PROVE PointersInv' /\ UNCHANGED activeHeap
    <2>1. data[q] \in {"static", activeHeap}
      BY <1>2 DEF CopyConstruct, NoDanglingHptr
    <2> QED
      BY <1>2, <2>1, PushKeeps DEF CopyConstruct
  <1>3. ASSUME NEW p \in Hptrs, NEW v \in Targets, Assign(p, v) PROVE PointersInv' /\ UNCHANGED activeHeap
    BY <1>3 DEF Assign, PointersTypeOK, ListIsScope, Distinct, NoDanglingHptr, WalkInv, Constructed
  <1>4. CASE DestroyLast
    <2> DEFINE n == Len(scope)
    <2>1. /\ n \in Nat \ {0} /\ Len(scope') = n - 1
          /\ \A i \in 1 .. n - 1 : scope'[i] = scope[i]
          /\ scope' \in Seq(Hptrs)
          /\ scope' = <<>> <=> n = 1
      <3>1. scope \in Seq(Hptrs) /\ scope # <<>> /\ scope' = SubSeq(scope, 1, n - 1)
        BY <1>4 DEF DestroyLast, PointersTypeOK
      <3>2. n \in Nat \ {0} /\ 1 \in 1 .. Len(scope) + 1 /\ n - 1 \in 0 .. Len(scope)
        BY <3>1
      <3> HIDE DEF n
      <3>2a. n = Len(scope) /\ \A i \in 1 .. n - 1 : scope[i] \in Hptrs
        BY <3>1, <3>2 DEF n
      <3>2b. /\ SubSeq(scope, 1, n - 1) \in Seq(Hptrs)
             /\ Len(SubSeq(scope, 1, n - 1)) = IF 1 <= n - 1 THEN n - 1 - 1 + 1 ELSE 0
             /\ \A i \in 1 .. n - 1 - 1 + 1 : SubSeq(scope, 1, n - 1)[i] = scope[1 + i - 1]
        BY <3>2, <3>2a, SubSeqProperties
      <3>3. scope' \in Seq(Hptrs)
        BY <3>1, <3>2b
      <3>4. Len(scope') = n - 1 /\ \A i \in 1 .. n - 1 : scope'[i] = scope[i]
        BY <3>1, <3>2, <3>2b
      <3>5. scope' = <<>> <=> Len(scope') = 0
        BY <3>3
      <3> QED
        BY <3>2, <3>3, <3>4, <3>5
    <2>2. head' = next[scope[n]] /\ UNCHANGED <<next, data, crashed, activeHeap, cursor, collecting>>
      <3>1. scope[Len(scope)] = head
        BY <1>4 DEF DestroyLast, ListIsScope
      <3> QED
        BY <1>4, <3>1 DEF DestroyLast, releaseExternalHeapPointer, ReleaseHead
    <2>3. next[scope[n]] = IF n = 1 THEN Null ELSE scope[n - 1]
      BY <2>1 DEF ListIsScope
    <2> HIDE DEF n
    <2>4. PointersTypeOK'
      BY <2>1, <2>2, <2>3 DEF PointersTypeOK, n
    <2>5. ListIsScope'
      BY <2>1, <2>2, <2>3 DEF ListIsScope, n
    <2>6. Distinct'
      BY <2>1 DEF Distinct, n
    <2>7. NoDanglingHptr'
      BY <2>1, <2>2 DEF NoDanglingHptr, Constructed, n
    <2>8. WalkInv'
      BY <1>4, <2>2 DEF DestroyLast, WalkInv
    <2> QED
      BY <2>2, <2>4, <2>5, <2>6, <2>7, <2>8
  <1>5. QED BY <1>1, <1>2, <1>3, <1>4 DEF PointersStep

\* The walk begins at the youngest, with nothing updated.
LEMMA StartWalkKeeps ==
  ASSUME PointersInv, CollectGarbage
  PROVE  PointersInv'
  <1> USE DEF PointersInv
  <1>1. /\ collecting' = TRUE /\ cursor' = head /\ UNCHANGED <<scope, head, next, data, crashed>>
        /\ activeHeap' \in Halves
    BY DEF CollectGarbage, StartWalk, OtherHeap, Halves
  <1>2. PointersTypeOK'
    BY <1>1 DEF PointersTypeOK
  <1>3. WalkInv'
    <2>1. Len(scope) \in Nat /\ (scope = <<>> <=> Len(scope) = 0)
      BY DEF PointersTypeOK
    <2>2. cursor' = At(Len(scope))'
      BY <1>1, <2>1 DEF ListIsScope, At
    <2>3. Updated(Len(scope))'
      BY <1>1, <2>1 DEF Updated
    <2> QED
      BY <1>1, <2>1, <2>2, <2>3 DEF WalkInv
  <1> QED
    BY <1>1, <1>2, <1>3 DEF ListIsScope, Distinct, NoDanglingHptr

\* A step of the walk updates one and goes on to the next older.
LEMMA MoveTargetKeeps ==
  ASSUME PointersInv, MoveTarget
  PROVE  PointersInv'
  <1> USE DEF PointersInv
  <1>1. PICK k \in 0 .. Len(scope) : cursor = At(k) /\ Updated(k)
    BY DEF MoveTarget, WalkInv
  <1>2. k \in 1 .. Len(scope) /\ cursor = scope[k] /\ cursor \in Hptrs /\ Len(scope) \in Nat
    BY <1>1 DEF MoveTarget, At, PointersTypeOK
  <1>3. /\ data' = [data EXCEPT ![cursor] = moveObject(data[cursor], activeHeap)] /\ cursor' = next[cursor]
        /\ UNCHANGED <<scope, head, next, activeHeap, collecting, crashed>>
    BY DEF MoveTarget
  <1>4. moveObject(data[cursor], activeHeap) \in {"static", activeHeap}
    BY <1>2 DEF moveObject, OtherHeap, PointersTypeOK, Targets, Halves
  <1>5. PointersTypeOK'
    BY <1>2, <1>3, <1>4 DEF PointersTypeOK, Targets
  <1>6. cursor' = At(k - 1)'
    BY <1>2, <1>3 DEF ListIsScope, At
  <1>7. Updated(k - 1)'
    BY <1>1, <1>2, <1>3, <1>4 DEF Updated, PointersTypeOK
  <1>8. WalkInv'
    <2>1. k - 1 \in 0 .. Len(scope')
      BY <1>2, <1>3
    <2> QED
      BY <2>1, <1>6, <1>7 DEF WalkInv
  <1> QED
    BY <1>3, <1>5, <1>8 DEF MoveTarget, ListIsScope, Distinct, NoDanglingHptr

\* The walk ends behind the oldest.
LEMMA CollectionDoneKeeps ==
  ASSUME PointersInv, CollectionDone
  PROVE  PointersInv'
  <1> USE DEF PointersInv
  <1>1. PICK k \in 0 .. Len(scope) : cursor = At(k) /\ Updated(k)
    BY DEF CollectionDone, WalkInv
  <1>2. k = 0
    BY <1>1, ExternalPointersAssumption DEF CollectionDone, At, PointersTypeOK
  <1>3. /\ collecting' = FALSE /\ UNCHANGED <<scope, head, next, data, activeHeap, cursor, crashed>>
    BY DEF CollectionDone
  <1>4. collecting' \in BOOLEAN
    BY <1>3, Zenon
  <1>5. PointersTypeOK'
    BY <1>3, <1>4 DEF PointersTypeOK
  <1>6. NoDanglingHptr'
    BY <1>1, <1>2, <1>3 DEF NoDanglingHptr, Updated, Constructed
  <1> QED
    BY <1>3, <1>5, <1>6 DEF ListIsScope, Distinct, WalkInv

LEMMA PointersUntouched ==
  ASSUME PointersInv, UNCHANGED <<activeHeap, pointerVars>>
  PROVE  PointersInv'
  BY DEF pointerVars, PointersInv, PointersTypeOK, ListIsScope, Distinct, NoDanglingHptr, WalkInv,
         Constructed, At, Updated

-----------------------------------------------------------------------------
(***************************************************************************)
(* Both together: a collection is the one step that changes both, and      *)
(* while it walks the list nothing else runs.                              *)
(***************************************************************************)
CollectorInv == RootsInv /\ PointersInv

LEMMA CollectorStep == CollectorInv /\ [CollectorNext]_collectorVars => CollectorInv'
  <1> SUFFICES ASSUME CollectorInv, [CollectorNext]_collectorVars PROVE CollectorInv'
    OBVIOUS
  <1>1. CASE Running /\ RootsStep /\ UNCHANGED pointerVars
    BY <1>1, RootsStepKeeps, PointersUntouched DEF CollectorInv
  <1>2. CASE PointersStep /\ UNCHANGED rootVars
    BY <1>2, PointersStepKeeps, RootsUntouched DEF CollectorInv
  <1>3. CASE CollectGarbage
    BY <1>3, MoveStaticRootsKeeps, StartWalkKeeps DEF CollectorInv
  <1>4. CASE MoveTarget /\ UNCHANGED rootVars
    <2>1. UNCHANGED activeHeap
      BY <1>4 DEF MoveTarget
    <2>2. QED BY <1>4, <2>1, MoveTargetKeeps, RootsUntouched DEF CollectorInv
  <1>5. CASE CollectionDone /\ UNCHANGED rootVars
    <2>1. UNCHANGED activeHeap
      BY <1>5 DEF CollectionDone
    <2>2. QED BY <1>5, <2>1, CollectionDoneKeeps, RootsUntouched DEF CollectorInv
  <1>6. CASE UNCHANGED collectorVars
    BY <1>6, RootsUntouched, PointersUntouched DEF collectorVars, CollectorInv
  <1>7. QED BY <1>1, <1>2, <1>3, <1>4, <1>5, <1>6 DEF CollectorNext

LEMMA CollectorInvHolds == CollectorSpec => []CollectorInv
  <1>1. CollectorInit => CollectorInv
    BY LoadedInv, NoPointersInv DEF CollectorInv
  <1>2. QED BY <1>1, CollectorStep, PTL DEF CollectorSpec

(***************************************************************************)
(* Type correctness of both lists: removing a slot that is not listed      *)
(* never drives its count below zero (removeStaticRoot()), and releasing a *)
(* pointer never dereferences null (releaseExternalHeapPointer()).         *)
(***************************************************************************)
THEOREM BakerRootsTypeOK == CollectorSpec => []CollectorTypeOK
<1>1. CollectorInv => CollectorTypeOK
  BY DEF CollectorInv, RootsInv, PointersInv, CollectorTypeOK
<1>2. QED BY <1>1, CollectorInvHolds, PTL

(***************************************************************************)
(* Every slot kept by checkRoot() and holding a non-static word is a root. *)
(***************************************************************************)
THEOREM BarrierCompleteness == CollectorSpec => []BarrieredSlotsAreRoots
<1>1. CollectorInv => BarrieredSlotsAreRoots
  BY DEF CollectorInv, RootsInv
<1>2. QED BY <1>1, CollectorInvHolds, PTL

(***************************************************************************)
(* No slot kept by checkRoot() points into the semispace that              *)
(* moveObjects() emptied.                                                  *)
(***************************************************************************)
THEOREM BarrierSafety == CollectorSpec => []NoDanglingStaticSlot
<1>1. CollectorInv => NoDanglingStaticSlot
  BY DEF CollectorInv, RootsInv
<1>2. QED BY <1>1, CollectorInvHolds, PTL

(***************************************************************************)
(* The list of registerExternalHeapPointer() and                           *)
(* releaseExternalHeapPointer() is the stack of constructed hptr<>s.       *)
(***************************************************************************)
THEOREM ListMirrorsScope == CollectorSpec => []ListIsScope
<1>1. CollectorInv => ListIsScope
  BY DEF CollectorInv, PointersInv
<1>2. QED BY <1>1, CollectorInvHolds, PTL

(***************************************************************************)
(* No hptr<> dangles after the walk of moveObjects().                      *)
(***************************************************************************)
THEOREM HptrSafety == CollectorSpec => []NoDanglingHptr
<1>1. CollectorInv => NoDanglingHptr
  BY DEF CollectorInv, PointersInv
<1>2. QED BY <1>1, CollectorInvHolds, PTL
=============================================================================
